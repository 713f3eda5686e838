---------------------------- MODULE ProtocolsProofs ----------------------------
(***************************************************************************)
(* Proofs about Protocols: the helpers keep what Lvl4Stream promises, stay *)
(* in step with the packets of any peer that frames them as they expect,   *)
(* and give the user all that a peer that does as it should means to say.  *)
(***************************************************************************)
EXTENDS Protocols, Lvl4StreamProofs

\* What was received is the beginning of what the peer says.
ReceivedInv ==
    /\ script \in Scripts /\ Len(received) <= Len(script.stream)
    /\ \A j \in 1 .. Len(received) : received[j] = script.stream[j]

\* The data path keeps its promises until the process crashes.
PathInv ==
    /\ ReceivedInv
    /\ pc # "crashed" => StreamInv /\ pc # "failed"

---------------------------------------------------------------------------
(* Scripts.                                                               *)

LEMMA ByteFacts ==
    /\ Bytes \subseteq Nat /\ Bytes \subseteq Sizes /\ Sizes \subseteq Nat
    /\ Word \in Nat /\ Word > 58 /\ MaxStream \in Nat
    /\ 0 .. Word + 2 \subseteq Bytes
  BY ScriptsAssumption, StreamAssumption

LEMMA ScriptFacts ==
    ASSUME NEW s \in Scripts
    PROVE  /\ s.stream \in Seq(Bytes) /\ Len(s.stream) \in Nat
           /\ Len(s.stream) <= MaxStream
           /\ Len(s.ends) \in Nat /\ DOMAIN s.ends = 1 .. Len(s.ends)
           /\ \A i \in 1 .. Len(s.ends) :
                 s.ends[i] \in Nat \ {0} /\ s.ends[i] <= Len(s.stream)
PROOF
  <1>1. /\ s.stream \in Seq(Bytes) /\ Len(s.stream) <= MaxStream
        /\ s.ends \in Seq(Nat \ {0})
        /\ \A i \in DOMAIN s.ends : s.ends[i] <= Len(s.stream)
    BY ScriptsAssumption
  <1>2. Len(s.stream) \in Nat /\ Len(s.ends) \in Nat
        /\ DOMAIN s.ends = 1 .. Len(s.ends)
    BY <1>1, LenProperties
  <1>3. \A i \in 1 .. Len(s.ends) : s.ends[i] \in Nat \ {0}
    BY <1>1, ElementOfSeq
  <1> QED
    BY <1>1, <1>2, <1>3

\* The bytes of a sequence after the first a, up to the b-th.
LEMMA PartOf ==
    ASSUME NEW s \in Seq(Bytes), NEW b \in 0 .. Len(s), NEW a \in 0 .. b
    PROVE  /\ SubSeq(s, a + 1, b) \in Seq(Bytes) /\ Len(SubSeq(s, a + 1, b)) = b - a
           /\ \A k \in 1 .. b - a : SubSeq(s, a + 1, b)[k] = s[a + k]
PROOF
  <1>1. Len(s) \in Nat /\ a \in Nat /\ b \in Nat /\ a <= b /\ b <= Len(s)
    BY LenProperties
  <1>2. \A k \in a + 1 .. b : s[k] \in Bytes
    BY <1>1, ElementOfSeq
  <1>3. /\ SubSeq(s, a + 1, b) \in Seq(Bytes)
        /\ Len(SubSeq(s, a + 1, b)) = IF a + 1 <= b THEN b - (a + 1) + 1 ELSE 0
        /\ \A k \in 1 .. b - (a + 1) + 1 : SubSeq(s, a + 1, b)[k] = s[(a + 1) + k - 1]
    BY <1>1, <1>2, SubSeqProperties
  <1>4. Len(SubSeq(s, a + 1, b)) = b - a
    BY <1>1, <1>3
  <1>5. \A k \in 1 .. b - a : SubSeq(s, a + 1, b)[k] = s[a + k]
    BY <1>1, <1>3
  <1> QED
    BY <1>3, <1>4, <1>5

\* Packets follow each other and none is empty.
LEMMA PacketFacts ==
    ASSUME NEW s \in Scripts, NEW i \in 1 .. Len(s.ends)
    PROVE  /\ Start(s, i) \in Nat /\ s.ends[i] \in Nat /\ Start(s, i) < s.ends[i]
           /\ s.ends[i] <= Len(s.stream)
           /\ Start(s, i + 1) = s.ends[i] /\ i + 1 \in 1 .. Len(s.ends) + 1
           /\ Packet(s, i) \in Seq(Bytes)
           /\ Len(Packet(s, i)) = s.ends[i] - Start(s, i)
           /\ \A j \in 1 .. s.ends[i] - Start(s, i) :
                 Packet(s, i)[j] = s.stream[Start(s, i) + j]
PROOF
  <1>1. /\ s.stream \in Seq(Bytes) /\ Len(s.stream) \in Nat
        /\ Len(s.ends) \in Nat /\ DOMAIN s.ends = 1 .. Len(s.ends)
        /\ \A k \in 1 .. Len(s.ends) :
              s.ends[k] \in Nat \ {0} /\ s.ends[k] <= Len(s.stream)
    BY ScriptFacts
  <1>2. \A k, m \in 1 .. Len(s.ends) : k < m => s.ends[k] < s.ends[m]
    BY <1>1, ScriptsAssumption
  <1>3. Start(s, i) \in Nat /\ Start(s, i) < s.ends[i]
    <2>1. CASE i = 1
      BY <1>1, <2>1 DEF Start
    <2>2. CASE i # 1
      <3>1. i - 1 \in 1 .. Len(s.ends) /\ i - 1 < i
        BY <1>1, <2>2
      <3> QED
        BY <1>1, <1>2, <2>2, <3>1 DEF Start
    <2> QED
      BY <2>1, <2>2
  <1>4. Start(s, i + 1) = s.ends[i] /\ i + 1 \in 1 .. Len(s.ends) + 1
    <2>1. i \in Nat /\ i + 1 # 1 /\ (i + 1) - 1 = i
      BY <1>1
    <2> QED
      BY <1>1, <2>1 DEF Start
  <1> DEFINE a == Start(s, i)
             b == s.ends[i]
  <1>5. a \in Nat /\ b \in Nat /\ a < b /\ b <= Len(s.stream)
    BY <1>1, <1>3
  <1> HIDE DEF a, b
  <1>6. a \in 0 .. b /\ b \in 0 .. Len(s.stream)
    BY <1>1, <1>5
  <1>7. /\ SubSeq(s.stream, a + 1, b) \in Seq(Bytes)
        /\ Len(SubSeq(s.stream, a + 1, b)) = b - a
        /\ \A k \in 1 .. b - a : SubSeq(s.stream, a + 1, b)[k] = s.stream[a + k]
    BY <1>1, <1>6, PartOf
  <1> QED
    BY <1>1, <1>3, <1>4, <1>7 DEF Packet, a, b

\* There is a packet at every start that is not the end of the stream.
LEMMA StartFacts ==
    ASSUME NEW s \in Scripts, NEW i \in 1 .. Len(s.ends) + 1
    PROVE  /\ Start(s, i) \in Nat
           /\ Start(s, i) < Len(s.stream) => i \in 1 .. Len(s.ends)
PROOF
  <1>1. /\ Len(s.stream) \in Nat /\ s.stream \in Seq(Bytes)
        /\ Len(s.ends) \in Nat /\ DOMAIN s.ends = 1 .. Len(s.ends)
        /\ \A k \in 1 .. Len(s.ends) :
              s.ends[k] \in Nat \ {0} /\ s.ends[k] <= Len(s.stream)
    BY ScriptFacts
  <1>2. CASE i \in 1 .. Len(s.ends)
    BY <1>2, PacketFacts
  <1>3. CASE i = Len(s.ends) + 1
    <2>1. Start(s, i) \in Nat
      <3>1. CASE i = 1
        BY <3>1 DEF Start
      <3>2. CASE i # 1
        <4>1. i - 1 \in 1 .. Len(s.ends)
          BY <1>1, <3>2
        <4> QED
          BY <1>1, <3>2, <4>1 DEF Start
      <3> QED
        BY <3>1, <3>2
    <2>2. ASSUME Start(s, i) < Len(s.stream)
          PROVE  FALSE
      <3>1. s.stream # <<>>
        BY <1>1, <2>1, <2>2, EmptySeq
      <3>2. PICK k \in 1 .. Len(s.ends) : s.ends[k] = Len(s.stream)
        BY <1>1, <3>1, ScriptsAssumption
      <3>3. i # 1 /\ i - 1 = Len(s.ends) /\ Len(s.ends) \in 1 .. Len(s.ends)
        BY <1>1, <1>3
      <3>4. Start(s, i) = s.ends[Len(s.ends)]
        BY <3>3 DEF Start
      <3>5. CASE k = Len(s.ends)
        BY <1>1, <2>2, <3>2, <3>4, <3>5
      <3>6. CASE k # Len(s.ends)
        <4>1. k < Len(s.ends)
          BY <1>1, <3>6
        <4>2. s.ends[k] < s.ends[Len(s.ends)]
          BY <1>1, <3>3, <4>1, ScriptsAssumption
        <4> QED
          BY <1>1, <2>2, <3>2, <3>3, <3>4, <4>2
      <3> QED
        BY <3>5, <3>6
    <2> QED
      BY <2>1, <2>2
  <1> QED
    BY <1>1, <1>2, <1>3

---------------------------------------------------------------------------
(* The data path under the helpers.                                       *)

\* What a read of n bytes returns.
LEMMA ChunkOfStream ==
    ASSUME ReceivedInv, TypeOK, NEW n \in 1 .. (Len(script.stream) - Len(received)),
           NEW c, c = SubSeq(script.stream, Len(received) + 1, Len(received) + n)
    PROVE  /\ c \in Chunks /\ c \in Seq(Bytes) /\ Len(c) = n
           /\ Len(received) + n <= Len(script.stream)
           /\ \A j \in 1 .. n : c[j] = script.stream[Len(received) + j]
PROOF
  <1>1. /\ script.stream \in Seq(Bytes) /\ Len(script.stream) \in Nat
        /\ Len(script.stream) <= MaxStream /\ MaxStream \in Nat
    BY ScriptFacts, ByteFacts DEF ReceivedInv
  <1>2. Len(received) \in Nat
    BY LenProperties DEF TypeOK
  <1>3. PICK r \in Nat, q \in Nat : r = Len(received) /\ q = Len(received) + n
    BY <1>1, <1>2
  <1>4. /\ n \in Nat /\ 1 <= n /\ q \in 0 .. Len(script.stream) /\ r \in 0 .. q
        /\ q - r = n /\ c = SubSeq(script.stream, r + 1, q)
    BY <1>1, <1>2, <1>3
  <1>5. /\ c \in Seq(Bytes) /\ Len(c) = q - r
        /\ \A k \in 1 .. q - r : c[k] = script.stream[r + k]
    <2>1. PICK s \in Seq(Bytes) : s = script.stream
      BY <1>1
    <2>2. q \in 0 .. Len(s) /\ r \in 0 .. q /\ c = SubSeq(s, r + 1, q)
      BY <1>4, <2>1
    <2>3. /\ c \in Seq(Bytes) /\ Len(c) = q - r
          /\ \A k \in 1 .. q - r : c[k] = s[r + k]
      BY ONLY <2>2, PartOf, s \in Seq(Bytes), Zenon
    <2> QED
      BY <2>1, <2>3
  <1>6. Len(c) = n
    BY <1>4, <1>5
  <1>7. \A k \in 1 .. n : c[k] = script.stream[r + k]
    BY <1>4, <1>5
  <1>8. c \in [1 .. n -> Bytes]
    <2>1. DOMAIN c = 1 .. n
      BY <1>5, <1>6, LenProperties
    <2>2. \A k \in 1 .. n : c[k] \in Bytes
      BY <1>5, <1>6, ElementOfSeq
    <2>3. c = [k \in 1 .. n |-> c[k]]
      BY <1>5, <2>1, LenProperties
    <2> QED
      BY <2>2, <2>3
  <1>9. n \in 1 .. (MaxStream - r) /\ r + n <= Len(script.stream)
    BY <1>1, <1>3, <1>4
  <1>10. c \in Chunks
    BY <1>3, <1>8, <1>9 DEF Chunks
  <1> QED
    BY <1>3, <1>5, <1>6, <1>7, <1>9, <1>10

\* A crash leaves everything else as it was.
Crash ==
    /\ pc' = "crashed"
    /\ UNCHANGED <<buf, mem, trigger, reprocess, prev_pos, conn, hist, proto>>

\* Every turn of a helper is a turn of the loop that runs the trigger.
LEMMA TurnIsLoop ==
    ASSUME Turn
    PROVE  (Loop \/ Crash) /\ UNCHANGED <<script, verdicts, received>>
PROOF
  <1> USE DEF Loop
  <1>0. /\ CanProcessAgain => UNCHANGED received
        /\ ConnectionEnd => UNCHANGED received
        /\ NoMoreToProcess => UNCHANGED received
    BY DEF CanProcessAgain, ConnectionEnd, NoMoreToProcess, hist
  <1>1. CASE NoMoreToProcess /\ UNCHANGED proto
    BY <1>0, <1>1 DEF proto
  <1>2. failure => (CanProcessAgain \/ ConnectionEnd) /\ UNCHANGED <<script, verdicts>>
    BY DEF failure, ends
  <1>3. \A S : refuses(S) => ConnectionEnd /\ UNCHANGED <<script, verdicts>>
    BY DEF refuses, ends
  <1>4. \A t, s : goes_on(t, s) => CanProcessAgain
    BY DEF goes_on
  <1>5. \A S : accepts(S) => UNCHANGED <<script, verdicts>>
    BY DEF accepts
  <1>6. CASE SSHStep
    BY <1>0, <1>2, <1>3, <1>4, <1>5, <1>6
       DEF SSHStep, ssh_invalid, ssh_version, ssh_kex, SSHAnswer, SSHAnswer_short,
           ssh_reply_invalid, ssh_certificate, ends
  <1>7. CASE SSLStep
    <2>1. \A s, next : on_tls_header(s, next) =>
             (CanProcessAgain \/ ConnectionEnd) /\ UNCHANGED <<script, verdicts>>
      BY <1>2, <1>4 DEF on_tls_header
    <2>2. on_handshake1_wild =>
             (CanProcessAgain \/ ConnectionEnd \/ Crash) /\ UNCHANGED <<script, verdicts>>
      BY <1>3, <1>4, <1>5 DEF on_handshake1_wild, Crash, proto
    <2>3. on_handshake1 =>
             (CanProcessAgain \/ ConnectionEnd) /\ UNCHANGED <<script, verdicts>>
      BY <1>3, <1>4, <1>5 DEF on_handshake1
    <2>4. on_handshake2 =>
             (CanProcessAgain \/ ConnectionEnd) /\ UNCHANGED <<script, verdicts>>
      BY <1>3, <1>5 DEF on_handshake2, ends
    <2>5. Crash => UNCHANGED received
      BY DEF Crash, hist
    <2> QED
      BY <1>0, <1>2, <1>7, <2>1, <2>2, <2>3, <2>4, <2>5 DEF SSLStep, handshake_invalid
  <1>8. CASE SIPStep
    <2>1. sip_header =>
             (CanProcessAgain \/ ConnectionEnd) /\ UNCHANGED <<script, verdicts>>
      BY <1>3, <1>5 DEF sip_header
    <2> QED
      BY <1>0, <1>2, <1>8, <2>1 DEF SIPStep, sip_invalid, sip_status, sip_end, ends
  <1> QED
    BY <1>1, <1>6, <1>7, <1>8 DEF Turn

LEMMA PathInit == ProtoInit => PathInv
PROOF
  <1> SUFFICES ASSUME ProtoInit
               PROVE  PathInv
    OBVIOUS
  <1>1. StreamInv
    BY StreamInit DEF ProtoInit
  <1>2. pc = "idle" /\ received = <<>> /\ script \in Scripts
    BY DEF ProtoInit, Init
  <1>3. Len(received) = 0
    BY <1>2, EmptySeq
  <1>4. ReceivedInv
    BY <1>2, <1>3, ScriptFacts DEF ReceivedInv
  <1> QED
    BY <1>1, <1>2, <1>4 DEF PathInv

LEMMA PathStep ==
    ASSUME PathInv, [ProtoNext]_protoVars
    PROVE  PathInv' /\ UNCHANGED <<script, verdicts>>
PROOF
  <1> USE DEF PathInv
  <1>1. ASSUME UNCHANGED <<script, verdicts, received>>,
               [Next]_vars, pc' # "failed", pc' # "crashed", pc # "crashed"
        PROVE  PathInv' /\ UNCHANGED <<script, verdicts>>
    <2>1. StreamInv'
      BY <1>1, StreamStep
    <2>2. ReceivedInv'
      BY <1>1 DEF ReceivedInv
    <2> QED
      BY <1>1, <2>1, <2>2
  <1>2. CASE UNCHANGED protoVars
    <2>1. UNCHANGED <<script, verdicts, received, pc>> /\ [Next]_vars /\ UNCHANGED vars
      BY <1>2 DEF protoVars, vars, proto, hist
    <2>2. CASE pc = "crashed"
      BY <2>1, <2>2 DEF ReceivedInv
    <2> QED
      BY <1>1, <2>1, <2>2
  <1>3. CASE ProtoRest
    BY <1>2, <1>3 DEF ProtoRest
  <1>4. CASE SSH \/ SSL \/ SIP
    <2>1. /\ on_connect /\ pc' = "idle" /\ UNCHANGED <<script, verdicts>>
      BY <1>4 DEF SSH, SSL, SIP, connect
    <2>2. pc = "idle" /\ UNCHANGED received
      BY <2>1 DEF on_connect, hist
    <2> QED
      BY <1>1, <2>1, <2>2 DEF Next
  <1>5. CASE process_buffer /\ UNCHANGED proto
    <2>1. pc = "idle" /\ pc' = "dirty" /\ UNCHANGED <<script, verdicts, received>>
      BY <1>5 DEF process_buffer, hist, proto
    <2> QED
      BY <1>1, <1>5, <2>1 DEF Next
  <1>6. CASE Turn
    <2>1. (Loop \/ Crash) /\ UNCHANGED <<script, verdicts, received>>
      BY <1>6, TurnIsLoop
    <2>2. CASE Loop
      <3>1. pc # "crashed" /\ pc' # "failed" /\ pc' # "crashed"
        BY <2>2 DEF Loop, NoMoreToProcess, CanProcessAgain, ConnectionEnd
      <3> QED
        BY <1>1, <2>1, <2>2, <3>1 DEF Next
    <2>3. CASE Crash
      BY <2>1, <2>3 DEF Crash, ReceivedInv
    <2> QED
      BY <2>1, <2>2, <2>3
  <1>7. ASSUME NEW n \in 1 .. (Len(script.stream) - Len(received)), data(n)
        PROVE  PathInv' /\ UNCHANGED <<script, verdicts>>
    <2> DEFINE c == SubSeq(script.stream, Len(received) + 1, Len(received) + n)
    <2>1. process_lvl4_data(c) /\ UNCHANGED proto
      BY <1>7 DEF data
    <2>2. /\ pc = "idle" /\ pc' = "data" /\ received' = received \o c
          /\ UNCHANGED <<script, verdicts>>
      BY <2>1 DEF process_lvl4_data, proto
    <2>3. TypeOK
      BY <2>2 DEF StreamInv
    <2>4. /\ c \in Chunks /\ c \in Seq(Bytes) /\ Len(c) = n
          /\ Len(received) + n <= Len(script.stream)
          /\ \A j \in 1 .. n : c[j] = script.stream[Len(received) + j]
      BY <2>3, ChunkOfStream
    <2> HIDE DEF c
    <2>5. StreamInv'
      BY <2>1, <2>2, <2>4, StreamData
    <2>6. received \in Seq(Bytes) /\ Len(received) \in Nat /\ n \in Nat
      BY <2>3, <2>4, LenProperties DEF TypeOK
    <2>7. /\ Len(received') = Len(received) + n
          /\ \A j \in 1 .. Len(received) + n :
                received'[j] = IF j <= Len(received) THEN received[j]
                                                      ELSE c[j - Len(received)]
      BY <2>2, <2>4, <2>6, ConcatProperties
    <2>8. ASSUME NEW j \in 1 .. Len(received) + n
          PROVE  received'[j] = script.stream[j]
      <3>1. CASE j <= Len(received)
        BY <2>6, <2>7, <3>1 DEF ReceivedInv
      <3>2. CASE j > Len(received)
        <4>1. j - Len(received) \in 1 .. n /\ Len(received) + (j - Len(received)) = j
          BY <2>6, <3>2
        <4> QED
          BY <2>4, <2>6, <2>7, <3>2, <4>1
      <3> QED
        BY <2>6, <3>1, <3>2
    <2>9. ReceivedInv'
      BY <2>2, <2>4, <2>7, <2>8 DEF ReceivedInv
    <2> QED
      BY <2>2, <2>5, <2>9
  <1> QED
    BY <1>2, <1>3, <1>4, <1>5, <1>6, <1>7 DEF ProtoNext

---------------------------------------------------------------------------
(* Where the helpers are in the packets.                                  *)

HeaderStages == {"kex_header", "reply_header", "tls1", "tls2"}
BodyStages == {"kex", "reply", "hs1", "hs2"}
SSHStages == {"version", "kex_header", "kex", "reply_header", "reply"}
SSLStages == {"tls1", "hs1", "tls2", "hs2"}

\* The packet whose header or body a stage waits for.
Number(s) == IF s \in {"tls1", "hs1"} THEN 1
             ELSE IF s \in {"reply_header", "reply"} THEN 3 ELSE 2

\* Places inside one packet, as Framed allows them.
Inside(s, g) ==
    \E i \in DOMAIN s.ends :
        g.from > Start(s, i) /\ g.from + g.len - 1 <= s.ends[i] + 3
Good(s) == {g \in [from : Nat, len : Int] : g.from > 0 => Inside(s, g)}

\* The stages of each protocol, and the ones before anything was handed over.
StageInv ==
    /\ ~connected => stage = "none"
    /\ stage = "none" => trigger = NoTrigger /\ Len(consumed) = 0
    /\ stage \in SSHStages => script.proto = "ssh"
    /\ stage \in SSLStages => script.proto = "ssl"
    /\ stage = "line" => script.proto = "sip"
    /\ stage \in {"none", "version", "kex_header", "kex", "reply_header"} =>
          given = <<>>

GivenInv == given \in Seq(Good(script))

\* A line is waited for where a packet starts.
LineInv ==
    /\ stage \in {"version", "line"} =>
          /\ trigger = Char(NL)
          /\ \E i \in 1 .. Len(script.ends) + 1 : Len(consumed) = Start(script, i)
    /\ stage = "version" => Len(consumed) = 0

AtHeader(i) ==
    /\ i \in 1 .. Len(script.ends) + 1 /\ Len(consumed) = Start(script, i)
    /\ trigger = Size(5)

AtBody(i) ==
    /\ i \in 1 .. Len(script.ends) /\ Len(consumed) = Start(script, i) + 5
    /\ trigger = Size(script.ends[i] - Len(consumed))

HeaderInv == stage \in HeaderStages => AtHeader(Number(stage))
BodyInv == stage \in BodyStages /\ ~KeyAccepted => AtBody(Number(stage))

\* After the key, the trigger for it is run on what follows the reply.
KeyInv ==
    KeyAccepted =>
        pc = "end" \/ (3 <= Len(script.ends) /\ Len(consumed) = script.ends[3])

\* The inductive invariant, for peers that frame their packets.
FrameInv ==
    Framable =>
        /\ StageInv /\ GivenInv /\ LineInv /\ HeaderInv /\ BodyInv /\ KeyInv

---------------------------------------------------------------------------
(* What a trigger's callback is given.                                    *)

\* The buffer holds what the peer said, from where the helper is.
LEMMA BufferIs ==
    ASSUME PathInv, pc \notin {"crashed", "end"}
    PROVE  /\ Len(consumed) \in Nat /\ Len(buf) \in Nat
           /\ Len(consumed) + Len(buf) <= Len(script.stream)
           /\ \A j \in 1 .. Len(buf) : buf[j] = script.stream[Len(consumed) + j]
PROOF
  <1>1. /\ StreamInv /\ pc # "failed" /\ ReceivedInv
        /\ buf \in Seq(Bytes) /\ consumed \in Seq(Bytes)
    BY DEF PathInv, StreamInv, TypeOK
  <1>2. Len(consumed) \in Nat /\ Len(buf) \in Nat
    BY <1>1, LenProperties
  <1>3. received = consumed \o buf
    BY <1>1, ReceivedIs
  <1>4. /\ Len(received) = Len(consumed) + Len(buf)
        /\ \A j \in 1 .. Len(consumed) + Len(buf) :
              received[j] = IF j <= Len(consumed) THEN consumed[j]
                                                  ELSE buf[j - Len(consumed)]
    BY <1>1, <1>3, ConcatProperties
  <1>5. ASSUME NEW j \in 1 .. Len(buf)
        PROVE  buf[j] = script.stream[Len(consumed) + j]
    <2>1. PICK k \in Nat : k = Len(consumed) + j
      BY <1>2
    <2>2. /\ k \in 1 .. Len(consumed) + Len(buf) /\ ~(k <= Len(consumed))
          /\ k - Len(consumed) = j
      BY <1>2, <2>1
    <2>3. received[k] = buf[j]
      BY <1>4, <2>2
    <2>4. received[k] = script.stream[k]
      BY <1>1, <1>4, <2>2 DEF ReceivedInv
    <2> QED
      BY <2>1, <2>3, <2>4
  <1> QED
    BY <1>1, <1>2, <1>4, <1>5 DEF ReceivedInv

\* A trigger cuts a buffer in one place only: what the callback is given, and
\* what is popped after it.
LEMMA CutData ==
    ASSUME PathInv, pc \in {"data", "dirty"}, Cuts(trigger, buf, prev_pos) # {}
    PROVE  \E n \in Cuts(trigger, buf, prev_pos) :
              /\ n \in 0 .. Len(buf) /\ Data = Segment(trigger, buf, n)
              /\ CanProcessAgain => Len(consumed') = Len(consumed) + n
PROOF
  <1>1. /\ trigger \in DataTriggers /\ buf \in Seq(Bytes) /\ prev_pos \in Nat
        /\ consumed \in Seq(Bytes)
    BY LenProperties DEF PathInv, StreamInv, TypeOK
  <1>2. \A n \in Cuts(trigger, buf, prev_pos) : n \in 0 .. Len(buf)
    BY <1>1, CutsRange
  <1>3. Len(buf) \in Nat /\ Len(consumed) \in Nat
    BY <1>1, LenProperties
  <1>4. ASSUME NEW n \in Cuts(trigger, buf, prev_pos),
               NEW m \in Cuts(trigger, buf, prev_pos)
        PROVE  n = m
    <2>1. n \in Nat /\ m \in Nat
      BY <1>2, <1>3
    <2>2. CASE trigger.kind = "char"
      BY <1>1, <2>1, <2>2, CutsOf
    <2>3. CASE trigger.kind = "size"
      BY <1>1, <2>3, CutsOf
    <2> QED
      BY <1>1, <2>2, <2>3, CutsOf
  <1>5. PICK n \in Cuts(trigger, buf, prev_pos) :
           n = CHOOSE m \in Cuts(trigger, buf, prev_pos) : TRUE
    OBVIOUS
  <1>6. ASSUME CanProcessAgain
        PROVE  Len(consumed') = Len(consumed) + n
    <2>1. consumed' = consumed \o SubSeq(buf, 1, n)
      BY <1>4, <1>6 DEF CanProcessAgain
    <2>2. SubSeq(buf, 1, n) \in Seq(Bytes) /\ Len(SubSeq(buf, 1, n)) = n
      BY <1>1, <1>2, PopMoves
    <2> QED
      BY <1>1, <2>1, <2>2, ConcatProperties
  <1> QED
    BY <1>2, <1>5, <1>6 DEF Data

\* What it is given is the next bytes the peer said.
LEMMA DataIs ==
    ASSUME PathInv, pc \in {"data", "dirty"}, Cuts(trigger, buf, prev_pos) # {}
    PROVE  /\ Len(Data) \in Nat /\ Len(consumed) \in Nat
           /\ Len(consumed) + Len(Data) <= Len(script.stream)
           /\ \A k \in 1 .. Len(Data) : Data[k] = script.stream[Len(consumed) + k]
PROOF
  <1>1. /\ trigger \in DataTriggers /\ buf \in Seq(Bytes) /\ prev_pos \in Nat
        /\ script \in Scripts /\ Len(buf) \in Nat /\ Len(script.stream) \in Nat
    BY LenProperties, ScriptFacts DEF PathInv, StreamInv, TypeOK, ReceivedInv
  <1>2. PICK n \in Cuts(trigger, buf, prev_pos) :
           n \in 0 .. Len(buf) /\ Data = Segment(trigger, buf, n)
    BY CutData
  <1>3. trigger.kind = "char" => n \in 1 .. Len(buf)
    BY <1>1, <1>2, CutsRange
  <1>4. PICK m \in 0 .. Len(buf) : Data = SubSeq(buf, 1, m)
    BY <1>1, <1>2, <1>3 DEF Segment
  <1>5. /\ Len(SubSeq(buf, 1, m)) = m
        /\ \A i \in 1 .. m : SubSeq(buf, 1, m)[i] = buf[i]
    BY <1>1, PopMoves
  <1>6. m \in Nat /\ m <= Len(buf) /\ 1 .. m \subseteq 1 .. Len(buf)
    BY <1>1
  <1> QED
    BY <1>1, <1>4, <1>5, <1>6, BufferIs

\* A SizeDataTrigger: the next m bytes the peer said.
LEMMA SizeCut ==
    ASSUME PathInv, pc \in {"data", "dirty"}, Cuts(trigger, buf, prev_pos) # {},
           NEW m \in Nat, trigger = Size(m)
    PROVE  /\ Data \in Seq(Bytes) /\ Len(Data) = m
           /\ \A k \in 1 .. m : Data[k] = script.stream[Len(consumed) + k]
           /\ Len(consumed) \in Nat /\ Len(consumed) + m <= Len(script.stream)
           /\ CanProcessAgain => Len(consumed') = Len(consumed) + m
PROOF
  <1>1. /\ trigger \in DataTriggers /\ buf \in Seq(Bytes) /\ prev_pos \in Nat
        /\ script \in Scripts
    BY LenProperties DEF PathInv, StreamInv, TypeOK, ReceivedInv
  <1>2. trigger.kind = "size" /\ trigger.size = m
    BY DEF Size
  <1>3. /\ Len(consumed) \in Nat /\ Len(buf) \in Nat /\ Len(script.stream) \in Nat
        /\ Len(consumed) + Len(buf) <= Len(script.stream)
        /\ \A j \in 1 .. Len(buf) : buf[j] = script.stream[Len(consumed) + j]
    BY <1>1, BufferIs, ScriptFacts
  <1>4. PICK n \in Cuts(trigger, buf, prev_pos) :
              /\ n \in 0 .. Len(buf) /\ Data = Segment(trigger, buf, n)
              /\ CanProcessAgain => Len(consumed') = Len(consumed) + n
    BY CutData
  <1>5. n = m
    BY <1>1, <1>2, <1>4, CutsOf
  <1>6. Data = SubSeq(buf, 1, m)
    BY <1>2, <1>4, <1>5 DEF Segment
  <1>7. /\ SubSeq(buf, 1, m) \in Seq(Bytes) /\ Len(SubSeq(buf, 1, m)) = m
        /\ \A i \in 1 .. m : SubSeq(buf, 1, m)[i] = buf[i]
    BY <1>1, <1>4, <1>5, PopMoves
  <1>8. m <= Len(buf)
    BY <1>4, <1>5
  <1>9. \A k \in 1 .. m : Data[k] = script.stream[Len(consumed) + k]
    BY <1>3, <1>6, <1>7, <1>8
  <1>10. Len(consumed) + m <= Len(script.stream)
    BY <1>3, <1>8
  <1>11. CanProcessAgain => Len(consumed') = Len(consumed) + m
    BY <1>4, <1>5, Zenon
  <1> QED
    BY <1>3, <1>6, <1>7, <1>9, <1>10, <1>11, Zenon

\* A CharDataTrigger at the start of a packet that is a line: that line.
LEMMA LineCut ==
    ASSUME PathInv, pc \in {"data", "dirty"}, Cuts(trigger, buf, prev_pos) # {},
           trigger = Char(NL), NEW i \in 1 .. Len(script.ends) + 1,
           Len(consumed) = Start(script, i),
           i \in 1 .. Len(script.ends) => IsFramedLine(Packet(script, i))
    PROVE  /\ i \in 1 .. Len(script.ends) /\ Data \in Seq(Bytes)
           /\ Len(Data) = script.ends[i] - Len(consumed) - 1
           /\ Len(consumed) \in Nat /\ Len(consumed) < script.ends[i]
           /\ script.ends[i] \in Nat
           /\ CanProcessAgain => Len(consumed') = script.ends[i]
PROOF
  <1>1. /\ trigger \in DataTriggers /\ buf \in Seq(Bytes) /\ prev_pos \in Nat
        /\ script \in Scripts /\ ScannedInv /\ TypeOK
    BY LenProperties DEF PathInv, StreamInv, TypeOK, ReceivedInv
  <1>2. trigger.kind = "char" /\ trigger.c = NL
    BY DEF Char
  <1>3. /\ Len(consumed) \in Nat /\ Len(buf) \in Nat /\ Len(script.stream) \in Nat
        /\ Len(consumed) + Len(buf) <= Len(script.stream)
        /\ \A j \in 1 .. Len(buf) : buf[j] = script.stream[Len(consumed) + j]
    BY <1>1, BufferIs, ScriptFacts
  <1>4. PICK n \in Cuts(trigger, buf, prev_pos) :
              /\ n \in 0 .. Len(buf) /\ Data = Segment(trigger, buf, n)
              /\ CanProcessAgain => Len(consumed') = Len(consumed) + n
    BY CutData
  <1>5. /\ n \in 1 .. Len(buf) /\ n > prev_pos /\ buf[n] = NL
        /\ \A j \in 1 .. Len(buf) : j > prev_pos /\ buf[j] = NL => n <= j
    BY <1>1, <1>2, <1>4, CutsOf, DelimitersRange
  <1>6. i \in 1 .. Len(script.ends)
    BY <1>1, <1>3, <1>5, StartFacts
  <1>7. PICK e \in Nat : /\ e = script.ends[i] /\ Len(consumed) < e
                         /\ e <= Len(script.stream)
    BY <1>1, <1>6, PacketFacts
  <1>8. PICK m \in Nat : m = e - Len(consumed)
    BY <1>3, <1>7
  <1>9. /\ Packet(script, i)[m] = NL /\ \A j \in 1 .. m - 1 : Packet(script, i)[j] # NL
        /\ \A j \in 1 .. m : Packet(script, i)[j] = script.stream[Len(consumed) + j]
    <2>1. Len(Packet(script, i)) = m
      BY <1>1, <1>6, <1>7, <1>8, PacketFacts
    <2>2. \A j \in 1 .. m : Packet(script, i)[j] = script.stream[Len(consumed) + j]
      BY <1>1, <1>6, <1>7, <1>8, PacketFacts
    <2> QED
      BY <1>6, <2>1, <2>2 DEF IsFramedLine
  <1>10. n >= m
    <2> SUFFICES ASSUME n < m
                 PROVE  FALSE
      BY <1>5, <1>8
    <2>1. n \in 1 .. m - 1 /\ n \in 1 .. m
      BY <1>3, <1>5, <1>8
    <2>2. Packet(script, i)[n] = buf[n]
      BY <1>3, <1>5, <1>9, <2>1
    <2> QED
      BY <1>5, <1>9, <2>1, <2>2
  <1>11. m >= n
    <2> SUFFICES ASSUME m < n
                 PROVE  FALSE
      BY <1>5, <1>8
    <2>1. m \in 1 .. Len(buf) /\ m \in 1 .. m
      <3>1. PICK b \in Nat, c \in Nat : b = Len(buf) /\ c = Len(consumed)
        BY <1>3
      <3>2. n \in 1 .. b /\ m = e - c /\ c < e /\ m < n
        BY <1>5, <1>7, <1>8, <3>1
      <3>3. m \in 1 .. b /\ m \in 1 .. m
        BY ONLY <3>2, m \in Nat, b \in Nat, c \in Nat, e \in Nat
      <3> QED
        BY <3>1, <3>3
    <2>2. buf[m] = NL
      BY <1>3, <1>9, <2>1
    <2>3. m <= prev_pos
      BY <1>1, <1>5, <2>1, <2>2
    <2>4. m \in 1 .. prev_pos
      BY <1>1, <2>1, <2>3
    <2> QED
      BY <1>1, <1>2, <2>2, <2>4 DEF ScannedInv
  <1>12. n = m /\ n - 1 \in 0 .. Len(buf)
    BY <1>3, <1>5, <1>8, <1>10, <1>11
  <1>13. PICK k \in 0 .. Len(buf) : k = n - 1
    BY <1>12
  <1>14. Data = SubSeq(buf, 1, k)
    BY <1>2, <1>4, <1>13 DEF Segment
  <1>15. Data \in Seq(Bytes) /\ Len(Data) = k
    BY <1>1, <1>13, <1>14, PopMoves
  <1>16. Len(Data) = e - Len(consumed) - 1 /\ Len(consumed) + n = e
    <2>1. PICK c \in Nat : c = Len(consumed)
      BY <1>3
    <2>2. m = e - c /\ n = m /\ k = n - 1
      BY <1>8, <1>12, <1>13, <2>1
    <2>3. k = e - c - 1 /\ c + n = e
      BY ONLY <2>2, m \in Nat, c \in Nat, e \in Nat
    <2> QED
      BY <1>15, <2>1, <2>3
  <1> QED
    BY <1>3, <1>4, <1>6, <1>7, <1>15, <1>16

\* A header: the first five bytes of a packet.
LEMMA HeaderRead ==
    ASSUME PathInv, pc \in {"data", "dirty"}, Cuts(trigger, buf, prev_pos) # {},
           NEW i \in Nat, AtHeader(i),
           i \in 1 .. Len(script.ends) => Len(Packet(script, i)) >= 5
    PROVE  /\ i \in 1 .. Len(script.ends)
           /\ \A k \in 1 .. 5 : Data[k] = Packet(script, i)[k]
           /\ CanProcessAgain => Len(consumed') = Start(script, i) + 5
PROOF
  <1>1. script \in Scripts /\ Len(script.stream) \in Nat
    BY ScriptFacts DEF PathInv, ReceivedInv
  <1>2. PICK m \in Nat : m = 5
    OBVIOUS
  <1>3. trigger = Size(m) /\ Len(consumed) = Start(script, i)
        /\ i \in 1 .. Len(script.ends) + 1
    BY <1>2 DEF AtHeader
  <1>4. /\ \A k \in 1 .. m : Data[k] = script.stream[Len(consumed) + k]
        /\ Len(consumed) \in Nat /\ Len(consumed) + m <= Len(script.stream)
        /\ CanProcessAgain => Len(consumed') = Len(consumed) + m
    BY <1>3, SizeCut
  <1>5. i \in 1 .. Len(script.ends)
    BY <1>1, <1>2, <1>3, <1>4, StartFacts
  <1>6. /\ script.ends[i] \in Nat /\ Start(script, i) \in Nat
        /\ Len(Packet(script, i)) = script.ends[i] - Start(script, i)
        /\ \A j \in 1 .. script.ends[i] - Start(script, i) :
                 Packet(script, i)[j] = script.stream[Start(script, i) + j]
    BY <1>1, <1>5, PacketFacts
  <1>7. 1 .. m \subseteq 1 .. script.ends[i] - Start(script, i)
    BY <1>2, <1>5, <1>6
  <1>8. \A k \in 1 .. m : Data[k] = Packet(script, i)[k]
    BY <1>3, <1>4, <1>6, <1>7
  <1>9. CanProcessAgain => Len(consumed') = Start(script, i) + m
    BY <1>3, <1>4
  <1> QED
    BY <1>2, <1>5, <1>8, <1>9

\* After its header, the rest of the packet is waited for.
LEMMA NextBody ==
    ASSUME PathInv, NEW i \in 1 .. Len(script.ends), UNCHANGED script,
           Len(consumed') = Start(script, i) + 5,
           trigger' = Size(Len(Packet(script, i)) - 5)
    PROVE  AtBody(i)'
PROOF
  <1>1. script \in Scripts
    BY DEF PathInv, ReceivedInv
  <1>2. PICK a \in Nat, b \in Nat : /\ a = Start(script, i) /\ b = script.ends[i]
                                    /\ Len(Packet(script, i)) = b - a
    BY <1>1, PacketFacts
  <1>3. b - (a + 5) = b - a - 5
    BY ONLY a \in Nat, b \in Nat
  <1>4. trigger' = Size(script.ends[i] - Len(consumed'))
    BY <1>2, <1>3
  <1> QED
    BY <1>4 DEF AtBody, Start

\* A body: the rest of the packet.
LEMMA BodyRead ==
    ASSUME PathInv, pc \in {"data", "dirty"}, Cuts(trigger, buf, prev_pos) # {},
           NEW i \in Nat, AtBody(i)
    PROVE  /\ i \in 1 .. Len(script.ends) /\ Data \in Seq(Bytes)
           /\ Len(consumed) \in Nat /\ script.ends[i] \in Nat
           /\ Start(script, i) \in Nat /\ Len(consumed) = Start(script, i) + 5
           /\ Len(Data) \in Nat /\ Len(consumed) + Len(Data) = script.ends[i]
           /\ CanProcessAgain => Len(consumed') = script.ends[i]
PROOF
  <1>1. script \in Scripts /\ i \in 1 .. Len(script.ends)
    BY DEF PathInv, ReceivedInv, AtBody
  <1>2. script.ends[i] \in Nat /\ Start(script, i) \in Nat
    BY <1>1, PacketFacts
  <1>3. /\ Len(consumed) = Start(script, i) + 5
        /\ trigger = Size(script.ends[i] - Len(consumed))
    BY DEF AtBody
  <1>4. PICK m \in Int : m = script.ends[i] - Len(consumed)
    BY <1>2, <1>3
  <1>5. m \in Nat
    <2>1. trigger \in DataTriggers /\ trigger.kind = "size" /\ trigger.size = m
      BY <1>3, <1>4 DEF Size, PathInv, StreamInv, TypeOK
    <2>2. buf \in Seq(Bytes) /\ prev_pos \in Nat
      BY LenProperties DEF PathInv, StreamInv, TypeOK
    <2> QED
      BY <2>1, <2>2, CutsOf
  <1>6. /\ Data \in Seq(Bytes) /\ Len(Data) = m /\ Len(consumed) \in Nat
        /\ CanProcessAgain => Len(consumed') = Len(consumed) + m
    BY <1>3, <1>4, <1>5, SizeCut
  <1>7. Len(consumed) + m = script.ends[i]
    BY <1>2, <1>4, <1>6
  <1> QED
    BY <1>1, <1>2, <1>3, <1>5, <1>6, <1>7

---------------------------------------------------------------------------
(* What the user is handed.                                               *)

LEMMA PlaceGood ==
    ASSUME script \in Scripts, Len(consumed) \in Nat, NEW i \in 1 .. Len(script.ends),
           NEW k \in Nat \ {0}, NEW n \in Int, Start(script, i) <= Len(consumed),
           Len(consumed) + k + n - 1 <= script.ends[i] + 3
    PROVE  Place(k, n) \in Good(script)
PROOF
  <1>1. /\ Start(script, i) \in Nat /\ script.ends[i] \in Nat
        /\ i \in DOMAIN script.ends
    BY PacketFacts, ScriptFacts
  <1>2. /\ Place(k, n) \in [from : Nat, len : Int]
        /\ Place(k, n).from = Len(consumed) + k /\ Place(k, n).len = n
    BY DEF Place
  <1>3. /\ Place(k, n).from > Start(script, i)
        /\ Place(k, n).from + Place(k, n).len - 1 <= script.ends[i] + 3
    BY <1>1, <1>2
  <1> QED
    BY <1>1, <1>2, <1>3 DEF Good, Inside

LEMMA Handed ==
    ASSUME GivenInv, UNCHANGED script, NEW S \in Seq(Good(script))
    PROVE  /\ accepts(S) => GivenInv'
           /\ refuses(S) => GivenInv' /\ given' # <<>>
PROOF
  <1> DEFINE G == Good(script)
  <1>0. G = Good(script) /\ given \in Seq(G) /\ S \in Seq(G)
        /\ (given' \in Seq(G) => GivenInv')
    BY DEF GivenInv, Good, Inside, Start
  <1> HIDE DEF G
  <1>1. ASSUME accepts(S)
        PROVE  GivenInv'
    <2>1. given' = given \o S
      BY <1>1 DEF accepts
    <2> QED
      BY <1>0, <2>1, ConcatProperties
  <1>2. ASSUME refuses(S)
        PROVE  GivenInv' /\ given' # <<>>
    <2>1. PICK k \in DOMAIN S : given' = given \o SubSeq(S, 1, k)
      BY <1>2 DEF refuses
    <2>2. k \in 1 .. Len(S) /\ Len(S) \in Nat /\ Len(given) \in Nat
      BY <1>0, <2>1, LenProperties
    <2>3. \A j \in 1 .. k : S[j] \in G
      BY <1>0, <2>2, ElementOfSeq
    <2>4. SubSeq(S, 1, k) \in Seq(G) /\ Len(SubSeq(S, 1, k)) = k
      BY <1>0, <2>2, <2>3, SubSeqProperties
    <2>5. given' \in Seq(G) /\ Len(given') = Len(given) + k
      BY <1>0, <2>1, <2>4, ConcatProperties
    <2>6. given' # <<>>
      BY <2>2, <2>5, EmptySeq
    <2> QED
      BY <1>0, <2>5, <2>6
  <1> QED
    BY <1>1, <1>2

LEMMA OneHanded ==
    ASSUME NEW s, NEW g \in Good(s)
    PROVE  <<g>> \in Seq(Good(s))
  OBVIOUS

\* One turn of the loop over the certificates of d, f being the later ones.
CertificateAt(d, f, i) ==
    LET left == Len(d) - i + 1
    IN  IF left <= 0 THEN [places |-> <<>>, wrong |-> FALSE]
        ELSE IF left < 3 \/ left < d[i]
        THEN [places |-> <<>>, wrong |-> TRUE]
        ELSE [places |-> <<Place(i + 3, d[i])>> \o f[i + 3 + d[i]].places,
              wrong |-> f[i + 3 + d[i]].wrong]

\* The loop over the certificates: certificates_from is a function that makes
\* it.
LEMMA CertificatesLoop ==
    ASSUME NEW d \in Seq(Bytes), Len(d) >= 4
    PROVE  \A i \in 8 .. Len(d) + 4 :
              certificates_from(d)[i] = CertificateAt(d, certificates_from(d), i)
PROOF
  <1>1. PICK M \in Nat : M = Len(d) + 4 /\ M >= 8
    BY LenProperties
  <1>2. Len(d) \in Nat /\ \A i \in 1 .. Len(d) : d[i] \in Nat
    BY LenProperties, ElementOfSeq, ByteFacts
  <1> DEFINE Makes(k, f) == f = [i \in k .. M |-> CertificateAt(d, f, i)]
             T == {k \in 8 .. M : \E f : Makes(k, f)}
  <1>3. M \in T
    <2>1. PICK f : f = [i \in M .. M |-> [places |-> <<>>, wrong |-> FALSE]]
      OBVIOUS
    <2>2. \A i \in M .. M : CertificateAt(d, f, i) = [places |-> <<>>, wrong |-> FALSE]
      BY <1>1, <1>2 DEF CertificateAt
    <2>3. Makes(M, f)
      BY <2>1, <2>2
    <2> QED
      BY <1>1, <2>3
  <1>4. ASSUME NEW k \in T, k > 8
        PROVE  k - 1 \in T
    <2>1. PICK f : Makes(k, f)
      OBVIOUS
    <2>2. PICK p \in Nat : p = k - 1 /\ k = p + 1 /\ p < M /\ p >= 8 /\ k \in Nat
      BY <1>1, <1>4
    <2>3. PICK g : g = [i \in p .. M |-> CertificateAt(d, f, i)]
      OBVIOUS
    <2>4. \A j \in k .. M : f[j] = CertificateAt(d, f, j)
      BY <2>1
    <2>5. \A j \in k .. M : g[j] = f[j]
      <3>1. k .. M \subseteq p .. M
        BY <1>1, <2>2
      <3> QED
        BY <2>3, <2>4, <3>1
    <2>6. ASSUME NEW i \in p .. M
          PROVE  CertificateAt(d, f, i) = CertificateAt(d, g, i)
      <3>1. i \in Nat /\ i >= 8
        BY <1>1, <2>2
      <3>2. CASE i > Len(d)
        <4>1. Len(d) - i + 1 <= 0
          BY <1>2, <3>1, <3>2
        <4> QED
          BY <4>1 DEF CertificateAt
      <3>3. CASE i <= Len(d) /\ Len(d) - i + 1 < d[i]
        <4>1. ~(Len(d) - i + 1 <= 0)
          BY <1>2, <3>1, <3>3
        <4> QED
          BY <3>3, <4>1 DEF CertificateAt
      <3>4. CASE i <= Len(d) /\ ~(Len(d) - i + 1 < d[i])
        <4>1. d[i] \in Nat
          BY <1>2, <3>1, <3>4
        <4>2. i + 3 + d[i] \in k .. M
          BY <1>1, <1>2, <2>2, <3>1, <3>4, <4>1
        <4>3. f[i + 3 + d[i]] = g[i + 3 + d[i]]
          BY <2>5, <4>2
        <4> QED
          BY <4>3 DEF CertificateAt
      <3> QED
        BY <1>2, <3>1, <3>2, <3>3, <3>4
    <2>7. Makes(p, g)
      BY <2>3, <2>6
    <2> QED
      BY <2>2, <2>7
  <1>5. PICK b \in Nat : b = 8
    OBVIOUS
  <1>6. b \in T
    <2>1. T \in SUBSET Nat
      BY <1>1
    <2> HIDE DEF T
    <2>2. PICK k \in T : \A m \in T : k <= m
      BY <1>3, <2>1, LeastNatural
    <2>3. k \in 8 .. M
      BY DEF T
    <2>4. ~(k > 8)
      BY <1>4, <2>1, <2>2
    <2> QED
      BY <1>5, <2>3, <2>4
  <1>7. \E f : f = [i \in 8 .. M |-> CertificateAt(d, f, i)]
    BY <1>5, <1>6
  <1>8. certificates_from(d) = CHOOSE f : f = [i \in 8 .. M |-> CertificateAt(d, f, i)]
    BY <1>1 DEF certificates_from, CertificateAt
  <1>9. certificates_from(d)
          = [i \in 8 .. M |-> CertificateAt(d, certificates_from(d), i)]
    BY <1>7, <1>8
  <1> QED
    BY <1>1, <1>9

\* Every certificate of the list lies in the packet, but for 3 bytes.
LEMMA CertificatesGood ==
    ASSUME script \in Scripts, Len(consumed) \in Nat, NEW d \in Seq(Bytes),
           Len(d) >= 4, NEW n \in 1 .. Len(script.ends),
           Start(script, n) <= Len(consumed),
           Len(consumed) + Len(d) = script.ends[n]
    PROVE  list_certificates(d).places \in Seq(Good(script))
PROOF
  <1>1. PICK M \in Nat : M = Len(d) + 4 /\ M >= 8
    BY LenProperties
  <1>2. Len(d) \in Nat /\ \A i \in 1 .. Len(d) : d[i] \in Nat
    BY LenProperties, ElementOfSeq, ByteFacts
  <1>3. PICK f : f = certificates_from(d)
    OBVIOUS
  <1>4. \A i \in 8 .. M : f[i] = CertificateAt(d, f, i)
    BY <1>1, <1>3, CertificatesLoop
  <1> DEFINE G == Good(script)
  <1>5. ASSUME NEW k \in 8 .. M,
               \A j \in k + 1 .. M : f[j].places \in Seq(G)
        PROVE  f[k].places \in Seq(G)
    <2>1. k \in Nat /\ k >= 8 /\ k <= M /\ f[k] = CertificateAt(d, f, k)
      BY <1>1, <1>4
    <2>2. <<>> \in Seq(G)
      BY EmptySeq
    <2>3. CASE k > Len(d)
      <3>1. Len(d) - k + 1 <= 0
        BY <1>2, <2>1, <2>3
      <3> QED
        BY <2>1, <2>2, <3>1 DEF CertificateAt
    <2>4. CASE k <= Len(d) /\ (Len(d) - k + 1 < 3 \/ Len(d) - k + 1 < d[k])
      <3>1. ~(Len(d) - k + 1 <= 0)
        BY <1>2, <2>1, <2>4
      <3> QED
        BY <2>1, <2>2, <2>4, <3>1 DEF CertificateAt
    <2>5. CASE k <= Len(d) /\ ~(Len(d) - k + 1 < 3 \/ Len(d) - k + 1 < d[k])
      <3>1. PICK c \in Nat : c = d[k]
        BY <1>2, <2>1, <2>5
      <3>2. PICK q \in Nat, x \in Nat \ {0} : q = k + 3 + c /\ x = k + 3
        BY <2>1, <3>1
      <3>3. PICK l \in Nat : l = Len(d)
        BY <1>2
      <3>4. script.ends[n] \in Nat
        BY PacketFacts
      <3>5. ~(l - k + 1 < c)
        BY <2>5, <3>1, <3>3
      <3>6. c + k <= l + 1
        BY <2>1, <3>5
      <3>7. q \in k + 1 .. M
        BY <1>1, <2>1, <3>2, <3>3, <3>6
      <3>8. Len(consumed) + x + c - 1 <= script.ends[n] + 3
        BY <2>1, <3>2, <3>3, <3>4, <3>6
      <3>9. Place(x, c) \in G
        BY <3>2, <3>8, PlaceGood
      <3> HIDE DEF G
      <3>10. f[q].places \in Seq(G) /\ <<Place(x, c)>> \in Seq(G)
        BY <1>5, <3>7, <3>9
      <3>11. ~(Len(d) - k + 1 <= 0) /\ k + 3 + d[k] = q /\ k + 3 = x
        BY <1>2, <2>1, <2>5, <3>1, <3>2
      <3>12. CertificateAt(d, f, k).places
              = <<Place(k + 3, d[k])>> \o f[k + 3 + d[k]].places
        BY <2>5, <3>11 DEF CertificateAt
      <3>13. f[k].places = <<Place(x, c)>> \o f[q].places
        BY <2>1, <3>1, <3>11, <3>12
      <3> QED
        BY <3>10, <3>13, ConcatProperties
    <2> QED
      BY <1>2, <2>1, <2>3, <2>4, <2>5
  <1> HIDE DEF G
  <1> DEFINE B == {j \in Nat : j <= M - 8 /\ f[M - j].places \notin Seq(G)}
  <1>6. B = {}
    <2> SUFFICES ASSUME B # {}
                 PROVE  FALSE
      OBVIOUS
    <2>1. PICK j \in B : \A i \in B : j <= i
      BY LeastNatural
    <2>2. PICK k \in Nat : k = M - j /\ k \in 8 .. M /\ f[k].places \notin Seq(G)
      BY <1>1, <2>1
    <2>3. PICK i \in k + 1 .. M : f[i].places \notin Seq(G)
      BY <1>5, <2>2
    <2>4. PICK m \in Nat : m = M - i /\ M - m = i /\ m <= M - 8 /\ m < j
      <3>1. j \in Nat
        BY <2>1
      <3> HIDE DEF B
      <3> QED
        BY ONLY <2>2, <3>1, M \in Nat, i \in k + 1 .. M, k \in Nat
    <2>5. m \in B
      BY <2>3, <2>4
    <2>6. j <= m /\ j \in Nat
      BY <2>1, <2>5
    <2> QED
      BY <2>4, <2>6
  <1>7. PICK e \in Nat : e = M - 8 /\ M - e = 8
    BY <1>1
  <1>8. f[M - e].places \in Seq(G)
    <2>1. e <= M - 8
      BY <1>1, <1>7
    <2>2. e \notin B
      <3> HIDE DEF B
      <3> QED
        BY <1>6
    <2> QED
      BY <2>1, <2>2, Zenon
  <1> QED
    BY <1>3, <1>7, <1>8 DEF list_certificates, G

---------------------------------------------------------------------------
(* The inductive step.                                                    *)

\* Steps that read no packet keep the invariant.
LEMMA FrameKept ==
    ASSUME FrameInv, pc = "end" => pc' = "end",
           UNCHANGED <<script, verdicts, stage, trigger, consumed, given, connected>>
    PROVE  FrameInv'
PROOF
  <1>1. Framable' => Framable
    BY DEF Framable, lenient
  <1> SUFFICES ASSUME Framable
               PROVE  /\ StageInv' /\ GivenInv' /\ LineInv' /\ HeaderInv' /\ BodyInv'
                      /\ KeyInv'
    BY <1>1 DEF FrameInv
  <1>2. StageInv' /\ GivenInv'
    BY DEF FrameInv, StageInv, GivenInv, Good, Inside, Start
  <1>3. LineInv'
    BY DEF FrameInv, LineInv, Start
  <1>4. HeaderInv'
    BY DEF FrameInv, HeaderInv, AtHeader, Start
  <1>5. BodyInv'
    BY DEF FrameInv, BodyInv, AtBody, Start, KeyAccepted
  <1>6. KeyInv'
    BY DEF FrameInv, KeyInv, KeyAccepted
  <1> QED
    BY <1>2, <1>3, <1>4, <1>5, <1>6

\* Whether the peer frames its packets does not change.
LEMMA FramableKept ==
    ASSUME UNCHANGED <<script, verdicts>>
    PROVE  Framable' <=> Framable
  BY DEF Framable, lenient

\* A failure ends the connection, when the user has no failure callback or one
\* that returns false.
LEMMA FailureEnds ==
    ASSUME FrameInv, Framable, failure
    PROVE  FrameInv'
PROOF
  <1>1. ConnectionEnd /\ UNCHANGED <<script, verdicts, stage, trigger, given>>
    BY DEF failure, ends, same_trigger, Framable
  <1>2. pc' = "end" /\ UNCHANGED <<consumed, connected>>
    BY <1>1 DEF ConnectionEnd, conn
  <1> QED
    BY <1>1, <1>2, FrameKept

\* So does a callback of the user that returns false.
LEMMA RefusalEnds ==
    ASSUME FrameInv, Framable, stage \in {"reply", "hs1", "hs2", "line"},
           NEW S \in Seq(Good(script)), refuses(S)
    PROVE  FrameInv'
PROOF
  <1>1. ConnectionEnd /\ UNCHANGED <<script, verdicts, stage, trigger>>
    BY DEF refuses, ends, same_trigger
  <1>2. pc' = "end" /\ UNCHANGED <<consumed, connected>>
    BY <1>1 DEF ConnectionEnd, conn
  <1>3. GivenInv' /\ given' # <<>>
    BY <1>1, Handed DEF FrameInv
  <1>4. StageInv'
    BY <1>1, <1>2 DEF FrameInv, StageInv
  <1>5. LineInv'
    BY <1>1, <1>2 DEF FrameInv, LineInv, Start
  <1>6. HeaderInv'
    BY <1>1 DEF HeaderInv, HeaderStages
  <1>7. BodyInv'
    BY <1>1, <1>2, <1>3 DEF FrameInv, BodyInv, AtBody, Start, KeyAccepted
  <1>8. KeyInv'
    BY <1>2 DEF KeyInv
  <1> QED
    BY <1>3, <1>4, <1>5, <1>6, <1>7, <1>8 DEF FrameInv

LEMMA ToHeader ==
    ASSUME Framable, UNCHANGED <<script, verdicts>>, StageInv', GivenInv',
           stage' \in HeaderStages, AtHeader(Number(stage))'
    PROVE  FrameInv'
PROOF
  <1>1. LineInv' /\ BodyInv' /\ KeyInv'
    BY DEF LineInv, BodyInv, KeyInv, KeyAccepted, HeaderStages, BodyStages
  <1> QED
    BY <1>1 DEF FrameInv, HeaderInv

LEMMA ToBody ==
    ASSUME Framable, UNCHANGED <<script, verdicts>>, StageInv', GivenInv',
           stage' \in BodyStages, AtBody(Number(stage))',
           stage' = "reply" => given' = <<>>
    PROVE  FrameInv'
PROOF
  <1>1. LineInv' /\ HeaderInv' /\ KeyInv'
    BY DEF LineInv, HeaderInv, KeyInv, KeyAccepted, HeaderStages, BodyStages
  <1> QED
    BY <1>1 DEF FrameInv, BodyInv

LEMMA FrameInit == ProtoInit => FrameInv
PROOF
  <1> SUFFICES ASSUME ProtoInit
               PROVE  FrameInv
    OBVIOUS
  <1>1. stage = "none" /\ trigger = NoTrigger /\ consumed = <<>> /\ given = <<>>
    BY DEF ProtoInit, Init
  <1>2. Len(consumed) = 0 /\ given \in Seq(Good(script))
    BY <1>1, EmptySeq
  <1>3. StageInv
    BY <1>1, <1>2 DEF StageInv, SSHStages, SSLStages
  <1>4. LineInv /\ HeaderInv /\ BodyInv /\ KeyInv
    BY <1>1 DEF LineInv, HeaderInv, BodyInv, KeyInv, HeaderStages, BodyStages,
                KeyAccepted
  <1> QED
    BY <1>2, <1>3, <1>4 DEF FrameInv, GivenInv

LEMMA FrameConnect ==
    ASSUME PathInv, FrameInv, Framable, SSH \/ SSL \/ SIP
    PROVE  FrameInv'
PROOF
  <1>1. /\ ~connected /\ connected'
        /\ UNCHANGED <<script, verdicts, given, consumed>>
        /\ script \in Scripts
    BY DEF SSH, SSL, SIP, connect, on_connect, hist, PathInv, ReceivedInv
  <1>2. Len(consumed') = 0 /\ given' = <<>>
    BY <1>1 DEF FrameInv, StageInv
  <1>3. GivenInv'
    BY <1>1 DEF FrameInv, GivenInv, Good, Inside, Start
  <1>4. PICK i \in Nat : i = 1 /\ i \in 1 .. Len(script.ends) + 1
    BY <1>1, ScriptFacts
  <1>5. Len(consumed') = Start(script, i)
    BY <1>2, <1>4 DEF Start
  <1>6. CASE SSH \/ SIP
    <2>1. /\ trigger' = Char(NL)
          /\ \/ stage' = "version" /\ script.proto = "ssh"
             \/ stage' = "line" /\ script.proto = "sip"
      BY <1>6 DEF SSH, SIP, connect
    <2>2. StageInv'
      BY <1>1, <1>2, <2>1 DEF StageInv, SSHStages, SSLStages
    <2>3. LineInv'
      BY <1>1, <1>2, <1>4, <1>5, <2>1 DEF LineInv, Start
    <2>4. HeaderInv' /\ BodyInv' /\ KeyInv'
      BY <2>1 DEF HeaderInv, BodyInv, KeyInv, HeaderStages, BodyStages, KeyAccepted
    <2> QED
      BY <1>3, <2>2, <2>3, <2>4 DEF FrameInv
  <1>7. CASE SSL
    <2>1. trigger' = Size(5) /\ stage' = "tls1" /\ script.proto = "ssl"
      BY <1>7 DEF SSL, connect, SizeofTLS
    <2>2. StageInv'
      BY <1>1, <1>2, <2>1 DEF StageInv, SSHStages, SSLStages
    <2>3. Number(stage') = i
      BY <1>4, <2>1 DEF Number
    <2>4. AtHeader(Number(stage))'
      BY <1>1, <1>4, <1>5, <2>1, <2>3 DEF AtHeader, Start
    <2> QED
      BY <1>1, <1>3, <2>1, <2>2, <2>4, ToHeader DEF HeaderStages
  <1> QED
    BY <1>6, <1>7

---------------------------------------------------------------------------
(* SSH.                                                                   *)

LEMMA FrameVersion ==
    ASSUME PathInv, FrameInv, Framable, ssh_version
    PROVE  FrameInv'
PROOF
  <1>1. /\ pc \in {"data", "dirty"} /\ Cuts(trigger, buf, prev_pos) # {}
        /\ stage = "version" /\ CanProcessAgain
        /\ trigger' = Size(5) /\ stage' = "kex_header"
        /\ UNCHANGED <<script, verdicts, given>>
    BY DEF ssh_version, Called, goes_on
  <1>2. /\ script \in Scripts /\ script.proto = "ssh" /\ trigger = Char(NL)
        /\ Len(consumed) = 0 /\ given = <<>> /\ connected'
    BY <1>1 DEF PathInv, ReceivedInv, FrameInv, StageInv, LineInv, SSHStages,
                CanProcessAgain, conn
  <1>3. PICK i \in Nat, j \in Nat : i = 1 /\ j = 2 /\ j = i + 1
    OBVIOUS
  <1>4. i \in 1 .. Len(script.ends) + 1 /\ Len(consumed) = Start(script, i)
    BY <1>2, <1>3, ScriptFacts DEF Start
  <1>5. i \in 1 .. Len(script.ends) => IsFramedLine(Packet(script, i))
    BY <1>2, <1>3, ScriptFacts DEF Framable, IsFramed
  <1>6. i \in 1 .. Len(script.ends) /\ Len(consumed') = script.ends[i]
    BY <1>1, <1>2, <1>4, <1>5, LineCut
  <1>7. j \in 1 .. Len(script.ends) + 1 /\ Len(consumed') = Start(script, j)
    BY <1>2, <1>3, <1>6, PacketFacts
  <1>8. AtHeader(Number(stage))'
    <2>1. Number(stage') = j
      BY <1>1, <1>3 DEF Number
    <2> QED
      BY <1>1, <1>7, <2>1 DEF AtHeader, Start
  <1>9. StageInv'
    BY <1>1, <1>2 DEF StageInv, SSHStages, SSLStages
  <1>10. GivenInv'
    BY <1>1 DEF FrameInv, GivenInv, Good, Inside, Start
  <1> QED
    BY <1>1, <1>8, <1>9, <1>10, ToHeader DEF HeaderStages

\* The length that is waited for is that of the rest of the packet.
LEMMA FrameSSHAnswer ==
    ASSUME PathInv, FrameInv, Framable, NEW s, NEW next, SSHAnswer(s, next),
           \/ s = "kex_header" /\ next = "kex"
           \/ s = "reply_header" /\ next = "reply"
    PROVE  FrameInv'
PROOF
  <1>1. /\ pc \in {"data", "dirty"} /\ Cuts(trigger, buf, prev_pos) # {}
        /\ stage = s /\ CanProcessAgain
        /\ trigger' = Size(answer_length - 7) /\ stage' = next
        /\ UNCHANGED <<script, verdicts, given>>
    BY DEF SSHAnswer, Called, goes_on
  <1>2. /\ script \in Scripts /\ script.proto = "ssh" /\ AtHeader(Number(stage))
        /\ given = <<>> /\ connected'
    BY <1>1 DEF PathInv, ReceivedInv, FrameInv, StageInv, HeaderInv, SSHStages,
                HeaderStages, CanProcessAgain, conn
  <1>3. PICK i \in Nat : i = Number(stage) /\ i = Number(stage') /\ i \in {2, 3}
    BY <1>1 DEF Number
  <1>4. i \in 1 .. Len(script.ends) => IsFramedSSH(Packet(script, i))
    BY <1>2, <1>3, ScriptFacts DEF Framable, IsFramed
  <1>5. i \in 1 .. Len(script.ends) => Len(Packet(script, i)) >= 5
    BY <1>4 DEF IsFramedSSH
  <1>6. /\ i \in 1 .. Len(script.ends)
        /\ \A k \in 1 .. 5 : Data[k] = Packet(script, i)[k]
        /\ Len(consumed') = Start(script, i) + 5
    BY <1>1, <1>2, <1>3, <1>5, HeaderRead
  <1>7. PICK n \in Nat : n = Len(Packet(script, i)) /\ n \in 5 .. Word - 3
    BY <1>4, <1>6, ByteFacts DEF IsFramedSSH
  <1>8. Data[1] = n - 4 /\ Data[5] = 6
    BY <1>4, <1>6, <1>7 DEF IsFramedSSH
  <1>9. answer_length - 7 = n - 5
    <2>1. Data[1] + Data[5] = n + 2
      BY <1>7, <1>8
    <2>2. n + 2 \in Nat /\ n + 2 < Word
      BY <1>7, ByteFacts
    <2>3. (n + 2) % Word = n + 2
      BY <2>2, ModWord
    <2> QED
      BY <1>7, <2>1, <2>3 DEF answer_length
  <1>10. AtBody(i)'
    BY <1>1, <1>6, <1>7, <1>9, NextBody
  <1>11. AtBody(Number(stage))'
    BY <1>3, <1>10
  <1>12. StageInv'
    BY <1>1, <1>2 DEF StageInv, SSHStages, SSLStages
  <1>13. GivenInv'
    BY <1>1 DEF FrameInv, GivenInv, Good, Inside, Start
  <1> QED
    BY <1>1, <1>2, <1>11, <1>12, <1>13, ToBody DEF BodyStages

LEMMA FrameKex ==
    ASSUME PathInv, FrameInv, Framable, ssh_kex
    PROVE  FrameInv'
PROOF
  <1>1. /\ pc \in {"data", "dirty"} /\ Cuts(trigger, buf, prev_pos) # {}
        /\ stage = "kex" /\ CanProcessAgain
        /\ trigger' = Size(5) /\ stage' = "reply_header"
        /\ UNCHANGED <<script, verdicts, given>>
    BY DEF ssh_kex, Called, goes_on
  <1>2. /\ script \in Scripts /\ script.proto = "ssh" /\ AtBody(Number(stage))
        /\ given = <<>> /\ connected'
    BY <1>1 DEF PathInv, ReceivedInv, FrameInv, StageInv, BodyInv, SSHStages,
                BodyStages, KeyAccepted, CanProcessAgain, conn
  <1>3. PICK i \in Nat, j \in Nat :
           i = Number(stage) /\ j = Number(stage') /\ j = i + 1
    BY <1>1 DEF Number
  <1>4. i \in 1 .. Len(script.ends) /\ Len(consumed') = script.ends[i]
    BY <1>1, <1>2, <1>3, BodyRead
  <1>5. j \in 1 .. Len(script.ends) + 1 /\ Len(consumed') = Start(script, j)
    BY <1>2, <1>3, <1>4, PacketFacts
  <1>6. AtHeader(Number(stage))'
    BY <1>1, <1>3, <1>5 DEF AtHeader, Start
  <1>7. StageInv'
    BY <1>1, <1>2 DEF StageInv, SSHStages, SSLStages
  <1>8. GivenInv'
    BY <1>1 DEF FrameInv, GivenInv, Good, Inside, Start
  <1> QED
    BY <1>1, <1>6, <1>7, <1>8, ToHeader DEF HeaderStages

\* The key is handed over once: what follows the reply does not look like
\* another one.
LEMMA FrameCertificate ==
    ASSUME PathInv, FrameInv, Framable, ssh_certificate
    PROVE  FrameInv'
PROOF
  <1>1. /\ pc \in {"data", "dirty"} /\ Cuts(trigger, buf, prev_pos) # {}
        /\ stage = "reply" /\ IsReply(Data)
    BY DEF ssh_certificate, Called
  <1>2. script \in Scripts /\ script.proto = "ssh" /\ StageInv /\ GivenInv
    BY <1>1 DEF PathInv, ReceivedInv, FrameInv, StageInv, SSHStages
  <1>3. PICK i \in Nat : i = 3 /\ i = Number(stage)
    BY <1>1 DEF Number
  <1>4. CASE KeyAccepted
    <2>1. Len(consumed) = script.ends[i] /\ i \in 1 .. Len(script.ends)
      BY <1>1, <1>2, <1>3, <1>4, ScriptFacts DEF FrameInv, KeyInv
    <2>2. PICK j \in Nat : j = i + 1 /\ j = 4
      BY <1>3
    <2>3. j \in 1 .. Len(script.ends) + 1 /\ Start(script, j) = Len(consumed)
      BY <1>2, <2>1, <2>2, PacketFacts
    <2>4. /\ Len(Data) \in Nat /\ Len(consumed) \in Nat
          /\ Len(consumed) + Len(Data) <= Len(script.stream)
          /\ \A k \in 1 .. Len(Data) : Data[k] = script.stream[Len(consumed) + k]
      BY <1>1, DataIs
    <2>5. Len(Data) >= 5 /\ Data[1] = 31
      BY <1>1 DEF IsReply
    <2>6. Data[1] = script.stream[Len(consumed) + 1]
      <3>1. PICK d \in Nat : d = Len(Data) /\ d >= 5
        BY <2>4, <2>5
      <3>2. PICK k \in 1 .. d : k = 1
        BY ONLY <3>1, d \in Nat
      <3>3. Data[k] = script.stream[Len(consumed) + k]
        BY <2>4, <3>1, Zenon
      <3> QED
        BY <3>2, <3>3
    <2>7. j \in 1 .. Len(script.ends)
      <3>1. PICK c \in Nat, d \in Nat, n \in Nat :
               /\ c = Len(consumed) /\ d = Len(Data) /\ n = Len(script.stream)
               /\ d >= 5 /\ c + d <= n
        BY <1>2, <2>4, <2>5, ScriptFacts
      <3>2. c < n
        BY ONLY <3>1, c \in Nat, d \in Nat, n \in Nat
      <3> QED
        BY <1>2, <2>3, <3>1, <3>2, StartFacts
    <2>8. Packet(script, j)[1] = script.stream[Start(script, j) + 1]
      <3>1. /\ Start(script, j) \in Nat /\ script.ends[j] \in Nat
            /\ Start(script, j) < script.ends[j]
            /\ \A m \in 1 .. script.ends[j] - Start(script, j) :
                  Packet(script, j)[m] = script.stream[Start(script, j) + m]
        BY <1>2, <2>7, PacketFacts
      <3>2. 1 \in 1 .. script.ends[j] - Start(script, j)
        BY <3>1
      <3> QED
        BY <3>1, <3>2
    <2>9. Packet(script, j)[1] # 31
      BY <1>2, <2>2, <2>7, ScriptFacts DEF Framable, IsFramed
    <2> QED
      BY <2>3, <2>5, <2>6, <2>8, <2>9
  <1>5. CASE ~KeyAccepted
    <2>1. AtBody(i)
      BY <1>1, <1>3, <1>5 DEF FrameInv, BodyInv, BodyStages
    <2>2. /\ i \in 1 .. Len(script.ends) /\ Len(Data) \in Nat
          /\ Len(consumed) \in Nat /\ Start(script, i) \in Nat
          /\ Len(consumed) = Start(script, i) + 5 /\ script.ends[i] \in Nat
          /\ Len(consumed) + Len(Data) = script.ends[i]
          /\ CanProcessAgain => Len(consumed') = script.ends[i]
      BY <1>1, <2>1, BodyRead
    <2>3. PICK k \in Nat \ {0} : k = 6
      OBVIOUS
    <2>4. PICK n \in Int : n = Len(Data) - 5
      <3>1. Len(Data) - 5 \in Int
        BY <2>2
      <3> QED
        BY <3>1, Zenon
    <2>5. /\ Len(consumed) + k + n - 1 <= script.ends[i] + 3
          /\ Start(script, i) <= Len(consumed)
      <3>1. PICK a \in Nat, c \in Nat, e \in Nat, l \in Nat :
               /\ a = Start(script, i) /\ c = Len(consumed) /\ e = script.ends[i]
               /\ l = Len(Data)
        BY <2>2
      <3>2. c = a + 5 /\ c + l = e /\ k = 6 /\ n = l - 5
        BY <2>2, <2>3, <2>4, <3>1
      <3>3. c + k + n - 1 <= e + 3 /\ a <= c
        BY ONLY <3>2, a \in Nat, c \in Nat, e \in Nat, l \in Nat
      <3> QED
        BY <3>1, <3>3
    <2>6. Place(k, n) \in Good(script)
      BY <1>2, <2>2, <2>5, PlaceGood
    <2>7. PICK S : S = <<Place(k, n)>> /\ S \in Seq(Good(script))
      BY <2>6, OneHanded
    <2>8. refuses(S) \/ (same_trigger /\ CanProcessAgain /\ accepts(S))
      BY <2>3, <2>4, <2>7 DEF ssh_certificate
    <2>9. CASE refuses(S)
      BY <1>1, <2>7, <2>9, RefusalEnds
    <2>10. CASE same_trigger /\ CanProcessAgain /\ accepts(S)
      <3>1. /\ UNCHANGED <<script, verdicts, stage, trigger, connected>>
            /\ given' = given \o S
        BY <2>10 DEF accepts, same_trigger, CanProcessAgain, conn
      <3>2. Len(consumed') = script.ends[3] /\ 3 <= Len(script.ends)
        BY <1>2, <1>3, <2>2, <2>10, ScriptFacts
      <3>3. GivenInv'
        BY <1>2, <2>7, <2>10, <3>1, Handed
      <3>4. given' # <<>>
        <4>1. given = <<>>
          BY <1>1, <1>5 DEF KeyAccepted
        <4>2. given' = <<Place(k, n)>>
          BY <2>7, <3>1, <4>1
        <4> QED
          BY <4>2
      <3>5. StageInv'
        BY <1>1, <1>2, <3>1 DEF StageInv, SSHStages, SSLStages
      <3>6. LineInv' /\ HeaderInv' /\ BodyInv' /\ KeyInv'
        BY <1>1, <3>1, <3>4, <3>2 DEF LineInv, HeaderInv, BodyInv, KeyInv, KeyAccepted,
                                HeaderStages, BodyStages
      <3> QED
        BY <3>3, <3>5, <3>6 DEF FrameInv
    <2> QED
      BY <2>8, <2>9, <2>10
  <1> QED
    BY <1>4, <1>5

LEMMA FrameSSH ==
    ASSUME PathInv, FrameInv, Framable, SSHStep
    PROVE  FrameInv'
PROOF
  <1>1. CASE ssh_invalid \/ ssh_reply_invalid
    BY <1>1, FailureEnds DEF ssh_invalid, ssh_reply_invalid
  <1>2. ASSUME NEW s, SSHAnswer_short(s)
        PROVE  FrameInv'
    <2>1. ConnectionEnd /\ UNCHANGED <<script, verdicts, stage, trigger, given>>
      BY <1>2 DEF SSHAnswer_short, ends, same_trigger
    <2>2. pc' = "end" /\ UNCHANGED <<consumed, connected>>
      BY <2>1 DEF ConnectionEnd, conn
    <2> QED
      BY <2>1, <2>2, FrameKept
  <1> QED
    BY <1>1, <1>2, FrameVersion, FrameSSHAnswer, FrameKex, FrameCertificate
       DEF SSHStep

---------------------------------------------------------------------------
(* SSL.                                                                   *)

LEMMA FrameTLSHeader ==
    ASSUME PathInv, FrameInv, Framable, NEW s, NEW next, on_tls_header(s, next),
           (s = "tls1" /\ next = "hs1") \/ (s = "tls2" /\ next = "hs2")
    PROVE  FrameInv'
PROOF
  <1>1. /\ pc \in {"data", "dirty"} /\ Cuts(trigger, buf, prev_pos) # {}
        /\ stage = s
    BY DEF on_tls_header, Called
  <1>2. CASE failure
    BY <1>2, FailureEnds
  <1>3. CASE goes_on(Size(Data[4]), next) /\ UNCHANGED <<script, verdicts, given>>
    <2>1. CanProcessAgain /\ trigger' = Size(Data[4]) /\ stage' = next
      BY <1>3 DEF goes_on
    <2>2. /\ script \in Scripts /\ script.proto = "ssl" /\ AtHeader(Number(stage))
          /\ connected'
      BY <1>1, <2>1 DEF PathInv, ReceivedInv, FrameInv, StageInv, HeaderInv, SSLStages,
                  HeaderStages, CanProcessAgain, conn
    <2>3. PICK i \in Nat : i = Number(stage) /\ i = Number(stage') /\ i \in {1, 2}
      BY <1>1, <2>1 DEF Number
    <2>4. i \in 1 .. Len(script.ends) => IsFramedTLS(Packet(script, i))
      BY <2>2, <2>3, ScriptFacts DEF Framable, IsFramed
    <2>5. i \in 1 .. Len(script.ends) => Len(Packet(script, i)) >= 5
      BY <2>4 DEF IsFramedTLS, SizeofTLS
    <2>6. /\ i \in 1 .. Len(script.ends)
          /\ \A k \in 1 .. 5 : Data[k] = Packet(script, i)[k]
          /\ Len(consumed') = Start(script, i) + 5
      BY <1>1, <2>1, <2>2, <2>3, <2>5, HeaderRead
    <2>7. Data[4] = Len(Packet(script, i)) - 5
      BY <2>4, <2>6 DEF IsFramedTLS, SizeofTLS
    <2>8. AtBody(i)'
      BY <1>3, <2>1, <2>6, <2>7, NextBody
    <2>9. AtBody(Number(stage))'
      BY <2>3, <2>8
    <2>10. StageInv'
      BY <1>1, <1>3, <2>1, <2>2 DEF StageInv, SSHStages, SSLStages
    <2>11. GivenInv'
      BY <1>3 DEF FrameInv, GivenInv, Good, Inside, Start
    <2>12. stage' \in BodyStages /\ stage' # "reply"
      BY <2>1 DEF BodyStages
    <2> QED
      BY <1>3, <2>9, <2>10, <2>11, <2>12, ToBody
  <1> QED
    BY <1>2, <1>3 DEF on_tls_header

\* The server's hello, whatever is handed over of it.
LEMMA FrameHello ==
    ASSUME PathInv, FrameInv, Framable, Called("hs1"), NEW S \in Seq(Good(script)),
           refuses(S) \/ (goes_on(Size(SizeofTLS), "tls2") /\ accepts(S))
    PROVE  FrameInv'
PROOF
  <1>1. /\ pc \in {"data", "dirty"} /\ Cuts(trigger, buf, prev_pos) # {}
        /\ stage = "hs1"
    BY DEF Called
  <1>2. CASE refuses(S)
    BY <1>1, <1>2, RefusalEnds
  <1>3. CASE goes_on(Size(SizeofTLS), "tls2") /\ accepts(S)
    <2>1. /\ CanProcessAgain /\ trigger' = Size(5) /\ stage' = "tls2"
          /\ UNCHANGED <<script, verdicts>>
      BY <1>3 DEF goes_on, accepts, SizeofTLS
    <2>2. /\ script \in Scripts /\ script.proto = "ssl" /\ AtBody(Number(stage))
          /\ connected' /\ GivenInv
      BY <1>1, <2>1 DEF PathInv, ReceivedInv, FrameInv, StageInv, BodyInv, SSLStages,
                  BodyStages, KeyAccepted, CanProcessAgain, conn
    <2>3. PICK i \in Nat, j \in Nat :
             i = Number(stage) /\ j = Number(stage') /\ j = i + 1
      BY <1>1, <2>1 DEF Number
    <2>4. i \in 1 .. Len(script.ends) /\ Len(consumed') = script.ends[i]
      BY <1>1, <2>1, <2>2, <2>3, BodyRead
    <2>5. j \in 1 .. Len(script.ends) + 1 /\ Len(consumed') = Start(script, j)
      BY <2>2, <2>3, <2>4, PacketFacts
    <2>6. AtHeader(Number(stage))'
      BY <2>1, <2>3, <2>5 DEF AtHeader, Start
    <2>7. StageInv'
      BY <2>1, <2>2 DEF StageInv, SSHStages, SSLStages
    <2>8. GivenInv'
      BY <1>3, <2>1, <2>2, Handed
    <2> QED
      BY <2>1, <2>6, <2>7, <2>8, ToHeader DEF HeaderStages
  <1> QED
    BY <1>2, <1>3

LEMMA FrameHandshake1 ==
    ASSUME PathInv, FrameInv, Framable, on_handshake1
    PROVE  FrameInv'
PROOF
  <1>1. /\ pc \in {"data", "dirty"} /\ Cuts(trigger, buf, prev_pos) # {}
        /\ stage = "hs1" /\ Len(Data) >= 7 /\ Called("hs1")
    BY DEF on_handshake1, Called
  <1>2. PICK i \in Nat : i = Number(stage)
    BY <1>1 DEF Number
  <1>3. script \in Scripts /\ AtBody(i)
    BY <1>1, <1>2 DEF PathInv, ReceivedInv, FrameInv, BodyInv, BodyStages, KeyAccepted
  <1>4. /\ i \in 1 .. Len(script.ends) /\ Len(Data) \in Nat
        /\ Len(consumed) \in Nat /\ Start(script, i) \in Nat
        /\ Len(consumed) = Start(script, i) + 5 /\ script.ends[i] \in Nat
        /\ Len(consumed) + Len(Data) = script.ends[i]
    BY <1>1, <1>3, BodyRead
  <1>5. PICK k \in Nat \ {0} : k = Len(Data) - 2
    <2>1. PICK l \in Nat : l = Len(Data) /\ l >= 7
      BY <1>1, <1>4
    <2>2. l - 2 \in Nat \ {0}
      BY ONLY <2>1, l \in Nat
    <2> QED
      BY <2>1, <2>2
  <1>6. PICK n \in Int : n = 2
    OBVIOUS
  <1>7. /\ Len(consumed) + k + n - 1 <= script.ends[i] + 3
        /\ Start(script, i) <= Len(consumed)
    <2>1. PICK a \in Nat, c \in Nat, e \in Nat, l \in Nat :
             /\ a = Start(script, i) /\ c = Len(consumed) /\ e = script.ends[i]
             /\ l = Len(Data)
      BY <1>4
    <2>2. c = a + 5 /\ c + l = e /\ k = l - 2 /\ n = 2
      BY <1>4, <1>5, <1>6, <2>1
    <2>3. c + k + n - 1 <= e + 3 /\ a <= c
      BY ONLY <2>2, a \in Nat, c \in Nat, e \in Nat, l \in Nat
    <2> QED
      BY <2>1, <2>3
  <1>8. Place(k, n) \in Good(script)
    BY <1>3, <1>4, <1>7, PlaceGood
  <1>9. PICK S : S = <<Place(k, n)>> /\ S \in Seq(Good(script))
    BY <1>8, OneHanded
  <1>10. refuses(S) \/ (goes_on(Size(SizeofTLS), "tls2") /\ accepts(S))
    BY <1>5, <1>6, <1>9 DEF on_handshake1
  <1> QED
    BY <1>1, <1>9, <1>10, FrameHello

LEMMA FrameHandshake1Wild ==
    ASSUME PathInv, FrameInv, Framable, on_handshake1_wild
    PROVE  FrameInv'
PROOF
  <1>1. pc \in {"data", "dirty"} /\ Called("hs1")
    BY DEF on_handshake1_wild, Called
  <1>2. [from |-> 0, len |-> 2] \in Good(script)
    BY DEF Good
  <1>3. PICK S : S = <<[from |-> 0, len |-> 2]>> /\ S \in Seq(Good(script))
    BY <1>2, OneHanded
  <1>4. \/ refuses(S)
        \/ goes_on(Size(SizeofTLS), "tls2") /\ accepts(S)
        \/ UNCHANGED <<script, verdicts, stage, trigger, consumed, given, connected>>
    BY <1>3 DEF on_handshake1_wild, proto, conn, hist
  <1>5. CASE UNCHANGED <<script, verdicts, stage, trigger, consumed, given, connected>>
    BY <1>1, <1>5, FrameKept
  <1> QED
    BY <1>1, <1>3, <1>4, <1>5, FrameHello

LEMMA FrameHandshake2 ==
    ASSUME PathInv, FrameInv, Framable, on_handshake2
    PROVE  FrameInv'
PROOF
  <1>1. /\ pc \in {"data", "dirty"} /\ Cuts(trigger, buf, prev_pos) # {}
        /\ stage = "hs2" /\ IsList(Data)
    BY DEF on_handshake2, Called
  <1>2. PICK i \in Nat : i = Number(stage)
    BY <1>1 DEF Number
  <1>3. script \in Scripts /\ AtBody(i) /\ GivenInv
    BY <1>1, <1>2 DEF PathInv, ReceivedInv, FrameInv, BodyInv, BodyStages, KeyAccepted
  <1>4. /\ i \in 1 .. Len(script.ends) /\ Data \in Seq(Bytes)
        /\ Len(consumed) \in Nat /\ Start(script, i) \in Nat
        /\ Len(consumed) = Start(script, i) + 5
        /\ Len(consumed) + Len(Data) = script.ends[i]
    BY <1>1, <1>3, BodyRead
  <1>5. Len(Data) >= 4
    BY <1>1 DEF IsList, IsHandshake, SizeofHandshake
  <1>6. PICK S : S = list_certificates(Data).places /\ S \in Seq(Good(script))
    BY <1>3, <1>4, <1>5, CertificatesGood
  <1>7. refuses(S) \/ (same_trigger /\ ConnectionEnd /\ accepts(S))
    BY <1>6 DEF on_handshake2, ends, Framable
  <1>8. CASE refuses(S)
    BY <1>1, <1>6, <1>8, RefusalEnds
  <1>9. CASE same_trigger /\ ConnectionEnd /\ accepts(S)
    <2>1. UNCHANGED <<script, verdicts, stage, trigger, consumed, connected>>
      BY <1>9 DEF same_trigger, accepts, ConnectionEnd, conn
    <2>2. GivenInv'
      BY <1>3, <1>6, <1>9, <2>1, Handed
    <2>3. StageInv'
      BY <1>1, <2>1 DEF FrameInv, StageInv
    <2>4. LineInv' /\ HeaderInv' /\ KeyInv'
      BY <1>1, <2>1 DEF LineInv, HeaderInv, HeaderStages, KeyInv, KeyAccepted
    <2>5. BodyInv'
      BY <1>1, <2>1 DEF FrameInv, BodyInv, AtBody, Start, KeyAccepted
    <2> QED
      BY <2>2, <2>3, <2>4, <2>5 DEF FrameInv
  <1> QED
    BY <1>7, <1>8, <1>9

LEMMA FrameSSL ==
    ASSUME PathInv, FrameInv, Framable, SSLStep
    PROVE  FrameInv'
PROOF
  <1>1. CASE on_tls_header("tls1", "hs1") \/ on_tls_header("tls2", "hs2")
    BY <1>1, FrameTLSHeader
  <1>2. CASE handshake_invalid("hs1", 2) \/ (Called("hs2") /\ ~IsList(Data) /\ failure)
    BY <1>2, FailureEnds DEF handshake_invalid
  <1>3. CASE on_handshake1 \/ on_handshake1_wild \/ on_handshake2
    BY <1>3, FrameHandshake1, FrameHandshake1Wild, FrameHandshake2
  <1> QED
    BY <1>1, <1>2, <1>3, Zenon DEF SSLStep

---------------------------------------------------------------------------
(* SIP.                                                                   *)

\* The value of a header ends where its line does.
LEMMA TerminatedLine ==
    ASSUME NEW d \in Seq(Bytes), IsLine(d)
    PROVE  /\ Len(d) \in Nat \ {0} /\ DOMAIN d = 1 .. Len(d)
           /\ terminated(d, d)[Len(d)] = 0
           /\ \A q \in 1 .. Len(d) :
                 q # Len(d) /\ ~IsFirstColon(q, d) => terminated(d, d)[q] = d[q]
           /\ \A q \in 1 .. Len(d) : terminated(d, d)[q] \in {0, d[q]}
PROOF
  <1>1. Len(d) \in Nat /\ DOMAIN d = 1 .. Len(d) /\ Len(d) # 0
    BY LenProperties, EmptySeq DEF IsLine
  <1>2. \A q \in 1 .. Len(d) :
           terminated(d, d)[q] = IF q = Len(d) \/ IsFirstColon(q, d) THEN 0 ELSE d[q]
    BY <1>1 DEF terminated, terminators
  <1>3. Len(d) \in 1 .. Len(d)
    BY <1>1
  <1> QED
    BY <1>1, <1>2, <1>3

\* The value is the rest of a line, or a part of it.
LEMMA HeaderValue ==
    ASSUME NEW d \in Seq(Bytes), IsHeader(d)
    PROVE  \E k \in Nat \ {0}, n \in Nat :
              header_value(d) = Place(k, n) /\ k + n <= Len(d)
PROOF
  <1>1. Len(d) \in Nat /\ DOMAIN d = 1 .. Len(d) /\ IsLine(d) /\ d[Len(d)] = CR
    BY LenProperties DEF IsHeader, IsLine
  <1> DEFINE T == {i \in 1 .. Len(d) : d[i] = Colon}
  <1>2. T \in SUBSET Nat /\ T # {}
    BY <1>1 DEF IsHeader
  <1>3. PICK m \in T : \A j \in T : m <= j
    <2> HIDE DEF T
    <2> QED
      BY <1>2, LeastNatural
  <1>4. m \in DOMAIN d /\ IsFirstColon(m, d)
    BY <1>1, <1>3 DEF IsFirstColon
  <1>5. PICK c \in 1 .. Len(d) :
           c = (CHOOSE i \in DOMAIN d : IsFirstColon(i, d)) /\ IsFirstColon(c, d)
    BY <1>1, <1>4
  <1>6. c \in Nat /\ c >= 1 /\ c < Len(d)
    <2>1. CR # Colon
      BY DEF CR, Colon
    <2>2. c # Len(d)
      BY <1>1, <1>5, <2>1 DEF IsFirstColon
    <2>3. PICK e \in Nat : e = Len(d)
      BY <1>1
    <2>4. c \in 1 .. e /\ c # e
      BY <2>2, <2>3
    <2>5. c \in Nat /\ c >= 1 /\ c < e
      BY ONLY <2>4, e \in Nat
    <2> QED
      BY <2>3, <2>5
  <1>7. PICK z : z = terminated(d, d)
    OBVIOUS
  <1>8. z[Len(d)] = 0
    BY <1>1, <1>7, TerminatedLine
  <1>9. PICK v : v = IF z[c + 1] # 0 /\ z[c + 2] = Space THEN c + 2 ELSE c + 1
    OBVIOUS
  <1>10. v \in Nat \ {0} /\ v <= Len(d)
    <2>1. CASE z[c + 1] # 0 /\ z[c + 2] = Space
      <3>1. c + 1 # Len(d)
        BY <1>8, <2>1
      <3>2. v = c + 2
        BY <1>9, <2>1
      <3>3. PICK e \in Nat : e = Len(d) /\ c < e /\ c + 1 # e
        BY <1>1, <1>6, <3>1
      <3>4. v \in Nat \ {0} /\ v <= e
        BY ONLY <1>6, <3>2, <3>3, e \in Nat
      <3> QED
        BY <3>3, <3>4
    <2>2. CASE ~(z[c + 1] # 0 /\ z[c + 2] = Space)
      <3>1. v = c + 1
        BY <1>9, <2>2
      <3>2. PICK e \in Nat : e = Len(d) /\ c < e
        BY <1>1, <1>6
      <3>3. v \in Nat \ {0} /\ v <= e
        BY ONLY <1>6, <3>1, <3>2, e \in Nat
      <3> QED
        BY <3>2, <3>3
    <2> QED
      BY <2>1, <2>2
  <1> DEFINE N == {n \in 0 .. Len(d) - v : z[v + n] = 0}
  <1>11. N \in SUBSET Nat /\ N # {}
    <2>1. Len(d) - v \in 0 .. Len(d) - v /\ v + (Len(d) - v) = Len(d)
      BY <1>1, <1>10
    <2>2. Len(d) - v \in N
      BY <1>8, <2>1
    <2>3. PICK e \in Int : e = Len(d) - v
      <3>1. Len(d) \in Int /\ v \in Int
        BY <1>1, <1>10
      <3>2. Len(d) - v \in Int
        BY ONLY <3>1
      <3> QED
        BY ONLY <3>2
    <2>4. 0 .. e \subseteq Nat
      OBVIOUS
    <2>5. N \subseteq 0 .. e
      BY ONLY <2>3
    <2> HIDE DEF N
    <2> QED
      BY ONLY <2>2, <2>4, <2>5
  <1>12. PICK l \in N : \A n \in N : l <= n
    <2> HIDE DEF N
    <2> QED
      BY <1>11, LeastNatural
  <1>13. /\ l \in 0 .. Len(d) - v /\ z[v + l] = 0
         /\ \A j \in 0 .. l - 1 : z[v + j] # 0
    <2>1. \A j \in 0 .. l - 1 : j \in 0 .. Len(d) - v /\ ~(l <= j)
      BY <1>1, <1>10, <1>12
    <2> QED
      BY <1>12, <2>1
  <1>14. PICK n \in 0 .. Len(d) - v :
            n = CHOOSE x \in 0 .. Len(d) - v :
                   z[v + x] = 0 /\ \A j \in 0 .. x - 1 : z[v + j] # 0
    BY <1>13
  <1>15. header_value(d) = Place(v, n)
    BY <1>5, <1>7, <1>9, <1>14 DEF header_value
  <1>16. n \in Nat /\ v + n <= Len(d)
    BY <1>1, <1>10
  <1> QED
    BY <1>10, <1>15, <1>16

LEMMA FrameSIP ==
    ASSUME PathInv, FrameInv, Framable, SIPStep
    PROVE  FrameInv'
PROOF
  <1>1. /\ pc \in {"data", "dirty"} /\ Cuts(trigger, buf, prev_pos) # {}
        /\ stage = "line"
    BY DEF SIPStep, sip_invalid, sip_status, sip_end, sip_header, Called
  <1>2. /\ script \in Scripts /\ script.proto = "sip" /\ trigger = Char(NL)
        /\ StageInv /\ GivenInv
    BY <1>1 DEF PathInv, ReceivedInv, FrameInv, StageInv, LineInv
  <1>3. PICK i \in 1 .. Len(script.ends) + 1 : Len(consumed) = Start(script, i)
    BY <1>1 DEF FrameInv, LineInv
  <1>4. i \in 1 .. Len(script.ends) => IsFramedLine(Packet(script, i))
    BY <1>2, ScriptFacts DEF Framable, IsFramed
  <1>5. /\ i \in 1 .. Len(script.ends) /\ Data \in Seq(Bytes)
        /\ Len(Data) = script.ends[i] - Len(consumed) - 1
        /\ Len(consumed) \in Nat /\ script.ends[i] \in Nat
        /\ CanProcessAgain => Len(consumed') = script.ends[i]
    BY <1>1, <1>2, <1>3, <1>4, LineCut
  <1>6. ASSUME CanProcessAgain, same_trigger, UNCHANGED <<script, verdicts>>, GivenInv'
        PROVE  FrameInv'
    <2>1. UNCHANGED <<stage, trigger, connected>>
      BY <1>6 DEF same_trigger, CanProcessAgain, conn
    <2>2. /\ i + 1 \in 1 .. Len(script.ends) + 1
          /\ Len(consumed') = Start(script, i + 1)
      BY <1>2, <1>5, <1>6, PacketFacts
    <2>3. StageInv'
      BY <1>1, <1>2, <1>6, <2>1 DEF StageInv, SSHStages, SSLStages
    <2>4. LineInv'
      BY <1>1, <1>2, <1>6, <2>1, <2>2 DEF LineInv, Start
    <2>5. HeaderInv' /\ BodyInv' /\ KeyInv'
      BY <1>1, <2>1 DEF HeaderInv, BodyInv, KeyInv, HeaderStages, BodyStages,
                        KeyAccepted
    <2> QED
      BY <1>6, <2>3, <2>4, <2>5 DEF FrameInv
  <1>7. CASE sip_invalid
    BY <1>7, FailureEnds DEF sip_invalid
  <1>8. CASE sip_status
    <2>1. CanProcessAgain /\ same_trigger /\ UNCHANGED <<script, verdicts, given>>
      BY <1>8 DEF sip_status
    <2>2. GivenInv'
      BY <1>2, <2>1 DEF GivenInv, Good, Inside, Start
    <2> QED
      BY <1>6, <2>1, <2>2
  <1>9. CASE sip_end
    <2>1. ConnectionEnd /\ UNCHANGED <<script, verdicts, stage, trigger, given>>
      BY <1>9 DEF sip_end, ends, same_trigger
    <2>2. pc' = "end" /\ UNCHANGED <<consumed, connected>>
      BY <2>1 DEF ConnectionEnd, conn
    <2> QED
      BY <2>1, <2>2, FrameKept
  <1>10. CASE sip_header
    <2>1. PICK k \in Nat \ {0}, n \in Nat :
             header_value(Data) = Place(k, n) /\ k + n <= Len(Data)
      BY <1>5, <1>10, HeaderValue DEF sip_header
    <2>2. /\ Len(consumed) + k + n - 1 <= script.ends[i] + 3
          /\ Start(script, i) <= Len(consumed)
      <3>1. PICK l \in Nat, e \in Nat : l = Len(consumed) /\ e = script.ends[i]
        BY <1>5
      <3>2. k + n <= e - l - 1
        BY <1>5, <2>1, <3>1
      <3>3. l + k + n - 1 <= e + 3
        BY ONLY <3>2, k \in Nat, n \in Nat, l \in Nat, e \in Nat
      <3> QED
        BY <1>3, <3>1, <3>3
    <2>3. Place(k, n) \in Good(script)
      BY <1>2, <1>5, <2>2, PlaceGood
    <2>4. PICK S : S = <<Place(k, n)>> /\ S \in Seq(Good(script))
      BY <2>3, OneHanded
    <2>5. refuses(S) \/ (same_trigger /\ CanProcessAgain /\ accepts(S))
      BY <1>10, <2>1, <2>4 DEF sip_header
    <2>6. CASE refuses(S)
      BY <1>1, <2>4, <2>6, RefusalEnds
    <2>7. CASE same_trigger /\ CanProcessAgain /\ accepts(S)
      <3>1. UNCHANGED <<script, verdicts>>
        BY <2>7 DEF accepts
      <3>2. GivenInv'
        BY <1>2, <2>4, <2>7, <3>1, Handed
      <3> QED
        BY <1>6, <2>7, <3>1, <3>2
    <2> QED
      BY <2>5, <2>6, <2>7
  <1> QED
    BY <1>7, <1>8, <1>9, <1>10 DEF SIPStep

---------------------------------------------------------------------------
(* The theorems.                                                          *)

LEMMA FrameStep ==
    ASSUME PathInv, FrameInv, [ProtoNext]_protoVars
    PROVE  FrameInv'
PROOF
  <1>1. UNCHANGED <<script, verdicts>>
    BY PathStep
  <1> SUFFICES ASSUME Framable
               PROVE  FrameInv'
    BY <1>1, FramableKept DEF FrameInv
  <1>2. CASE UNCHANGED <<pc, stage, trigger, consumed, given, connected>>
    BY <1>1, <1>2, FrameKept
  <1>3. CASE UNCHANGED protoVars \/ ProtoRest
    <2>1. UNCHANGED <<pc, stage, trigger, consumed, given, connected>>
      BY <1>3 DEF ProtoRest, protoVars, vars, proto, hist, conn
    <2> QED
      BY <1>2, <2>1
  <1>4. ASSUME NEW n \in 1 .. (Len(script.stream) - Len(received)), data(n)
        PROVE  FrameInv'
    <2>1. pc = "idle" /\ UNCHANGED <<stage, trigger, consumed, given, connected>>
      BY <1>4 DEF data, process_lvl4_data, proto, conn
    <2> QED
      BY <1>1, <2>1, FrameKept
  <1>5. CASE process_buffer /\ UNCHANGED proto
    <2>1. pc = "idle" /\ UNCHANGED <<stage, trigger, consumed, given, connected>>
      BY <1>5 DEF process_buffer, proto, conn, hist
    <2> QED
      BY <1>1, <2>1, FrameKept
  <1>6. CASE NoMoreToProcess /\ UNCHANGED proto
    <2>1. pc # "end" /\ UNCHANGED <<stage, trigger, consumed, given, connected>>
      BY <1>6 DEF NoMoreToProcess, proto, conn, hist
    <2> QED
      BY <1>1, <2>1, FrameKept
  <1>7. CASE Turn
    BY <1>6, <1>7, FrameSSH, FrameSSL, FrameSIP DEF Turn
  <1> QED
    BY <1>3, <1>4, <1>5, <1>7, FrameConnect DEF ProtoNext

LEMMA FrameInvFramed == PathInv /\ FrameInv => Framed
PROOF
  <1> SUFFICES ASSUME PathInv, FrameInv, Framable
               PROVE  Framed
    BY DEF Framed
  <1>1. script \in Scripts /\ DOMAIN script.ends = 1 .. Len(script.ends)
    BY ScriptFacts DEF PathInv, ReceivedInv
  <1>2. ASSUME stage \in {"version", "line", "kex_header", "reply_header", "tls1",
                          "tls2"}
        PROVE  \E i \in 1 .. Len(script.ends) + 1 : Len(consumed) = Start(script, i)
    BY <1>2 DEF FrameInv, LineInv, HeaderInv, HeaderStages, AtHeader
  <1>3. ASSUME stage \in {"kex", "reply", "hs1", "hs2"}, ~KeyAccepted
        PROVE  \E i \in DOMAIN script.ends :
                  /\ Len(consumed) = Start(script, i) + 5
                  /\ trigger = Size(script.ends[i] - Len(consumed))
    BY <1>1, <1>3 DEF FrameInv, BodyInv, BodyStages, AtBody
  <1>4. ASSUME NEW k \in DOMAIN given, given[k].from > 0
        PROVE  \E i \in DOMAIN script.ends :
                  /\ given[k].from > Start(script, i)
                  /\ given[k].from + given[k].len - 1 <= script.ends[i] + 3
    <2> DEFINE G == Good(script)
    <2>1. given \in Seq(G)
      BY DEF FrameInv, GivenInv
    <2> HIDE DEF G
    <2>2. given[k] \in G
      BY <2>1, LenProperties, ElementOfSeq
    <2> QED
      BY <1>4, <2>2 DEF G, Good, Inside
  <1> QED
    BY <1>2, <1>3, <1>4 DEF Framed

\* However its packets are cut into reads, the helpers stay in step with any
\* peer that frames them: a header is read where a packet starts, what is
\* waited for after it is the rest of that packet, and what the user is handed
\* lies inside of it.
THEOREM AlwaysFramed == ProtoSpec => []Framed
PROOF
  <1>1. ProtoInit => PathInv /\ FrameInv
    BY PathInit, FrameInit
  <1>2. PathInv /\ FrameInv /\ [ProtoNext]_protoVars => (PathInv /\ FrameInv)'
    BY PathStep, FrameStep
  <1>3. PathInv /\ FrameInv => Framed
    BY FrameInvFramed
  <1> QED
    BY <1>1, <1>2, <1>3, PTL DEF ProtoSpec

\* The helpers use the data path as any callbacks may, and nothing else
\* touches it: every step of process_lvl4_data and process_buffer under them is
\* one of Lvl4Stream, with the zeros that the SIP helper writes into the line
\* it is given, except for the crash on a short hello. So its promises, proved
\* for any callbacks and anything they write, are theirs until then. (What the
\* zeros do to the bytes left in the buffer is BufferKeptAsSent.)
THEOREM HelpersImplementStream ==
    ProtoSpec => /\ Init /\ [][Next \/ Crash]_vars
                 /\ [](pc # "crashed" => Lossless /\ SegmentsExact)
PROOF
  <1>1. PathInv /\ [ProtoNext]_protoVars => [Next \/ Crash]_vars
    <2> SUFFICES ASSUME PathInv, [ProtoNext]_protoVars
                 PROVE  Next \/ Crash \/ UNCHANGED vars
      OBVIOUS
    <2>1. CASE UNCHANGED protoVars \/ ProtoRest
      BY <2>1 DEF ProtoRest, protoVars
    <2>2. CASE SSH \/ SSL \/ SIP
      BY <2>2 DEF SSH, SSL, SIP, connect, Next
    <2>3. CASE process_buffer
      BY <2>3 DEF Next
    <2>4. CASE Turn
      BY <2>4, TurnIsLoop DEF Next
    <2>5. ASSUME NEW n \in 1 .. (Len(script.stream) - Len(received)), data(n)
          PROVE  Next
      <3> DEFINE c == SubSeq(script.stream, Len(received) + 1, Len(received) + n)
      <3>1. process_lvl4_data(c) /\ pc = "idle"
        BY <2>5 DEF data, process_lvl4_data
      <3>2. TypeOK /\ ReceivedInv
        BY <3>1 DEF PathInv, StreamInv
      <3>3. c \in Chunks
        BY <3>2, ChunkOfStream
      <3> HIDE DEF c
      <3> QED
        BY <3>1, <3>3 DEF Next
    <2> QED
      BY <2>1, <2>2, <2>3, <2>4, <2>5 DEF ProtoNext
  <1>2. PathInv => (pc # "crashed" => Lossless /\ SegmentsExact)
    BY DEF PathInv, StreamInv
  <1>3. ProtoInit => Init /\ PathInv
    BY PathInit DEF ProtoInit
  <1>4. PathInv /\ [ProtoNext]_protoVars => PathInv'
    BY PathStep
  <1> QED
    BY <1>1, <1>2, <1>3, <1>4, PTL DEF ProtoSpec

---------------------------------------------------------------------------
(* What is left in the buffer.                                            *)

\* The trigger of the SIP helper is the one it armed first.
LineTrigger == stage = "line" => trigger = Char(NL) /\ script.proto = "sip"

\* The inductive invariant: before the end, PathInv says what the buffer is.
KeptInv == LineTrigger /\ (pc = "end" => KeptAsSent)

\* Only the answer false of a callback ends a connection.
LEMMA EndsOnly ==
    ASSUME [ProtoNext]_protoVars, pc' = "end"
    PROVE  ends \/ UNCHANGED protoVars
PROOF
  <1> SUFFICES ASSUME ~ends, ProtoNext
               PROVE  UNCHANGED protoVars
    OBVIOUS
  <1>1. ~CanProcessAgain /\ ~NoMoreToProcess
    BY DEF CanProcessAgain, NoMoreToProcess
  <1>2. ~failure /\ (\A S : ~refuses(S)) /\ (\A t, s : ~goes_on(t, s))
    BY <1>1 DEF failure, refuses, goes_on
  <1>3. ~SSHStep
    BY <1>1, <1>2 DEF SSHStep, ssh_invalid, ssh_version, ssh_kex, SSHAnswer,
       SSHAnswer_short, ssh_reply_invalid, ssh_certificate
  <1>4. ~SSLStep
    <2>1. \A s, next : ~on_tls_header(s, next)
      BY <1>2 DEF on_tls_header
    <2>2. ~on_handshake1 /\ ~on_handshake2
      BY <1>1, <1>2 DEF on_handshake1, on_handshake2
    <2>3. ~on_handshake1_wild
      BY <1>2 DEF on_handshake1_wild
    <2> QED
      BY <1>2, <2>1, <2>2, <2>3 DEF SSLStep, handshake_invalid
  <1>5. ~SIPStep
    BY <1>1, <1>2 DEF SIPStep, sip_invalid, sip_status, sip_end, sip_header
  <1>6. ~Turn
    BY <1>1, <1>3, <1>4, <1>5 DEF Turn
  <1>7. ~SSH /\ ~SSL /\ ~SIP
    BY DEF SSH, SSL, SIP, connect
  <1>8. ~process_buffer /\ \A n : ~data(n)
    BY DEF process_buffer, data, process_lvl4_data
  <1>9. ProtoRest
    BY <1>6, <1>7, <1>8 DEF ProtoNext
  <1> QED
    BY <1>9 DEF ProtoRest

\* Nothing replaces that trigger.
LEMMA LineTriggerKept ==
    ASSUME LineTrigger, [ProtoNext]_protoVars, UNCHANGED script
    PROVE  LineTrigger'
PROOF
  <1>1. UNCHANGED <<trigger, stage>> => LineTrigger'
    BY DEF LineTrigger
  <1>2. /\ failure => UNCHANGED <<trigger, stage>>
        /\ \A S : refuses(S) => UNCHANGED <<trigger, stage>>
        /\ same_trigger => UNCHANGED <<trigger, stage>>
    BY DEF failure, refuses, same_trigger
  <1>3. \A t, s : s # "line" /\ goes_on(t, s) => LineTrigger'
    BY DEF goes_on, LineTrigger
  <1>4. CASE SSHStep
    BY <1>1, <1>2, <1>3, <1>4
       DEF SSHStep, ssh_invalid, ssh_version, ssh_kex, SSHAnswer, SSHAnswer_short,
           ssh_reply_invalid, ssh_certificate
  <1>5. CASE SSLStep
    <2>1. \A s, next : next # "line" /\ on_tls_header(s, next) => LineTrigger'
      BY <1>1, <1>2, <1>3 DEF on_tls_header
    <2>2. on_handshake1 \/ on_handshake2 => LineTrigger'
      BY <1>1, <1>2, <1>3 DEF on_handshake1, on_handshake2
    <2>3. on_handshake1_wild => LineTrigger'
      BY <1>1, <1>2, <1>3 DEF on_handshake1_wild, proto
    <2> QED
      BY <1>1, <1>2, <1>5, <2>1, <2>2, <2>3 DEF SSLStep, handshake_invalid
  <1>6. CASE SIPStep
    BY <1>1, <1>2, <1>6 DEF SIPStep, sip_invalid, sip_status, sip_end, sip_header
  <1>7. CASE NoMoreToProcess /\ UNCHANGED proto
    BY <1>1, <1>7 DEF NoMoreToProcess, proto
  <1>8. CASE SSH \/ SSL \/ SIP
    BY <1>8 DEF SSH, SSL, SIP, connect, LineTrigger
  <1>9. CASE process_buffer /\ UNCHANGED proto
    BY <1>1, <1>9 DEF process_buffer, proto
  <1>10. ASSUME NEW n, data(n)
         PROVE  LineTrigger'
    BY <1>1, <1>10 DEF data, process_lvl4_data, proto
  <1>11. CASE ProtoRest \/ UNCHANGED protoVars
    BY <1>1, <1>11 DEF ProtoRest, protoVars, vars, proto
  <1> QED
    BY <1>4, <1>5, <1>6, <1>7, <1>8, <1>9, <1>10, <1>11 DEF ProtoNext, Turn

\* What the SIP helper is given: the next bytes the peer said, no NL in them.
LEMMA LineData ==
    ASSUME PathInv, pc \in {"data", "dirty"}, Cuts(trigger, buf, prev_pos) # {},
           trigger = Char(NL)
    PROVE  /\ Data \in Seq(Bytes) /\ Len(Data) \in Nat /\ Len(Data) <= Len(buf)
           /\ \A k \in 1 .. Len(Data) : Data[k] = buf[k] /\ buf[k] # NL
PROOF
  <1>1. /\ trigger \in DataTriggers /\ buf \in Seq(Bytes) /\ prev_pos \in Nat
        /\ ScannedInv /\ TypeOK /\ Len(buf) \in Nat
    BY LenProperties DEF PathInv, StreamInv, TypeOK
  <1>2. trigger.kind = "char" /\ trigger.c = NL
    BY DEF Char
  <1>3. PICK n \in Cuts(trigger, buf, prev_pos) :
           n \in 0 .. Len(buf) /\ Data = Segment(trigger, buf, n)
    BY CutData
  <1>4. /\ n \in 1 .. Len(buf) /\ n > prev_pos
        /\ \A j \in 1 .. Len(buf) : j > prev_pos /\ buf[j] = NL => n <= j
    BY <1>1, <1>2, <1>3, CutsOf, DelimitersRange
  <1>5. PICK m \in 0 .. Len(buf) : m = n - 1
    BY <1>1, <1>4
  <1>6. Data = SubSeq(buf, 1, m)
    BY <1>2, <1>3, <1>5 DEF Segment
  <1>7. /\ Data \in Seq(Bytes) /\ Len(Data) = m
        /\ \A k \in 1 .. m : Data[k] = buf[k]
    BY <1>1, <1>5, <1>6, PopMoves
  <1>8. ASSUME NEW k \in 1 .. m
        PROVE  buf[k] # NL
    <2>1. k \in 1 .. Len(buf) /\ ~(n <= k)
      BY <1>1, <1>4, <1>5
    <2>2. CASE k > prev_pos
      BY <1>4, <2>1, <2>2
    <2>3. CASE ~(k > prev_pos)
      <3>1. k \in 1 .. prev_pos
        BY <1>1, <2>3
      <3> QED
        BY <1>1, <1>2, <3>1 DEF ScannedInv
    <2> QED
      BY <2>2, <2>3
  <1> QED
    BY <1>1, <1>5, <1>7, <1>8

\* What a helper leaves in the buffer when it ends the connection.
LEMMA EndKept ==
    ASSUME PathInv, PathInv', LineTrigger, UNCHANGED script, ends
    PROVE  KeptAsSent'
PROOF
  <1>1. /\ pc \in {"data", "dirty"} /\ pc' = "end"
        /\ Cuts(trigger, buf, prev_pos) # {} /\ UNCHANGED <<consumed, received>>
    BY DEF ends, ConnectionEnd
  <1>2. /\ buf \in Seq(Bytes) /\ Len(buf) \in Nat /\ DOMAIN buf = 1 .. Len(buf)
        /\ Len(consumed) \in Nat
        /\ \A j \in 1 .. Len(buf) : buf[j] = script.stream[Len(consumed) + j]
    BY <1>1, BufferIs, LenProperties DEF PathInv, StreamInv, TypeOK
  <1>3. Len(consumed') + Len(buf') = Len(received')
    <2>1. buf' \in Seq(Bytes) /\ consumed' \in Seq(Bytes) /\ Lossless'
      BY <1>1 DEF PathInv, StreamInv, TypeOK
    <2>2. Len(received') = Len(consumed' \o buf')
      BY <1>1, <2>1 DEF Lossless
    <2> QED
      BY <2>1, <2>2, ConcatProperties
  <1> DEFINE said(j) == script.stream[Len(consumed) + j]
             zeroed(i) == /\ script.proto = "sip"
                          /\ buf'[i] = 0 /\ said(i) \in {CR, Colon}
                          /\ \A j \in 1 .. i : said(j) # NL
  <1>4. DOMAIN buf' = 1 .. Len(buf)
    BY <1>2 DEF ends, terminated
  <1>5. ASSUME NEW i \in 1 .. Len(buf)
        PROVE  buf'[i] = said(i) \/ zeroed(i)
    <2>1. CASE stage # "line"
      BY <1>2, <2>1 DEF ends
    <2>2. CASE stage = "line"
      <3>1. trigger = Char(NL) /\ script.proto = "sip"
        BY <2>2 DEF LineTrigger
      <3>2. /\ Data \in Seq(Bytes) /\ Len(Data) \in Nat /\ Len(Data) <= Len(buf)
            /\ \A k \in 1 .. Len(Data) : Data[k] = buf[k] /\ buf[k] # NL
        BY <1>1, <3>1, LineData
      <3>3. buf'[i] = IF i \in terminators(Data) THEN 0 ELSE buf[i]
        BY <1>2, <2>2 DEF ends, terminated
      <3>4. CASE i \in terminators(Data)
        <4>1. /\ i \in 1 .. Len(Data) /\ i \in Nat
              /\ Data[i] = CR \/ Data[i] = Colon
          BY <3>2, <3>4, LenProperties DEF terminators, IsLine, IsFirstColon
        <4>2. said(i) \in {CR, Colon}
          BY <1>2, <3>2, <4>1
        <4>3. ASSUME NEW j \in 1 .. i
              PROVE  said(j) # NL
          <5>1. j \in 1 .. Len(Data) /\ j \in 1 .. Len(buf)
            BY <1>2, <3>2, <4>1
          <5> QED
            BY <1>2, <3>2, <5>1
        <4> QED
          BY <3>1, <3>3, <3>4, <4>2, <4>3
      <3>5. CASE i \notin terminators(Data)
        BY <1>2, <3>3, <3>5
      <3> QED
        BY <3>4, <3>5
    <2> QED
      BY <2>1, <2>2
  <1>6. \A i \in DOMAIN buf' :
           \/ buf'[i] = script'.stream[Len(consumed') + i]
           \/ /\ pc' = "end" /\ script'.proto = "sip"
              /\ buf'[i] = 0 /\ script'.stream[Len(consumed') + i] \in {CR, Colon}
              /\ \A j \in 1 .. i : script'.stream[Len(consumed') + j] # NL
    BY <1>1, <1>4, <1>5
  <1> QED
    BY <1>3, <1>6 DEF KeptAsSent

LEMMA KeptInvKept == PathInv /\ KeptInv => KeptAsSent
PROOF
  <1> SUFFICES ASSUME PathInv, KeptInv, pc \notin {"crashed", "end"}
               PROVE  KeptAsSent
    BY DEF KeptInv, KeptAsSent
  <1>1. /\ buf \in Seq(Bytes) /\ consumed \in Seq(Bytes) /\ Lossless
        /\ pc # "failed"
    BY DEF PathInv, StreamInv, TypeOK
  <1>2. Len(consumed) + Len(buf) = Len(received)
    <2>1. Len(received) = Len(consumed \o buf)
      BY <1>1 DEF Lossless
    <2> QED
      BY <1>1, <2>1, ConcatProperties
  <1>3. \A i \in DOMAIN buf : buf[i] = script.stream[Len(consumed) + i]
    BY <1>1, BufferIs, LenProperties
  <1> QED
    BY <1>2, <1>3 DEF KeptAsSent

\* The finish callback finds in the buffer what the peer said and no data
\* callback was done with, nothing missing and nothing altered, but for the
\* zeros that the SIP helper wrote over a CR or a colon of its last line.
THEOREM BufferKeptAsSent == ProtoSpec => []KeptAsSent
PROOF
  <1>1. ProtoInit => PathInv /\ KeptInv
    <2>1. ProtoInit => KeptInv
      BY DEF ProtoInit, Init, KeptInv, LineTrigger
    <2> QED
      BY <2>1, PathInit
  <1>2. PathInv /\ KeptInv /\ [ProtoNext]_protoVars => (PathInv /\ KeptInv)'
    <2> SUFFICES ASSUME PathInv, KeptInv, [ProtoNext]_protoVars
                 PROVE  (PathInv /\ KeptInv)'
      OBVIOUS
    <2>1. PathInv' /\ UNCHANGED <<script, verdicts>>
      BY PathStep
    <2>2. LineTrigger'
      BY <2>1, LineTriggerKept DEF KeptInv
    <2>3. ASSUME pc' = "end"
          PROVE  KeptAsSent'
      <3>1. CASE ends
        BY <2>1, <3>1, EndKept DEF KeptInv
      <3>2. CASE UNCHANGED protoVars
        BY <2>3, <3>2 DEF KeptInv, KeptAsSent, protoVars, vars, hist, proto
      <3> QED
        BY <2>3, <3>1, <3>2, EndsOnly
    <2> QED
      BY <2>1, <2>2, <2>3 DEF KeptInv
  <1>3. PathInv /\ KeptInv => KeptAsSent
    BY KeptInvKept
  <1> QED
    BY <1>1, <1>2, <1>3, PTL DEF ProtoSpec

---------------------------------------------------------------------------
(* What the user is given by a peer that does as it should.               *)

Places == [from : Nat, len : Int]

\* What was given so far is the beginning of what the peer means.
AsSent ==
    /\ given \in Seq(Places) /\ Len(given) <= Len(script.results)
    /\ \A k \in 1 .. Len(given) : Covers(given[k], script.results[k])

\* The bytes taken as an SSH reply, and where they are.
AnswerSize(v) == Packet(script, v + 2)[1] + Packet(script, v + 2)[5] - 7
AnswerFrom(v) == Start(script, v + 2) + 5

\* Where the SSH helper is, and how many messages it has sent.
SSHAt(v) ==
    \/ /\ stage = "version" /\ trigger = Char(NL) /\ sent = 1 /\ Len(given) = 0
       /\ \E i \in 1 .. v : Len(consumed) = Start(script, i)
    \/ stage = "kex_header" /\ AtHeader(v + 1) /\ sent = 3 /\ Len(given) = 0
    \/ stage = "kex" /\ AtBody(v + 1) /\ sent = 3 /\ Len(given) = 0
    \/ stage = "reply_header" /\ AtHeader(v + 2) /\ sent = 3 /\ Len(given) = 0
    \/ /\ stage = "reply" /\ trigger = Size(AnswerSize(v)) /\ sent = 3
       /\ \/ Len(given) = 0 /\ Len(consumed) = AnswerFrom(v)
          \/ Len(given) = 1 /\ Len(consumed) >= AnswerFrom(v) + AnswerSize(v)

SSLAt ==
    /\ sent = 1
    /\ \/ stage = "tls1" /\ AtHeader(1) /\ Len(given) = 0
       \/ stage = "hs1" /\ AtBody(1) /\ Len(given) = 0
       \/ stage = "tls2" /\ AtHeader(2) /\ Len(given) = 1
       \/ stage = "hs2" /\ AtBody(2) /\ Len(given) = 1

\* The SIP helper has given the values of the lines before the one it is at.
SIPAt(e) ==
    /\ stage = "line" /\ trigger = Char(NL) /\ sent = 1
    /\ \E i \in 1 .. e : Len(consumed) = Start(script, i)
    /\ \A k \in 1 .. Len(script.results) :
          k <= Len(given) <=> script.results[k].from <= Len(consumed)

HelperAt ==
    \/ stage = "none" /\ Len(given) = 0 /\ Len(consumed) = 0
    \/ script.proto = "ssh" /\
          \E v \in DOMAIN script.ends : ServesSSH(script, lenient, v) /\ SSHAt(v)
    \/ script.proto = "ssl" /\ ServesSSL(script) /\ SSLAt
    \/ script.proto = "sip" /\
          \E e \in DOMAIN script.ends : ServesSIP(script, lenient, e) /\ SIPAt(e)

\* The inductive invariant: the connection is not ended before everything was
\* given, unless the user wants it.
ServedInv ==
    Serves(script, lenient) =>
        /\ AsSent /\ pc # "crashed" /\ (connected <=> stage # "none")
        /\ IF pc = "end" THEN refused \/ Len(given) = Len(script.results)
           ELSE HelperAt

---------------------------------------------------------------------------
(* Steps of any helper.                                                   *)

LEMMA ResultFacts ==
    ASSUME NEW s, NEW l, Serves(s, l)
    PROVE  /\ s.results \in Seq([from : Nat, len : Nat]) /\ Len(s.results) \in Nat
           /\ DOMAIN s.results = 1 .. Len(s.results)
           /\ \A k \in 1 .. Len(s.results) : s.results[k] \in [from : Nat, len : Nat]
PROOF
  <1>1. s.results \in Seq([from : Nat, len : Nat])
    BY DEF Serves
  <1> DEFINE R == [from : Nat, len : Nat]
  <1> HIDE DEF R
  <1>2. s.results \in Seq(R)
    BY <1>1 DEF R
  <1>3. Len(s.results) \in Nat /\ DOMAIN s.results = 1 .. Len(s.results)
        /\ \A k \in 1 .. Len(s.results) : s.results[k] \in R
    BY <1>2, LenProperties, ElementOfSeq
  <1> QED
    BY <1>1, <1>3 DEF R

\* The user is given more of what the peer means, or some of it.
LEMMA HandedAsSent ==
    ASSUME AsSent, Serves(script, lenient), UNCHANGED script, NEW S \in Seq(Places),
           Len(given) + Len(S) <= Len(script.results),
           \A k \in 1 .. Len(S) : Covers(S[k], script.results[Len(given) + k])
    PROVE  /\ accepts(S) => AsSent' /\ Len(given') = Len(given) + Len(S)
           /\ refuses(S) => AsSent'
PROOF
  <1> DEFINE P == Places
             R == script.results
  <1>1. given \in Seq(P) /\ S \in Seq(P) /\ (given' \in Seq(P) => given' \in Seq(Places))
    BY DEF AsSent
  <1> HIDE DEF P
  <1>2. Len(given) \in Nat /\ Len(S) \in Nat /\ Len(R) \in Nat
    BY <1>1, LenProperties, ResultFacts
  <1>3. \A k \in 1 .. Len(given) : Covers(given[k], R[k])
    BY DEF AsSent
  <1> HIDE DEF R
  <1>4. ASSUME NEW m \in 0 .. Len(S), given' = given \o SubSeq(S, 1, m)
        PROVE  AsSent' /\ Len(given') = Len(given) + m
    <2>1. /\ SubSeq(S, 1, m) \in Seq(P) /\ Len(SubSeq(S, 1, m)) = m
          /\ \A i \in 1 .. m : SubSeq(S, 1, m)[i] = S[i]
      <3>1. \A i \in 1 .. m : S[i] \in P
        BY <1>1, <1>2, ElementOfSeq
      <3>2. PICK a \in Nat : a = 1
        OBVIOUS
      <3>3. /\ SubSeq(S, a, m) \in Seq(P)
            /\ Len(SubSeq(S, a, m)) = IF a <= m THEN m - a + 1 ELSE 0
            /\ \A i \in 1 .. m - a + 1 : SubSeq(S, a, m)[i] = S[a + i - 1]
        BY <1>1, <1>2, <3>1, <3>2, SubSeqProperties
      <3>4. \A i \in 1 .. m : i \in 1 .. m - a + 1 /\ a + i - 1 = i
        BY <1>2, <3>2
      <3>5. Len(SubSeq(S, a, m)) = m
        BY <1>2, <3>2, <3>3
      <3>6. \A i \in 1 .. m : SubSeq(S, a, m)[i] = S[i]
        BY <3>3, <3>4
      <3> QED
        BY <3>2, <3>3, <3>5, <3>6
    <2>2. /\ given' \in Seq(P) /\ Len(given') = Len(given) + m
          /\ \A k \in 1 .. Len(given) + m :
                given'[k] = IF k <= Len(given) THEN given[k]
                            ELSE SubSeq(S, 1, m)[k - Len(given)]
      BY <1>1, <1>4, <2>1, ConcatProperties
    <2>3. ASSUME NEW k \in 1 .. Len(given) + m
          PROVE  Covers(given'[k], R[k])
      <3>1. CASE k <= Len(given)
        BY <1>2, <1>3, <2>2, <3>1
      <3>2. CASE k > Len(given)
        <4>1. m \in Nat /\ k \in Nat /\ k <= Len(given) + m
          BY <1>2
        <4>2. PICK i : i = k - Len(given)
          OBVIOUS
        <4>3. i \in 1 .. m /\ Len(given) + i = k
          BY <1>2, <3>2, <4>1, <4>2
        <4>4. i \in 1 .. Len(S) /\ ~(k <= Len(given))
          BY <1>2, <3>2, <4>1, <4>3
        <4>5. given'[k] = S[i]
          BY <2>1, <2>2, <4>2, <4>3, <4>4
        <4> QED
          BY <4>3, <4>4, <4>5 DEF R
      <3> QED
        BY <1>2, <3>1, <3>2
    <2>4. Len(given) + m <= Len(R)
      BY <1>2 DEF R
    <2>5. \A k \in 1 .. Len(given') : Covers(given[k], script.results[k])'
      BY <2>2, <2>3 DEF Covers, R
    <2>6. Len(given') <= Len(script.results)'
      BY <2>2, <2>4 DEF R
    <2> QED
      BY <1>1, <2>2, <2>5, <2>6 DEF AsSent
  <1>5. ASSUME accepts(S)
        PROVE  AsSent' /\ Len(given') = Len(given) + Len(S)
    <2>1. given' = given \o S
      BY <1>5 DEF accepts
    <2>2. SubSeq(S, 1, Len(S)) = S
      BY <1>1, SubSeqFull
    <2>3. PICK m \in 0 .. Len(S) : m = Len(S)
      BY <1>2
    <2> QED
      BY <1>4, <2>1, <2>2, <2>3
  <1>6. ASSUME refuses(S)
        PROVE  AsSent'
    <2>1. PICK k \in DOMAIN S : given' = given \o SubSeq(S, 1, k)
      BY <1>6 DEF refuses
    <2>2. k \in 0 .. Len(S)
      BY <1>1, <1>2, <2>1, LenProperties
    <2> QED
      BY <1>4, <2>1, <2>2
  <1> QED
    BY <1>5, <1>6

\* What a peer means does not change.
LEMMA ServesKept ==
    ASSUME UNCHANGED <<script, verdicts>>
    PROVE  /\ Serves(script, lenient)' <=> Serves(script, lenient)
           /\ script' = script /\ lenient' = lenient
  BY DEF lenient

\* The helper is still connected and at work.
AtWork ==
    /\ PathInv /\ Serves(script, lenient) /\ AsSent /\ HelperAt
    /\ pc \in {"data", "dirty"} /\ connected /\ stage # "none"
    /\ script \in Scripts /\ Cuts(trigger, buf, prev_pos) # {}

LEMMA ServedEnd ==
    ASSUME AtWork, ConnectionEnd, UNCHANGED <<script, verdicts, stage>>, AsSent',
           refused' \/ Len(given') = Len(script.results)
    PROVE  ServedInv'
PROOF
  <1>1. pc' = "end" /\ connected' = connected
    BY DEF ConnectionEnd, conn
  <1> QED
    BY <1>1 DEF ServedInv, AtWork

LEMMA ServedAgain ==
    ASSUME AtWork, CanProcessAgain, UNCHANGED <<script, verdicts>>, AsSent',
           stage' # "none", HelperAt'
    PROVE  ServedInv'
PROOF
  <1>1. pc' = pc /\ connected' = connected
    BY DEF CanProcessAgain, conn
  <1> QED
    BY <1>1 DEF ServedInv, AtWork

LEMMA ServedRefuses ==
    ASSUME AtWork, NEW S \in Seq(Places), refuses(S),
           Len(given) + Len(S) <= Len(script.results),
           \A k \in 1 .. Len(S) : Covers(S[k], script.results[Len(given) + k])
    PROVE  ServedInv'
PROOF
  <1>1. ConnectionEnd /\ UNCHANGED <<script, verdicts, stage>> /\ refused'
    BY DEF refuses, ends, same_trigger
  <1>2. AsSent'
    BY <1>1, HandedAsSent DEF AtWork
  <1> QED
    BY <1>1, <1>2, ServedEnd

\* A failure ends the connection only if the user wants it or has it all.
LEMMA ServedFailure ==
    ASSUME AtWork, failure, lenient \/ Len(given) = Len(script.results)
    PROVE  \/ ServedInv'
           \/ /\ CanProcessAgain /\ AsSent' /\ lenient
              /\ UNCHANGED <<script, verdicts, stage, trigger, sent, given>>
PROOF
  <1>1. UNCHANGED <<script, verdicts, stage, trigger, sent, given>>
    BY DEF failure, same_trigger
  <1>2. AsSent'
    BY <1>1 DEF AtWork, AsSent, Covers
  <1>3. CASE ConnectionEnd /\ refused' = (refused \/ lenient)
    <2>1. refused' \/ Len(given') = Len(script.results)
      BY <1>1, <1>3
    <2> QED
      BY <1>1, <1>2, <1>3, <2>1, ServedEnd
  <1>4. CASE lenient /\ CanProcessAgain
    BY <1>1, <1>2, <1>4
  <1> QED
    BY <1>3, <1>4 DEF failure, ends

\* Steps that read no packet.
LEMMA ServedKept ==
    ASSUME ServedInv, pc # "end", pc' # "end", pc' # "crashed",
           UNCHANGED <<script, verdicts, stage, trigger, consumed, given, connected,
                       sent>>
    PROVE  ServedInv'
PROOF
  <1>1. Serves(script, lenient)' <=> Serves(script, lenient)
    BY ServesKept
  <1> SUFFICES ASSUME Serves(script, lenient)
               PROVE  ServedInv'
    BY <1>1 DEF ServedInv
  <1>2. AsSent' /\ (connected' <=> stage' # "none")
    BY DEF ServedInv, AsSent, Covers
  <1>3. lenient' = lenient
    BY DEF lenient
  <1>4. \A i : (AtHeader(i) => AtHeader(i)') /\ (AtBody(i) => AtBody(i)')
    BY DEF AtHeader, AtBody, Start
  <1>5. \A v : SSHAt(v) => SSHAt(v)'
    BY <1>4 DEF SSHAt, AnswerSize, AnswerFrom, Start, Packet
  <1>6. SSLAt => SSLAt'
    BY <1>4 DEF SSLAt
  <1>7. \A e : SIPAt(e) => SIPAt(e)'
    BY DEF SIPAt, Start
  <1>8. HelperAt
    BY DEF ServedInv
  <1>9. HelperAt'
    BY <1>3, <1>5, <1>6, <1>7, <1>8 DEF HelperAt
  <1> QED
    BY <1>2, <1>9 DEF ServedInv

\* Which protocol a stage belongs to.
LEMMA StageOf ==
    ASSUME AtWork
    PROVE  /\ stage \in SSHStages =>
                 /\ script.proto = "ssh"
                 /\ \E v \in 1 .. Len(script.ends) :
                       ServesSSH(script, lenient, v) /\ SSHAt(v)
           /\ stage \in SSLStages =>
                 script.proto = "ssl" /\ ServesSSL(script) /\ SSLAt
           /\ stage = "line" =>
                 \E e \in 1 .. Len(script.ends) :
                    script.proto = "sip" /\ ServesSIP(script, lenient, e) /\ SIPAt(e)
PROOF
  <1>1. DOMAIN script.ends = 1 .. Len(script.ends)
    BY ScriptFacts DEF AtWork
  <1>2. /\ \A v : SSHAt(v) => stage \in SSHStages
        /\ SSLAt => stage \in SSLStages
        /\ \A e : SIPAt(e) => stage = "line"
    BY DEF SSHAt, SSLAt, SIPAt, SSHStages, SSLStages
  <1> QED
    BY <1>1, <1>2 DEF AtWork, HelperAt, SSHStages, SSLStages

\* A line, byte by byte.
LEMMA LineRead ==
    ASSUME AtWork, trigger = Char(NL), NEW i \in 1 .. Len(script.ends),
           Len(consumed) = Start(script, i), IsFramedLine(Packet(script, i))
    PROVE  /\ Data \in Seq(Bytes) /\ Len(Data) \in Nat
           /\ Len(Packet(script, i)) = Len(Data) + 1
           /\ Packet(script, i)[Len(Data) + 1] = NL
           /\ \A k \in 1 .. Len(Data) : Data[k] = Packet(script, i)[k]
           /\ CanProcessAgain => Len(consumed') = Start(script, i + 1)
PROOF
  <1>1. /\ PathInv /\ pc \in {"data", "dirty"} /\ Cuts(trigger, buf, prev_pos) # {}
        /\ script \in Scripts /\ i \in 1 .. Len(script.ends) + 1
    BY ScriptFacts DEF AtWork
  <1>2. /\ Data \in Seq(Bytes)
        /\ Len(Data) = script.ends[i] - Len(consumed) - 1
        /\ Len(consumed) \in Nat /\ Len(consumed) < script.ends[i]
        /\ script.ends[i] \in Nat
        /\ CanProcessAgain => Len(consumed') = script.ends[i]
    BY <1>1, LineCut
  <1>3. /\ Start(script, i + 1) = script.ends[i]
        /\ Len(Packet(script, i)) = script.ends[i] - Start(script, i)
        /\ \A j \in 1 .. script.ends[i] - Start(script, i) :
              Packet(script, i)[j] = script.stream[Start(script, i) + j]
    BY <1>1, PacketFacts
  <1>4. \A k \in 1 .. Len(Data) : Data[k] = script.stream[Len(consumed) + k]
    BY <1>1, DataIs
  <1>5. Len(Data) \in Nat /\ Len(Packet(script, i)) = Len(Data) + 1
    BY <1>2, <1>3
  <1>6. 1 .. Len(Data) \subseteq 1 .. script.ends[i] - Start(script, i)
    BY <1>2
  <1>7. \A k \in 1 .. Len(Data) : Data[k] = Packet(script, i)[k]
    BY <1>3, <1>4, <1>6
  <1>8. Packet(script, i)[Len(Data) + 1] = NL
    BY <1>5 DEF IsFramedLine
  <1> QED
    BY <1>2, <1>3, <1>5, <1>7, <1>8, Zenon

---------------------------------------------------------------------------
(* SSH servers.                                                           *)

LEMMA SSHServerFacts ==
    ASSUME NEW s \in Scripts, NEW l, NEW v \in 1 .. Len(s.ends), ServesSSH(s, l, v)
    PROVE  /\ v + 1 \in 1 .. Len(s.ends) /\ v + 2 \in 1 .. Len(s.ends)
           /\ Start(s, v + 1) = s.ends[v] /\ Start(s, v + 2) = s.ends[v + 1]
           /\ Len(s.results) = 1 /\ (l \/ v = 1)
PROOF
  <1>1. v \in Nat /\ Len(s.ends) \in Nat /\ v + 2 <= Len(s.ends)
    BY ScriptFacts DEF ServesSSH
  <1>2. v + 1 \in 1 .. Len(s.ends) /\ v + 2 \in 1 .. Len(s.ends) /\ (v + 1) + 1 = v + 2
    BY <1>1
  <1>3. Len(s.results) = 1 /\ (l \/ v = 1)
    BY DEF ServesSSH
  <1>4. Start(s, v + 1) = s.ends[v]
    BY PacketFacts
  <1>5. PICK w \in 1 .. Len(s.ends) : w = v + 1
    BY <1>2
  <1>6. Start(s, w + 1) = s.ends[w]
    BY PacketFacts
  <1> QED
    BY <1>2, <1>3, <1>4, <1>5, <1>6

\* The version is the first line that looks like one.
LEMMA VersionLine ==
    ASSUME AtWork, NEW v \in 1 .. Len(script.ends), ServesSSH(script, lenient, v),
           trigger = Char(NL), NEW i \in 1 .. v, Len(consumed) = Start(script, i)
    PROVE  /\ IsVersion(Data) <=> i = v
           /\ CanProcessAgain => Len(consumed') = Start(script, i + 1)
PROOF
  <1>1. /\ i \in 1 .. Len(script.ends) /\ IsFramedLine(Packet(script, i))
        /\ (Packet(script, i)[1] = SSH2) <=> (i = v)
    BY DEF ServesSSH
  <1>2. /\ Data \in Seq(Bytes) /\ Len(Data) \in Nat
        /\ Packet(script, i)[Len(Data) + 1] = NL
        /\ \A k \in 1 .. Len(Data) : Data[k] = Packet(script, i)[k]
        /\ CanProcessAgain => Len(consumed') = Start(script, i + 1)
    BY <1>1, LineRead
  <1>3. SSH2 # NL
    BY ByteFacts DEF SSH2, NL
  <1>4. IsVersion(Data) <=> Packet(script, i)[1] = SSH2
    <2>1. CASE Len(Data) = 0
      <3>1. Packet(script, i)[1] = NL
        BY <1>2, <2>1
      <3>2. Data = <<>>
        BY <1>2, <2>1, EmptySeq
      <3> QED
        BY <1>3, <3>1, <3>2 DEF IsVersion
    <2>2. CASE Len(Data) # 0
      <3>1. 1 \in 1 .. Len(Data)
        BY <1>2, <2>2
      <3>2. Data # <<>> /\ Data[1] = Packet(script, i)[1]
        BY <1>2, <2>2, <3>1, EmptySeq
      <3> QED
        BY <3>2 DEF IsVersion
    <2> QED
      BY <2>1, <2>2
  <1> QED
    BY <1>1, <1>2, <1>4, Zenon

LEMMA ServedVersion ==
    ASSUME AtWork, ssh_invalid \/ ssh_version
    PROVE  ServedInv'
PROOF
  <1>1. stage = "version"
    BY DEF ssh_invalid, ssh_version, Called
  <1>2. PICK v \in 1 .. Len(script.ends) :
           ServesSSH(script, lenient, v) /\ SSHAt(v) /\ script.proto = "ssh"
    BY <1>1, StageOf DEF SSHStages
  <1>3. /\ trigger = Char(NL) /\ sent = 1 /\ Len(given) = 0 /\ script \in Scripts
        /\ v \in DOMAIN script.ends
    BY <1>1, <1>2, ScriptFacts DEF SSHAt, AtWork
  <1>4. PICK i \in 1 .. v : Len(consumed) = Start(script, i)
    BY <1>1, <1>2 DEF SSHAt
  <1>5. /\ IsVersion(Data) <=> i = v
        /\ CanProcessAgain => Len(consumed') = Start(script, i + 1)
    BY <1>2, <1>3, <1>4, VersionLine
  <1>6. CASE ssh_invalid
    <2>1. failure /\ i # v
      BY <1>5, <1>6 DEF ssh_invalid
    <2>2. lenient
      <3>1. v # 1
        BY <2>1
      <3> QED
        BY <1>2, <1>3, <3>1, SSHServerFacts
    <2>3. \/ ServedInv'
          \/ /\ CanProcessAgain /\ AsSent'
             /\ UNCHANGED <<script, verdicts, stage, trigger, sent, given>>
      BY <2>1, <2>2, ServedFailure
    <2>4. ASSUME CanProcessAgain, AsSent',
                 UNCHANGED <<script, verdicts, stage, trigger, sent, given>>
          PROVE  ServedInv'
      <3>1. i + 1 \in 1 .. v /\ Len(consumed') = Start(script, i + 1)
        BY <1>5, <2>1, <2>4
      <3>2. SSHAt(v)'
        BY <1>1, <1>3, <2>4, <3>1 DEF SSHAt, Start
      <3>3. HelperAt'
        BY <1>2, <1>3, <2>4, <3>2, ServesKept DEF HelperAt
      <3> QED
        BY <1>1, <2>4, <3>3, ServedAgain
    <2> QED
      BY <2>3, <2>4
  <1>7. CASE ssh_version
    <2>1. /\ CanProcessAgain /\ trigger' = Size(5) /\ stage' = "kex_header"
          /\ sent' = 3 /\ UNCHANGED <<script, verdicts, given>> /\ i = v
      BY <1>3, <1>5, <1>7 DEF ssh_version, goes_on
    <2>2. v + 1 \in 1 .. Len(script.ends) + 1 /\ Len(consumed') = Start(script, v + 1)
      BY <1>2, <1>3, <1>5, <2>1, SSHServerFacts, PacketFacts
    <2>3. AtHeader(v + 1)'
      BY <2>1, <2>2 DEF AtHeader, Start
    <2>4. SSHAt(v)'
      BY <1>3, <2>1, <2>3 DEF SSHAt
    <2>5. HelperAt'
      BY <1>2, <1>3, <2>1, <2>4, ServesKept DEF HelperAt
    <2>6. AsSent'
      BY <2>1 DEF AtWork, AsSent, Covers
    <2> QED
      BY <2>1, <2>5, <2>6, ServedAgain
  <1> QED
    BY <1>6, <1>7

\* SSHAnswer on the header of packet i: the sum it computes does not wrap
\* around.
LEMMA AnswerRead ==
    ASSUME AtWork, NEW i \in Nat, AtHeader(i), i \in 1 .. Len(script.ends),
           Len(Packet(script, i)) >= 5,
           NEW m \in Nat, m = Packet(script, i)[1] + Packet(script, i)[5], m < Word
    PROVE  /\ answer_length = m
           /\ CanProcessAgain => Len(consumed') = Start(script, i) + 5
PROOF
  <1>1. /\ \A k \in 1 .. 5 : Data[k] = Packet(script, i)[k]
        /\ CanProcessAgain => Len(consumed') = Start(script, i) + 5
    BY HeaderRead DEF AtWork
  <1>2. Data[1] + Data[5] = m
    BY <1>1
  <1>3. m % Word = m
    BY ModWord, ByteFacts
  <1> QED
    BY <1>1, <1>2, <1>3, Zenon DEF answer_length

\* The step it takes, from either header.
LEMMA AnswerStep ==
    ASSUME AtWork, NEW s, NEW next, SSHAnswer(s, next) \/ SSHAnswer_short(s),
           NEW m \in Nat, answer_length = m, m > 7
    PROVE  /\ CanProcessAgain /\ trigger' = Size(m - 7) /\ stage' = next
           /\ UNCHANGED <<script, verdicts, sent, given>> /\ AsSent'
PROOF
  <1>1. ~(answer_length <= 7)
    OBVIOUS
  <1>2. SSHAnswer(s, next)
    BY <1>1 DEF SSHAnswer_short
  <1>3. /\ CanProcessAgain /\ trigger' = Size(m - 7) /\ stage' = next
        /\ UNCHANGED <<script, verdicts, sent, given>>
    BY <1>2 DEF SSHAnswer, goes_on
  <1>4. AsSent'
    BY <1>3 DEF AtWork, AsSent, Covers
  <1> QED
    BY <1>3, <1>4

LEMMA ServedKexHeader ==
    ASSUME AtWork, SSHAnswer("kex_header", "kex") \/ SSHAnswer_short("kex_header")
    PROVE  ServedInv'
PROOF
  <1>1. stage = "kex_header"
    BY DEF SSHAnswer, SSHAnswer_short, Called
  <1>2. PICK v \in 1 .. Len(script.ends) :
           ServesSSH(script, lenient, v) /\ SSHAt(v) /\ script.proto = "ssh"
    BY <1>1, StageOf DEF SSHStages
  <1>3. /\ AtHeader(v + 1) /\ sent = 3 /\ Len(given) = 0 /\ script \in Scripts
        /\ v \in DOMAIN script.ends
    BY <1>1, <1>2, ScriptFacts DEF SSHAt, AtWork
  <1>4. PICK i \in Nat : i = v + 1 /\ i \in 1 .. Len(script.ends) /\ AtHeader(i)
    BY <1>2, <1>3, SSHServerFacts
  <1>5. IsFramedSSH(Packet(script, i)) /\ Len(Packet(script, i)) > 5
    BY <1>2, <1>4 DEF ServesSSH
  <1>6. PICK n \in Nat : n = Len(Packet(script, i)) /\ n \in 6 .. Word - 3
    BY <1>5, ByteFacts DEF IsFramedSSH
  <1>7. Packet(script, i)[1] = n - 4 /\ Packet(script, i)[5] = 6
    BY <1>5, <1>6 DEF IsFramedSSH
  <1>8. PICK m \in Nat : m = n + 2
    BY <1>6
  <1>9. /\ m = Packet(script, i)[1] + Packet(script, i)[5] /\ m < Word /\ m > 7
        /\ m - 7 = n - 5 /\ n >= 5
    BY <1>6, <1>7, <1>8, ByteFacts
  <1>10. /\ answer_length = m
         /\ CanProcessAgain => Len(consumed') = Start(script, i) + 5
    BY <1>4, <1>6, <1>9, AnswerRead
  <1>11. /\ CanProcessAgain /\ trigger' = Size(m - 7) /\ stage' = "kex"
         /\ UNCHANGED <<script, verdicts, sent, given>> /\ AsSent'
    BY <1>9, <1>10, AnswerStep
  <1>12. AtBody(i)'
    BY <1>4, <1>6, <1>9, <1>10, <1>11, NextBody DEF AtWork
  <1>13. SSHAt(v)'
    BY <1>3, <1>4, <1>11, <1>12 DEF SSHAt
  <1>14. HelperAt'
    BY <1>2, <1>3, <1>11, <1>13, ServesKept DEF HelperAt
  <1> QED
    BY <1>11, <1>14, ServedAgain

LEMMA ServedKex ==
    ASSUME AtWork, ssh_kex
    PROVE  ServedInv'
PROOF
  <1>1. /\ stage = "kex" /\ CanProcessAgain /\ trigger' = Size(5)
        /\ stage' = "reply_header" /\ UNCHANGED <<script, verdicts, sent, given>>
    BY DEF ssh_kex, Called, goes_on
  <1>2. PICK v \in 1 .. Len(script.ends) :
           ServesSSH(script, lenient, v) /\ SSHAt(v) /\ script.proto = "ssh"
    BY <1>1, StageOf DEF SSHStages
  <1>3. /\ AtBody(v + 1) /\ sent = 3 /\ Len(given) = 0 /\ script \in Scripts
        /\ v \in DOMAIN script.ends
    BY <1>1, <1>2, ScriptFacts DEF SSHAt, AtWork
  <1>4. PICK i \in Nat : i = v + 1 /\ AtBody(i)
    BY <1>2, <1>3
  <1>5. Len(consumed') = script.ends[i]
    BY <1>1, <1>4, BodyRead DEF AtWork
  <1>6. Len(consumed') = Start(script, v + 2) /\ v + 2 \in 1 .. Len(script.ends) + 1
    BY <1>2, <1>3, <1>4, <1>5, SSHServerFacts, ScriptFacts
  <1>7. AtHeader(v + 2)'
    BY <1>1, <1>6 DEF AtHeader, Start
  <1>8. SSHAt(v)'
    BY <1>1, <1>3, <1>7 DEF SSHAt
  <1>9. HelperAt'
    BY <1>1, <1>2, <1>3, <1>8, ServesKept DEF HelperAt
  <1>10. AsSent'
    BY <1>1 DEF AtWork, AsSent, Covers
  <1> QED
    BY <1>1, <1>9, <1>10, ServedAgain

\* The reply of a server: what is taken of it, and what is in it.
LEMMA ReplyFacts ==
    ASSUME script \in Scripts, NEW v \in 1 .. Len(script.ends),
           ServesSSH(script, lenient, v)
    PROVE  \E n \in Nat, a \in Nat, q \in Nat :
              /\ n = AnswerSize(v) /\ a = AnswerFrom(v) /\ n >= q + 5
              /\ n + 7 = Packet(script, v + 2)[1] + Packet(script, v + 2)[5]
              /\ n + 7 < Word /\ a + n <= Len(script.stream)
              /\ Len(Packet(script, v + 2)) >= 5
              /\ script.stream[a + 1] = 31 /\ script.stream[a + 2] = q
              /\ \A j \in a + n + 1 .. Len(script.stream) : script.stream[j] # 31
              /\ script.results = <<[from |-> a + 6, len |-> q]>>
PROOF
  <1>1. PICK w \in 1 .. Len(script.ends) : w = v + 2
    BY SSHServerFacts
  <1> DEFINE p == Packet(script, w)
  <1>2. PICK b \in Nat : b = Start(script, w)
    BY PacketFacts
  <1>3. /\ p \in Seq(Bytes)
        /\ \A j \in 1 .. Len(p) : p[j] = script.stream[b + j]
    <2>1. /\ p \in Seq(Bytes) /\ Len(p) = script.ends[w] - Start(script, w)
          /\ \A j \in 1 .. script.ends[w] - Start(script, w) :
                p[j] = script.stream[Start(script, w) + j]
      BY PacketFacts
    <2> HIDE DEF p
    <2> QED
      BY <1>2, <2>1
  <1>4. Len(p) >= 7 /\ p[6] = 31
    BY <1>1 DEF ServesSSH
  <1> HIDE DEF p
  <1>5. Len(p) \in Nat /\ \A j \in 1 .. Len(p) : p[j] \in Nat
    BY <1>3, LenProperties, ElementOfSeq, ByteFacts
  <1>6. p[1] \in Nat /\ p[5] \in Nat /\ p[7] \in Nat
    BY <1>4, <1>5
  <1>7. /\ p[1] + p[5] - 7 >= p[7] + 5
        /\ (p[1] + p[5] - 7) + 7 < Word
        /\ (b + 5) + (p[1] + p[5] - 7) <= Len(script.stream)
        /\ \A j \in (b + 5) + (p[1] + p[5] - 7) + 1 .. Len(script.stream) :
              script.stream[j] # 31
        /\ script.results = <<[from |-> (b + 5) + 6, len |-> p[7]]>>
    BY <1>1, <1>2 DEF ServesSSH, p
  <1>8. PICK n \in Int : n = p[1] + p[5] - 7
    BY <1>6
  <1>9. PICK a \in Nat : a = b + 5
    BY <1>2
  <1>10. n \in Nat /\ n + 7 = p[1] + p[5]
    <2>1. PICK x \in Nat, y \in Nat, z \in Nat : x = p[1] /\ y = p[5] /\ z = p[7]
      BY <1>6
    <2>2. n = x + y - 7 /\ n >= z + 5
      BY <1>7, <1>8, <2>1
    <2>3. n \in Nat /\ n + 7 = x + y
      BY <2>2
    <2> QED
      BY <2>1, <2>3
  <1>11. script.stream[a + 1] = 31 /\ script.stream[a + 2] = p[7]
    <2>1. p[6] = script.stream[b + 6] /\ p[7] = script.stream[b + 7]
      <3>1. 6 \in 1 .. Len(p) /\ 7 \in 1 .. Len(p)
        BY <1>4, <1>5
      <3> QED
        BY <1>3, <3>1, Zenon
    <2>2. a + 1 = b + 6 /\ a + 2 = b + 7
      BY <1>9
    <2> QED
      BY <1>4, <2>1, <2>2
  <1>12. n = AnswerSize(v) /\ a = AnswerFrom(v)
    BY <1>1, <1>2, <1>8, <1>9 DEF AnswerSize, AnswerFrom, p
  <1>13. /\ n >= p[7] + 5 /\ n + 7 < Word /\ a + n <= Len(script.stream)
         /\ \A j \in a + n + 1 .. Len(script.stream) : script.stream[j] # 31
         /\ script.results = <<[from |-> a + 6, len |-> p[7]]>>
    BY <1>7, <1>8, <1>9
  <1>14. n + 7 = Packet(script, v + 2)[1] + Packet(script, v + 2)[5]
         /\ Len(Packet(script, v + 2)) >= 5
    BY <1>1, <1>4, <1>5, <1>10 DEF p
  <1> QED
    BY <1>6, <1>10, <1>11, <1>12, <1>13, <1>14

LEMMA ServedReplyHeader ==
    ASSUME AtWork,
           SSHAnswer("reply_header", "reply") \/ SSHAnswer_short("reply_header")
    PROVE  ServedInv'
PROOF
  <1>1. stage = "reply_header"
    BY DEF SSHAnswer, SSHAnswer_short, Called
  <1>2. PICK v \in 1 .. Len(script.ends) :
           ServesSSH(script, lenient, v) /\ SSHAt(v) /\ script.proto = "ssh"
    BY <1>1, StageOf DEF SSHStages
  <1>3. /\ AtHeader(v + 2) /\ sent = 3 /\ Len(given) = 0 /\ script \in Scripts
        /\ v \in DOMAIN script.ends
    BY <1>1, <1>2, ScriptFacts DEF SSHAt, AtWork
  <1>4. PICK i \in Nat : i = v + 2 /\ i \in 1 .. Len(script.ends) /\ AtHeader(i)
    BY <1>2, <1>3, SSHServerFacts
  <1>5. PICK n \in Nat, q \in Nat :
           /\ n = AnswerSize(v) /\ n >= q + 5 /\ n + 7 < Word
           /\ n + 7 = Packet(script, v + 2)[1] + Packet(script, v + 2)[5]
           /\ Len(Packet(script, v + 2)) >= 5
    BY <1>2, <1>3, ReplyFacts
  <1>6. PICK m \in Nat : m = n + 7 /\ m > 7 /\ m < Word /\ m - 7 = n
    BY <1>5
  <1>7. /\ m = Packet(script, i)[1] + Packet(script, i)[5]
        /\ Len(Packet(script, i)) >= 5
    BY <1>4, <1>5, <1>6
  <1>8. /\ answer_length = m
        /\ CanProcessAgain => Len(consumed') = Start(script, i) + 5
    BY <1>4, <1>6, <1>7, AnswerRead
  <1>9. /\ CanProcessAgain /\ trigger' = Size(m - 7) /\ stage' = "reply"
        /\ UNCHANGED <<script, verdicts, sent, given>> /\ AsSent'
    BY <1>6, <1>8, AnswerStep
  <1>10. trigger' = Size(AnswerSize(v)) /\ Len(consumed') = AnswerFrom(v)
    BY <1>4, <1>5, <1>6, <1>8, <1>9 DEF AnswerFrom
  <1>11. SSHAt(v)'
    BY <1>3, <1>9, <1>10 DEF SSHAt, AnswerSize, AnswerFrom, Start, Packet
  <1>12. HelperAt'
    BY <1>2, <1>3, <1>9, <1>11, ServesKept DEF HelperAt
  <1> QED
    BY <1>9, <1>12, ServedAgain

\* The key is given, whatever the padding of the reply, and once.
LEMMA ServedReply ==
    ASSUME AtWork, ssh_reply_invalid \/ ssh_certificate
    PROVE  ServedInv'
PROOF
  <1>1. stage = "reply"
    BY DEF ssh_reply_invalid, ssh_certificate, Called
  <1>2. PICK v \in 1 .. Len(script.ends) :
           ServesSSH(script, lenient, v) /\ SSHAt(v) /\ script.proto = "ssh"
    BY <1>1, StageOf DEF SSHStages
  <1>3. PICK n \in Nat, a \in Nat, q \in Nat :
              /\ n = AnswerSize(v) /\ a = AnswerFrom(v) /\ n >= q + 5
              /\ a + n <= Len(script.stream)
              /\ script.stream[a + 1] = 31 /\ script.stream[a + 2] = q
              /\ \A j \in a + n + 1 .. Len(script.stream) : script.stream[j] # 31
              /\ script.results = <<[from |-> a + 6, len |-> q]>>
    BY <1>2, ReplyFacts DEF AtWork
  <1>4. /\ trigger = Size(n) /\ sent = 3 /\ script \in Scripts
        /\ v \in DOMAIN script.ends /\ Len(script.stream) \in Nat
        /\ \/ Len(given) = 0 /\ Len(consumed) = a
           \/ Len(given) = 1 /\ Len(consumed) >= a + n
    BY <1>1, <1>2, <1>3, ScriptFacts DEF SSHAt, AtWork
  <1>5. /\ Len(Data) = n
        /\ \A k \in 1 .. n : Data[k] = script.stream[Len(consumed) + k]
        /\ Len(consumed) \in Nat /\ Len(consumed) + n <= Len(script.stream)
        /\ CanProcessAgain => Len(consumed') = Len(consumed) + n
    BY <1>4, SizeCut DEF AtWork
  <1>6. /\ Data[1] = script.stream[Len(consumed) + 1]
        /\ Data[2] = script.stream[Len(consumed) + 2]
    <2>1. 1 \in 1 .. n /\ 2 \in 1 .. n
      <3>1. n >= q + 5
        BY <1>3
      <3> QED
        BY ONLY <3>1, n \in Nat, q \in Nat
    <2> QED
      BY <1>5, <2>1, Zenon
  <1>7. Len(script.results) = 1
    BY <1>3
  <1>8. ASSUME CanProcessAgain, UNCHANGED <<script, verdicts, stage, trigger, sent>>,
               AsSent', Len(given') = 1, Len(consumed) >= a
        PROVE  ServedInv'
    <2>1. Len(consumed') >= a + n
      BY <1>5, <1>8
    <2>2. SSHAt(v)'
      BY <1>1, <1>3, <1>4, <1>8, <2>1
         DEF SSHAt, AnswerSize, AnswerFrom, Start, Packet
    <2>3. HelperAt'
      BY <1>2, <1>4, <1>8, <2>2, ServesKept DEF HelperAt
    <2> QED
      BY <1>1, <1>8, <2>3, ServedAgain
  <1>9. CASE Len(given) = 0 /\ Len(consumed) = a
    <2>1. IsReply(Data)
      <3>1. Data[1] = 31 /\ Data[2] = q
        BY <1>3, <1>6, <1>9
      <3>2. n >= q + 5 /\ Len(Data) = n
        BY <1>3, <1>5
      <3>3. Len(Data) >= 5 /\ Len(Data) - 5 >= Data[2]
        BY ONLY <3>1, <3>2, n \in Nat, q \in Nat
      <3> QED
        BY <3>1, <3>3 DEF IsReply
    <2>2. ssh_certificate
      BY <2>1 DEF ssh_reply_invalid
    <2>3. PICK g : g = Place(6, n - 5)
      OBVIOUS
    <2>4. g \in Places /\ g.from = a + 6 /\ g.len = n - 5
      <3>1. g = [from |-> a + 6, len |-> n - 5]
        BY ONLY <1>9, <2>3 DEF Place
      <3>2. a + 6 \in Nat /\ n - 5 \in Int
        OBVIOUS
      <3> QED
        BY <3>1, <3>2 DEF Places
    <2>5. PICK S : S = <<g>>
      OBVIOUS
    <2>6. S \in Seq(Places) /\ Len(S) = 1 /\ S[1] = g
      BY <2>4, <2>5
    <2>7. Covers(g, script.results[1])
      BY <1>2, <1>3, <2>4 DEF Covers
    <2>8. /\ Len(given) + Len(S) <= Len(script.results)
          /\ \A k \in 1 .. Len(S) : Covers(S[k], script.results[Len(given) + k])
      BY <1>7, <1>9, <2>6, <2>7
    <2>9. refuses(S) \/ (same_trigger /\ CanProcessAgain /\ accepts(S))
      BY <1>5, <2>2, <2>3, <2>5 DEF ssh_certificate
    <2>10. CASE refuses(S)
      BY <2>6, <2>8, <2>10, ServedRefuses
    <2>11. CASE same_trigger /\ CanProcessAgain /\ accepts(S)
      <3>1. UNCHANGED <<script, verdicts, stage, trigger, sent>>
        BY <2>11 DEF same_trigger, accepts
      <3>2. AsSent' /\ Len(given') = Len(given) + Len(S)
        BY <2>6, <2>8, <2>11, <3>1, HandedAsSent DEF AtWork
      <3>3. Len(given') = 1 /\ Len(consumed) >= a
        BY <1>9, <2>6, <3>2
      <3> QED
        BY <1>8, <2>11, <3>1, <3>2, <3>3
    <2> QED
      BY <2>9, <2>10, <2>11
  <1>10. CASE Len(given) = 1 /\ Len(consumed) >= a + n
    <2>1. ~IsReply(Data)
      <3>1. n >= 1
        BY <1>3
      <3>2. PICK c \in Nat : c = Len(consumed)
        BY <1>5
      <3>3. c + 1 \in a + n + 1 .. Len(script.stream)
        BY <1>4, <1>5, <1>10, <3>1, <3>2
      <3>4. Data[1] # 31
        BY <1>3, <1>6, <3>2, <3>3
      <3> QED
        BY <3>4 DEF IsReply
    <2>2. failure
      BY <2>1 DEF ssh_reply_invalid, ssh_certificate
    <2>3. \/ ServedInv'
          \/ /\ CanProcessAgain /\ AsSent'
             /\ UNCHANGED <<script, verdicts, stage, trigger, sent, given>>
      BY <1>7, <1>10, <2>2, ServedFailure
    <2>4. Len(consumed) >= a
      BY <1>3, <1>5, <1>10
    <2> QED
      BY <1>8, <1>10, <2>3, <2>4
  <1> QED
    BY <1>4, <1>9, <1>10

LEMMA ServedSSH ==
    ASSUME AtWork, SSHStep
    PROVE  ServedInv'
  BY ServedVersion, ServedKexHeader, ServedKex, ServedReplyHeader, ServedReply
     DEF SSHStep

---------------------------------------------------------------------------
(* SSL servers.                                                           *)

\* The body of a packet, byte by byte.
LEMMA BodyBytes ==
    ASSUME AtWork, NEW i \in Nat, AtBody(i)
    PROVE  /\ i \in 1 .. Len(script.ends) /\ Data \in Seq(Bytes) /\ Len(Data) \in Nat
           /\ Len(Packet(script, i)) = Len(Data) + 5
           /\ Len(consumed) = Start(script, i) + 5 /\ Start(script, i) \in Nat
           /\ Len(consumed) \in Nat /\ Len(consumed) + Len(Data) = script.ends[i]
           /\ \A k \in 1 .. Len(Data) : Data[k] = Packet(script, i)[k + 5]
           /\ CanProcessAgain => Len(consumed') = Start(script, i + 1)
PROOF
  <1>1. /\ PathInv /\ pc \in {"data", "dirty"} /\ Cuts(trigger, buf, prev_pos) # {}
        /\ script \in Scripts
    BY DEF AtWork
  <1>2. /\ i \in 1 .. Len(script.ends) /\ Data \in Seq(Bytes)
        /\ Len(consumed) \in Nat /\ script.ends[i] \in Nat
        /\ Start(script, i) \in Nat /\ Len(consumed) = Start(script, i) + 5
        /\ Len(Data) \in Nat /\ Len(consumed) + Len(Data) = script.ends[i]
        /\ CanProcessAgain => Len(consumed') = script.ends[i]
    BY <1>1, BodyRead
  <1>3. /\ Start(script, i + 1) = script.ends[i]
        /\ Len(Packet(script, i)) = script.ends[i] - Start(script, i)
        /\ \A j \in 1 .. script.ends[i] - Start(script, i) :
              Packet(script, i)[j] = script.stream[Start(script, i) + j]
    BY <1>1, <1>2, PacketFacts
  <1>4. \A k \in 1 .. Len(Data) : Data[k] = script.stream[Len(consumed) + k]
    BY <1>1, DataIs
  <1>5. Len(Packet(script, i)) = Len(Data) + 5
    BY <1>2, <1>3
  <1>6. ASSUME NEW k \in 1 .. Len(Data)
        PROVE  Data[k] = Packet(script, i)[k + 5]
    <2>1. PICK a \in Nat, e \in Nat, l \in Nat :
             a = Start(script, i) /\ e = script.ends[i] /\ l = Len(Data)
      BY <1>2
    <2>2. Len(consumed) = a + 5 /\ (a + 5) + l = e /\ k \in 1 .. l
      BY <1>2, <2>1
    <2>3. k + 5 \in 1 .. e - a /\ Len(consumed) + k = a + (k + 5)
      BY ONLY <2>2, a \in Nat, e \in Nat, l \in Nat
    <2> QED
      BY <1>3, <1>4, <2>1, <2>3
  <1>7. CanProcessAgain => Len(consumed') = Start(script, i + 1)
    BY <1>2, <1>3, Zenon
  <1> QED
    BY <1>2, <1>5, <1>6, <1>7, Zenon

\* The two records of a server.
LEMMA SSLServerFacts ==
    ASSUME NEW s \in Scripts, ServesSSL(s), NEW i \in {1, 2}
    PROVE  /\ i \in 1 .. Len(s.ends) /\ i + 1 \in 1 .. Len(s.ends) + 1
           /\ IsFramedTLS(Packet(s, i)) /\ Packet(s, i)[1] = 22
           /\ Len(Packet(s, i)) >= 12 /\ Len(Packet(s, i)) \in Nat
           /\ Packet(s, i)[7] = Len(Packet(s, i)) - 9
           /\ s.results # <<>>
PROOF
  <1>1. i \in 1 .. Len(s.ends) /\ i + 1 \in 1 .. Len(s.ends) + 1 /\ i \in 1 .. 2
    <2>1. PICK n \in Nat : n = Len(s.ends) /\ n >= 2
      BY ScriptFacts DEF ServesSSL
    <2>2. i \in 1 .. n /\ i + 1 \in 1 .. n + 1 /\ i \in 1 .. 2
      BY ONLY <2>1, n \in Nat, i \in {1, 2}
    <2> QED
      BY <2>1, <2>2
  <1>2. Len(Packet(s, i)) \in Nat
    BY <1>1, PacketFacts, LenProperties
  <1>3. IsFramedTLS(Packet(s, i)) /\ s.results # <<>>
    BY <1>1 DEF ServesSSL
  <1>4. CASE i = 1
    BY <1>1, <1>2, <1>3, <1>4 DEF ServesSSL
  <1>5. CASE i = 2
    BY <1>1, <1>2, <1>3, <1>5 DEF ServesSSL
  <1> QED
    BY <1>4, <1>5

\* A header is that of a handshake record; the rest of the record is next.
LEMMA TLSHeaderStep ==
    ASSUME AtWork, ServesSSL(script), NEW i \in {1, 2}, AtHeader(i),
           NEW s, NEW next, on_tls_header(s, next)
    PROVE  /\ CanProcessAgain /\ AtBody(i)' /\ stage' = next /\ AsSent'
           /\ UNCHANGED <<script, verdicts, sent, given>>
PROOF
  <1>1. /\ i \in 1 .. Len(script.ends) /\ IsFramedTLS(Packet(script, i))
        /\ Packet(script, i)[1] = 22 /\ Len(Packet(script, i)) >= 12
        /\ Len(Packet(script, i)) \in Nat /\ i \in Nat
    BY SSLServerFacts DEF AtWork
  <1>2. /\ \A k \in 1 .. 5 : Data[k] = Packet(script, i)[k]
        /\ CanProcessAgain => Len(consumed') = Start(script, i) + 5
    <2>1. Len(Packet(script, i)) >= 5
      BY <1>1
    <2> QED
      BY <1>1, <2>1, HeaderRead DEF AtWork
  <1>3. Data[1] = 22 /\ Data[4] = Len(Packet(script, i)) - 5
    <2>1. Packet(script, i)[4] = Len(Packet(script, i)) - 5
      BY <1>1 DEF IsFramedTLS, SizeofTLS
    <2> QED
      BY <1>1, <1>2, <2>1
  <1>4. /\ CanProcessAgain /\ trigger' = Size(Data[4]) /\ stage' = next
        /\ UNCHANGED <<script, verdicts, sent, given>>
    BY <1>3 DEF on_tls_header, goes_on
  <1>5. AtBody(i)'
    BY <1>1, <1>2, <1>3, <1>4, NextBody DEF AtWork
  <1>6. AsSent'
    BY <1>4 DEF AtWork, AsSent, Covers
  <1> QED
    BY <1>4, <1>5, <1>6

LEMMA ServedTLSHeader ==
    ASSUME AtWork, on_tls_header("tls1", "hs1") \/ on_tls_header("tls2", "hs2")
    PROVE  ServedInv'
PROOF
  <1>1. stage \in {"tls1", "tls2"}
    BY DEF on_tls_header, Called
  <1>2. script.proto = "ssl" /\ ServesSSL(script) /\ SSLAt
    BY <1>1, StageOf DEF SSLStages
  <1>3. CASE on_tls_header("tls1", "hs1")
    <2>1. stage = "tls1"
      BY <1>3 DEF on_tls_header, Called
    <2>2. PICK i \in {1, 2} : i = 1
      OBVIOUS
    <2>3. AtHeader(i) /\ Len(given) = 0 /\ sent = 1
      BY <1>2, <2>1, <2>2 DEF SSLAt
    <2>4. /\ CanProcessAgain /\ AtBody(i)' /\ stage' = "hs1" /\ AsSent'
          /\ UNCHANGED <<script, verdicts, sent, given>>
      BY <1>2, <1>3, <2>3, TLSHeaderStep
    <2>5. SSLAt'
      BY <2>2, <2>3, <2>4 DEF SSLAt
    <2>6. HelperAt'
      BY <1>2, <2>4, <2>5 DEF HelperAt
    <2> QED
      BY <2>4, <2>6, ServedAgain
  <1>4. CASE on_tls_header("tls2", "hs2")
    <2>1. stage = "tls2"
      BY <1>4 DEF on_tls_header, Called
    <2>2. PICK i \in {1, 2} : i = 2
      OBVIOUS
    <2>3. AtHeader(i) /\ Len(given) = 1 /\ sent = 1
      BY <1>2, <2>1, <2>2 DEF SSLAt
    <2>4. /\ CanProcessAgain /\ AtBody(i)' /\ stage' = "hs2" /\ AsSent'
          /\ UNCHANGED <<script, verdicts, sent, given>>
      BY <1>2, <1>4, <2>3, TLSHeaderStep
    <2>5. SSLAt'
      BY <2>2, <2>3, <2>4 DEF SSLAt
    <2>6. HelperAt'
      BY <1>2, <2>4, <2>5 DEF HelperAt
    <2> QED
      BY <2>4, <2>6, ServedAgain
  <1> QED
    BY <1>3, <1>4

\* The cipher is the one of the hello.
LEMMA ServedHello ==
    ASSUME AtWork, handshake_invalid("hs1", 2) \/ on_handshake1 \/ on_handshake1_wild
    PROVE  ServedInv'
PROOF
  <1>1. stage = "hs1"
    BY DEF handshake_invalid, on_handshake1, on_handshake1_wild, Called
  <1>2. script.proto = "ssl" /\ ServesSSL(script) /\ SSLAt
    BY <1>1, StageOf DEF SSLStages
  <1>3. PICK i \in {1, 2}, j \in {1, 2} : i = 1 /\ j = 2 /\ j = i + 1
    OBVIOUS
  <1>4. AtBody(i) /\ Len(given) = 0 /\ sent = 1 /\ i \in Nat /\ script \in Scripts
    BY <1>1, <1>2, <1>3 DEF SSLAt, AtWork
  <1>5. /\ Len(Data) \in Nat /\ Len(Packet(script, i)) = Len(Data) + 5
        /\ Len(consumed) \in Nat /\ Len(consumed) + Len(Data) = script.ends[i]
        /\ \A k \in 1 .. Len(Data) : Data[k] = Packet(script, i)[k + 5]
        /\ CanProcessAgain => Len(consumed') = Start(script, j)
    BY <1>3, <1>4, BodyBytes
  <1>6. Len(Data) >= 7
    <2>1. Len(Packet(script, i)) >= 12
      BY <1>2, <1>4, SSLServerFacts
    <2> QED
      BY <1>5, <2>1
  <1>7. IsHandshake(Data, 2)
    <2>1. 1 \in 1 .. Len(Data) /\ 2 \in 1 .. Len(Data)
      BY <1>5, <1>6
    <2>2. Data[1] = Packet(script, i)[6] /\ Data[2] = Packet(script, i)[7]
      BY <1>5, <2>1
    <2>3. Packet(script, i)[6] = 2
      BY <1>2, <1>3 DEF ServesSSL
    <2>4. Packet(script, i)[7] = Len(Packet(script, i)) - 9
      BY <1>2, <1>4, SSLServerFacts
    <2>5. Data[2] = Len(Data) - 4
      BY <1>5, <2>2, <2>4
    <2> QED
      BY <1>5, <1>6, <2>2, <2>3, <2>5 DEF IsHandshake, SizeofHandshake
  <1>8. on_handshake1
    BY <1>5, <1>6, <1>7 DEF handshake_invalid, on_handshake1_wild
  <1>9. PICK g : g = Place(Len(Data) - 2, 2)
    OBVIOUS
  <1>10. g \in Places /\ g.from = script.ends[1] - 2 /\ g.len = 2
    <2>1. g = [from |-> Len(consumed) + (Len(Data) - 2), len |-> 2]
      BY <1>9 DEF Place
    <2>2. /\ Len(consumed) + (Len(Data) - 2) = script.ends[i] - 2
          /\ Len(consumed) + (Len(Data) - 2) \in Nat
      BY <1>5, <1>6
    <2> QED
      BY <1>3, <2>1, <2>2 DEF Places
  <1>11. PICK S : S = <<g>>
    OBVIOUS
  <1>12. S \in Seq(Places) /\ Len(S) = 1 /\ S[1] = g
    BY <1>10, <1>11
  <1>13. Covers(g, script.results[1])
    <2>1. script.results[1] = [from |-> script.ends[1] - 2, len |-> 2]
      BY <1>2 DEF ServesSSL
    <2> QED
      BY <1>10, <2>1 DEF Covers
  <1>14. Len(script.results) >= 1 /\ Len(script.results) \in Nat
    <2>1. script.results \in Seq([from : Nat, len : Nat]) /\ Len(script.results) \in Nat
      BY ResultFacts DEF AtWork
    <2>2. script.results # <<>>
      BY <1>2 DEF ServesSSL
    <2>3. Len(script.results) # 0
      BY <2>1, <2>2, EmptySeq
    <2> QED
      BY <2>1, <2>3
  <1>15. /\ Len(given) + Len(S) <= Len(script.results)
         /\ \A k \in 1 .. Len(S) : Covers(S[k], script.results[Len(given) + k])
    BY <1>4, <1>12, <1>13, <1>14
  <1>16. refuses(S) \/ (goes_on(Size(SizeofTLS), "tls2") /\ accepts(S))
    BY <1>8, <1>9, <1>11 DEF on_handshake1
  <1>17. CASE refuses(S)
    BY <1>12, <1>15, <1>17, ServedRefuses
  <1>18. CASE goes_on(Size(SizeofTLS), "tls2") /\ accepts(S)
    <2>1. /\ CanProcessAgain /\ trigger' = Size(5) /\ stage' = "tls2"
          /\ UNCHANGED <<script, verdicts, sent>>
      BY <1>18 DEF goes_on, accepts, SizeofTLS
    <2>2. AsSent' /\ Len(given') = Len(given) + Len(S)
      BY <1>12, <1>15, <1>18, <2>1, HandedAsSent DEF AtWork
    <2>3. Len(given') = 1
      BY <1>4, <1>12, <2>2
    <2>4. j \in 1 .. Len(script.ends) + 1
      BY <1>2, <1>3, <1>4, SSLServerFacts
    <2>5. AtHeader(j)'
      BY <1>5, <2>1, <2>4 DEF AtHeader, Start
    <2>6. SSLAt'
      BY <1>3, <1>4, <2>1, <2>3, <2>5 DEF SSLAt
    <2>7. HelperAt'
      BY <1>2, <2>1, <2>6 DEF HelperAt
    <2> QED
      BY <2>1, <2>2, <2>7, ServedAgain
  <1> QED
    BY <1>16, <1>17, <1>18

\* The loop over the certificates of a server finds each of them, and no
\* error. U holds where each of the results after the first one ends; the
\* argument goes from the last certificate to the first.
LEMMA CertificatesAre ==
    ASSUME script \in Scripts, Serves(script, lenient), ServesSSL(script),
           NEW d \in Seq(Bytes), Len(consumed) = script.ends[1] + 5,
           Len(consumed) + Len(d) = script.ends[2], Len(d) >= 7,
           \A k \in 1 .. Len(d) : d[k] = script.stream[Len(consumed) + k]
    PROVE  \E S \in Seq(Places) :
              /\ S = list_certificates(d).places /\ ~list_certificates(d).wrong
              /\ Len(S) = Len(script.results) - 1
              /\ \A k \in 1 .. Len(script.results) - 1 : S[k] = script.results[k + 1]
PROOF
  <1> DEFINE R == script.results
  <1>1. /\ R \in Seq([from : Nat, len : Nat]) /\ R # <<>>
        /\ \A k \in 1 .. Len(R) : R[k] \in [from : Nat, len : Nat]
    BY ResultFacts DEF ServesSSL
  <1>2. PICK m \in Nat : m = Len(R) /\ m >= 1
    BY <1>1, EmptySeq, LenProperties
  <1>3. PICK a \in Nat, z \in Nat : a = script.ends[1] /\ z = script.ends[2]
    <2>1. 1 \in 1 .. Len(script.ends) /\ 2 \in 1 .. Len(script.ends)
      BY ScriptFacts DEF ServesSSL
    <2> QED
      BY <2>1, ScriptFacts
  <1>4. PICK l \in Nat : l = Len(d) /\ l >= 7 /\ (a + 5) + l = z
    BY <1>3, LenProperties
  <1> DEFINE U == [k \in 1 .. m |-> IF k = 1 THEN a + 12 ELSE R[k].from + R[k].len - 1]
  <1>5. /\ U[1] = a + 12 /\ U[m] = z /\ \A k \in 1 .. m : U[k] \in Int
        /\ \A k \in 2 .. m : /\ R[k].from = U[k - 1] + 4
                             /\ R[k].len = script.stream[U[k - 1] + 1]
                             /\ R[k].len \in Nat /\ U[k] = U[k - 1] + 3 + R[k].len
    <2>1. \A k \in 2 .. m : /\ k \in 1 .. Len(R) /\ k # 1 /\ k - 1 \in 1 .. m
      BY <1>2
    <2>2. \A k \in 1 .. m : U[k] \in Int
      BY <1>1, <1>2
    <2>3. U[m] = z
      BY <1>2, <1>3 DEF ServesSSL
    <2>4. ASSUME NEW k \in 2 .. m
          PROVE  /\ R[k].from = U[k - 1] + 4
                 /\ R[k].len = script.stream[U[k - 1] + 1]
      <3>1. R[k] = [from |-> U[k - 1] + 4, len |-> script.stream[U[k - 1] + 1]]
        BY <1>2, <1>3, <2>1 DEF ServesSSL
      <3> HIDE DEF R, U
      <3> QED
        BY <3>1
    <2>5. ASSUME NEW k \in 2 .. m
          PROVE  R[k].len \in Nat /\ U[k] = U[k - 1] + 3 + R[k].len
      <3>1. R[k] \in [from : Nat, len : Nat]
        BY <1>1, <2>1
      <3>2. U[k] = R[k].from + R[k].len - 1 /\ U[k - 1] \in Int
        BY <2>1, <2>2
      <3>3. R[k].from = U[k - 1] + 4
        BY <2>4
      <3> HIDE DEF R, U
      <3>4. R[k].len \in Nat /\ R[k].from \in Nat
        BY <3>1
      <3>5. PICK x \in Int, y \in Nat, w \in Nat :
               x = U[k - 1] /\ y = R[k].from /\ w = R[k].len
        BY <3>2, <3>4
      <3>6. y + w - 1 = x + 3 + w
        <4>1. y = x + 4
          BY <3>3, <3>5
        <4> QED
          BY ONLY <4>1, x \in Int, y \in Nat, w \in Nat
      <3> QED
        BY <3>2, <3>5, <3>6
    <2>6. U[1] = a + 12
      BY <1>2
    <2> HIDE DEF U
    <2> QED
      BY <2>2, <2>3, <2>4, <2>5, <2>6
  <1>6. \A k \in 1 .. Len(R) : R[k] \in [from : Nat, len : Nat]
    BY <1>1
  <1> HIDE DEF U, R
  <1>7. \A k \in 1 .. m : U[k] >= a + 12
    <2> DEFINE B == {k \in Nat : k \in 1 .. m /\ ~(U[k] >= a + 12)}
    <2> SUFFICES ASSUME B # {}
                 PROVE  FALSE
      BY <1>2
    <2>1. B \in SUBSET Nat
      OBVIOUS
    <2>2. PICK k \in B : \A j \in B : k <= j
      <3> HIDE DEF B
      <3> QED
        BY <2>1, LeastNatural
    <2>3. k \in Nat /\ k \in 1 .. m /\ ~(U[k] >= a + 12)
      BY <2>2
    <2>4. k # 1
      BY <1>3, <1>5, <2>3
    <2>5. PICK p \in Nat : p = k - 1 /\ p \in 1 .. m /\ p < k /\ k \in 2 .. m
      BY <1>2, <2>3, <2>4
    <2>6. U[p] >= a + 12
      <3>1. p \notin B
        <4> HIDE DEF B
        <4> QED
          BY <2>2, <2>3, <2>5
      <3> QED
        BY <2>5, <3>1
    <2>7. R[k].len \in Nat /\ U[k] = U[p] + 3 + R[k].len /\ U[p] \in Int
      BY <1>5, <2>5
    <2>8. PICK x \in Int, w \in Nat : x = U[p] /\ w = R[k].len
      BY <2>7
    <2>9. U[k] = x + 3 + w /\ x >= a + 12
      BY <2>6, <2>7, <2>8
    <2>10. x + 3 + w >= a + 12
      BY ONLY <2>9, a \in Nat, x \in Int, w \in Nat
    <2> QED
      BY <2>3, <2>9, <2>10
  <1>8. PICK f : f = certificates_from(d)
    OBVIOUS
  <1>9. \A i \in 8 .. l + 4 : f[i] = CertificateAt(d, f, i)
    <2>1. Len(d) >= 4
      BY <1>4
    <2> QED
      BY <1>4, <1>8, <2>1, CertificatesLoop
  <1> DEFINE Found(k) ==
                /\ U[k] <= z
                /\ ~f[U[k] - a - 4].wrong
                /\ \E S \in Seq(Places) :
                      /\ S = f[U[k] - a - 4].places /\ Len(S) = m - k
                      /\ \A j \in 1 .. m - k : S[j] = R[k + j]
  <1>10. Found(m)
    <2>1. PICK i \in Nat : i = U[m] - a - 4 /\ i = l + 1 /\ i \in 8 .. l + 4
      BY <1>4, <1>5
    <2>2. Len(d) - i + 1 <= 0
      BY <1>4, <2>1
    <2>3. f[i] = [places |-> <<>>, wrong |-> FALSE]
      BY <1>9, <2>1, <2>2 DEF CertificateAt
    <2>4. <<>> \in Seq(Places) /\ Len(<<>>) = 0 /\ m - m = 0
      BY EmptySeq
    <2>5. ~f[i].wrong /\ f[i].places = <<>>
      BY <2>3
    <2>6. PICK S \in Seq(Places) : S = f[i].places /\ Len(S) = m - m
      BY <2>4, <2>5
    <2>7. \A j \in 1 .. m - m : S[j] = R[m + j]
      BY <2>4
    <2>8. U[m] <= z
      BY <1>5
    <2> QED
      BY <2>1, <2>5, <2>6, <2>7, <2>8
  <1>11. ASSUME NEW k \in 1 .. m, NEW q \in 2 .. m, q = k + 1, Found(q)
         PROVE  Found(k)
    <2>1. PICK u \in Nat, c \in Nat :
             /\ u = U[k] /\ c = R[q].len /\ U[q] = u + 3 + c /\ u >= a + 12
             /\ R[q].from = u + 4 /\ c = script.stream[u + 1]
      <3>1. q - 1 = k
        BY <1>11
      <3>2. /\ R[q].from = U[k] + 4 /\ R[q].len = script.stream[U[k] + 1]
            /\ R[q].len \in Nat /\ U[q] = U[k] + 3 + R[q].len
            /\ U[k] \in Int /\ U[k] >= a + 12
        BY <1>5, <1>7, <3>1
      <3>3. U[k] \in Nat
        BY <3>2
      <3> QED
        BY <3>2, <3>3
    <2>2. u + 3 + c <= z
      BY <1>11, <2>1
    <2>3. PICK i \in Nat, x \in Nat : i = u - a - 4 /\ x = i + 3 + c /\ i \in 8 .. l + 4
      <3>1. u - a - 4 \in Nat /\ u - a - 4 \in 8 .. l + 4
        <4>1. (a + 5) + l = z /\ u >= a + 12
          BY <1>4, <2>1
        <4> QED
          BY ONLY <2>2, <4>1, a \in Nat, z \in Nat, l \in Nat, u \in Nat, c \in Nat
      <3> QED
        BY <3>1
    <2>4. U[q] - a - 4 = x
      <3>1. U[q] = u + 3 + c
        BY <2>1
      <3> QED
        BY ONLY <2>3, <3>1, a \in Nat, u \in Nat, c \in Nat
    <2>5. i \in 1 .. Len(d) /\ Len(consumed) + i = u + 1
      <3>1. (a + 5) + l = z /\ l = Len(d) /\ Len(consumed) = a + 5
        BY <1>3, <1>4
      <3> QED
        BY ONLY <2>2, <2>3, <3>1, a \in Nat, z \in Nat, l \in Nat, u \in Nat,
                c \in Nat, i \in Nat
    <2>6. d[i] = c
      BY <2>1, <2>5
    <2>7. /\ ~(Len(d) - i + 1 <= 0)
          /\ ~(Len(d) - i + 1 < 3 \/ Len(d) - i + 1 < d[i])
          /\ i + 3 + d[i] = x
      <3>1. l - i + 1 = z - u
        BY <1>4, <2>3
      <3>2. ~(l - i + 1 <= 0) /\ ~(l - i + 1 < 3 \/ l - i + 1 < c)
        BY <2>2, <3>1
      <3> QED
        BY <1>4, <2>3, <2>6, <3>2
    <2>8. f[i] = [places |-> <<Place(i + 3, d[i])>> \o f[i + 3 + d[i]].places,
                  wrong |-> f[i + 3 + d[i]].wrong]
      <3>1. f[i] = CertificateAt(d, f, i)
        BY <1>9, <2>3
      <3> QED
        BY <2>7, <3>1 DEF CertificateAt
    <2>9. f[i].places = <<Place(i + 3, c)>> \o f[x].places /\ f[i].wrong = f[x].wrong
      <3>1. PICK A, W : A = <<Place(i + 3, c)>> \o f[x].places /\ W = f[x].wrong
        OBVIOUS
      <3>2. f[i] = [places |-> A, wrong |-> W]
        BY <2>6, <2>7, <2>8, <3>1
      <3>3. f[i].places = A /\ f[i].wrong = W
        BY ONLY <3>2
      <3> QED
        BY <3>1, <3>3
    <2>10. PICK g : g = Place(i + 3, c)
      OBVIOUS
    <2>11. g = R[q] /\ g \in Places
      <3>1. Len(consumed) + (i + 3) = u + 4
        <4>1. Len(consumed) = a + 5
          BY <1>3
        <4> QED
          BY ONLY <2>5, <4>1, a \in Nat, u \in Nat, i \in Nat
      <3>2. g = [from |-> u + 4, len |-> c]
        BY <2>10, <3>1 DEF Place
      <3>3. R[q] \in [from : Nat, len : Nat]
        BY <1>2, <1>6
      <3>4. g = R[q]
        BY <2>1, <3>2, <3>3
      <3> QED
        BY <3>3, <3>4 DEF Places
    <2>12. PICK T \in Seq(Places) :
             /\ T = f[x].places /\ Len(T) = m - q
             /\ \A j \in 1 .. m - q : T[j] = R[q + j]
      BY <1>11, <2>4
    <2>13. PICK S : S = <<g>> \o T
      OBVIOUS
    <2>14. /\ S \in Seq(Places) /\ Len(S) = 1 + (m - q)
           /\ \A j \in 1 .. 1 + (m - q) : S[j] = IF j <= 1 THEN g ELSE T[j - 1]
      <3> DEFINE P == Places
      <3>1. g \in P /\ T \in Seq(P)
        BY <2>11
      <3> HIDE DEF P
      <3>2. <<g>> \in Seq(P) /\ Len(<<g>>) = 1 /\ <<g>>[1] = g
        BY <3>1
      <3>3. /\ S \in Seq(P) /\ Len(S) = Len(<<g>>) + Len(T)
            /\ \A j \in 1 .. Len(<<g>>) + Len(T) :
                  S[j] = IF j <= Len(<<g>>) THEN <<g>>[j] ELSE T[j - Len(<<g>>)]
        BY <2>13, <3>1, <3>2, ConcatProperties
      <3>4. \A j \in 1 .. 1 + (m - q) : S[j] = IF j <= 1 THEN g ELSE T[j - 1]
        BY <2>12, <3>2, <3>3
      <3> QED
        BY <2>12, <3>2, <3>3, <3>4 DEF P
    <2>15. ASSUME NEW j \in 1 .. m - k
           PROVE  S[j] = R[k + j]
      <3>1. j \in 1 .. 1 + (m - q)
        BY <1>11
      <3>2. CASE j = 1
        BY <1>11, <2>11, <2>14, <3>1, <3>2
      <3>3. CASE j # 1
        <4>1. ~(j <= 1) /\ j - 1 \in 1 .. m - q /\ q + (j - 1) = k + j
          BY <1>11, <3>1, <3>3
        <4> QED
          BY <2>12, <2>14, <3>1, <4>1
      <3> QED
        BY <3>2, <3>3
    <2>16. Len(S) = m - k
      <3>1. 1 + (m - q) = m - k
        BY ONLY <1>11, k \in 1 .. m, q \in 2 .. m, m \in Nat
      <3> QED
        BY <2>14, <3>1
    <2>17. S = f[i].places
      BY <2>9, <2>10, <2>12, <2>13
    <2>18. ~f[i].wrong
      <3>1. ~f[x].wrong
        BY <1>11, <2>4
      <3> QED
        BY <2>9, <3>1
    <2>19. U[k] <= z
      <3>1. u <= z
        BY ONLY <2>2, u \in Nat, c \in Nat, z \in Nat
      <3> QED
        BY <2>1, <3>1
    <2> QED
      BY <2>1, <2>3, <2>14, <2>15, <2>16, <2>17, <2>18, <2>19
  <1> HIDE DEF Found
  <1>12. PICK k1 \in 1 .. m : k1 = 1
    BY <1>2
  <1>13. Found(k1)
    <2> DEFINE B == {j \in Nat : \E k \in 1 .. m : j = m - k /\ ~Found(k)}
    <2> SUFFICES ASSUME ~Found(k1)
                 PROVE  FALSE
      OBVIOUS
    <2>1. B \in SUBSET Nat
      OBVIOUS
    <2>2. \A k \in 1 .. m : ~Found(k) => m - k \in B
      <3>1. \A k \in 1 .. m : m - k \in Nat
        OBVIOUS
      <3> QED
        BY <3>1
    <2>3. B # {}
      BY <2>2
    <2>4. PICK j \in B : \A i \in B : j <= i
      <3> HIDE DEF B
      <3> QED
        BY <2>1, <2>3, LeastNatural
    <2>5. PICK k \in 1 .. m : j = m - k /\ ~Found(k)
      BY <2>4
    <2> HIDE DEF B
    <2>6. k # m
      BY <1>10, <2>5
    <2>7. PICK q \in 2 .. m : q = k + 1 /\ q \in 1 .. m
      BY <1>2, <2>6
    <2>8. ~Found(q)
      BY <1>11, <2>5, <2>7
    <2>9. j <= m - q
      BY <2>2, <2>4, <2>7, <2>8
    <2> QED
      BY <1>2, <2>5, <2>7, <2>9
  <1>14. U[k1] - a - 4 = 8
    BY <1>5, <1>12
  <1>15. PICK S \in Seq(Places) :
            /\ S = f[8].places /\ Len(S) = m - k1 /\ ~f[8].wrong
            /\ \A j \in 1 .. m - k1 : S[j] = R[k1 + j]
    BY <1>13, <1>14 DEF Found
  <1>16. /\ Len(S) = m - 1
         /\ \A j \in 1 .. m - 1 : S[j] = R[j + 1]
    BY <1>12, <1>15
  <1> QED
    BY <1>2, <1>8, <1>15, <1>16 DEF list_certificates, R

LEMMA ServedList ==
    ASSUME AtWork, (Called("hs2") /\ ~IsList(Data) /\ failure) \/ on_handshake2
    PROVE  ServedInv'
PROOF
  <1>1. stage = "hs2"
    BY DEF on_handshake2, Called
  <1>2. script.proto = "ssl" /\ ServesSSL(script) /\ SSLAt
    BY <1>1, StageOf DEF SSLStages
  <1>3. PICK i \in {1, 2}, j \in {1, 2} : i = 2 /\ j = 1 /\ i = j + 1
    OBVIOUS
  <1>4. AtBody(i) /\ Len(given) = 1 /\ i \in Nat /\ script \in Scripts
    BY <1>1, <1>2, <1>3 DEF SSLAt, AtWork
  <1>5. /\ Data \in Seq(Bytes) /\ Len(Data) \in Nat
        /\ Len(Packet(script, i)) = Len(Data) + 5
        /\ Len(consumed) = Start(script, i) + 5
        /\ Len(consumed) + Len(Data) = script.ends[i]
        /\ \A k \in 1 .. Len(Data) : Data[k] = Packet(script, i)[k + 5]
    BY <1>4, BodyBytes
  <1>6. Len(Data) >= 7
    <2>1. Len(Packet(script, i)) >= 12
      BY <1>2, <1>4, SSLServerFacts
    <2> QED
      BY <1>5, <2>1
  <1>7. IsList(Data)
    <2>1. 1 \in 1 .. Len(Data) /\ 2 \in 1 .. Len(Data) /\ 5 \in 1 .. Len(Data)
      BY <1>5, <1>6
    <2>2. /\ Data[1] = Packet(script, i)[6] /\ Data[2] = Packet(script, i)[7]
          /\ Data[5] = Packet(script, i)[10]
      BY <1>5, <2>1
    <2>3. /\ Packet(script, i)[6] = 11
          /\ Packet(script, i)[10] = Len(Packet(script, i)) - 12
      BY <1>2, <1>3 DEF ServesSSL
    <2>4. Packet(script, i)[7] = Len(Packet(script, i)) - 9
      BY <1>2, <1>4, SSLServerFacts
    <2>5. Data[2] = Len(Data) - 4 /\ Data[5] = Len(Data) - 4 - 3
      BY <1>5, <2>2, <2>3, <2>4
    <2> QED
      BY <1>5, <1>6, <2>2, <2>3, <2>5 DEF IsList, IsHandshake, SizeofHandshake
  <1>8. on_handshake2
    BY <1>7
  <1>9. Len(consumed) = script.ends[1] + 5 /\ Len(consumed) + Len(Data) = script.ends[2]
    <2>1. Start(script, i) = script.ends[j]
      BY <1>2, <1>3, <1>4, SSLServerFacts, PacketFacts
    <2> QED
      BY <1>3, <1>5, <2>1
  <1>10. \A k \in 1 .. Len(Data) : Data[k] = script.stream[Len(consumed) + k]
    BY DataIs DEF AtWork
  <1>11. PICK S \in Seq(Places) :
            /\ S = list_certificates(Data).places /\ ~list_certificates(Data).wrong
            /\ Len(S) = Len(script.results) - 1
            /\ \A k \in 1 .. Len(script.results) - 1 : S[k] = script.results[k + 1]
    BY <1>2, <1>4, <1>5, <1>6, <1>9, <1>10, CertificatesAre DEF AtWork
  <1>12. Len(script.results) \in Nat
    BY ResultFacts DEF AtWork
  <1>13. /\ Len(given) + Len(S) = Len(script.results)
         /\ Len(given) + Len(S) <= Len(script.results)
    BY <1>4, <1>11, <1>12
  <1>14. \A k \in 1 .. Len(S) : Covers(S[k], script.results[Len(given) + k])
    <2>1. \A k \in 1 .. Len(S) : S[k] = script.results[Len(given) + k]
      <3>1. \A k \in 1 .. Len(S) : Len(given) + k = k + 1
        BY <1>4
      <3> QED
        BY <1>11, <3>1
    <2> QED
      BY <2>1 DEF Covers
  <1>15. refuses(S) \/ (same_trigger /\ ConnectionEnd /\ accepts(S))
    BY <1>8, <1>11 DEF on_handshake2, ends
  <1>16. CASE refuses(S)
    BY <1>13, <1>14, <1>16, ServedRefuses
  <1>17. CASE same_trigger /\ ConnectionEnd /\ accepts(S)
    <2>1. UNCHANGED <<script, verdicts, stage>>
      BY <1>17 DEF same_trigger, accepts
    <2>2. AsSent' /\ Len(given') = Len(given) + Len(S)
      BY <1>13, <1>14, <1>17, <2>1, HandedAsSent DEF AtWork
    <2> QED
      BY <1>13, <1>17, <2>1, <2>2, ServedEnd
  <1> QED
    BY <1>15, <1>16, <1>17

LEMMA ServedSSL ==
    ASSUME AtWork, SSLStep
    PROVE  ServedInv'
  BY ServedTLSHeader, ServedHello, ServedList, Zenon DEF SSLStep

---------------------------------------------------------------------------
(* SIP servers.                                                           *)

\* The value of a header of a server lies on its line.
LEMMA ValueFacts ==
    ASSUME NEW s \in Scripts, NEW i \in 1 .. Len(s.ends), NEW r, IsValue(s, i, r)
    PROVE  r.from \in Nat /\ Start(s, i) < r.from /\ r.from <= s.ends[i]
PROOF
  <1>1. /\ Start(s, i) \in Nat /\ s.ends[i] \in Nat
        /\ Len(Packet(s, i)) = s.ends[i] - Start(s, i)
    BY PacketFacts
  <1>2. PICK c \in 1 .. Len(Packet(s, i)) - 2 : r.from = Start(s, i) + c + 1
    BY DEF IsValue
  <1>3. PICK a \in Nat, e \in Nat : a = Start(s, i) /\ e = s.ends[i]
    BY <1>1
  <1>4. c \in 1 .. (e - a) - 2 /\ r.from = a + c + 1
    BY <1>1, <1>2, <1>3
  <1>5. r.from \in Nat /\ a < r.from /\ r.from <= e
    BY ONLY <1>4, a \in Nat, e \in Nat
  <1> QED
    BY <1>3, <1>5

\* A line has one value.
LEMMA ValueUnique ==
    ASSUME NEW s \in Scripts, NEW i \in 1 .. Len(s.ends), NEW r, IsValue(s, i, r),
           NEW t, IsValue(s, i, t)
    PROVE  r = t
PROOF
  <1> DEFINE p == Packet(s, i)
             At(c, x) == /\ c \in 1 .. Len(p) - 2
                         /\ p[c] = Colon /\ \A j \in 1 .. c - 1 : p[j] # Colon
                         /\ x = [from |-> Start(s, i) + c + 1, len |-> Len(p) - c - 2]
  <1>1. Len(p) \in Nat
    BY PacketFacts, LenProperties
  <1>2. (\E c : At(c, r)) /\ (\E c : At(c, t))
    BY DEF IsValue
  <1>3. PICK c, b : At(c, r) /\ At(b, t)
    BY <1>2
  <1> HIDE DEF p
  <1>4. c \in Nat /\ b \in Nat /\ c >= 1 /\ b >= 1
    BY <1>1, <1>3
  <1>5. ~(c < b)
    <2> SUFFICES ASSUME c < b
                 PROVE  FALSE
      OBVIOUS
    <2>1. c \in 1 .. b - 1
      BY <1>4
    <2> QED
      BY <1>3, <2>1
  <1>6. ~(b < c)
    <2> SUFFICES ASSUME b < c
                 PROVE  FALSE
      OBVIOUS
    <2>1. b \in 1 .. c - 1
      BY <1>4
    <2> QED
      BY <1>3, <2>1
  <1>7. b = c
    BY <1>4, <1>5, <1>6
  <1> QED
    BY <1>3, <1>7

\* Lines follow each other: a place on a line between two starts is on a line
\* between them.
LEMMA LinesOrdered ==
    ASSUME NEW s \in Scripts, NEW i \in 1 .. Len(s.ends), NEW j \in 1 .. Len(s.ends)
    PROVE  /\ i < j => s.ends[i] <= Start(s, j)
           /\ i <= j => Start(s, i) <= Start(s, j)
PROOF
  <1>1. /\ Start(s, i) \in Nat /\ s.ends[i] \in Nat /\ Start(s, i) < s.ends[i]
        /\ Start(s, j) \in Nat
    BY PacketFacts
  <1>2. ASSUME i < j
        PROVE  s.ends[i] <= Start(s, j)
    <2>1. Len(s.ends) \in Nat /\ DOMAIN s.ends = 1 .. Len(s.ends)
      BY ScriptFacts
    <2>2. PICK k \in 1 .. Len(s.ends) : k = j - 1
      BY <1>2, <2>1
    <2>3. j # 1 /\ Start(s, j) = s.ends[k]
      BY <1>2, <2>1, <2>2 DEF Start
    <2>4. CASE i = k
      BY <1>1, <2>3, <2>4
    <2>5. CASE i # k
      <3>1. i < k
        BY <1>2, <2>2, <2>5
      <3>2. s.ends[i] < s.ends[k]
        BY <2>1, <3>1, ScriptsAssumption
      <3> QED
        BY <1>1, <2>3, <3>2
    <2> QED
      BY <2>4, <2>5
  <1>3. ASSUME i <= j
        PROVE  Start(s, i) <= Start(s, j)
    <2>1. CASE i = j
      BY <1>1, <2>1
    <2>2. CASE i # j
      <3>1. i < j
        BY <1>3, <2>2
      <3>2. s.ends[i] <= Start(s, j)
        BY <1>2, <3>1
      <3> QED
        BY <1>1, <3>2
    <2> QED
      BY <2>1, <2>2
  <1> QED
    BY <1>2, <1>3

\* A value lies before a line, on it or after it.
LEMMA ResultLine ==
    ASSUME NEW s \in Scripts, NEW l, NEW e \in 1 .. Len(s.ends), ServesSIP(s, l, e),
           NEW k \in DOMAIN s.results, NEW i \in 1 .. e
    PROVE  /\ s.results[k].from \in Nat
           /\ \/ s.results[k].from <= Start(s, i)
              \/ i # e /\ IsValue(s, i, s.results[k])
              \/ i # e /\ s.results[k].from > s.ends[i]
PROOF
  <1>1. PICK j \in 1 .. e - 1 : IsValue(s, j, s.results[k])
    BY DEF ServesSIP
  <1>2. j \in 1 .. Len(s.ends) /\ i \in 1 .. Len(s.ends) /\ j # e
    OBVIOUS
  <1>3. PICK f \in Nat : /\ f = s.results[k].from
                         /\ Start(s, j) < f /\ f <= s.ends[j]
    BY <1>1, <1>2, ValueFacts
  <1>4. /\ Start(s, j) \in Nat /\ s.ends[j] \in Nat
        /\ Start(s, i) \in Nat /\ s.ends[i] \in Nat
    BY <1>2, PacketFacts
  <1>5. CASE j < i
    <2>1. s.ends[j] <= Start(s, i)
      BY <1>2, <1>5, LinesOrdered
    <2> QED
      BY <1>3, <1>4, <2>1
  <1>6. CASE j > i
    <2>1. s.ends[i] <= Start(s, j) /\ i # e
      BY <1>2, <1>6, LinesOrdered
    <2> QED
      BY <1>3, <1>4, <2>1
  <1>7. CASE j = i
    BY <1>1, <1>2, <1>3, <1>7
  <1> QED
    BY <1>2, <1>5, <1>6, <1>7

\* After a line without a value, as many values lie before.
LEMMA NoValueHere ==
    ASSUME NEW s \in Scripts, NEW l, NEW e \in 1 .. Len(s.ends), ServesSIP(s, l, e),
           NEW i \in 1 .. e - 1, NEW k \in DOMAIN s.results,
           ~ IsValue(s, i, s.results[k])
    PROVE  s.results[k].from <= Start(s, i) <=> s.results[k].from <= Start(s, i + 1)
PROOF
  <1>1. i \in 1 .. e /\ i \in 1 .. Len(s.ends)
    OBVIOUS
  <1>2. PICK f \in Nat : /\ f = s.results[k].from
                         /\ f <= Start(s, i) \/ f > s.ends[i]
    BY <1>1, ResultLine
  <1>3. /\ Start(s, i) \in Nat /\ s.ends[i] \in Nat /\ Start(s, i) < s.ends[i]
        /\ Start(s, i + 1) = s.ends[i]
    BY <1>1, PacketFacts
  <1>4. PICK a \in Nat, z \in Nat : a = Start(s, i) /\ z = s.ends[i]
    BY <1>3
  <1>5. f <= a <=> f <= z
    <2>1. a < z /\ (f <= a \/ f > z)
      BY <1>2, <1>3, <1>4
    <2> QED
      BY ONLY <2>1, a \in Nat, z \in Nat, f \in Nat
  <1> QED
    BY <1>2, <1>3, <1>4, <1>5

\* The value on a line is the next one, and the only one there.
LEMMA ValueHere ==
    ASSUME NEW s \in Scripts, NEW l, NEW e \in 1 .. Len(s.ends), ServesSIP(s, l, e),
           NEW i \in 1 .. e - 1, NEW m \in Nat, DOMAIN s.results = 1 .. m,
           NEW h \in 1 .. m, IsValue(s, i, s.results[h]), NEW g \in Nat,
           \A k \in 1 .. m : k <= g <=> s.results[k].from <= Start(s, i)
    PROVE  /\ h = g + 1
           /\ \A k \in 1 .. m : k <= g + 1 <=> s.results[k].from <= Start(s, i + 1)
PROOF
  <1>1. i \in 1 .. e /\ i \in 1 .. Len(s.ends)
    OBVIOUS
  <1>2. PICK a \in Nat, z \in Nat : /\ a = Start(s, i) /\ z = s.ends[i] /\ a < z
                                    /\ Start(s, i + 1) = z
    BY <1>1, PacketFacts
  <1> DEFINE F == [k \in 1 .. m |-> s.results[k].from]
  <1>3. /\ F[h] \in Nat /\ a < F[h] /\ F[h] <= z
    BY <1>1, <1>2, ValueFacts
  <1>4. \A k \in 1 .. m : F[k] \in Nat
    BY <1>1, ResultLine
  <1>5. \A k \in 1 .. m : F[k] <= a \/ F[k] > z \/ F[k] = F[h]
    <2> TAKE k \in 1 .. m
    <2>1. \/ s.results[k].from <= Start(s, i)
          \/ IsValue(s, i, s.results[k])
          \/ s.results[k].from > s.ends[i]
      BY <1>1, ResultLine
    <2>2. IsValue(s, i, s.results[k]) => s.results[k] = s.results[h]
      BY <1>1, ValueUnique
    <2> QED
      BY <1>2, <2>1, <2>2
  <1>6. \A j, k \in 1 .. m : j < k => F[j] < F[k]
    BY DEF ServesSIP
  <1>7. \A k \in 1 .. m : k <= g <=> F[k] <= a
    BY <1>2
  <1> HIDE DEF F
  <1>8. h > g
    BY <1>2, <1>3, <1>7
  <1>9. h = g + 1
    <2> SUFFICES ASSUME h # g + 1
                 PROVE  FALSE
      OBVIOUS
    <2>1. PICK n \in 1 .. m : n = g + 1 /\ n < h
      <3>1. g + 1 \in 1 .. m /\ g + 1 < h
        BY <1>8
      <3> QED
        BY <3>1
    <2>2. ~(n <= g)
      BY <2>1
    <2>3. F[n] < F[h] /\ ~(F[n] <= a) /\ F[n] \in Nat
      BY <1>4, <1>6, <1>7, <2>1, <2>2
    <2>4. F[n] > z \/ F[n] = F[h]
      BY <1>5, <2>3
    <2>5. PICK f \in Nat, b \in Nat : f = F[n] /\ b = F[h]
      BY <1>3, <2>3
    <2>6. f < b /\ b <= z /\ (f > z \/ f = b)
      BY <1>3, <2>3, <2>4, <2>5
    <2> QED
      BY ONLY <2>6, f \in Nat, b \in Nat, z \in Nat
  <1>10. ASSUME NEW k \in 1 .. m
         PROVE  k <= g + 1 <=> F[k] <= z
    <2>1. CASE k <= g
      <3>1. F[k] <= a /\ F[k] \in Nat
        BY <1>4, <1>7, <2>1
      <3> QED
        BY <1>2, <2>1, <3>1
    <2>2. CASE k = g + 1
      BY <1>3, <1>9, <2>2
    <2>3. CASE k > g + 1
      <3>1. F[h] < F[k] /\ F[k] \in Nat
        BY <1>4, <1>6, <1>9, <2>3
      <3>2. ~(k <= g)
        BY <2>3
      <3>3. F[k] > z
        BY <1>3, <1>5, <1>7, <3>1, <3>2
      <3> QED
        BY <1>2, <2>3, <3>1, <3>3
    <2> QED
      BY <2>1, <2>2, <2>3
  <1> QED
    BY <1>2, <1>9, <1>10 DEF F

\* What the helper makes of a header of a server.
LEMMA HeaderIs ==
    ASSUME NEW s \in Scripts, NEW i \in 1 .. Len(s.ends), NEW r, IsValue(s, i, r),
           NEW d \in Seq(Bytes), Len(Packet(s, i)) = Len(d) + 1,
           \A k \in 1 .. Len(d) : d[k] = Packet(s, i)[k],
           Len(consumed) = Start(s, i)
    PROVE  IsHeader(d) /\ d # <<CR>> /\ header_value(d) = r
PROOF
  <1> DEFINE p == Packet(s, i)
  <1>1. Len(d) \in Nat /\ DOMAIN d = 1 .. Len(d) /\ Start(s, i) \in Nat
    BY LenProperties, PacketFacts
  <1>2. PICK c \in 1 .. Len(p) - 2 :
           /\ p[c] = Colon /\ \A j \in 1 .. c - 1 : p[j] # Colon
           /\ p[Len(p) - 1] = CR /\ p[c + 2] # Space
           /\ \A j \in c + 1 .. Len(p) - 2 : p[j] # 0
           /\ r = [from |-> Start(s, i) + c + 1, len |-> Len(p) - c - 2]
    BY DEF IsValue
  <1>3. Len(p) = Len(d) + 1 /\ \A k \in 1 .. Len(d) : d[k] = p[k]
    OBVIOUS
  <1> HIDE DEF p
  <1>4. /\ c \in Nat /\ c >= 1 /\ c <= Len(d) - 1 /\ c \in 1 .. Len(d)
        /\ Len(d) \in 1 .. Len(d) /\ Len(p) - 1 = Len(d)
        /\ c + 1 \in 1 .. Len(d)
    <2>1. c \in 1 .. (Len(d) + 1) - 2
      BY <1>3
    <2> QED
      BY <1>1, <1>3, <2>1
  <1>5. d[Len(d)] = CR /\ d[c] = Colon /\ d[c + 1] = p[c + 1]
    BY <1>2, <1>3, <1>4
  <1>6. \A j \in 1 .. c - 1 : d[j] # Colon
    <2>1. \A j \in 1 .. c - 1 : j \in 1 .. Len(d)
      BY <1>1, <1>4
    <2> QED
      BY <1>2, <1>3, <2>1
  <1>7. d # <<>>
    BY <1>1, <1>4, EmptySeq
  <1>8. IsHeader(d)
    BY <1>1, <1>4, <1>5, <1>7 DEF IsHeader, IsLine
  <1>9. d # <<CR>>
    <2>1. Len(d) # 1
      BY <1>1, <1>4
    <2>2. Len(<<CR>>) = 1
      OBVIOUS
    <2> QED
      BY <2>1, <2>2
  <1>10. c = CHOOSE k \in DOMAIN d : IsFirstColon(k, d)
    <2> USE DEF IsFirstColon
    <2>1. ASSUME NEW k \in 1 .. Len(d), IsFirstColon(k, d)
          PROVE  k = c
      <3>1. ~(k < c)
        <4> SUFFICES ASSUME k < c
                     PROVE  FALSE
          OBVIOUS
        <4>1. k \in 1 .. c - 1
          BY <1>1, <1>4
        <4> QED
          BY <1>6, <2>1, <4>1
      <3>2. ~(c < k)
        <4> SUFFICES ASSUME c < k
                     PROVE  FALSE
          OBVIOUS
        <4>1. c \in 1 .. k - 1
          BY <1>1, <1>4
        <4> QED
          BY <1>5, <2>1, <4>1
      <3> QED
        BY <1>1, <1>4, <3>1, <3>2
    <2>2. c \in 1 .. Len(d) /\ IsFirstColon(c, d)
      BY <1>4, <1>5, <1>6
    <2> HIDE DEF IsFirstColon
    <2> QED
      BY <1>1, <2>1, <2>2
  <1>11. PICK z : z = terminated(d, d)
    OBVIOUS
  <1>12. /\ z[Len(d)] = 0
         /\ \A q \in 1 .. Len(d) : z[q] \in {0, d[q]}
         /\ \A q \in 1 .. Len(d) : q # Len(d) /\ ~IsFirstColon(q, d) => z[q] = d[q]
    BY <1>8, <1>11, TerminatedLine DEF IsHeader
  <1>13. ~(z[c + 1] # 0 /\ z[c + 2] = Space)
    <2> SUFFICES ASSUME z[c + 1] # 0, z[c + 2] = Space
                 PROVE  FALSE
      OBVIOUS
    <2>1. c + 1 # Len(d)
      BY <1>12
    <2>2. c + 2 \in 1 .. Len(d)
      <3>1. PICK n \in Nat : n = Len(d)
        BY <1>1
      <3>2. c + 1 # n /\ c <= n - 1
        BY <1>4, <2>1, <3>1
      <3>3. c + 2 \in 1 .. n
        BY ONLY <3>2, c \in Nat, n \in Nat
      <3> QED
        BY <3>1, <3>3
    <2>3. d[c + 2] = p[c + 2] /\ z[c + 2] \in {0, d[c + 2]}
      BY <1>3, <1>12, <2>2
    <2>4. Space # 0
      BY DEF Space
    <2> QED
      BY <1>2, <2>3, <2>4
  <1>14. ASSUME NEW q \in c + 1 .. Len(d) - 1
         PROVE  z[q] # 0
    <2>1. PICK n \in Nat : n = Len(d) /\ Len(p) - 2 = n - 1
      <3>1. PICK n \in Nat : n = Len(d)
        BY <1>1
      <3>2. Len(p) = n + 1
        BY <1>3, <3>1
      <3>3. Len(p) - 2 = n - 1
        BY ONLY <3>2, n \in Nat
      <3> QED
        BY <3>1, <3>3
    <2>2. q \in 1 .. n /\ q # n /\ c \in 1 .. q - 1 /\ q \in c + 1 .. n - 1
      BY ONLY <2>1, <1>4, q \in c + 1 .. Len(d) - 1, n \in Nat
    <2>3. ~IsFirstColon(q, d)
      BY <1>5, <2>2 DEF IsFirstColon
    <2>4. z[q] = d[q] /\ d[q] = p[q]
      BY <1>3, <1>12, <2>1, <2>2, <2>3
    <2>5. p[q] # 0
      BY <1>2, <2>1, <2>2
    <2> QED
      BY <2>4, <2>5
  <1>15. PICK v \in Nat, m \in Nat : v = c + 1 /\ v + m = Len(d) /\ m = Len(d) - v
    <2>1. c + 1 \in Nat /\ Len(d) - (c + 1) \in Nat
          /\ (c + 1) + (Len(d) - (c + 1)) = Len(d)
      BY <1>1, <1>4
    <2> QED
      BY <2>1
  <1>16. ASSUME NEW j \in 0 .. m - 1
         PROVE  z[v + j] # 0
    <2>1. v + j \in c + 1 .. Len(d) - 1
      BY <1>1, <1>4, <1>15
    <2> QED
      BY <1>14, <2>1
  <1>17. m = CHOOSE n \in 0 .. Len(d) - v :
                z[v + n] = 0 /\ \A j \in 0 .. n - 1 : z[v + j] # 0
    <2>1. m \in 0 .. Len(d) - v /\ z[v + m] = 0 /\ \A j \in 0 .. m - 1 : z[v + j] # 0
      BY <1>12, <1>15, <1>16
    <2>2. ASSUME NEW n \in 0 .. Len(d) - v, z[v + n] = 0
          PROVE  n = m
      <3>1. n \in 0 .. m /\ ~(n \in 0 .. m - 1)
        BY <1>15, <1>16, <2>2
      <3> QED
        BY ONLY <3>1, m \in Nat
    <2> QED
      BY <2>1, <2>2
  <1>18. header_value(d) = Place(v, m)
    BY <1>10, <1>11, <1>13, <1>15, <1>17 DEF header_value
  <1>19. Len(consumed) + v = Start(s, i) + c + 1 /\ m = Len(p) - c - 2
    <2>1. PICK a \in Nat, n \in Nat : a = Start(s, i) /\ n = Len(d)
      BY <1>1
    <2>2. Len(consumed) = a /\ Len(p) = n + 1
      BY <1>3, <2>1
    <2>3. a + v = a + c + 1 /\ m = (n + 1) - c - 2
      BY ONLY <1>15, <2>1, a \in Nat, n \in Nat, c \in Nat, <1>4
    <2> QED
      BY <2>1, <2>2, <2>3
  <1>20. header_value(d) = r
    BY <1>2, <1>18, <1>19 DEF Place
  <1> QED
    BY <1>8, <1>9, <1>20

\* And of its other lines.
LEMMA OtherLine ==
    ASSUME NEW s \in Scripts, NEW l, NEW e \in 1 .. Len(s.ends), ServesSIP(s, l, e),
           NEW i \in 1 .. e - 1, NEW d \in Seq(Bytes),
           Len(Packet(s, i)) = Len(d) + 1, Packet(s, i)[Len(d) + 1] = NL,
           \A k \in 1 .. Len(d) : d[k] = Packet(s, i)[k],
           ~ \E j \in DOMAIN Packet(s, i) : Packet(s, i)[j] = Colon
    PROVE  ~IsHeader(d) /\ d # <<CR>> /\ (l \/ IsStatus(d))
           /\ \A r : ~IsValue(s, i, r)
PROOF
  <1> DEFINE p == Packet(s, i)
  <1>1. /\ Len(d) \in Nat /\ DOMAIN d = 1 .. Len(d)
        /\ p \in Seq(Bytes) /\ DOMAIN p = 1 .. Len(d) + 1
    <2>1. i \in 1 .. Len(s.ends)
      OBVIOUS
    <2> QED
      BY <2>1, LenProperties, PacketFacts
  <1>2. /\ p # Line(<<>>)
        /\ l \/ (p[1] = SIP2 /\ p[Len(p) - 1] = CR)
    BY DEF ServesSIP
  <1>3. \A r : ~IsValue(s, i, r)
    <2> SUFFICES ASSUME NEW r, IsValue(s, i, r)
                 PROVE  FALSE
      OBVIOUS
    <2>1. PICK c \in 1 .. Len(p) - 2 : p[c] = Colon
      BY DEF IsValue
    <2>2. Len(p) = Len(d) + 1
      OBVIOUS
    <2> HIDE DEF p
    <2>3. c \in 1 .. Len(d) + 1
      BY <1>1, <2>2
    <2> QED
      BY <1>1, <2>1, <2>3 DEF p
  <1>4. ~IsHeader(d)
    <2> SUFFICES ASSUME NEW k \in DOMAIN d, d[k] = Colon
                 PROVE  FALSE
      BY DEF IsHeader
    <2>1. k \in 1 .. Len(d) /\ k \in 1 .. Len(d) + 1
      BY <1>1
    <2> QED
      BY <1>1, <2>1
  <1>5. d # <<CR>>
    <2> SUFFICES ASSUME d = <<CR>>
                 PROVE  FALSE
      OBVIOUS
    <2>1. Len(d) = 1 /\ d[1] = CR
      OBVIOUS
    <2>2. p[1] = CR /\ p[2] = NL /\ Len(p) = 2
      <3>1. 1 \in 1 .. Len(d)
        BY <2>1
      <3> QED
        BY <2>1, <3>1
    <2>3. Line(<<>>) = <<CR, NL>>
      BY DEF Line
    <2> HIDE DEF p
    <2>4. p = <<CR, NL>>
      BY <1>1, <2>2
    <2> QED
      BY <1>2, <2>3, <2>4
  <1>6. ASSUME ~l
        PROVE  IsStatus(d)
    <2>1. p[1] = SIP2 /\ p[Len(p) - 1] = CR /\ Len(p) = Len(d) + 1
      BY <1>2, <1>6
    <2>2. SIP2 # NL
      BY ByteFacts DEF SIP2, NL
    <2>3. Len(d) # 0
      <3> SUFFICES ASSUME Len(d) = 0
                   PROVE  FALSE
        OBVIOUS
      <3>1. p[1] = NL
        BY <1>1
      <3> QED
        BY <2>1, <2>2, <3>1
    <2>4. 1 \in 1 .. Len(d) /\ Len(d) \in 1 .. Len(d) /\ Len(p) - 1 = Len(d)
      BY <1>1, <2>1, <2>3
    <2>5. d[1] = SIP2 /\ d[Len(d)] = CR
      BY <2>1, <2>4
    <2>6. d # <<>>
      BY <2>3, EmptySeq
    <2> QED
      BY <1>4, <2>5, <2>6 DEF IsStatus, IsLine
  <1> QED
    BY <1>3, <1>4, <1>5, <1>6

\* Where the helper is after a line: nothing is left to give before the next.
LEMMA NextLine ==
    ASSUME AtWork, CanProcessAgain, NEW e \in 1 .. Len(script.ends),
           script.proto = "sip", ServesSIP(script, lenient, e), NEW i \in 1 .. e - 1,
           Len(consumed') = Start(script, i + 1), AsSent',
           stage = "line", trigger = Char(NL), sent = 1,
           UNCHANGED <<script, verdicts, stage, trigger, sent>>,
           \A k \in 1 .. Len(script.results) :
              k <= Len(given') <=> script.results[k].from <= Start(script, i + 1)
    PROVE  ServedInv'
PROOF
  <1>1. i + 1 \in 1 .. e /\ e \in DOMAIN script.ends
    BY ScriptFacts DEF AtWork
  <1>2. PICK j \in 1 .. e : j = i + 1
    BY <1>1
  <1>3. SIPAt(e)'
    BY <1>2 DEF SIPAt, Start
  <1>4. HelperAt'
    BY <1>1, <1>3, ServesKept DEF HelperAt
  <1> QED
    BY <1>4, ServedAgain

\* The empty line is the end, and everything was given before.
LEMMA ServedEmptyLine ==
    ASSUME AtWork, SIPStep, NEW e \in 1 .. Len(script.ends),
           ServesSIP(script, lenient, e), SIPAt(e), Len(consumed) = Start(script, e)
    PROVE  ServedInv'
PROOF
  <1>1. trigger = Char(NL) /\ IsFramedLine(Packet(script, e)) /\ script \in Scripts
        /\ Packet(script, e) = Line(<<>>)
    BY DEF SIPAt, ServesSIP, AtWork
  <1>2. /\ Data \in Seq(Bytes) /\ Len(Data) \in Nat
        /\ Len(Packet(script, e)) = Len(Data) + 1
        /\ \A k \in 1 .. Len(Data) : Data[k] = Packet(script, e)[k]
    BY <1>1, LineRead
  <1>3. Packet(script, e) = <<CR, NL>>
    BY <1>1 DEF Line
  <1>4. Len(Data) = 1 /\ 1 \in 1 .. Len(Data)
    <2>1. PICK n \in Nat : n = Len(Data)
      BY <1>2
    <2>2. Len(<<CR, NL>>) = 2
      OBVIOUS
    <2>3. n + 1 = 2
      BY <1>2, <1>3, <2>1, <2>2, Zenon
    <2>4. n = 1 /\ 1 \in 1 .. n
      BY ONLY <2>3, n \in Nat
    <2> QED
      BY <2>1, <2>4
  <1>5. Data[1] = CR
    BY <1>2, <1>3, <1>4
  <1>6. Data = <<CR>>
    BY <1>2, <1>4, <1>5
  <1>7. CR # Colon /\ CR # SIP2
    BY ByteFacts DEF CR, Colon, SIP2
  <1>8. ~IsHeader(Data) /\ ~IsStatus(Data)
    BY <1>6, <1>7 DEF IsHeader, IsStatus
  <1>9. sip_end
    BY <1>6, <1>8 DEF SIPStep, sip_invalid, sip_status, sip_header
  <1>10. ConnectionEnd /\ UNCHANGED <<script, verdicts, stage, given>>
    BY <1>9 DEF sip_end, ends, same_trigger
  <1>11. AsSent'
    BY <1>10 DEF AtWork, AsSent, Covers
  <1>12. Len(given) = Len(script.results)
    <2>1. /\ Len(script.results) \in Nat /\ Len(given) \in Nat
          /\ DOMAIN script.results = 1 .. Len(script.results)
          /\ Len(given) <= Len(script.results)
      <3>1. Len(given) \in Nat
        BY LenProperties DEF AtWork, AsSent
      <3> QED
        BY <3>1, ResultFacts DEF AtWork, AsSent
    <2> SUFFICES ASSUME Len(given) # Len(script.results)
                 PROVE  FALSE
      OBVIOUS
    <2>2. PICK k \in 1 .. Len(script.results) : ~(k <= Len(given))
      <3>1. Len(script.results) \in 1 .. Len(script.results)
            /\ ~(Len(script.results) <= Len(given))
        BY <2>1
      <3> QED
        BY <3>1
    <2>3. e \in 1 .. e
      OBVIOUS
    <2>4. script.results[k].from <= Start(script, e)
      BY <1>1, <2>1, <2>3, ResultLine
    <2> QED
      BY <2>2, <2>4 DEF SIPAt
  <1> QED
    BY <1>10, <1>11, <1>12, ServedEnd

\* A line without a colon: nothing is given.
LEMMA ServedOtherLine ==
    ASSUME AtWork, SIPStep, NEW e \in 1 .. Len(script.ends), script.proto = "sip",
           ServesSIP(script, lenient, e), SIPAt(e), NEW i \in 1 .. e - 1,
           Len(consumed) = Start(script, i),
           ~ \E j \in DOMAIN Packet(script, i) : Packet(script, i)[j] = Colon
    PROVE  ServedInv'
PROOF
  <1>1. /\ trigger = Char(NL) /\ stage = "line" /\ sent = 1 /\ script \in Scripts
        /\ i \in 1 .. Len(script.ends) /\ IsFramedLine(Packet(script, i))
    BY DEF SIPAt, ServesSIP, AtWork
  <1>2. /\ Data \in Seq(Bytes) /\ Len(Packet(script, i)) = Len(Data) + 1
        /\ Packet(script, i)[Len(Data) + 1] = NL
        /\ \A k \in 1 .. Len(Data) : Data[k] = Packet(script, i)[k]
        /\ CanProcessAgain => Len(consumed') = Start(script, i + 1)
    BY <1>1, LineRead
  <1>3. /\ ~IsHeader(Data) /\ Data # <<CR>> /\ (lenient \/ IsStatus(Data))
        /\ \A r : ~IsValue(script, i, r)
    BY <1>1, <1>2, OtherLine
  <1>4. \A k \in 1 .. Len(script.results) :
           k <= Len(given) <=> script.results[k].from <= Start(script, i + 1)
    <2> TAKE k \in 1 .. Len(script.results)
    <2>1. DOMAIN script.results = 1 .. Len(script.results)
      BY ResultFacts DEF AtWork
    <2>2. k <= Len(given) <=> script.results[k].from <= Start(script, i)
      BY DEF SIPAt
    <2>3. script.results[k].from <= Start(script, i)
            <=> script.results[k].from <= Start(script, i + 1)
      BY <1>1, <1>3, <2>1, NoValueHere
    <2> QED
      BY <2>2, <2>3
  <1>5. ASSUME CanProcessAgain,
               UNCHANGED <<script, verdicts, stage, trigger, sent, given>>
        PROVE  ServedInv'
    <2>1. AsSent'
      BY <1>5 DEF AtWork, AsSent, Covers
    <2>2. Len(consumed') = Start(script, i + 1)
      BY <1>2, <1>5
    <2> QED
      BY <1>1, <1>4, <1>5, <2>1, <2>2, NextLine
  <1>6. sip_invalid \/ sip_status
    BY <1>3 DEF SIPStep, sip_end, sip_header
  <1>7. CASE sip_status
    BY <1>5, <1>7 DEF sip_status, same_trigger
  <1>8. CASE sip_invalid
    <2>1. failure /\ lenient
      BY <1>3, <1>8 DEF sip_invalid
    <2> QED
      BY <1>5, <2>1, ServedFailure
  <1> QED
    BY <1>6, <1>7, <1>8

\* A header: its value is given.
LEMMA ServedHeader ==
    ASSUME AtWork, SIPStep, NEW e \in 1 .. Len(script.ends), script.proto = "sip",
           ServesSIP(script, lenient, e), SIPAt(e), NEW i \in 1 .. e - 1,
           Len(consumed) = Start(script, i),
           \E j \in DOMAIN Packet(script, i) : Packet(script, i)[j] = Colon
    PROVE  ServedInv'
PROOF
  <1>1. /\ trigger = Char(NL) /\ stage = "line" /\ sent = 1 /\ script \in Scripts
        /\ i \in 1 .. Len(script.ends) /\ IsFramedLine(Packet(script, i))
    BY DEF SIPAt, ServesSIP, AtWork
  <1>2. /\ Data \in Seq(Bytes) /\ Len(Packet(script, i)) = Len(Data) + 1
        /\ \A k \in 1 .. Len(Data) : Data[k] = Packet(script, i)[k]
        /\ CanProcessAgain => Len(consumed') = Start(script, i + 1)
    BY <1>1, LineRead
  <1>3. PICK h \in DOMAIN script.results : IsValue(script, i, script.results[h])
    BY DEF ServesSIP
  <1>4. PICK m \in Nat, g \in Nat :
           /\ m = Len(script.results) /\ g = Len(given)
           /\ DOMAIN script.results = 1 .. m
           /\ \A k \in 1 .. m : script.results[k] \in [from : Nat, len : Nat]
    <2>1. Len(given) \in Nat
      BY LenProperties DEF AtWork, AsSent
    <2> QED
      BY <2>1, ResultFacts DEF AtWork
  <1>5. /\ h = g + 1
        /\ \A k \in 1 .. m : k <= g + 1 <=> script.results[k].from <= Start(script, i + 1)
    <2>1. \A k \in 1 .. m : k <= g <=> script.results[k].from <= Start(script, i)
      BY <1>4 DEF SIPAt
    <2>2. PICK s \in Scripts : s = script
      BY <1>1
    <2>3. /\ e \in 1 .. Len(s.ends) /\ ServesSIP(s, lenient, e) /\ i \in 1 .. e - 1
          /\ DOMAIN s.results = 1 .. m /\ h \in 1 .. m /\ IsValue(s, i, s.results[h])
          /\ \A k \in 1 .. m : k <= g <=> s.results[k].from <= Start(s, i)
      BY <1>3, <1>4, <2>1, <2>2
    <2>4. /\ h = g + 1
          /\ \A k \in 1 .. m : k <= g + 1 <=> s.results[k].from <= Start(s, i + 1)
      BY ONLY <2>3, ValueHere, s \in Scripts, m \in Nat, g \in Nat
    <2> QED
      BY <2>2, <2>4
  <1>6. PICK r : r = script.results[h]
    OBVIOUS
  <1>7. IsHeader(Data) /\ Data # <<CR>> /\ header_value(Data) = r
    BY <1>1, <1>2, <1>3, <1>6, HeaderIs
  <1>8. r \in Places /\ Covers(r, script.results[h])
    BY <1>3, <1>4, <1>6 DEF Places, Covers
  <1>9. PICK S : S = <<r>>
    OBVIOUS
  <1>10. S \in Seq(Places) /\ Len(S) = 1 /\ S[1] = r
    BY <1>8, <1>9
  <1>11. /\ Len(given) + Len(S) <= Len(script.results)
         /\ \A k \in 1 .. Len(S) : Covers(S[k], script.results[Len(given) + k])
    BY <1>3, <1>4, <1>5, <1>8, <1>10
  <1>12. sip_header
    BY <1>7 DEF SIPStep, sip_invalid, sip_status, sip_end, IsStatus
  <1>13. refuses(S) \/ (same_trigger /\ CanProcessAgain /\ accepts(S))
    BY <1>7, <1>9, <1>12 DEF sip_header
  <1>14. CASE refuses(S)
    BY <1>10, <1>11, <1>14, ServedRefuses
  <1>15. CASE same_trigger /\ CanProcessAgain /\ accepts(S)
    <2>1. CanProcessAgain /\ UNCHANGED <<script, verdicts, stage, trigger, sent>>
      BY <1>15 DEF same_trigger, accepts
    <2>2. AsSent' /\ Len(given') = Len(given) + Len(S)
      BY <1>10, <1>11, <1>15, <2>1, HandedAsSent DEF AtWork
    <2>3. Len(given') = g + 1
      BY <1>4, <1>10, <2>2
    <2>4. \A k \in 1 .. Len(script.results) :
             k <= Len(given') <=> script.results[k].from <= Start(script, i + 1)
      BY <1>4, <1>5, <2>3
    <2>5. Len(consumed') = Start(script, i + 1)
      BY <1>2, <2>1
    <2> QED
      BY <1>1, <2>1, <2>2, <2>4, <2>5, NextLine
  <1> QED
    BY <1>13, <1>14, <1>15

LEMMA ServedSIP ==
    ASSUME AtWork, SIPStep
    PROVE  ServedInv'
PROOF
  <1>1. stage = "line"
    BY DEF SIPStep, sip_invalid, sip_status, sip_end, sip_header, Called
  <1>2. PICK e \in 1 .. Len(script.ends) :
           script.proto = "sip" /\ ServesSIP(script, lenient, e) /\ SIPAt(e)
    BY <1>1, StageOf
  <1>3. PICK i \in 1 .. e : Len(consumed) = Start(script, i)
    BY <1>2 DEF SIPAt
  <1>4. CASE i = e
    BY <1>2, <1>3, <1>4, ServedEmptyLine
  <1>5. CASE i # e
    <2>1. i \in 1 .. e - 1
      BY <1>5
    <2> QED
      BY <1>2, <1>3, <2>1, ServedOtherLine, ServedHeader
  <1> QED
    BY <1>4, <1>5

---------------------------------------------------------------------------
(* The inductive step.                                                    *)

LEMMA ServedInit == ProtoInit => ServedInv
PROOF
  <1> SUFFICES ASSUME ProtoInit, Serves(script, lenient)
               PROVE  ServedInv
    BY DEF ServedInv
  <1>1. /\ stage = "none" /\ consumed = <<>> /\ given = <<>> /\ pc = "idle"
        /\ connected = FALSE
    BY DEF ProtoInit, Init
  <1>2. Len(consumed) = 0 /\ Len(given) = 0 /\ given \in Seq(Places)
    BY <1>1, EmptySeq
  <1>3. AsSent
    BY <1>2, ResultFacts DEF AsSent
  <1>4. HelperAt
    BY <1>1, <1>2 DEF HelperAt
  <1> QED
    BY <1>1, <1>3, <1>4 DEF ServedInv

\* Before the connection nothing was given; every helper starts at the first
\* packet, with one message sent.
LEMMA ServedConnect ==
    ASSUME PathInv, ServedInv, Serves(script, lenient), SSH \/ SSL \/ SIP
    PROVE  ServedInv'
PROOF
  <1>1. /\ pc = "idle" /\ pc' = "idle" /\ ~connected /\ connected' /\ sent' = 1
        /\ UNCHANGED <<script, verdicts, given, consumed>>
        /\ script \in Scripts
    BY DEF SSH, SSL, SIP, connect, on_connect, hist, PathInv, ReceivedInv
  <1>2. Len(consumed') = 0 /\ Len(given') = 0
    <2>1. stage = "none" /\ HelperAt
      BY <1>1 DEF ServedInv
    <2> QED
      BY <1>1, <2>1 DEF HelperAt, SSHAt, SSLAt, SIPAt
  <1>3. AsSent'
    BY <1>1 DEF ServedInv, AsSent, Covers
  <1>4. PICK i \in Nat : i = 1 /\ i \in 1 .. Len(script.ends) + 1
    BY <1>1, ScriptFacts
  <1>5. Len(consumed') = Start(script, i) /\ script' = script /\ lenient' = lenient
    BY <1>1, <1>2, <1>4, ServesKept DEF Start
  <1>6. DOMAIN script.ends = 1 .. Len(script.ends) /\ Len(script.ends) \in Nat
    BY <1>1, ScriptFacts
  <1>7. CASE SSH
    <2>1. trigger' = Char(NL) /\ stage' = "version" /\ script.proto = "ssh"
      BY <1>7 DEF SSH, connect
    <2>2. PICK v \in DOMAIN script.ends : ServesSSH(script, lenient, v)
      BY <2>1 DEF Serves
    <2>3. i \in 1 .. v
      BY <1>4, <1>6, <2>2
    <2>4. SSHAt(v)'
      BY <1>1, <1>2, <1>5, <2>1, <2>3 DEF SSHAt, Start
    <2>5. HelperAt'
      BY <1>5, <2>1, <2>2, <2>4 DEF HelperAt
    <2> QED
      BY <1>1, <1>3, <2>1, <2>5 DEF ServedInv
  <1>8. CASE SSL
    <2>1. trigger' = Size(5) /\ stage' = "tls1" /\ script.proto = "ssl"
      BY <1>8 DEF SSL, connect, SizeofTLS
    <2>2. ServesSSL(script)
      BY <2>1 DEF Serves
    <2>3. AtHeader(i)'
      BY <1>4, <1>5, <2>1 DEF AtHeader, Start
    <2>4. SSLAt'
      BY <1>1, <1>2, <1>4, <2>1, <2>3 DEF SSLAt
    <2>5. HelperAt'
      BY <1>5, <2>1, <2>2, <2>4 DEF HelperAt
    <2> QED
      BY <1>1, <1>3, <2>1, <2>5 DEF ServedInv
  <1>9. CASE SIP
    <2>1. trigger' = Char(NL) /\ stage' = "line" /\ script.proto = "sip"
      BY <1>9 DEF SIP, connect
    <2>2. PICK e \in DOMAIN script.ends : ServesSIP(script, lenient, e)
      BY <2>1 DEF Serves
    <2>3. i \in 1 .. e /\ e \in 1 .. Len(script.ends)
      BY <1>4, <1>6, <2>2
    <2>4. \A k \in 1 .. Len(script.results) :
             k <= Len(given') <=> script.results[k].from <= Len(consumed')
      <3> TAKE k \in 1 .. Len(script.results)
      <3>1. k \in DOMAIN script.results /\ k >= 1 /\ k \in Nat
        BY ResultFacts
      <3>2. PICK j \in 1 .. e - 1 : IsValue(script, j, script.results[k])
        BY <2>2, <3>1 DEF ServesSIP
      <3>3. j \in 1 .. Len(script.ends)
        BY <2>3
      <3>4. PICK a \in Nat, f \in Nat :
               a = Start(script, j) /\ f = script.results[k].from /\ a < f
        BY <1>1, <3>2, <3>3, ValueFacts, PacketFacts
      <3>5. ~(f <= 0)
        BY ONLY <3>4, a \in Nat, f \in Nat
      <3> QED
        BY <1>2, <3>1, <3>4, <3>5
    <2>5. SIPAt(e)'
      BY <1>1, <1>5, <2>1, <2>3, <2>4 DEF SIPAt, Start
    <2>6. HelperAt'
      BY <1>5, <2>1, <2>2, <2>5 DEF HelperAt
    <2> QED
      BY <1>1, <1>3, <2>1, <2>6 DEF ServedInv
  <1> QED
    BY <1>7, <1>8, <1>9

\* A callback is called only once connected.
LEMMA CalledAtWork ==
    ASSUME PathInv, ServedInv, Serves(script, lenient), SSHStep \/ SSLStep \/ SIPStep
    PROVE  AtWork
PROOF
  <1>1. \E s \in SSHStages \cup SSLStages \cup {"line"} : Called(s)
    BY DEF SSHStep, ssh_invalid, ssh_version, ssh_kex, SSHAnswer, SSHAnswer_short,
           ssh_reply_invalid, ssh_certificate, SSLStep, on_tls_header,
           handshake_invalid, on_handshake1, on_handshake1_wild, on_handshake2,
           SIPStep, sip_invalid, sip_status, sip_end, sip_header,
           SSHStages, SSLStages
  <1>2. /\ pc \in {"data", "dirty"} /\ Cuts(trigger, buf, prev_pos) # {}
        /\ stage # "none"
    BY <1>1 DEF Called, SSHStages, SSLStages
  <1> QED
    BY <1>2 DEF AtWork, ServedInv, PathInv, ReceivedInv

LEMMA ServedStep ==
    ASSUME PathInv, ServedInv, [ProtoNext]_protoVars
    PROVE  ServedInv'
PROOF
  <1>1. UNCHANGED <<script, verdicts>>
    BY PathStep
  <1> SUFFICES ASSUME Serves(script, lenient)
               PROVE  ServedInv'
    BY <1>1, ServesKept DEF ServedInv
  <1>2. CASE UNCHANGED protoVars \/ ProtoRest
    <2>1. /\ UNCHANGED <<pc, stage, trigger, consumed, given, connected, sent>>
          /\ UNCHANGED refused
      BY <1>2 DEF ProtoRest, protoVars, vars, proto, hist, conn
    <2>2. pc # "crashed"
      BY DEF ServedInv
    <2>3. CASE pc = "end"
      <3>1. AsSent'
        BY <1>1, <2>1 DEF ServedInv, AsSent, Covers
      <3> QED
        BY <1>1, <2>1, <2>3, <3>1 DEF ServedInv
    <2>4. CASE pc # "end"
      BY <1>1, <2>1, <2>2, <2>4, ServedKept
    <2> QED
      BY <2>3, <2>4
  <1>3. ASSUME NEW n \in 1 .. (Len(script.stream) - Len(received)), data(n)
        PROVE  ServedInv'
    <2>1. /\ pc = "idle" /\ pc' = "data"
          /\ UNCHANGED <<stage, trigger, consumed, given, connected, sent>>
      BY <1>3 DEF data, process_lvl4_data, proto, conn
    <2> QED
      BY <1>1, <2>1, ServedKept
  <1>4. CASE process_buffer /\ UNCHANGED proto
    <2>1. /\ pc = "idle" /\ pc' = "dirty"
          /\ UNCHANGED <<stage, trigger, consumed, given, connected, sent>>
      BY <1>4 DEF process_buffer, proto, conn, hist
    <2> QED
      BY <1>1, <2>1, ServedKept
  <1>5. CASE NoMoreToProcess /\ UNCHANGED proto
    <2>1. /\ pc # "end" /\ pc' = "idle"
          /\ UNCHANGED <<stage, trigger, consumed, given, connected, sent>>
      BY <1>5 DEF NoMoreToProcess, proto, conn, hist
    <2> QED
      BY <1>1, <2>1, ServedKept
  <1>6. CASE SSHStep \/ SSLStep \/ SIPStep
    BY <1>6, CalledAtWork, ServedSSH, ServedSSL, ServedSIP
  <1>7. CASE Turn
    BY <1>5, <1>6, <1>7 DEF Turn
  <1> QED
    BY <1>2, <1>3, <1>4, <1>7, ServedConnect DEF ProtoNext

---------------------------------------------------------------------------
(* Nothing the helper waits for is left once the peer is quiet.           *)

\* A quiet peer has sent every packet that it did not wait for in vain.
LEMMA QuietRead ==
    ASSUME PathInv, Quiet, NEW j \in 1 .. Len(script.ends), sent >= script.awaits[j]
    PROVE  Len(consumed) + Len(buf) >= script.ends[j]
PROOF
  <1>1. script \in Scripts /\ pc = "idle" /\ StreamInv /\ pc # "failed"
    BY DEF PathInv, ReceivedInv, Quiet
  <1>2. j \in DOMAIN script.ends /\ script.ends[j] \in Nat
    BY <1>1, ScriptFacts
  <1>3. received = consumed \o buf /\ consumed \in Seq(Bytes) /\ buf \in Seq(Bytes)
    BY <1>1, ReceivedIs DEF StreamInv, TypeOK
  <1>4. /\ Len(received) = Len(consumed) + Len(buf)
        /\ Len(consumed) \in Nat /\ Len(buf) \in Nat
    BY <1>3, ConcatProperties, LenProperties
  <1>5. ~(Len(received) + 1 <= script.ends[j])
    BY <1>2 DEF Quiet, MaySend
  <1> QED
    BY <1>2, <1>4, <1>5

\* Less than a SizeDataTrigger asks for.
LEMMA TooShort ==
    ASSUME PathInv, pc = "idle", NEW m \in Nat, m > 0, trigger = Size(m)
    PROVE  Len(buf) < m /\ Len(buf) \in Nat
PROOF
  <1>1. /\ trigger \in DataTriggers /\ buf \in Seq(Bytes) /\ prev_pos \in Nat
        /\ Cuts(trigger, buf, prev_pos) = {} \/ buf = <<>>
    BY LenProperties DEF PathInv, StreamInv, TypeOK, SettledInv
  <1>2. Len(buf) \in Nat
    BY <1>1, LenProperties
  <1>3. trigger.kind = "size" /\ trigger.size = m
    BY DEF Size
  <1>4. CASE buf = <<>>
    BY <1>2, <1>4, EmptySeq
  <1>5. CASE Cuts(trigger, buf, prev_pos) = {}
    <2>1. (IF trigger.size <= Len(buf) THEN {trigger.size} ELSE {}) = {}
      BY <1>1, <1>3, <1>5, CutsOf, Zenon
    <2>2. ~(m <= Len(buf))
      BY <1>3, <2>1
    <2> QED
      BY <1>2, <2>2
  <1> QED
    BY <1>1, <1>4, <1>5

\* So no header, no body and no line is left.
LEMMA NoHeaderLeft ==
    ASSUME PathInv, pc = "idle", NEW i \in 1 .. Len(script.ends), AtHeader(i),
           Len(Packet(script, i)) >= 5, Len(consumed) + Len(buf) >= script.ends[i]
    PROVE  FALSE
PROOF
  <1>1. script \in Scripts /\ pc # "crashed"
    BY DEF PathInv, ReceivedInv
  <1>2. PICK m \in Nat : m = 5
    OBVIOUS
  <1>3. Len(buf) < m /\ Len(buf) \in Nat
    BY <1>2, TooShort DEF AtHeader
  <1>4. /\ Start(script, i) \in Nat /\ script.ends[i] \in Nat
        /\ Len(Packet(script, i)) = script.ends[i] - Start(script, i)
    BY <1>1, PacketFacts
  <1>5. PICK a \in Nat, z \in Nat, n \in Nat :
           a = Start(script, i) /\ z = script.ends[i] /\ n = Len(buf)
    BY <1>3, <1>4
  <1>6. z - a >= 5 /\ a + n >= z /\ n < 5
    BY <1>2, <1>3, <1>4, <1>5 DEF AtHeader
  <1> QED
    BY ONLY <1>6, a \in Nat, z \in Nat, n \in Nat

LEMMA NoBodyLeft ==
    ASSUME PathInv, pc = "idle", NEW i \in 1 .. Len(script.ends), AtBody(i),
           Len(Packet(script, i)) > 5, Len(consumed) + Len(buf) >= script.ends[i]
    PROVE  FALSE
PROOF
  <1>1. script \in Scripts /\ pc # "crashed"
    BY DEF PathInv, ReceivedInv
  <1>2. PICK a \in Nat, z \in Nat, n \in Nat :
           /\ a = Start(script, i) /\ z = script.ends[i] /\ n = Len(buf)
           /\ Len(Packet(script, i)) = z - a
    <2>1. /\ Start(script, i) \in Nat /\ script.ends[i] \in Nat
          /\ Len(Packet(script, i)) = script.ends[i] - Start(script, i)
      BY <1>1, PacketFacts
    <2>2. Len(buf) \in Nat
      BY <1>1, BufferIs
    <2> QED
      BY <2>1, <2>2
  <1>3. Len(consumed) = a + 5 /\ trigger = Size(z - (a + 5)) /\ z - a > 5
        /\ (a + 5) + n >= z
    BY <1>2 DEF AtBody
  <1>4. PICK m \in Nat : m = z - (a + 5) /\ m > 0
    BY ONLY <1>3, a \in Nat, z \in Nat
  <1>5. n < m
    BY <1>2, <1>3, <1>4, TooShort
  <1> QED
    BY ONLY <1>3, <1>4, <1>5, a \in Nat, z \in Nat, n \in Nat, m \in Nat

LEMMA NoLineLeft ==
    ASSUME PathInv, pc = "idle", trigger = Char(NL), NEW i \in 1 .. Len(script.ends),
           Len(consumed) = Start(script, i), IsFramedLine(Packet(script, i)),
           Len(consumed) + Len(buf) >= script.ends[i]
    PROVE  FALSE
PROOF
  <1>1. /\ script \in Scripts /\ pc # "crashed"
        /\ TypeOK /\ PositionInv /\ SettledInv
    BY DEF PathInv, ReceivedInv, StreamInv
  <1>2. PICK a \in Nat, z \in Nat, n \in Nat :
           /\ a = Start(script, i) /\ z = script.ends[i] /\ n = Len(buf) /\ a < z
           /\ Len(Packet(script, i)) = z - a
           /\ \A j \in 1 .. z - a : Packet(script, i)[j] = script.stream[a + j]
    <2>1. Len(buf) \in Nat
      BY <1>1, BufferIs
    <2> QED
      BY <1>1, <2>1, PacketFacts
  <1>3. PICK k \in Nat : k = z - a /\ k \in 1 .. z - a /\ k \in 1 .. n
    <2>1. a + n >= z
      BY <1>2
    <2>2. a < z
      BY <1>2
    <2> QED
      BY ONLY <2>1, <2>2, a \in Nat, z \in Nat, n \in Nat
  <1>4. Packet(script, i)[k] = NL
    BY <1>2, <1>3 DEF IsFramedLine
  <1>5. buf[k] = script.stream[a + k]
    BY <1>1, <1>2, <1>3, BufferIs
  <1>6. buf[k] = NL
    BY <1>2, <1>3, <1>4, <1>5
  <1>7. trigger.kind = "char" /\ trigger.c = NL
    BY DEF Char
  <1>8. buf[k] # NL
    BY <1>1, <1>2, <1>3, <1>7, NoDelimiter
  <1> QED
    BY <1>6, <1>8

\* The ends of two packets.
LEMMA EndsOrdered ==
    ASSUME NEW s \in Scripts, NEW i \in 1 .. Len(s.ends), NEW j \in 1 .. Len(s.ends),
           i <= j, NEW r \in Nat, r >= s.ends[j]
    PROVE  r >= s.ends[i]
PROOF
  <1>1. s.ends[i] \in Nat /\ s.ends[j] \in Nat /\ DOMAIN s.ends = 1 .. Len(s.ends)
    BY ScriptFacts
  <1>2. CASE i = j
    BY <1>2
  <1>3. CASE i # j
    <2>1. i \in DOMAIN s.ends /\ j \in DOMAIN s.ends /\ i < j
      BY <1>1, <1>3
    <2>2. \A a, b \in DOMAIN s.ends : a < b => s.ends[a] < s.ends[b]
      BY ScriptsAssumption, Zenon
    <2>3. s.ends[i] < s.ends[j]
      BY <2>1, <2>2
    <2> QED
      BY <1>1, <2>3
  <1> QED
    BY <1>2, <1>3

\* A quiet peer: its first lines up to one it sends at once.
LEMMA QuietLines ==
    ASSUME PathInv, Quiet, NEW e \in 1 .. Len(script.ends), sent = 1,
           script.awaits[e] \in 0 .. 1, trigger = Char(NL),
           \A i \in 1 .. e : IsFramedLine(Packet(script, i)),
           NEW i \in 1 .. e, Len(consumed) = Start(script, i)
    PROVE  FALSE
PROOF
  <1>1. script \in Scripts /\ pc = "idle" /\ pc # "crashed" /\ i <= e
        /\ i \in 1 .. Len(script.ends)
    BY DEF PathInv, ReceivedInv, Quiet
  <1>2. Len(consumed) + Len(buf) >= script.ends[e]
    BY QuietRead
  <1>3. Len(consumed) + Len(buf) \in Nat
    BY <1>1, BufferIs
  <1>4. PICK r \in Nat : r = Len(consumed) + Len(buf)
    BY <1>3
  <1>5. r >= script.ends[i]
    BY <1>1, <1>2, <1>4, EndsOrdered
  <1> QED
    BY <1>1, <1>4, <1>5, NoLineLeft

LEMMA QuietSSH ==
    ASSUME PathInv, Quiet, NEW v \in 1 .. Len(script.ends),
           ServesSSH(script, lenient, v), SSHAt(v)
    PROVE  Len(given) = 1
PROOF
  <1>1. /\ script \in Scripts /\ pc = "idle" /\ pc # "crashed"
        /\ DOMAIN script.ends = 1 .. Len(script.ends)
    BY ScriptFacts DEF PathInv, ReceivedInv, Quiet
  <1>2. stage # "version"
    <2> SUFFICES ASSUME stage = "version"
                 PROVE  FALSE
      OBVIOUS
    <2>1. trigger = Char(NL) /\ sent = 1 /\ v \in 1 .. v
      BY DEF SSHAt
    <2>2. PICK i \in 1 .. v : Len(consumed) = Start(script, i)
      BY DEF SSHAt
    <2>3. /\ script.awaits[v] \in 0 .. 1
          /\ \A j \in 1 .. v : IsFramedLine(Packet(script, j))
      BY <2>1 DEF ServesSSH
    <2> QED
      BY <2>1, <2>2, <2>3, QuietLines
  <1>3. sent = 3
    BY <1>2 DEF SSHAt
  <1>4. \A j \in 1 .. Len(script.ends) : Len(consumed) + Len(buf) >= script.ends[j]
    <2> TAKE j \in 1 .. Len(script.ends)
    <2>1. script.awaits[j] \in 0 .. 3
      BY <1>1 DEF ServesSSH
    <2>2. sent >= script.awaits[j]
      BY <1>3, <2>1
    <2> QED
      BY <2>2, QuietRead
  <1>5. PICK i \in 1 .. Len(script.ends), j \in 1 .. Len(script.ends) :
           i = v + 1 /\ j = v + 2
    BY <1>1, SSHServerFacts
  <1>6. PICK n \in Nat, a \in Nat, q \in Nat :
           /\ n = AnswerSize(v) /\ a = AnswerFrom(v) /\ n >= q + 5
           /\ a + n <= Len(script.stream) /\ Len(Packet(script, v + 2)) >= 5
    BY <1>1, ReplyFacts
  <1>7. stage # "kex_header" /\ stage # "kex"
    <2>1. Len(Packet(script, i)) > 5 /\ Len(Packet(script, i)) >= 5
      <3>1. Len(Packet(script, i)) > 5
        BY <1>5 DEF ServesSSH
      <3>2. Len(Packet(script, i)) \in Nat
        BY <1>1, PacketFacts, LenProperties
      <3> QED
        BY <3>1, <3>2
    <2>2. (stage = "kex_header" => AtHeader(i)) /\ (stage = "kex" => AtBody(i))
      BY <1>5 DEF SSHAt
    <2>3. Len(consumed) + Len(buf) >= script.ends[i]
      BY <1>4
    <2> QED
      BY <1>1, <2>1, <2>2, <2>3, NoHeaderLeft, NoBodyLeft
  <1>8. stage # "reply_header"
    <2> SUFFICES ASSUME stage = "reply_header"
                 PROVE  FALSE
      OBVIOUS
    <2>1. AtHeader(j) /\ Len(Packet(script, j)) >= 5
      BY <1>5, <1>6 DEF SSHAt
    <2> QED
      BY <1>1, <1>4, <2>1, NoHeaderLeft
  <1>9. ASSUME Len(consumed) = AnswerFrom(v), trigger = Size(AnswerSize(v))
        PROVE  FALSE
    <2>1. PICK z \in Nat, b \in Nat : z = Len(script.stream) /\ b = Len(buf)
      BY <1>1, ScriptFacts, BufferIs
    <2>2. n > 0
      BY ONLY <1>6, n \in Nat, q \in Nat
    <2>3. script.stream # <<>>
      <3> SUFFICES ASSUME script.stream = <<>>
                   PROVE  FALSE
        OBVIOUS
      <3>1. z = 0
        BY <2>1, EmptySeq
      <3>2. a + n <= z
        BY <1>6, <2>1
      <3> QED
        BY ONLY <2>2, <3>1, <3>2, a \in Nat, n \in Nat
    <2>4. PICK k \in 1 .. Len(script.ends) : script.ends[k] = Len(script.stream)
      BY <1>1, <2>3, ScriptsAssumption
    <2>5. a + b >= z
      BY <1>4, <1>6, <1>9, <2>1, <2>4
    <2>6. b < n
      BY <1>1, <1>6, <1>9, <2>1, <2>2, TooShort
    <2>7. a + n <= z
      BY <1>6, <2>1
    <2> QED
      BY ONLY <2>5, <2>6, <2>7, a \in Nat, b \in Nat, n \in Nat, z \in Nat
  <1> QED
    BY <1>2, <1>7, <1>8, <1>9 DEF SSHAt

LEMMA QuietSSL ==
    ASSUME PathInv, Quiet, ServesSSL(script), SSLAt
    PROVE  FALSE
PROOF
  <1>1. script \in Scripts /\ pc = "idle" /\ sent = 1
    BY DEF PathInv, ReceivedInv, Quiet, SSLAt
  <1>2. ASSUME NEW i \in {1, 2}, AtHeader(i) \/ AtBody(i)
        PROVE  FALSE
    <2>1. i \in 1 .. Len(script.ends) /\ Len(Packet(script, i)) >= 12
          /\ Len(Packet(script, i)) \in Nat
      BY <1>1, SSLServerFacts
    <2>2. Len(Packet(script, i)) >= 5 /\ Len(Packet(script, i)) > 5
      BY <2>1
    <2>3. script.awaits[i] \in 0 .. 1
      <3>1. i \in 1 .. 2
        OBVIOUS
      <3> QED
        BY <3>1 DEF ServesSSL
    <2>4. sent >= script.awaits[i]
      BY <1>1, <2>3
    <2>5. Len(consumed) + Len(buf) >= script.ends[i]
      BY <2>1, <2>4, QuietRead
    <2> QED
      BY <1>1, <1>2, <2>1, <2>2, <2>5, NoHeaderLeft, NoBodyLeft
  <1>3. PICK i \in {1, 2}, j \in {1, 2} : i = 1 /\ j = 2
    OBVIOUS
  <1>4. AtHeader(i) \/ AtBody(i) \/ AtHeader(j) \/ AtBody(j)
    BY <1>3 DEF SSLAt
  <1> QED
    BY <1>2, <1>4

LEMMA QuietSIP ==
    ASSUME PathInv, Quiet, NEW e \in 1 .. Len(script.ends),
           ServesSIP(script, lenient, e), SIPAt(e)
    PROVE  FALSE
PROOF
  <1>1. trigger = Char(NL) /\ sent = 1 /\ e \in 1 .. e
    BY DEF SIPAt
  <1>2. PICK i \in 1 .. e : Len(consumed) = Start(script, i)
    BY DEF SIPAt
  <1>3. /\ script.awaits[e] \in 0 .. 1
        /\ \A j \in 1 .. e : IsFramedLine(Packet(script, j))
    BY <1>1 DEF ServesSIP
  <1> QED
    BY <1>1, <1>2, <1>3, QuietLines

---------------------------------------------------------------------------
LEMMA ServedInvGiven == PathInv /\ ServedInv => GivenAsSent
PROOF
  <1> SUFFICES ASSUME PathInv, ServedInv, Serves(script, lenient)
               PROVE  GivenAsSent
    BY DEF GivenAsSent
  <1>1. AsSent /\ script \in Scripts
    BY DEF ServedInv, PathInv, ReceivedInv
  <1>2. DOMAIN given = 1 .. Len(given)
    BY <1>1, LenProperties DEF AsSent
  <1>3. ASSUME pc = "end", ~refused
        PROVE  Len(given) = Len(script.results)
    BY <1>3 DEF ServedInv
  <1>4. ASSUME Quiet
        PROVE  Len(given) = Len(script.results)
    <2>1. DOMAIN script.ends = 1 .. Len(script.ends)
      BY <1>1, ScriptFacts
    <2>2. HelperAt /\ stage # "none"
      BY <1>4 DEF ServedInv, Quiet
    <2>3. ASSUME NEW v \in 1 .. Len(script.ends), ServesSSH(script, lenient, v), SSHAt(v)
          PROVE  Len(given) = Len(script.results)
      <3>1. Len(given) = 1
        BY <1>4, <2>3, QuietSSH
      <3>2. Len(script.results) = 1
        BY <1>1, <2>3, SSHServerFacts
      <3> QED
        BY <3>1, <3>2
    <2> QED
      BY <1>4, <2>1, <2>2, <2>3, QuietSSL, QuietSIP DEF HelperAt
  <1> QED
    BY <1>1, <1>2, <1>3, <1>4 DEF GivenAsSent, AsSent

\* However its packets are cut into reads, the user of a helper is given what
\* the peer means, in order and nothing else, and has been given all of it when
\* the connection ends, unless the user refused some, or when the peer has
\* nothing left to say: for any server that does as Serves says, whatever its
\* packets hold and however many lines it has.
THEOREM AlwaysGivenAsSent == ProtoSpec => []GivenAsSent
PROOF
  <1>1. ProtoInit => PathInv /\ ServedInv
    BY PathInit, ServedInit
  <1>2. PathInv /\ ServedInv /\ [ProtoNext]_protoVars => (PathInv /\ ServedInv)'
    BY PathStep, ServedStep
  <1>3. PathInv /\ ServedInv => GivenAsSent
    BY ServedInvGiven
  <1> QED
    BY <1>1, <1>2, <1>3, PTL DEF ProtoSpec
=============================================================================
