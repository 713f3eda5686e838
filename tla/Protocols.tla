------------------------------- MODULE Protocols -------------------------------
(***************************************************************************)
(* The SSH, SSL and SIP helpers (src/src/protocols): exchanges written as  *)
(* chains of data triggers, on the data path of Lvl4Stream.  A helper is   *)
(* an on_connect callback that sends something and arms a trigger; each    *)
(* trigger's callback looks at what it is given, hands results to the      *)
(* user's callbacks and arms the next trigger, often with a length the     *)
(* peer announced.  Triggers are replaced while their callback runs.       *)
(*                                                                         *)
(* Bytes.  A number of several bytes is carried by its first byte, the     *)
(* others being 0, so that the decoding functions only index; bytes range  *)
(* over 0 .. Word - 1, Word being 2^32 in the code.  A run of text is one  *)
(* byte of its own.  Reading a field in the wrong place thus reads what is *)
(* there.                                                                  *)
(*                                                                         *)
(* The peer follows a script: packets that are well formed, or not, and it *)
(* answers only what it was asked.  Reads cut them anywhere.  Reconnection *)
(* and failing reads are in Lvl4Stream.                                    *)
(***************************************************************************)
EXTENDS Lvl4Stream

CONSTANT Scripts    \* what the peer may say

\* A script has the bytes of all the packets and, for each packet, where it
\* ends in them and how many messages of the helper the peer waits for before
\* it. Every length a peer can announce is the size of some SizeDataTrigger.
ASSUME ScriptsAssumption ==
    /\ Word > 58 /\ Bytes = 0 .. Word + 2 /\ Bytes \subseteq Sizes
    /\ \A s \in Scripts :
          /\ s.stream \in Seq(Bytes) /\ Len(s.stream) <= MaxStream
          /\ s.ends \in Seq(Nat \ {0}) /\ DOMAIN s.awaits = DOMAIN s.ends
          /\ \A i \in DOMAIN s.ends : s.ends[i] <= Len(s.stream)
          /\ \A i, j \in DOMAIN s.ends : i < j => s.ends[i] < s.ends[j]
          /\ s.stream # <<>> => \E i \in DOMAIN s.ends : s.ends[i] = Len(s.stream)

VARIABLES
    script,     \* what the peer says
    verdicts,   \* what the failure callback may return; {FALSE} if there is none
    stage,      \* the callback in the trigger
    sent,       \* messages sent by the helper
    given,      \* history: the calls of the user's result callbacks
    refused     \* history: a callback of the user returned false

proto == <<script, verdicts, stage, sent, given, refused>>
protoVars == <<vars, proto>>

Char(c) == [kind |-> "char", c |-> c]
Size(n) == [kind |-> "size", size |-> n]

---------------------------------------------------------------------------
(* Messages.                                                              *)

CR == 13
NL == 10
Space == 32
Colon == 58
Text == Word            \* a run of text without any of these
SSH2 == Word + 1        \* text that starts with SSH-2.0
SIP2 == Word + 2        \* text that starts with SIP/2.0

Field(n, width) == <<n>> \o [i \in 1 .. width - 1 |-> 0]
Filler(n) == [i \in 1 .. n |-> 1]
Line(text) == text \o <<CR, NL>>

\* TLS and Handshake of ssl_structs.h, and a certificate list: each
\* certificate, and the list, with a length of three bytes.
SizeofTLS == 5
SizeofHandshake == 4
TLSRecord(type, data) == <<type, 3, 0>> \o Field(Len(data), 2) \o data
Handshake(type, body) == <<type>> \o Field(Len(body), 3) \o body
Hello(n) == Filler(n) \o Field(7, 2) \o <<0>>
Certificates(list) == Field(Len(list), 3) \o list
Crt(n) == Field(n, 3) \o Filler(n)

\* An SSH packet: length of the rest, padding length, payload, padding.
SSHPacket(payload, padding) ==
    Field(1 + Len(payload) + padding, 4) \o <<padding>> \o payload
    \o [i \in 1 .. padding |-> 0]

\* What the helpers send: the announced lengths against the real sizes.
ClientHello == 2 + 32 + 1 + 22 + 2 + 2
client_hello ==
    [record |-> SizeofHandshake + ClientHello, handshake |-> ClientHello,
     size |-> SizeofTLS + SizeofHandshake + ClientHello]
client_key_exchange == [length |-> 1452, padding |-> 4, size |-> 1456]
client_dh == [length |-> 76, padding |-> 5, size |-> 80]

\* The messages the helpers send are framed as their protocols say, and the
\* handshake's length fits in the one byte the code puts it in.
ASSUME ClientFramed ==
    /\ client_hello.record = client_hello.size - 5
    /\ client_hello.handshake = client_hello.record - 4
    /\ client_hello.handshake < 256
    /\ \A m \in {client_key_exchange, client_dh} :
          m.length = m.size - 4 /\ m.padding < m.length

---------------------------------------------------------------------------
(* The peer.                                                              *)

\* Where packet i starts and ends, and its bytes.
Start(s, i) == IF i = 1 THEN 0 ELSE s.ends[i - 1]
Packet(s, i) == SubSeq(s.stream, Start(s, i) + 1, s.ends[i])

\* The peer may have sent n bytes, given the messages it was sent.
MaySend(n) ==
    \E i \in DOMAIN script.ends : n <= script.ends[i] /\ sent >= script.awaits[i]

\* A read of n bytes.
data(n) ==
    /\ MaySend(Len(received) + n)
    /\ process_lvl4_data(SubSeq(script.stream, Len(received) + 1, Len(received) + n))
    /\ UNCHANGED proto

---------------------------------------------------------------------------
(* What a trigger's callback does.                                        *)

\* The callback of trigger stage s is called.
Called(s) ==
    /\ pc \in {"data", "dirty"} /\ stage = s
    /\ Cuts(trigger, buf, prev_pos) # {}

\* What it is given, and where that is in the stream.
Data == Segment(trigger, buf, CHOOSE n \in Cuts(trigger, buf, prev_pos) : TRUE)
Place(i, n) == [from |-> Len(consumed) + i, len |-> n]

\* The user's failure callback may return true.
lenient == TRUE \in verdicts

\* A line of SIP ends with a carriage return.
IsLine(d) == d # <<>> /\ d[Len(d)] = CR

IsFirstColon(i, d) == d[i] = Colon /\ \A j \in 1 .. i - 1 : d[j] # Colon

\* Fault: one byte too early.
Fault_terminators(d) ==
    {i \in DOMAIN d : IsLine(d) /\ (i = Len(d) - 1 \/ IsFirstColon(i, d))}

\* Where the callback of SIP ends a text with a 0: over the CR of a line and
\* over its first colon.
terminators(d) ==
    {i \in DOMAIN d : IsLine(d) /\ (i = Len(d) \/ IsFirstColon(i, d))}

\* The bytes of b after that, d being what the callback was given of them.
terminated(b, d) ==
    LET zeros == terminators(d)
    IN  [i \in DOMAIN b |-> IF i \in zeros THEN 0 ELSE b[i]]

\* Return false: what the callback wrote stays in the buffer.
ends ==
    /\ buf' = IF stage = "line" THEN terminated(buf, Data) ELSE buf
    /\ ConnectionEnd

\* set_trigger and return true.
goes_on(t, s) ==
    /\ trigger' = t /\ reprocess' = TRUE /\ stage' = s
    /\ CanProcessAgain

same_trigger == UNCHANGED <<trigger, reprocess, stage>>

\* Fault: a failure callback that is not set counts as true.
Fault_failure ==
    /\ same_trigger
    /\ CanProcessAgain
    /\ UNCHANGED <<script, verdicts, sent, given, refused>>

\* call_cb<false> of a failure callback, and its result.
failure ==
    /\ same_trigger
    /\ \/ FALSE \in verdicts /\ ends /\ refused' = (refused \/ lenient)
       \/ lenient /\ CanProcessAgain /\ UNCHANGED refused
    /\ UNCHANGED <<script, verdicts, sent, given>>

\* A callback of the user gets the places of S, one after the other until one
\* call returns false; then the helper ends the connection.
refuses(S) ==
    /\ same_trigger /\ ends
    /\ \E k \in DOMAIN S : given' = given \o SubSeq(S, 1, k)
    /\ refused' = TRUE
    /\ UNCHANGED <<script, verdicts, sent>>

accepts(S) ==
    /\ given' = given \o S
    /\ UNCHANGED <<script, verdicts, sent, refused>>

\* operator(): sends its first message and arms its first trigger.
connect(p, t, s) ==
    /\ script.proto = p
    /\ trigger' = t /\ reprocess' = TRUE /\ stage' = s /\ sent' = 1
    /\ on_connect /\ pc' = "idle"
    /\ UNCHANGED <<script, verdicts, given, refused>>

---------------------------------------------------------------------------
(* SSH.                                                                   *)

SSH == connect("ssh", Char(NL), "version")

IsVersion(d) == d # <<>> /\ d[1] = SSH2

\* The line is not the version of a server.
ssh_invalid == Called("version") /\ ~IsVersion(Data) /\ failure

\* It is: client_key_exchange and client_dh are sent.
ssh_version ==
    /\ Called("version") /\ IsVersion(Data)
    /\ goes_on(Size(5), "kex_header") /\ sent' = sent + 2
    /\ UNCHANGED <<script, verdicts, given, refused>>

\* SSHAnswer: the length to wait for, 7 less than the announced length and the
\* padding together, in 32 bits. (The rest of a packet is the announced length
\* less 1, so this is right for a padding of 6.)
answer_length == (Data[1] + Data[5]) % Word

SSHAnswer(s, next) ==
    /\ Called(s) /\ answer_length > 7
    /\ goes_on(Size(answer_length - 7), next)
    /\ UNCHANGED <<script, verdicts, sent, given, refused>>

SSHAnswer_short(s) ==
    /\ Called(s) /\ answer_length <= 7
    /\ same_trigger /\ ends
    /\ UNCHANGED <<script, verdicts, sent, given, refused>>

\* The server's key exchange is skipped.
ssh_kex ==
    /\ Called("kex")
    /\ goes_on(Size(5), "reply_header")
    /\ UNCHANGED <<script, verdicts, sent, given, refused>>

\* SSHGetCertificate: a reply to client_dh, with the server's key in front.
IsReply(d) == Len(d) >= 5 /\ d[1] = 31 /\ Len(d) - 5 >= d[2]

ssh_reply_invalid == Called("reply") /\ ~IsReply(Data) /\ failure

ssh_certificate ==
    /\ Called("reply") /\ IsReply(Data)
    /\ LET key == <<Place(6, Len(Data) - 5)>>
       IN  refuses(key) \/ (same_trigger /\ CanProcessAgain /\ accepts(key))

SSHStep ==
    \/ ssh_invalid \/ ssh_version \/ ssh_kex
    \/ SSHAnswer("kex_header", "kex") \/ SSHAnswer("reply_header", "reply")
    \/ SSHAnswer_short("kex_header") \/ SSHAnswer_short("reply_header")
    \/ ssh_reply_invalid \/ ssh_certificate

---------------------------------------------------------------------------
(* SSL.                                                                   *)

SSL == connect("ssl", Size(SizeofTLS), "tls1")

\* on_tls_header: a handshake record, whose length is waited for.
on_tls_header(s, next) ==
    /\ Called(s)
    /\ \/ Data[1] # 22 /\ failure
       \/ /\ Data[1] = 22
          /\ goes_on(Size(Data[4]), next)
          /\ UNCHANGED <<script, verdicts, sent, given, refused>>

\* The record holds one whole handshake message of this type.
IsHandshake(d, type) ==
    /\ Len(d) >= SizeofHandshake /\ d[1] = type
    /\ d[2] = Len(d) - SizeofHandshake

handshake_invalid(s, type) == Called(s) /\ ~IsHandshake(Data, type) /\ failure

\* Fault: the answer to the first header is armed again.
Fault_on_handshake1 ==
    /\ Called("hs1") /\ IsHandshake(Data, 2) /\ Len(Data) >= 7
    /\ LET cipher == <<Place(Len(Data) - 2, 2)>>
       IN  refuses(cipher) \/ (goes_on(Size(SizeofTLS), "tls1") /\ accepts(cipher))

\* on_handshake1: the cipher is read from the end of the server's hello.
on_handshake1 ==
    /\ Called("hs1") /\ IsHandshake(Data, 2) /\ Len(Data) >= 7
    /\ LET cipher == <<Place(Len(Data) - 2, 2)>>
       IN  refuses(cipher) \/ (goes_on(Size(SizeofTLS), "tls2") /\ accepts(cipher))

\* A hello of less than 3 bytes: size-3 wraps around, and the cipher is read
\* far from the buffer. The process ends, or goes on with some number.
on_handshake1_wild ==
    /\ Called("hs1") /\ IsHandshake(Data, 2) /\ Len(Data) < 7
    /\ LET cipher == <<[from |-> 0, len |-> 2]>> IN
       \/ refuses(cipher)
       \/ goes_on(Size(SizeofTLS), "tls2") /\ accepts(cipher)
       \/ pc' = "crashed"
          /\ UNCHANGED <<buf, mem, trigger, reprocess, prev_pos, conn, hist, proto>>

\* The certificates of the list in d, from index i on: places of those the
\* callback is called for, and whether the list is then found wrong. The
\* length is compared before the 3 bytes that hold it are taken off.
certificates_from(d) ==
    LET crts[i \in 8 .. Len(d) + 4] ==
            LET left == Len(d) - i + 1
            IN  IF left <= 0 THEN [places |-> <<>>, wrong |-> FALSE]
                ELSE IF left < 3 \/ left < d[i]
                THEN [places |-> <<>>, wrong |-> TRUE]
                ELSE [places |-> <<Place(i + 3, d[i])>>
                                 \o crts[i + 3 + d[i]].places,
                      wrong |-> crts[i + 3 + d[i]].wrong]
    IN  crts

list_certificates(d) == certificates_from(d)[8]

IsList(d) ==
    /\ IsHandshake(d, 11)
    /\ Len(d) >= SizeofHandshake + 3
    /\ d[5] = Len(d) - SizeofHandshake - 3

\* on_handshake2: the certificates, then the end of the connection.
on_handshake2 ==
    /\ Called("hs2") /\ IsList(Data)
    /\ LET list == list_certificates(Data) IN
       \/ refuses(list.places)
       \/ /\ same_trigger
          /\ \/ (list.wrong => FALSE \in verdicts) /\ ends
             \/ list.wrong /\ lenient /\ CanProcessAgain
          /\ accepts(list.places)

SSLStep ==
    \/ on_tls_header("tls1", "hs1") \/ on_tls_header("tls2", "hs2")
    \/ handshake_invalid("hs1", 2) \/ on_handshake1 \/ on_handshake1_wild
    \/ (Called("hs2") /\ ~IsList(Data) /\ failure) \/ on_handshake2

---------------------------------------------------------------------------
(* SIP.                                                                   *)

SIP == connect("sip", Char(NL), "line")

\* A line is a header if it has a colon, otherwise a status line, or the empty
\* line.
IsHeader(d) == IsLine(d) /\ \E i \in DOMAIN d : d[i] = Colon
IsStatus(d) == IsLine(d) /\ ~IsHeader(d) /\ d[1] = SIP2

sip_invalid ==
    /\ Called("line")
    /\ ~IsHeader(Data) /\ ~IsStatus(Data) /\ Data # <<CR>>
    /\ failure

sip_status ==
    /\ Called("line") /\ IsStatus(Data)
    /\ same_trigger /\ CanProcessAgain
    /\ UNCHANGED <<script, verdicts, sent, given, refused>>

\* The empty line.
sip_end ==
    /\ Called("line") /\ Data = <<CR>>
    /\ same_trigger /\ ends
    /\ UNCHANGED <<script, verdicts, sent, given, refused>>

\* The value of a header: what follows the colon, without its first byte when
\* the second one is a space, up to the next 0. The zeros are in place already.
header_value(d) ==
    LET line == terminated(d, d)
        colon == CHOOSE i \in DOMAIN d : IsFirstColon(i, d)
        value == IF line[colon + 1] # 0 /\ line[colon + 2] = Space
                 THEN colon + 2 ELSE colon + 1
        size == CHOOSE n \in 0 .. Len(d) - value :
                   line[value + n] = 0 /\ \A j \in 0 .. n - 1 : line[value + j] # 0
    IN  Place(value, size)

sip_header ==
    /\ Called("line") /\ IsHeader(Data)
    /\ \E line \in {Data} :
          LET value == <<header_value(line)>>
          IN  refuses(value) \/ (same_trigger /\ CanProcessAgain /\ accepts(value))

SIPStep == sip_invalid \/ sip_status \/ sip_end \/ sip_header

---------------------------------------------------------------------------
ProtoInit ==
    /\ Init
    /\ script \in Scripts /\ verdicts \in SUBSET BOOLEAN \ {{}}
    /\ stage = "none" /\ sent = 0 /\ given = <<>> /\ refused = FALSE

\* One turn of the loop that runs the trigger.
Turn == (NoMoreToProcess /\ UNCHANGED proto) \/ SSHStep \/ SSLStep \/ SIPStep

Quiet == pc = "idle" /\ connected /\ ~MaySend(Len(received) + 1)

ProtoRest ==
    /\ pc \in {"end", "crashed"} \/ (Quiet /\ ~reprocess)
    /\ UNCHANGED protoVars

ProtoNext ==
    \/ SSH \/ SSL \/ SIP
    \/ \E n \in 1 .. (Len(script.stream) - Len(received)) : data(n)
    \/ process_buffer /\ UNCHANGED proto
    \/ Turn \/ ProtoRest

\* The loop runs on; nothing is assumed of the peer. (A turn that changes
\* nothing, like one of a SizeDataTrigger of size 0, is a stuttering step: a
\* loop that spins stays where it is.)
ProtoSpec == ProtoInit /\ [][ProtoNext]_protoVars /\ WF_protoVars(Turn)

---------------------------------------------------------------------------
(* Properties.                                                            *)

\* Packets as the helpers expect them: a line, an SSH packet with a padding of
\* 6, a TLS record.
IsFramedLine(p) == p[Len(p)] = NL /\ \A j \in 1 .. Len(p) - 1 : p[j] # NL
IsFramedSSH(p) == Len(p) \in 5 .. Word - 3 /\ p[1] = Len(p) - 4 /\ p[5] = 6
IsFramedTLS(p) == Len(p) >= SizeofTLS /\ p[4] = Len(p) - SizeofTLS

\* A script made of such packets. What follows an SSH key exchange does not
\* begin like another reply.
IsFramed(s) ==
    \A i \in DOMAIN s.ends :
        /\ s.proto = "ssh" => /\ i = 1 => IsFramedLine(Packet(s, i))
                              /\ i \in {2, 3} => IsFramedSSH(Packet(s, i))
                              /\ i = 4 => Packet(s, i)[1] # 31
        /\ s.proto = "ssl" => (i \in {1, 2} => IsFramedTLS(Packet(s, i)))
        /\ s.proto = "sip" => IsFramedLine(Packet(s, i))

Framable == IsFramed(script) /\ ~lenient

\* The user's callback accepted the SSH key: the helper has nothing more to do,
\* and leaves its last trigger in place.
KeyAccepted == stage = "reply" /\ given # <<>>

\* However the packets are cut into reads, a header is read where a packet
\* starts, what is waited for after it is the rest of that packet, and what
\* the user is handed lies inside one packet, but for the 3 bytes of a last
\* certificate whose length does not count its own header: replacing the
\* trigger inside its callback never costs or adds a byte.
Framed ==
    Framable =>
        /\ stage \in {"version", "line", "kex_header", "reply_header", "tls1",
                      "tls2"} =>
              \E i \in 1 .. Len(script.ends) + 1 : Len(consumed) = Start(script, i)
        /\ stage \in {"kex", "reply", "hs1", "hs2"} /\ ~KeyAccepted =>
              \E i \in DOMAIN script.ends :
                 /\ Len(consumed) = Start(script, i) + 5
                 /\ trigger = Size(script.ends[i] - Len(consumed))
        /\ \A k \in DOMAIN given : given[k].from > 0 =>
              \E i \in DOMAIN script.ends :
                 /\ given[k].from > Start(script, i)
                 /\ given[k].from + given[k].len - 1 <= script.ends[i] + 3

\* Peers that do as they should. The results of a script are what its peer
\* means: the places, in the stream, of what the user should be given.

\* An SSH server: its version on line v, after lines that a lenient user lets
\* pass; its key exchange, with a padding of 6; a reply that holds its key. Of
\* the reply, whatever its padding, the helper takes n bytes: they are there,
\* and no byte after them can be taken for the beginning of another reply.
ServesSSH(s, l, v) ==
    LET reply == Packet(s, v + 2)
        body == Start(s, v + 2) + 5
        n == reply[1] + reply[5] - 7
    IN  /\ v + 2 <= Len(s.ends) /\ (l \/ v = 1)
        /\ \A i \in 1 .. v :
              /\ IsFramedLine(Packet(s, i)) /\ s.awaits[i] \in 0 .. 1
              /\ (Packet(s, i)[1] = SSH2) <=> (i = v)
        /\ \A i \in DOMAIN s.ends : s.awaits[i] \in 0 .. 3
        /\ IsFramedSSH(Packet(s, v + 1)) /\ Len(Packet(s, v + 1)) > 5
        /\ Len(reply) >= 7 /\ reply[6] = 31 /\ n >= reply[7] + 5
        /\ n + 7 < Word /\ body + n <= Len(s.stream)
        /\ \A j \in body + n + 1 .. Len(s.stream) : s.stream[j] # 31
        /\ s.results = <<[from |-> body + 6, len |-> reply[7]]>>

\* An SSL server: a record with its hello, which ends with the cipher and one
\* more byte, and a record with its certificates, up to the end of it.
ServesSSL(s) ==
    LET hello == Packet(s, 1)
        list == Packet(s, 2)
        upto(k) == IF k = 1 THEN s.ends[1] + 12
                   ELSE s.results[k].from + s.results[k].len - 1
    IN  /\ Len(s.ends) >= 2
        /\ \A i \in 1 .. 2 : IsFramedTLS(Packet(s, i)) /\ s.awaits[i] \in 0 .. 1
        /\ Len(hello) >= 12 /\ hello[1] = 22
        /\ hello[6] = 2 /\ hello[7] = Len(hello) - 9
        /\ Len(list) >= 12 /\ list[1] = 22
        /\ list[6] = 11 /\ list[7] = Len(list) - 9 /\ list[10] = Len(list) - 12
        /\ s.results # <<>> /\ s.results[1] = [from |-> s.ends[1] - 2, len |-> 2]
        /\ \A k \in 2 .. Len(s.results) :
              s.results[k] = [from |-> upto(k - 1) + 4,
                              len |-> s.stream[upto(k - 1) + 1]]
        /\ upto(Len(s.results)) = s.ends[2]

\* Line i of a script is a header and r is where its value is: after the first
\* colon. No space follows its first byte, which header_value would take off,
\* and no byte of it is 0, which would end it.
IsValue(s, i, r) ==
    LET p == Packet(s, i)
    IN  \E c \in 1 .. Len(p) - 2 :
           /\ p[c] = Colon /\ \A j \in 1 .. c - 1 : p[j] # Colon
           /\ p[Len(p) - 1] = CR /\ p[c + 2] # Space
           /\ \A j \in c + 1 .. Len(p) - 2 : p[j] # 0
           /\ r = [from |-> Start(s, i) + c + 1, len |-> Len(p) - c - 2]

\* A SIP server: headers, status lines, and others that a lenient user lets
\* pass; then, on line e, the empty line.
ServesSIP(s, l, e) ==
    /\ Packet(s, e) = Line(<<>>)
    /\ \A i \in 1 .. e : IsFramedLine(Packet(s, i)) /\ s.awaits[i] \in 0 .. 1
    /\ \A i \in 1 .. e - 1 :
          LET p == Packet(s, i)
          IN  /\ p # Line(<<>>)
              /\ IF \E j \in DOMAIN p : p[j] = Colon
                 THEN \E k \in DOMAIN s.results : IsValue(s, i, s.results[k])
                 ELSE l \/ (p[1] = SIP2 /\ p[Len(p) - 1] = CR)
    /\ \A k \in DOMAIN s.results : \E i \in 1 .. e - 1 : IsValue(s, i, s.results[k])
    /\ \A j, k \in DOMAIN s.results : j < k => s.results[j].from < s.results[k].from

Serves(s, l) ==
    /\ s.results \in Seq([from : Nat, len : Nat])
    /\ \/ s.proto = "ssh" /\ \E v \in DOMAIN s.ends : ServesSSH(s, l, v)
       \/ s.proto = "ssl" /\ ServesSSL(s)
       \/ s.proto = "sip" /\ \E e \in DOMAIN s.ends : ServesSIP(s, l, e)

\* A result of the user's callback covers what the peer meant. An SSH key
\* comes with all that follows it.
Covers(g, e) ==
    g.from = e.from /\ (g.len = e.len \/ (script.proto = "ssh" /\ g.len >= e.len))

\* The user gets what the peer said, in order, and all of it as soon as the
\* peer has nothing left to say: the helper never waits for a peer that waits
\* for the helper, nor for bytes it already has.
GivenAsSent ==
    Serves(script, lenient) =>
        /\ Len(given) <= Len(script.results)
        /\ \A k \in DOMAIN given : Covers(given[k], script.results[k])
        /\ (Quiet \/ pc = "end") /\ ~refused =>
              Len(given) = Len(script.results)

\* What the finish callback is given is what the peer said from where the
\* helper stopped, byte for byte and nothing missing, but for the zeros of the
\* SIP helper: they replace a CR or a colon of the line it ended the connection
\* in, and reach no other line. Until then the buffer is as it was received.
KeptAsSent ==
    pc # "crashed" =>
        /\ Len(consumed) + Len(buf) = Len(received)
        /\ \A i \in DOMAIN buf :
              LET said(j) == script.stream[Len(consumed) + j] IN
              \/ buf[i] = said(i)
              \/ /\ pc = "end" /\ script.proto = "sip"
                 /\ buf[i] = 0 /\ said(i) \in {CR, Colon}
                 /\ \A j \in 1 .. i : said(j) # NL

\* Every turn of the engine comes back from the helper, whatever the peer
\* says, but for one case: the peer announces an empty record and the user's
\* failure callback returns true, which leaves a SizeDataTrigger of size 0.
Returns ==
    []<>(pc \notin {"data", "dirty"}) \/ <>[](lenient /\ trigger = ZeroTrigger)
=============================================================================
