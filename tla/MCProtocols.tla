----------------------------- MODULE MCProtocols -----------------------------
(* Peers for the protocol helpers, and a small instance for TLC.          *)
EXTENDS Protocols, SequencesExt

ByteValues == 0 .. Word + 2

\* A script: its packets, when they are sent, and what the user should get.
Script(p, packets, awaits, results) ==
    [proto |-> p, stream |-> FlattenSeq(packets),
     ends |-> [i \in DOMAIN packets |-> Len(FlattenSeq(SubSeq(packets, 1, i)))],
     awaits |-> awaits, results |-> results]

Range2(from, len) == [from |-> from, len |-> len]

---------------------------------------------------------------------------
(* SSH servers.                                                           *)

Version == Line(<<SSH2>>)
Kex(padding) == SSHPacket(Filler(3), padding)
Reply(type, keylen, key, padding) ==
    SSHPacket(<<type>> \o Field(keylen, 4) \o Filler(key + 1), padding)
NewKeys == SSHPacket(<<21>>, 4)

\* Servers that do as they should, with any padding of their packets.
SSHServer(p1, p2) ==
    Script("ssh", <<Version, Kex(p1), Reply(31, 2, 2, p2), NewKeys>>,
           <<0, 0, 3, 3>>, <<Range2(Len(Version \o Kex(p1)) + 11, 2)>>)

\* One that says something else first.
SSHBanner ==
    Script("ssh", <<Line(<<Text>>), <<NL>>, Version, Kex(6), Reply(31, 2, 2, 6)>>,
           <<0, 0, 0, 0, 3>>, <<Range2(4 + Len(Version \o Kex(6)) + 11, 2)>>)

SSHBad ==
    {Script("ssh", <<Version, k, r, NewKeys>>, <<0, 0, 3, 3>>, <<>>) :
        k \in {Kex(6), Field(1, 4) \o <<0, 1>>, Field(Word - 3, 4) \o <<12, 1, 1>>},
        r \in {Reply(30, 2, 2, 6), Reply(31, 9, 1, 4), SSHPacket(<<31>>, 4)}}

SSHScripts ==
    {SSHServer(6, p) : p \in {4, 6, 9}} \cup {SSHServer(p, 6) : p \in {4, 9}}
    \cup {SSHBanner} \cup SSHBad

---------------------------------------------------------------------------
(* SSL servers.                                                           *)

HelloRecord(n) == TLSRecord(22, Handshake(2, Hello(n)))
ListRecord(list) == TLSRecord(22, Handshake(11, Certificates(list)))

\* Servers that do as they should, with up to two certificates.
SSLServer(n, c) ==
    LET first == Len(HelloRecord(n)) + 16
    IN  Script("ssl",
               <<HelloRecord(n), ListRecord(FlattenSeq([i \in DOMAIN c |-> Crt(c[i])]))>>,
               <<1, 1>>,
               <<Range2(10 + n, 2)>> \o
               [i \in DOMAIN c |-> Range2(IF i = 1 THEN first ELSE first + c[1] + 3, c[i])])

SSLBad ==
    {Script("ssl", packets, [i \in DOMAIN packets |-> 1], <<>>) :
        packets \in
            {<<HelloRecord(0), ListRecord(list)>> :
                list \in {Field(n, 3) \o Filler(1) : n \in 2 .. 5}
                          \cup {Crt(1) \o <<0>>}}
            \cup {<<HelloRecord(1), TLSRecord(22, Handshake(11, body))>> :
                     body \in {<<0>>, Field(3, 3)}}
            \cup {<<TLSRecord(type, <<2, 1>>), HelloRecord(0)>> : type \in {21, 22}}
            \cup {<<TLSRecord(22, hs), ListRecord(Crt(1))>> :
                     hs \in {Handshake(2, <<>>), Handshake(2, <<1, 1>>), <<>>,
                             Handshake(1, Hello(0)), <<2>> \o Field(9, 3) \o Hello(0),
                             Handshake(2, Hello(0)) \o Handshake(11, Certificates(<<>>))}}}

SSLScripts ==
    {SSLServer(n, c) : n \in {0, 1}, c \in {<<>>, <<1>>, <<2, 1>>}} \cup SSLBad

---------------------------------------------------------------------------
(* SIP servers.                                                           *)

SIPServer(v1, v2) ==
    LET status == Line(<<SIP2>>)
        h1 == Line(<<Text, Colon>> \o v1)
    IN  Script("sip", <<status, h1, Line(<<Text, Colon>> \o v2), Line(<<>>)>>,
               <<1, 1, 1, 1>>,
               <<Range2(Len(status) + 3, Len(v1)),
                 Range2(Len(status \o h1) + 3, Len(v2))>>)

SIPOdd(l) ==
    Script("sip", <<Line(<<SIP2>>), l, Line(<<Text, Colon>>), Line(<<>>)>>,
           <<1, 1, 1, 1>>, <<Range2(Len(Line(<<SIP2>>) \o l) + 3, 0)>>)

SIPBad ==
    {SIPOdd(l) :
        l \in {<<NL>>, <<Text, Colon, NL>>, Line(<<Text>>),
               Line(<<Text, Colon, Text, Space, Text>>),
               Line(<<Text, Colon, CR, Space>>), Line(<<Text, Colon, Text, 0, Text>>)}}

Values == {<<>>, <<Text>>, <<Space, Text>>, <<Space, Text, Colon, Text>>}

SIPScripts == {SIPServer(v1, v2) : v1, v2 \in Values} \cup SIPBad

\* The servers above are such; the others are not, but for lines that only a
\* lenient user lets pass.
ASSUME ServersServe ==
    \A s \in SSHScripts \cup SSLScripts \cup SIPScripts, l \in BOOLEAN :
        Serves(s, l) <=>
            \/ \E p \in {4, 6, 9} : s = SSHServer(6, p)
            \/ s \in {SSLServer(n, c) : n \in {0, 1}, c \in {<<>>, <<1>>, <<2, 1>>}}
            \/ s \in {SIPServer(v1, v2) : v1, v2 \in Values}
            \/ l /\ s \in {SSHBanner, SIPOdd(<<NL>>), SIPOdd(Line(<<Text>>))}

AllScripts == SSHScripts \cup SSLScripts \cup SIPScripts
=============================================================================
