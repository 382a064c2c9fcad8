-------------------------------- MODULE Stun --------------------------------
(***************************************************************************)
(* What src/src/nat/stun.rs computes: the servers it names, and            *)
(* parse_response().  A datagram is its type and the words after its       *)
(* header of 20 bytes; a word of 4 bytes is its two halves.                *)
(***************************************************************************)
EXTENDS Naturals, Sequences, SequencesExt

BindingRequest == 1         \* 0x0001
BindingResponse == 257      \* 0x0101
AddressAttribute == 32      \* 0x0020
IPv4 == 1

-----------------------------------------------------------------------------
(* The names given to parse::<SocketAddr>().unwrap(), which resolves none. *)

HostName == "stun.l.google.com:19302"
PublicServers == <<"34.117.59.81:3478", "34.117.118.251:3478", HostName>>
Parses(name) == name # HostName

\* NatDetector::public() makes a server of each name, or panics.
PublicPanics == \E i \in 1..Len(PublicServers) : ~Parses(PublicServers[i])

-----------------------------------------------------------------------------
(* parse_response().                                                       *)

Unread == [says |-> "no address"]
Panic == [says |-> "index out of bounds"]
Rejected == [says |-> "not a binding response"]
Address(ip, port) == [says |-> "address", ip |-> ip, port |-> port]

\* The address of the attribute whose header is word p, as the code reads it: the
\* ip as it stands there, and the port from the word after the value.
ValueAt(body, p) ==
    IF ~(body[p][1] = AddressAttribute /\ body[p][2] >= 8 /\ body[p + 1][1] = IPv4)
    THEN Unread
    ELSE IF p + 3 > Len(body) THEN Panic
    ELSE Address(body[p + 2], body[p + 3][1])

\* Mutated form, which the specification does not use: the length of an attribute
\* is rounded down, so its padding is not skipped.
WalkUnpadded(body) ==
    LET walk[p \in 1..(Len(body) + 1)] ==
            IF p > Len(body) THEN Unread
            ELSE IF body[p][2] > 4 * (Len(body) - p) THEN Unread
            ELSE LET here == ValueAt(body, p)
                     rest == walk[p + 1 + body[p][2] \div 4]
                 IN IF here = Panic \/ rest = Unread THEN here ELSE rest
    IN walk

\* What the attributes from word p on leave in mapped_addr: the last address
\* counts, and an attribute that is cut off ends the loop.
Walk(body) ==
    LET walk[p \in 1..(Len(body) + 1)] ==
            IF p > Len(body) THEN Unread
            ELSE IF body[p][2] > 4 * (Len(body) - p) THEN Unread
            ELSE LET here == ValueAt(body, p)
                     rest == walk[p + 1 + (body[p][2] + 3) \div 4]
                 IN IF here = Panic \/ rest = Unread THEN here ELSE rest
    IN walk

Mapped(body) == Walk(body)[1]

ParseResponse(d) == IF d.type # BindingResponse THEN Rejected ELSE Mapped(d.body)

-----------------------------------------------------------------------------
(* What a server writes: attributes one after the other, each padded to    *)
(* whole words.  Of an attribute that is cut the last word is missing.     *)

\* Attribute 0x0020 is XOR-MAPPED-ADDRESS: a server writes the two halves of the
\* ip with the bits of the magic cookie flipped, which are 0x2112 and 0xA442, and
\* the port with those of its first half.
Flip(half, bit) == IF (half \div bit) % 2 = 1 THEN half - bit ELSE half + bit
Xor2112(half) == Flip(Flip(Flip(Flip(half, 2), 16), 256), 8192)
XorA442(half) == Flip(Flip(Flip(Flip(Flip(half, 2), 64), 1024), 8192), 32768)
XorCookie(ip) == <<Xor2112(ip[1]), XorA442(ip[2])>>

\* Two halves of the value of any other attribute.
Text == <<24930, 25344>>

Words(a) ==
    LET value == IF a.type = AddressAttribute
                 THEN << <<IPv4, Xor2112(a.port)>>, XorCookie(a.ip) >>
                 ELSE [i \in 1..((a.length + 3) \div 4) |-> Text]
    IN << <<a.type, a.length>> >> \o IF a.cut THEN Front(value) ELSE value

Written(attributes) == FlattenSeq([i \in 1..Len(attributes) |-> Words(attributes[i])])

\* What the code makes of them: the ip of the address written last and whole, as
\* it was written, so not the one the server saw; for a port the type of the
\* attribute behind it; and a panic if there is none behind it.
ReadOf(attributes) ==
    LET whole == {i \in 1..Len(attributes) : \A j \in 1..i : ~attributes[j].cut}
        addresses == {i \in whole : attributes[i].type = AddressAttribute}
    IN IF addresses = {} THEN Unread
       ELSE LET last == Max(addresses) IN
            IF last = Len(attributes) THEN Panic
            ELSE Address(XorCookie(attributes[last].ip), attributes[last + 1].type)
=============================================================================
