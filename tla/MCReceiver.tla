----------------------------- MODULE MCReceiver ------------------------------
(* Instances of Receiver for TLC.                                             *)
EXTENDS Receiver

Piece(is, n, body) == [is |-> is, n |-> n, body |-> body, more |-> 0]
Some(is, n) == [i \in 1..n |-> Piece(is, 0, "")]
Headers(k, body, n) == Some("head", k) \o <<Piece("blank", n, body)>>

WithLength(k, n) == Headers(k, "length", n) \o Some("data", n)
Chunk(n) == <<Piece("size", n, "")>> \o Some("data", n) \o <<Piece("end", 0, "")>>
Multiparted ==
    Headers(1, "multipart", 4) \o Some("part", 1) \o Some("mark", 1) \o Some("close", 1)
    \o Some("epilogue", 1)
Frame(extended, n) ==
    <<Piece("opcode", 0, "")>> \o <<[Piece("length", n, "") EXCEPT !.more = extended]>>
    \o Some("extended", extended) \o Some("data", n)

\* Messages one behind the other, numbered.
Numbered(pieces, k) ==
    [i \in DOMAIN pieces |->
        [message |-> k, is |-> pieces[i].is, n |-> pieces[i].n, body |-> pieces[i].body,
         more |-> pieces[i].more]]
Two(a, b) == Numbered(a, 1) \o Numbered(b, 2)
Three(a, b, c) == Two(a, b) \o Numbered(c, 3)

Requests == {WithLength(1, 0), WithLength(2, 2), WithLength(1, 4), Multiparted,
             Headers(1, "chunked", 0) \o Chunk(2) \o Chunk(1) \o Chunk(0),
             Headers(1, "chunked", 0) \o Chunk(3) \o Chunk(2) \o Chunk(0),
             WithLength(3, 0), WithLength(1, 5), Some("junk", 1),
             Headers(1, "chunked", 0) \o Chunk(1) \o Some("junk", 1),
             Headers(1, "multipart", 3) \o Some("part", 1) \o Some("junk", 2)}

Frames == {Frame(0, 0), Frame(1, 1), Frame(0, 2), Frame(1, 5)}

MCStreams ==
    {Three(a, b, WithLength(1, 1)) : a \in Requests, b \in Requests}
    \cup {Three(WithLength(1, 0), a, b) : a \in Frames, b \in Frames}

NoLiberties == {}
=============================================================================
