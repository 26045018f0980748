------------------------------- MODULE Streams --------------------------------
(***************************************************************************)
(* What a peer sends to a receiver of HTTP messages or WebSocket frames:   *)
(* the pieces that the parsers of swow tell apart (cat_http.c, llhttp,     *)
(* multipart_parser, cat_websocket.h), in the orders in which messages     *)
(* have them.  Receiver.tla takes such a stream apart again.               *)
(***************************************************************************)
EXTENDS Naturals, Sequences

\* The pieces of messages: the start line and the header fields, the end of the
\* headers, which says what the body is; bytes of a body; the header and the end of a
\* chunk; parts of a multipart body, what might be a boundary, the last boundary and
\* what may follow it; the header of a WebSocket frame; and what is no piece of any.
PieceKinds == {"head", "blank", "data", "size", "end", "part", "mark", "close",
               "epilogue", "opcode", "length", "extended", "junk"}

\* message: the number of its message; n: the length that it announces; body: the kind
\* of the body that follows; more: the size of the rest of a frame's header.
Tokens == [message : Nat \ {0}, is : PieceKinds, n : Nat,
           body : {"", "length", "chunked", "multipart"}, more : Nat]

\* What comes after position a up to b is pieces of message k, of these kinds.
Are(s, k, kinds, a, b) ==
    \A i \in (a + 1)..b : i \in DOMAIN s /\ s[i].message = k /\ s[i].is \in kinds

IsFirst(s, i) == i = 1 \/ s[i - 1].message < s[i].message
IsLast(s, i) == i + 1 \in DOMAIN s => s[i].message < s[i + 1].message

\* What the headers that end with token i announce is there.
HasBody(s, i) ==
    LET k == s[i].message
        end == i + s[i].n
    IN  CASE s[i].body = "chunked" -> Are(s, k, {"size", "junk"}, i, i + 1)
          [] s[i].body = "multipart" ->
                \E e \in (i + 1)..end :
                    /\ Are(s, k, {"part", "mark"}, i, e - 1)
                    /\ \/ Are(s, k, {"junk"}, e - 1, end)
                       \/ /\ Are(s, k, {"close"}, e - 1, e)
                          /\ Are(s, k, {"epilogue"}, e, end) /\ end <= e + 1
                    /\ IsLast(s, end)
          [] OTHER -> Are(s, k, {"data"}, i, end) /\ IsLast(s, end)

\* A chunk follows its header, then its end, then the next one if it was not empty.
HasChunk(s, i) ==
    LET k == s[i].message
        end == i + s[i].n + 1
    IN  /\ Are(s, k, {"data"}, i, end - 1) /\ Are(s, k, {"end", "junk"}, end - 1, end)
        /\ s[end].is = "end" =>
              IF s[i].n = 0 THEN IsLast(s, end) ELSE Are(s, k, {"size", "junk"}, end, end + 1)

\* A frame is there that begins at i.
HasFrame(s, i) ==
    LET k == s[i].message
        start == i + 1 + s[i + 1].more
        end == start + s[i + 1].n
    IN  /\ IsFirst(s, i)
        /\ Are(s, k, {"length"}, i, i + 1) /\ Are(s, k, {"extended"}, i + 1, start)
        /\ Are(s, k, {"data"}, start, end) /\ IsLast(s, end)

\* A stream of messages, one behind the other.  One that is not proper has junk where
\* that shows, and there is no frame right behind an empty line.
IsStream(s) ==
    /\ s \in Seq(Tokens)
    /\ \A i, j \in DOMAIN s : i <= j => s[i].message <= s[j].message
    /\ \A i \in DOMAIN s :
          /\ IsFirst(s, i) => s[i].is \in {"head", "opcode", "junk"}
          /\ s[i].is = "head" => Are(s, s[i].message, {"head", "blank", "junk"}, i, i + 1)
          /\ s[i].is = "blank" => HasBody(s, i)
          /\ s[i].is = "size" => HasChunk(s, i)
          /\ s[i].is = "opcode" => HasFrame(s, i)
          /\ s[i].is = "epilogue" /\ i + 1 \in DOMAIN s => s[i + 1].is # "opcode"
===============================================================================
