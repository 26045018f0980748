------------------------------- MODULE Receiver -------------------------------
(***************************************************************************)
(* How the PHP library takes HTTP messages and WebSocket frames out of a   *)
(* connection (ReceiverTrait.php on Swow\Http\Parser and Swow\Socket).     *)
(*                                                                         *)
(* A peer sends a stream of messages, which arrives in pieces of any size. *)
(* The receiver reads pieces into one buffer, parses it, and reads the     *)
(* rest of a large body past the buffer; what is left in the buffer is the *)
(* start of the next message.                                              *)
(*                                                                         *)
(* A byte of the stream is known by its position, so that buffers and      *)
(* messages are sequences of positions, and the token there is a piece of  *)
(* a message that the parser reports as a whole.  Responses whose body     *)
(* ends with the connection are not modelled.                              *)
(***************************************************************************)
EXTENDS Integers, Queues, Streams

CONSTANTS Streams,          \* what peers may send: sequences of tokens
          BufferSize,       \* the size of $this->buffer
          LoadLimit,        \* BufferSize * bufferLoadFactor
          PreserveBodyData, \* what callers may set $this->preserveBodyData to
          MaxHeaderLength,
          MaxContentLength,
          Liberties         \* what callers and peers permit themselves

\* A caller goes on after any timeout; a peer sends on behind a multipart body
\* before that is answered.
AllLiberties == {"retry", "pipeline behind multipart"}

ASSUME ReceiverAssumption ==
    /\ \A s \in Streams : IsStream(s)
    /\ BufferSize \in Nat /\ LoadLimit \in 0..BufferSize
    /\ PreserveBodyData \subseteq BOOLEAN
    /\ MaxHeaderLength \in Nat /\ MaxContentLength \in Nat
    /\ Liberties \subseteq AllLiberties

VARIABLES
    stream,       \* what the peer sends
    taken,        \* how much of it was read from the socket
    buffer,       \* $this->buffer
    parsedOffset, \* $this->parsedOffset
    parser,       \* $this->httpParser: what it expects, and how many bytes of that
    call,         \* the call of recvMessageEntity() or recvWebSocketFrameEntity()
    got,          \* the messages that were returned
    given_up,     \* why the connection was given up, "no" if it was not
    preserve      \* $this->preserveBodyData, which is set before the first call

receiverVars == <<stream, preserve, taken, buffer, parsedOffset, parser, call, got, given_up>>

\* No call, and its local variables.
NoCall ==
    [at |-> "none",         \* where the call is
     offset |-> 0,          \* $parsedOffset
     source |-> "buffer",   \* $buffer: $thisBuffer or $body
     kept |-> 0,            \* $thisBufferParsedOffset
     headersCompleted |-> FALSE,
     isChunked |-> FALSE, isMultipart |-> FALSE,
     contentLength |-> 0, chunkLength |-> 0,
     headerLength |-> 0,
     head |-> <<>>,         \* $uriOrReasonPhrase and $headers, or the frame header
     body |-> <<>>]         \* $body, $formData and $uploadedFiles, or $payloadData

Reset == [state |-> "start", left |-> 0]

ReceiverInit ==
    /\ stream \in Streams
    /\ preserve \in PreserveBodyData
    /\ taken = 0
    /\ buffer = <<>>
    /\ parsedOffset = 0
    /\ parser = Reset
    /\ call = NoCall
    /\ got = <<>>
    /\ given_up = "no"

Least(m, n) == IF m < n THEN m ELSE n

Kind(i) == stream[i].is

-----------------------------------------------------------------------------
\* The socket.

\* The next n positions of the stream.
Incoming(n) == Positions(taken, taken + n)

\* The peer may have sent position i by now.
IsSent(i) ==
    \/ "pipeline behind multipart" \in Liberties
    \/ \A j \in 1..(i - 1) :
          Kind(j) = "close" /\ stream[j].message < stream[i].message
              => Len(got) >= stream[j].message

HasCome(n) == taken + n <= Len(stream) /\ IsSent(taken + n)

\* recvData() at the end of the buffer: n bytes, as many as there is room for at most.
Receive(n) ==
    /\ n \in 1..(BufferSize - Len(buffer))
    /\ HasCome(n)
    /\ buffer' = buffer \o Incoming(n)
    /\ taken' = taken + n

-----------------------------------------------------------------------------
\* The parser: Parser::execute() on the bytes of rest.

Report(event, parsed, state, left) ==
    [event |-> event, parsed |-> parsed, next |-> [state |-> state, left |-> left]]

\* What follows the headers, whose last token is t.
BodyState(t) == CASE t.body = "chunked" -> "size"
                  [] t.body = "multipart" -> "multipart"
                  [] OTHER -> IF t.n = 0 THEN "complete" ELSE "body"

ParseHeaders(t) ==
    CASE t.is = "head" -> Report("HEADER", 1, "head", 0)
      [] t.is = "blank" -> Report("HEADERS_COMPLETE", 1, BodyState(t), t.n)
      [] OTHER -> Report("ERROR", 0, "error", 0)

\* The bytes of a body or a chunk, as far as there are any.
ParseData(left, n, state, after) ==
    Report("BODY", Least(left, n), IF left <= n THEN after ELSE state,
           left - Least(left, n))

ParseChunk(state, t) ==
    CASE state = "size" /\ t.is = "size" ->
            Report("CHUNK_HEADER", 1, IF t.n = 0 THEN "last" ELSE "chunk", t.n)
      [] state # "size" /\ t.is = "end" ->
            Report("CHUNK_COMPLETE", 1, IF state = "last" THEN "complete" ELSE "size", 0)
      [] OTHER -> Report("ERROR", 0, "error", 0)

\* The multipart parser keeps what might be a boundary until it has seen more, and
\* takes all that follows the last one.
ParseMultipart(t, n) ==
    CASE t.is = "mark" /\ n = 1 -> Report("NONE", 0, "multipart", 0)
      [] t.is = "part" \/ (t.is = "mark" /\ n # 1) -> Report("MULTIPART", 1, "multipart", 0)
      [] t.is = "close" -> Report("MESSAGE_COMPLETE", n, "start", 0)
      [] OTHER -> Report("ERROR", 0, "error", 0)

\* An empty line before a message is skipped.
Skipped(p, rest) ==
    IF p.state = "start" /\ rest # <<>> /\ Kind(Head(rest)) = "epilogue" THEN 1 ELSE 0

\* The next event, after bytes that were skipped.
ParseFrom(p, rest) ==
    CASE p.state = "complete" -> Report("MESSAGE_COMPLETE", 0, "start", 0)
      [] p.state # "complete" /\ rest = <<>> -> Report("NONE", 0, p.state, p.left)
      [] p.state # "complete" /\ rest # <<>> ->
            LET t == stream[Head(rest)]
                n == Len(rest)
            IN  CASE p.state \in {"start", "head"} -> ParseHeaders(t)
                  [] p.state = "body" -> ParseData(p.left, n, "body", "complete")
                  [] p.state = "chunk" -> ParseData(p.left, n, "chunk", "end")
                  [] p.state \in {"size", "end", "last"} -> ParseChunk(p.state, t)
                  [] p.state = "multipart" -> ParseMultipart(t, n)
                  [] p.state = "error" -> Report("ERROR", 0, "error", 0)

Parse(p, rest) ==
    LET skipped == Skipped(p, rest)
        r == ParseFrom(p, After(rest, skipped))
    IN  [r EXCEPT !.parsed = @ + skipped]

-----------------------------------------------------------------------------
\* How calls end.

\* A wrong Recycles that keeps an offset behind the end, kept to show that
\* DeliveredAreSent can fail.
RecyclesAtEnd(offset) == offset = Len(buffer) \/ offset > LoadLimit

\* All was parsed, or so much that the rest is moved to the front of the buffer.
Recycles(offset) == offset >= Len(buffer) \/ offset > LoadLimit

\* updateParsedOffsetAndRecycleBufferSpace()
Recycle(offset) ==
    IF Recycles(offset)
    THEN buffer' = After(buffer, offset) /\ parsedOffset' = 0
    ELSE parsedOffset' = offset /\ UNCHANGED buffer

\* A message is returned; offset is how far the buffer was parsed.
Deliver(head, body, offset) ==
    /\ got' = Append(got, [head |-> head, body |-> body])
    /\ Recycle(offset)
    /\ call' = NoCall
    /\ UNCHANGED <<stream, preserve, given_up>>

\* An exception after which the callers close the connection.
GiveUp(reason) ==
    /\ given_up' = reason
    /\ call' = NoCall
    /\ UNCHANGED <<stream, preserve, taken, buffer, parsedOffset, parser, got>>

-----------------------------------------------------------------------------
\* recvMessageEntity()

NextMessage == Len(got) + 1

\* The next message is of HTTP, or a WebSocket frame.
Comes(kinds) ==
    \E i \in DOMAIN stream : stream[i].message = NextMessage /\ Kind(i) \in kinds

\* A wrong RecvMessage that always waits for more data first, kept to show that
\* EverythingArrives can fail.
RecvMessageWaiting ==
    /\ call.at = "none" /\ given_up = "no"
    /\ Comes({"head", "junk"})
    /\ call' = [NoCall EXCEPT !.at = "receive", !.offset = parsedOffset]
    /\ UNCHANGED <<stream, preserve, taken, buffer, parsedOffset, parser, got, given_up>>

RecvMessage ==
    /\ call.at = "none" /\ given_up = "no"
    /\ Comes({"head", "junk"})
    /\ call' = [NoCall EXCEPT !.at = IF parsedOffset = Len(buffer) THEN "receive" ELSE "parse",
                            !.offset = parsedOffset]
    /\ UNCHANGED <<stream, preserve, taken, buffer, parsedOffset, parser, got, given_up>>

RecvData(n) ==
    /\ call.at = "receive"
    /\ Receive(n)
    /\ call' = [call EXCEPT !.at = "parse"]
    /\ UNCHANGED <<stream, preserve, parsedOffset, parser, got, given_up>>

\* What $parser->execute($buffer, $parsedOffset) reports now.
Source == IF call.source = "body" THEN call.body ELSE buffer
Rest == After(Source, call.offset)
Now == Parse(parser, Rest)
Taken == SubSeq(Rest, 1, Now.parsed)

HeaderLength ==
    call.headerLength + (IF call.headersCompleted THEN 0 ELSE Now.parsed)
HeaderIsTooLong == HeaderLength > MaxHeaderLength

\* What was parsed, but for an empty line that was skipped.
HeaderPieces == Keeping(Taken, {i \in DOMAIN stream : Kind(i) # "epilogue"})

\* The parser reports event, and the headers are not too long.
On(event) ==
    /\ call.at = "parse"
    /\ Now.event = event
    /\ ~HeaderIsTooLong

\* The call goes on as next after what was parsed.
GoOn(next) ==
    /\ call' = [next EXCEPT !.offset = call.offset + Now.parsed,
                            !.headerLength = HeaderLength]
    /\ parser' = Now.next
    /\ UNCHANGED <<stream, preserve, taken, buffer, parsedOffset, got, given_up>>

HeaderTooLong ==
    /\ call.at = "parse"
    /\ HeaderIsTooLong
    /\ GiveUp("too large")

\* A wrong NeedMore that leaves what was parsed in the buffer, kept to show that
\* OnlyTheBadAreRefused can fail.
NeedMoreUntruncated ==
    /\ On("NONE")
    /\ IF call.source = "body" \/ Len(buffer) = BufferSize
       THEN GiveUp("error")
       ELSE /\ call' = [call EXCEPT !.at = "receive", !.offset = call.offset + Now.parsed,
                                    !.headerLength = HeaderLength]
            /\ parser' = Now.next
            /\ UNCHANGED <<stream, preserve, taken, buffer, parsedOffset, got, given_up>>

\* EVENT_NONE: what was parsed leaves the buffer, and there must be room for more.
NeedMore ==
    LET rest == After(buffer, call.offset + Now.parsed) IN
    /\ On("NONE")
    /\ IF call.source = "body" \/ Len(rest) = BufferSize
       THEN GiveUp("error")
       ELSE /\ buffer' = rest
            /\ call' = [call EXCEPT !.at = "receive", !.offset = 0,
                                    !.headerLength = HeaderLength]
            /\ parser' = Now.next
            /\ UNCHANGED <<stream, preserve, taken, parsedOffset, got, given_up>>

ParseError ==
    /\ On("ERROR")
    /\ GiveUp("error")

Header ==
    /\ On("HEADER")
    /\ GoOn([call EXCEPT !.head = @ \o HeaderPieces])

\* EVENT_HEADERS_COMPLETE.  With preserveBodyData a multipart body is all read first,
\* from the rest of the buffer and then from the socket, and is parsed there.
HeadersComplete ==
    LET t == stream[Last(Taken)]
        c == [call EXCEPT !.headersCompleted = TRUE,
                          !.head = @ \o HeaderPieces,
                          !.isChunked = t.body = "chunked",
                          !.isMultipart = t.body = "multipart",
                          !.contentLength = IF t.body = "chunked" THEN 0 ELSE t.n]
    IN  /\ On("HEADERS_COMPLETE")
        /\ CASE c.contentLength > MaxContentLength -> GiveUp("too large")
             [] c.contentLength <= MaxContentLength /\ ~(c.isMultipart /\ preserve) ->
                   GoOn(c)
             [] c.contentLength <= MaxContentLength /\ c.isMultipart /\ preserve ->
                   LET unparsed == After(buffer, call.offset + Now.parsed) IN
                   /\ call' = [c EXCEPT !.at = IF Len(unparsed) < c.contentLength
                                               THEN "preserve" ELSE "parse",
                                        !.body = unparsed,
                                        !.source = "body",
                                        !.kept = Len(buffer),
                                        !.offset = 0]
                   /\ parser' = Now.next
                   /\ UNCHANGED <<stream, preserve, taken, buffer, parsedOffset, got, given_up>>

\* read() of the whole multipart body that is to be preserved
ReadPreserved ==
    LET needed == call.contentLength - Len(call.body) IN
    /\ call.at = "preserve"
    /\ HasCome(needed)
    /\ taken' = taken + needed
    /\ call' = [call EXCEPT !.at = "parse", !.body = @ \o Incoming(needed)]
    /\ UNCHANGED <<stream, preserve, buffer, parsedOffset, parser, got, given_up>>

\* The events of a multipart body that is parsed as it comes fill the form data and
\* the uploaded files.
Multipart ==
    /\ On("MULTIPART")
    /\ GoOn([call EXCEPT !.body = IF call.source = "body" THEN @
                                  ELSE @ \o Keeping(Taken, {i \in DOMAIN stream : Kind(i) = "part"})])

\* EVENT_BODY of a body with a length: the rest of it is read past the buffer.
Body ==
    LET c == [call EXCEPT !.body = Taken] IN
    /\ On("BODY") /\ ~call.isChunked
    /\ IF Now.parsed < call.contentLength
       THEN GoOn([c EXCEPT !.at = "body"])
       ELSE /\ Deliver(call.head, Taken, call.offset + Now.parsed)
            /\ parser' = Reset
            /\ UNCHANGED taken

\* The parser has to see all of what was read, and then the end of the message.
ReadBody ==
    LET needed == call.contentLength - Len(call.body)
        r == Parse(parser, Incoming(needed))
    IN  /\ call.at = "body"
        /\ HasCome(needed)
        /\ IF r.event # "BODY" \/ r.parsed # needed \/ r.next.state # "complete"
           THEN GiveUp("error")
           ELSE /\ Deliver(call.head, call.body \o Incoming(needed), call.offset)
                /\ parser' = Reset
                /\ taken' = taken + needed

ChunkHeader ==
    LET length == call.contentLength + Now.next.left IN
    /\ On("CHUNK_HEADER")
    /\ IF length > MaxContentLength
       THEN GiveUp("too large")
       ELSE GoOn([call EXCEPT !.chunkLength = Now.next.left, !.contentLength = length])

\* EVENT_BODY of a chunk: the rest of the chunk is read past the buffer.
ChunkBody ==
    /\ On("BODY") /\ call.isChunked
    /\ GoOn([call EXCEPT !.at = IF Now.parsed < call.chunkLength THEN "chunk" ELSE "parse",
                         !.chunkLength = @ - Now.parsed,
                         !.body = @ \o Taken])

ReadChunk ==
    LET needed == call.chunkLength
        r == Parse(parser, Incoming(needed))
    IN  /\ call.at = "chunk"
        /\ HasCome(needed)
        /\ IF r.event # "BODY" \/ r.parsed # needed
           THEN GiveUp("error")
           ELSE /\ call' = [call EXCEPT !.at = "parse", !.body = @ \o Incoming(needed)]
                /\ parser' = r.next
                /\ taken' = taken + needed
                /\ UNCHANGED <<stream, preserve, buffer, parsedOffset, got, given_up>>

\* The end of the last chunk is that of the message.
ChunkComplete ==
    /\ On("CHUNK_COMPLETE")
    /\ IF Now.next.state = "complete"
       THEN /\ Deliver(call.head, call.body, call.offset + Now.parsed)
            /\ parser' = Reset
            /\ UNCHANGED taken
       ELSE GoOn(call)

MessageComplete ==
    /\ On("MESSAGE_COMPLETE")
    /\ Deliver(call.head, call.body,
               IF call.source = "body" THEN call.kept ELSE call.offset + Now.parsed)
    /\ parser' = Reset
    /\ UNCHANGED taken

-----------------------------------------------------------------------------
\* recvWebSocketFrameEntity()

HEADER_MIN_SIZE == 2

RecvFrame ==
    /\ call.at = "none" /\ given_up = "no"
    /\ Comes({"opcode"})
    /\ call' = [NoCall EXCEPT !.at = "frame", !.offset = parsedOffset]
    /\ UNCHANGED <<stream, preserve, taken, buffer, parsedOffset, parser, got, given_up>>

Unparsed == Len(buffer) - call.offset

\* The second byte of the header says how long it is, and the frame.
HeaderSize ==
    IF Unparsed < HEADER_MIN_SIZE THEN HEADER_MIN_SIZE
    ELSE HEADER_MIN_SIZE + stream[buffer[call.offset + 2]].more

\* recvData() refuses to read into a full buffer.
RecvHeader(n) ==
    /\ call.at = "frame"
    /\ Unparsed < HeaderSize
    /\ IF Len(buffer) = BufferSize
       THEN n = 1 /\ GiveUp("error")
       ELSE /\ Receive(n)
            /\ UNCHANGED <<stream, preserve, parsedOffset, parser, call, got, given_up>>

\* The header is there, and the payload: in the buffer, or partly on its way.
FrameHeader ==
    LET payloadLength == stream[buffer[call.offset + 2]].n
        start == call.offset + HeaderSize
        head == SubSeq(buffer, call.offset + 1, start)
    IN  /\ call.at = "frame"
        /\ Unparsed >= HEADER_MIN_SIZE /\ Unparsed >= HeaderSize
        /\ IF payloadLength > MaxContentLength
           THEN GiveUp("too large")
           ELSE IF Len(buffer) - start >= payloadLength
           THEN /\ Deliver(head, SubSeq(buffer, start + 1, start + payloadLength),
                           start + payloadLength)
                /\ UNCHANGED <<taken, parser>>
           ELSE /\ call' = [call EXCEPT !.at = "payload",
                                        !.head = head,
                                        !.body = After(buffer, start),
                                        !.offset = start,
                                        !.contentLength = payloadLength]
                /\ UNCHANGED <<stream, preserve, taken, buffer, parsedOffset, parser, got, given_up>>

ReadPayload ==
    LET needed == call.contentLength - Len(call.body) IN
    /\ call.at = "payload"
    /\ HasCome(needed)
    /\ taken' = taken + needed
    /\ Deliver(call.head, call.body \o Incoming(needed), call.offset + call.contentLength)
    /\ UNCHANGED parser

-----------------------------------------------------------------------------
\* A timeout of the socket or of the message.  Nothing is undone, so that a caller may
\* only go on if nothing has come, or not even the header of a frame.
Timeout ==
    LET harmless == \/ call.at = "receive" /\ parser.state = "start" /\ buffer = <<>>
                    \/ call.at = "frame"
    IN  /\ \/ call.at \in {"receive", "preserve", "body", "chunk", "payload"}
           \/ call.at = "frame" /\ Unparsed < HeaderSize
        /\ given_up' = IF harmless \/ "retry" \in Liberties THEN "no" ELSE "timeout"
        /\ call' = NoCall
        /\ UNCHANGED <<stream, preserve, taken, buffer, parsedOffset, parser, got>>

-----------------------------------------------------------------------------
\* What comes from the socket.
Arrival ==
    \/ \E n \in 1..BufferSize : RecvData(n) \/ RecvHeader(n)
    \/ ReadPreserved \/ ReadBody \/ ReadChunk \/ ReadPayload

\* What the receiver does with it.
Progress ==
    \/ RecvMessage \/ NeedMore \/ ParseError \/ HeaderTooLong \/ Header \/ HeadersComplete
    \/ Multipart \/ Body \/ ChunkHeader \/ ChunkBody \/ ChunkComplete \/ MessageComplete
    \/ RecvFrame \/ FrameHeader

ReceiverNext == Arrival \/ Progress \/ Timeout

ReceiverSpec == ReceiverInit /\ [][ReceiverNext]_receiverVars

\* Fairness: the receiver goes on, and what the peer sent is there in the end,
\* whatever calls have timed out before.
FairSpec == ReceiverSpec /\ WF_receiverVars(Progress) /\ SF_receiverVars(Arrival)

-----------------------------------------------------------------------------
\* Properties.

\* The positions of message k whose token is one of kinds, in order.
Pieces(k, kinds) ==
    Keeping(Positions(0, Len(stream)),
            {i \in DOMAIN stream : stream[i].message = k /\ Kind(i) \in kinds})

\* What is to become of message k of the stream.
Sent(k) ==
    [head |-> Pieces(k, {"head", "blank", "opcode", "length", "extended"}),
     body |-> Pieces(k, {"data", "part"} \cup
                  IF preserve THEN {"mark", "close", "epilogue"} ELSE {})]

\* An empty line before the headers counts as one of them if there was one.
IsTooLarge(k, before) ==
    \/ Len(Pieces(k, {"head", "blank"})) + before > MaxHeaderLength
    \/ Len(Pieces(k, {"data", "part", "mark", "close", "epilogue", "junk"}))
          > MaxContentLength

\* The messages that are returned are those that were sent, in order, each with its own
\* headers and its own body, however the stream was cut into pieces, and none is over
\* the limits.
DeliveredAreSent ==
    \A k \in DOMAIN got : got[k] = Sent(k) /\ ~IsTooLarge(k, 0)

\* A proper message is never taken for a bad one: nothing is refused but a message
\* that is no proper one or that is over the limits (the exceptions of
\* recvMessageEntity() and recvWebSocketFrameEntity()).
OnlyTheBadAreRefused ==
    /\ given_up = "error" => Pieces(NextMessage, {"junk"}) # <<>>
    /\ given_up = "too large" =>
          IsTooLarge(NextMessage, Len(Pieces(NextMessage - 1, {"epilogue"})))

Messages == IF stream = <<>> THEN 0 ELSE Last(stream).message

\* A message that was sent is returned, unless the connection is given up: a call does
\* not wait for more than its own message.
EverythingArrives == <>(given_up # "no" \/ Len(got) = Messages)
=============================================================================
