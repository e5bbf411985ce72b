------------------------------ MODULE Incoming ------------------------------
(***************************************************************************)
(* What arrives on a socket of the web server: the HTTP request of the     *)
(* WebSocket handshake (pcx-ws-parser.c), then frames (process_frames of   *)
(* pcx-connection.c). TCP delivers it in pieces of any size, each read     *)
(* takes what fits in the read buffer, and neither may change what comes   *)
(* out. Bytes are tuples: the ones of the handshake that matter, and the   *)
(* parts of a frame.                                                       *)
(***************************************************************************)
EXTENDS Integers, Sequences, FiniteSets, SequencesExt

CONSTANTS
    Inputs,        \* what a client sends: [text, frames]
    BufSize,        \* sizeof conn->read_buf
    MaxLine,        \* PCX_WS_PARSER_MAX_LINE_LENGTH
    MaxPayload,     \* PCX_PROTO_MAX_PAYLOAD_SIZE
    MaxControl      \* PCX_PROTO_MAX_CONTROL_FRAME_PAYLOAD

VARIABLES
    stream,         \* what the client sends
    got,            \* how many of its bytes were read
    conn            \* struct pcx_connection, as far as reading goes

inVars == <<stream, got, conn>>

CR == <<"\r">>
LF == <<"\n">>
SP == <<" ">>
COLON == <<":">>
KEY == <<"Sec-WebSocket-Key">>
VERSION == <<"HTTP/1.1">>

(* The bytes of a frame: the opcode, the short length, which says how many  *)
(* bytes of length follow, those, the mask and the payload.                 *)
FrameBytes(f) ==
    <<<<"first", f>>, <<"second", f>>>>
    \o [i \in 1 .. f.ext + (IF f.mask THEN 4 ELSE 0) |-> <<"header">>]
    \o [i \in 1 .. f.size |-> <<"payload", f, i>>]
AllBytes(s) == s.text \o FlattenSeq([i \in 1 .. Len(s.frames) |-> FrameBytes(s.frames[i])])

InInit ==
    /\ stream \in Inputs /\ got = 0
    /\ conn = [stage |-> "reading request line", line |-> << >>, key |-> FALSE,
               read_buf |-> << >>, message |-> << >>, events |-> << >>]

Event(c, e) == [c EXCEPT !.events = Append(@, e)]
SetErrorState(c) == [c EXCEPT !.stage = "error"]
InHandshake(c) == c.stage \notin {"frames", "done", "error"}

-----------------------------------------------------------------------------
(* pcx-ws-parser.c: every handler takes some of the data.                   *)

AddBytesToBuffer(c, bytes) ==
    IF Len(c.line) + Len(bytes) > MaxLine THEN SetErrorState(c)
    ELSE [c EXCEPT !.line = @ \o bytes]

Found(byte, data) == \E i \in 1 .. Len(data) : data[i] = byte
Position(byte, data) ==
    CHOOSE i \in 1 .. Len(data) : data[i] = byte /\ \A j \in 1 .. i - 1 : data[j] # byte

(* handle_reading_request_line and handle_reading_header.                   *)
ReadLine(c, data, next) ==
    IF Found(CR, data)
    THEN LET i == Position(CR, data)
             d == AddBytesToBuffer(c, SubSeq(data, 1, i - 1))
         IN [conn |-> IF d.stage = "error" THEN d ELSE [d EXCEPT !.stage = next],
             rest |-> SubSeq(data, i + 1, Len(data))]
    ELSE [conn |-> AddBytesToBuffer(c, data), rest |-> << >>]

(* Faulty: the CR is forgotten.                                             *)
NotTheEndForgotten(c, back) == [c EXCEPT !.stage = back]

(* A CR that ends no line is a part of it after all.                        *)
NotTheEnd(c, back) ==
    LET d == AddBytesToBuffer(c, <<CR>>)
    IN IF d.stage = "error" THEN d ELSE [d EXCEPT !.stage = back]

(* process_request_line: a method, a URI and a version.                     *)
ProcessRequestLine(c) ==
    LET second == SubSeq(c.line, Position(SP, c.line) + 1, Len(c.line))
    IN IF /\ Found(SP, c.line) /\ Found(SP, second)
          /\ SubSeq(second, Position(SP, second) + 1, Len(second)) = <<VERSION>>
       THEN [c EXCEPT !.stage = "reading header", !.line = << >>]
       ELSE SetErrorState(c)

TerminateRequestLine(c, data) ==
    IF Head(data) # LF
    THEN [conn |-> NotTheEnd(c, "reading request line"), rest |-> data]
    ELSE [conn |-> IF c.line = << >> THEN [c EXCEPT !.stage = "reading request line"]
                   ELSE ProcessRequestLine(c),
          rest |-> Tail(data)]

TerminateHeader(c, data) ==
    IF Head(data) # LF
    THEN [conn |-> NotTheEnd(c, "reading header"), rest |-> data]
    ELSE [conn |-> [c EXCEPT !.stage = IF c.line = << >> THEN "done"
                                       ELSE "checking continuation"],
          rest |-> Tail(data)]

(* process_header, whose terminator must fit too, and                       *)
(* ws_header_received_cb, which takes one key.                              *)
ProcessHeader(c) ==
    LET isKey == SubSeq(c.line, 1, Position(COLON, c.line) - 1) = <<KEY>>
    IN IF ~Found(COLON, c.line) \/ Len(c.line) = MaxLine \/ (isKey /\ c.key)
       THEN SetErrorState(c)
       ELSE [c EXCEPT !.stage = "reading header", !.line = << >>, !.key = @ \/ isKey]

CheckContinuation(c, data) ==
    [conn |-> IF Head(data) = SP THEN [c EXCEPT !.stage = "reading header"]
              ELSE ProcessHeader(c),
     rest |-> data]

(* pcx_ws_parser_parse_data.                                                *)
RECURSIVE ParseData(_, _)
ParseData(c, data) ==
    IF data = << >> \/ ~InHandshake(c) THEN [conn |-> c, rest |-> data]
    ELSE LET step == CASE c.stage = "reading request line" ->
                              ReadLine(c, data, "terminating request line")
                       [] c.stage = "terminating request line" ->
                              TerminateRequestLine(c, data)
                       [] c.stage = "reading header" ->
                              ReadLine(c, data, "terminating header")
                       [] c.stage = "terminating header" -> TerminateHeader(c, data)
                       [] OTHER -> CheckContinuation(c, data)
         IN ParseData(step.conn, step.rest)

-----------------------------------------------------------------------------
(* process_frames.                                                          *)

IsControl(f) == f.opcode \in {"ping", "pong", "close", "unknown control"}
IsData(f) == f.opcode \in {"message", "continuation"}

(* What is wrong with a frame as soon as its length is known.               *)
Refused(f, length) ==
    \/ f.rsv
    \/ IsControl(f) /\ (f.size > MaxControl \/ ~f.fin)
    \/ /\ IsData(f)
       /\ \/ f.size + length > MaxPayload
          \/ f.opcode = "continuation" /\ length = 0
          \/ f.size = 0 /\ ~f.fin
    \/ ~IsControl(f) /\ ~IsData(f)

(* process_control_frame.                                                   *)
ControlFrame(c, f) ==
    CASE f.opcode = "ping" -> Event(c, <<"pong", f.id>>)
      [] f.opcode = "pong" -> c
      [] OTHER -> SetErrorState(c)

(* A message is the payloads of its frames, one after the other.            *)
DataFrame(c, f, payload) ==
    LET d == [c EXCEPT !.message = @ \o payload]
    IN IF f.fin THEN [Event(d, <<"message", d.message>>) EXCEPT !.message = << >>] ELSE d

HeaderSize(f) == 2 + f.ext + (IF f.mask THEN 4 ELSE 0)

RECURSIVE ProcessFrames(_)
ProcessFrames(c) ==
    LET data == c.read_buf
        f == data[1][2]
        end == HeaderSize(f) + f.size
        payload == SubSeq(data, HeaderSize(f) + 1, end)
        rest == [c EXCEPT !.read_buf = SubSeq(data, end + 1, Len(data))]
    IN IF c.stage = "error" \/ Len(data) < 2 \/ Len(data) < 2 + f.ext THEN c
       ELSE IF Refused(f, Len(c.message)) THEN SetErrorState(c)
       ELSE IF end > Len(data) THEN c
       ELSE ProcessFrames(IF IsControl(f) THEN ControlFrame(rest, f)
                          ELSE DataFrame(rest, f, payload))

(* handle_ws_data and ws_headers_finished: what came with the end of the    *)
(* handshake are frames.                                                    *)
HandleWsData(c, bytes) ==
    LET p == ParseData(c, bytes)
        d == [p.conn EXCEPT !.read_buf = p.rest, !.stage = "frames"]
    IN IF p.conn.stage # "done" THEN p.conn
       ELSE IF ~p.conn.key THEN SetErrorState(p.conn)
       ELSE ProcessFrames(Event(d, <<"switching protocols">>))

(* handle_read and process_incoming_data. A read of no bytes, since the     *)
(* buffer is full, looks like the end of the connection.                    *)
Space == BufSize - Len(conn.read_buf)
Read ==
    /\ conn.stage # "error" /\ got < Len(AllBytes(stream))
    /\ IF Space = 0
       THEN conn' = SetErrorState(conn) /\ UNCHANGED got
       ELSE \E n \in 1 .. Space :
               /\ got + n =< Len(AllBytes(stream))
               /\ got' = got + n
               /\ LET bytes == SubSeq(AllBytes(stream), got + 1, got + n) IN
                  conn' = IF InHandshake(conn) THEN HandleWsData(conn, bytes)
                          ELSE ProcessFrames([conn EXCEPT !.read_buf = @ \o bytes])
    /\ UNCHANGED stream

InNext == Read
InSpec == InInit /\ [][InNext]_inVars

-----------------------------------------------------------------------------
(* Properties: what should come out, from the whole of what was read.       *)

(* The request, whatever cuts it: lines end with CR LF, empty ones before   *)
(* the first are skipped, a header goes on when a space follows its end,    *)
(* and the first empty line after the request line is the end.              *)
Breaks(t) == {k \in 1 .. Len(t) - 1 : t[k] = CR /\ t[k + 1] = LF}
Least(S) == CHOOSE x \in S : \A y \in S : x =< y
Skipped(t) == Least({n \in 0 .. Len(t) : n % 2 = 0 /\ n + 1 \notin Breaks(t)
                                        /\ \A m \in 1 .. n : m % 2 = 1 => m \in Breaks(t)})
RequestLine(t) ==
    LET r == SubSeq(t, Skipped(t) + 1, Len(t))
    IN IF Breaks(r) = {} THEN r ELSE SubSeq(r, 1, Least(Breaks(r)) - 1)
AfterRequestLine(t) ==
    LET r == SubSeq(t, Skipped(t) + 1, Len(t))
    IN SubSeq(r, Least(Breaks(r)) + 2, Len(r))
LastEnd(h) == {k \in Breaks(h) : k = 1 \/ k - 2 \in Breaks(h)}
HeadersEnd(h) == IF LastEnd(h) = {} THEN Len(h) + 1 ELSE Least(LastEnd(h))
HeaderBreaks(h) == {k \in Breaks(h) : k < HeadersEnd(h)}
Folds(h) == {k \in HeaderBreaks(h) : k + 2 =< Len(h) /\ h[k + 2] = SP}
HeaderEnds(h) == {k \in HeaderBreaks(h) \ Folds(h) : k + 2 =< Len(h)}
Unfinished(h) == {k \in HeaderBreaks(h) : k + 2 > Len(h)}

\* The bytes from one place to another, without the line ends of the folds.
Text(h, from, to) ==
    LET all == [i \in 1 .. to - from + 1 |-> from + i - 1]
        kept == SelectSeq(all, LAMBDA i : i \notin Folds(h) /\ i - 1 \notin Folds(h))
    IN [i \in 1 .. Len(kept) |-> h[kept[i]]]
Begin(h, k) == IF {e \in HeaderEnds(h) : e < k} = {} THEN 1
               ELSE (CHOOSE e \in HeaderEnds(h) : e < k
                        /\ \A d \in HeaderEnds(h) : d < k => d =< e) + 2
Headers(h) == {<<k, Text(h, Begin(h, k), k - 1)>> : k \in HeaderEnds(h)}
\* A CR at the very end may be the end of the line.
WithoutCR(line) == IF line # << >> /\ Last(line) = CR THEN Front(line) ELSE line
Remainder(h) ==
    IF HeadersEnd(h) =< Len(h) THEN << >>
    ELSE IF Unfinished(h) # {}
    THEN LET k == Least(Unfinished(h)) IN Text(h, Begin(h, k), k - 1)
    ELSE WithoutCR(Text(h, Begin(h, Len(h) + 1), Len(h)))

BadRequestLine(line) ==
    LET spaces == {i \in 1 .. Len(line) : line[i] = SP}
    IN \/ Cardinality(spaces) < 2
       \/ LET second == Least(spaces \ {Least(spaces)})
          IN SubSeq(line, second + 1, Len(line)) # <<VERSION>>
Keys(h) == {x \in Headers(h) : Len(x[2]) > 1 /\ x[2][1] = KEY /\ x[2][2] = COLON}

(* The end of the request, if it is complete; and whether it is refused.    *)
Complete(t) == /\ Breaks(SubSeq(t, Skipped(t) + 1, Len(t))) # {}
               /\ HeadersEnd(AfterRequestLine(t)) =< Len(AfterRequestLine(t))
RefusedRequest(t) ==
    IF Breaks(SubSeq(t, Skipped(t) + 1, Len(t))) = {}
    THEN Len(WithoutCR(RequestLine(t))) > MaxLine
    ELSE LET h == AfterRequestLine(t) IN
         \/ Len(RequestLine(t)) > MaxLine \/ BadRequestLine(RequestLine(t))
         \/ Len(Remainder(h)) > MaxLine
         \/ \E x \in Headers(h) : ~Found(COLON, x[2]) \/ Len(x[2]) >= MaxLine
         \/ Cardinality(Keys(h)) > 1
         \/ Complete(t) /\ Keys(h) = {}

(* Frames, when n bytes of them have come.                                  *)
FrameAt(i) == stream.frames[i]
Start(i) == Len(FlattenSeq([j \in 1 .. i - 1 |-> FrameBytes(FrameAt(j))]))
Known(i, n) == n >= Start(i) + 2 + FrameAt(i).ext
Whole(i, n) == n >= Start(i) + Len(FrameBytes(FrameAt(i)))
\* The data frames of the message that frame i goes on with, without it.
Before(i) == {j \in 1 .. i - 1 :
                 /\ IsData(FrameAt(j))
                 /\ \A k \in j .. i - 1 : IsData(FrameAt(k)) => ~FrameAt(k).fin}
Payload(f) == [k \in 1 .. f.size |-> <<"payload", f, k>>]
PayloadsOf(S, n) ==
    FlattenSeq([j \in 1 .. n |-> IF j \in S THEN Payload(FrameAt(j)) ELSE << >>])
Message(i) == PayloadsOf(Before(i) \cup {i}, i)
Stops(i, n) == \/ Known(i, n) /\ Refused(FrameAt(i), Len(PayloadsOf(Before(i), i)))
               \/ Whole(i, n) /\ FrameAt(i).opcode \in {"close", "unknown control"}
Handled(i, n) == Whole(i, n) /\ ~\E j \in 1 .. i : Stops(j, n)
FrameEvents(n) ==
    FlattenSeq([i \in 1 .. Len(stream.frames) |->
        IF ~Handled(i, n) THEN << >>
        ELSE IF FrameAt(i).opcode = "ping" THEN <<<<"pong", FrameAt(i).id>>>>
        ELSE IF IsData(FrameAt(i)) /\ FrameAt(i).fin THEN <<<<"message", Message(i)>>>>
        ELSE << >>])

(* However what the client sends is cut, the connection answers and refuses *)
(* the same, as soon as it can: the messages are those that were sent, whole*)
(* and in order, with control frames between their parts or not; and a      *)
(* frame that fits in the read buffer never fills it.                       *)
PiecesDontMatter ==
    LET n == got - Len(stream.text)
        text == SubSeq(stream.text, 1, got - (IF n > 0 THEN n ELSE 0))
    IN IF got < Len(stream.text) \/ ~Complete(text) \/ RefusedRequest(text)
       THEN conn.events = << >> /\ (conn.stage = "error" <=> RefusedRequest(text))
       ELSE /\ conn.events = <<<<"switching protocols">>>> \o FrameEvents(n)
            /\ conn.stage = "error" <=> \E i \in 1 .. Len(stream.frames) : Stops(i, n)
=============================================================================
