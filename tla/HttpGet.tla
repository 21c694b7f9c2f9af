------------------------------ MODULE HttpGet ------------------------------
(***************************************************************************)
(* http_OpenHttpGetEx and http_ReadHttpGet (httpreadwrite.c) over the       *)
(* incremental parser of answers (httpparser.c): what a server sends comes  *)
(* in pieces cut anywhere, and the parser, called again after each, takes    *)
(* the heads of chunks out of its buffer until only the entity is left.      *)
(*                                                                         *)
(* The tokens that the scanner tells apart stand for their characters: a     *)
(* line or a header without its end of line, a digit, CR, LF, a byte.        *)
(***************************************************************************)
EXTENDS Integers, Sequences

CONSTANTS
  Base,      \* of the sizes of chunks: 16 in the code
  Timeout    \* HTTP_DEFAULT_TIMEOUT, in seconds

ASSUME BaseAssumption    == Base \in Nat \ {0, 1}
ASSUME TimeoutAssumption == Timeout \in Nat \ {0}

VARIABLES
  answer,         \* the entity the server sends, the form it has, how many of its
                  \* bytes are sent in chunks, and whether the last one is sent
  stream,         \* what has not been received yet
  step,           \* "closed", "parse", "receive", "opened" or "failed"
  position,       \* "line", "headers", "entity" or "complete"
  method,         \* ent_position: how the entity is read, and where it is
  msg, cursor,    \* the buffer of the parser, and how much of it is scanned
  headers,        \* those parsed, and the status line
  start,          \* entity_start_position
  entityLength,   \* msg.entity.length: the bytes of the entity known so far
  chunkSize,
  entityOffset,   \* the bytes of the entity given to the caller
  okOnClose,
  left            \* seconds left to wait; 0 sets no limit

httpVars == <<answer, stream, step, position, method, msg, cursor, headers,
              start, entityLength, chunkSize, entityOffset, okOnClose, left>>
-----------------------------------------------------------------------------
(* Answers of servers.                                                      *)

Token(is, of)  == [is |-> is, of |-> of]
CR             == Token("CR", 0)
LF             == Token("LF", 0)
Line(body)     == Token("line", body)      \* 0: a status without an entity
Chunked        == Token("chunked", 0)      \* Transfer-Encoding
Length(n)      == Token("length", n)       \* Content-Length
Other          == Token("other", 0)        \* another header
Digit(n)       == Token("digit", n)
BytesOf(b)     == [i \in DOMAIN b |-> Token("byte", b[i])]

(* The ways to send the entity b: with its length, to the end of the        *)
(* connection, in chunks, in what should be chunks but has no size, and in   *)
(* an answer whose status allows no entity.                                 *)
Forms(b) == {"length", "close", "chunked", "wrong"}
              \cup (IF b = << >> THEN {"none"} ELSE {})

(* What is sent at once: all but chunks.  Lines before the entity end with   *)
(* LF, which is taken for CRLF.                                             *)
Beginning(b, form) ==
  CASE form = "length"  -> <<Line(1), LF, Length(Len(b)), LF, LF>> \o BytesOf(b)
    [] form = "close"   -> <<Line(1), LF, LF>> \o BytesOf(b)
    [] form = "chunked" -> <<Line(1), LF, Chunked, LF, LF>>
    [] form = "wrong"   -> <<Line(1), LF, Chunked, LF, LF, Other>>
    [] form = "none"    -> <<Line(0), LF, LF>>

(* Bound: sizes of chunks are written with one or two digits.               *)
MaxChunk == Base * Base - 1

ChunkHead(n) ==
  IF n < Base THEN <<Digit(n), CR, LF>>
              ELSE <<Digit(n \div Base), Digit(n % Base), CR, LF>>

Chunk(b) == ChunkHead(Len(b)) \o BytesOf(b) \o <<CR, LF>>

(* A header may follow the last chunk.                                      *)
LastChunk == {<<Digit(0), CR, LF, CR, LF>>, <<Digit(0), CR, LF, Other, CR, LF, CR, LF>>}

NoAnswer == [body |-> << >>, form |-> "none", sent |-> 0, ended |-> TRUE]
-----------------------------------------------------------------------------
(* The scanner: the number of tokens that match from a place of the buffer. *)

Incomplete == 0     \* they may match when more is received
NoMatch    == -1

(* Mutant of EndOfLine: a CR at the end of what was received is enough.     *)
LoneCR(k) ==
  CASE k > Len(msg)                          -> Incomplete
    [] k <= Len(msg) /\ msg[k] = LF          -> 1
    [] k = Len(msg) /\ msg[k] = CR           -> 1
    [] k < Len(msg) /\ msg[k] = CR /\ msg[k + 1] = LF -> 2
    [] OTHER                                 -> NoMatch

(* scanner_get_token of an end of line: a lone CR may be half of one.       *)
EndOfLine(k) ==
  CASE k > Len(msg)                         -> Incomplete
    [] k <= Len(msg) /\ msg[k] = LF         -> 1
    [] k = Len(msg) /\ msg[k] = CR          -> Incomplete
    [] k < Len(msg) /\ msg[k] = CR /\ msg[k + 1] = LF -> 2
    [] OTHER                                -> NoMatch

StatusLine(k) ==
  CASE k > Len(msg)         -> Incomplete
    [] k <= Len(msg) /\ msg[k].is # "line" -> NoMatch
    [] OTHER                -> IF EndOfLine(k + 1) > 0 THEN 1 + EndOfLine(k + 1)
                               ELSE EndOfLine(k + 1)

(* A value may go on after its end of line: the token that follows decides. *)
HeaderLine(k) ==
  LET n == EndOfLine(k + 1) IN
  CASE k > Len(msg) -> Incomplete
    [] k <= Len(msg) /\ msg[k].is \notin {"chunked", "length", "other"} -> NoMatch
    [] OTHER -> IF n > 0 /\ EndOfLine(k + 1 + n) = Incomplete THEN Incomplete
                ELSE IF n > 0 THEN 1 + n ELSE n

Least(places) == CHOOSE i \in places : \A j \in places : i <= j

(* A number at the end of what was received may have more digits.           *)
NumberEnd(k) ==
  Least({i \in k .. Len(msg) + 1 : i = Len(msg) + 1 \/ msg[i].is # "digit"})

Value(k) ==
  LET upTo[i \in k - 1 .. NumberEnd(k) - 1] ==
        IF i = k - 1 THEN 0 ELSE Base * upTo[i - 1] + msg[i].of
  IN  upTo[NumberEnd(k) - 1]

SizeLine(k) ==
  CASE k > Len(msg)          -> Incomplete
    [] k <= Len(msg) /\ msg[k].is # "digit" -> NoMatch
    [] OTHER ->
         LET ends == {i \in NumberEnd(k) .. Len(msg) : EndOfLine(i) > 0}
             e    == Least(ends)
         IN  IF ends = {} THEN Incomplete ELSE e + EndOfLine(e) - k

Deleted(from, n) ==
  SubSeq(msg, 1, from - 1) \o SubSeq(msg, from + n, Len(msg))
-----------------------------------------------------------------------------
HttpInit ==
  /\ answer = NoAnswer
  /\ stream = << >> /\ step = "closed"
  /\ position = "line" /\ method = "unknown"
  /\ msg = << >> /\ cursor = 0 /\ headers = {}
  /\ start = 0 /\ entityLength = 0 /\ chunkSize = 0
  /\ entityOffset = 0 /\ okOnClose = FALSE
  /\ left = Timeout

(* Nothing of what was parsed is used again.                                *)
Released(next) ==
  /\ answer' = NoAnswer
  /\ stream' = << >> /\ step' = next
  /\ position' = "line" /\ method' = "unknown"
  /\ msg' = << >> /\ cursor' = 0 /\ headers' = {}
  /\ start' = 0 /\ entityLength' = 0 /\ chunkSize' = 0
  /\ entityOffset' = 0 /\ okOnClose' = FALSE
  /\ left' = Timeout

CloseHttpGet == Released("closed")

(* The time that a wait takes is taken from what is left, to the second;    *)
(* a limit of zero seconds is none.  When less than none is left the next   *)
(* wait fails, as any wait may.                                             *)
LeftAfterWait == 0 .. left

(* The request is sent to a server that answers with the entity b.          *)
Connect(b) ==
  /\ step = "closed"
  /\ \E form \in Forms(b) :
       /\ answer' = [body |-> b, form |-> form, sent |-> 0, ended |-> form # "chunked"]
       /\ stream' = Beginning(b, form)
  /\ left' \in LeftAfterWait
  /\ step' = "parse"
  /\ UNCHANGED <<position, method, msg, cursor, headers, start, entityLength,
                 chunkSize, entityOffset, okOnClose>>

(* A server sends chunks of the sizes it likes, then the last one.  All are  *)
(* sent before any is received: what is sent later is received later.       *)
InChunks == step = "receive" /\ answer.form = "chunked" /\ ~answer.ended

SendChunk ==
  /\ InChunks
  /\ \E to \in answer.sent + 1 .. Len(answer.body) :
       /\ to - answer.sent <= MaxChunk
       /\ stream' = stream \o Chunk(SubSeq(answer.body, answer.sent + 1, to))
       /\ answer' = [answer EXCEPT !.sent = to]
  /\ UNCHANGED <<step, position, method, msg, cursor, headers, start, entityLength,
                 chunkSize, entityOffset, okOnClose, left>>

SendLastChunk ==
  /\ InChunks /\ answer.sent = Len(answer.body)
  /\ \E last \in LastChunk : stream' = stream \o last
  /\ answer' = [answer EXCEPT !.ended = TRUE]
  /\ UNCHANGED <<step, position, method, msg, cursor, headers, start, entityLength,
                 chunkSize, entityOffset, okOnClose, left>>

(* The caller receives more, for a line, a header or the want bytes asked.  *)
Waiting(want) ==
  /\ step = "receive"
  /\ position # "complete"
  /\ position = "entity" => entityOffset + want > entityLength

Receive(want) ==
  /\ Waiting(want) /\ ~InChunks
  /\ \E n \in 1 .. Len(stream) :
       /\ msg' = msg \o SubSeq(stream, 1, n)
       /\ stream' = SubSeq(stream, n + 1, Len(stream))
  /\ left' \in LeftAfterWait
  /\ step' = "parse"
  /\ UNCHANGED <<answer, position, method, cursor, headers, start, entityLength,
                 chunkSize, entityOffset, okOnClose>>

(* The server closes the connection, early too if the end of the entity is  *)
(* told otherwise.                                                          *)
ServerCloses(want) ==
  /\ Waiting(want)
  /\ answer.form # "close" \/ stream = << >>
  /\ IF position = "entity" /\ okOnClose
     THEN /\ position' = "complete"
          /\ UNCHANGED <<answer, stream, step, method, msg, cursor, headers, start,
                         entityLength, chunkSize, entityOffset, okOnClose, left>>
     ELSE Released("failed")

ReceiveFails(want) == Waiting(want) /\ Released("failed")

(* With a limit a wait that brings nothing ends.                            *)
TimesOut(want) == left # 0 /\ ReceiveFails(want)
-----------------------------------------------------------------------------
(* The parser: each action is one call, or one turn of a loop.              *)

Parsing(p) == step = "parse" /\ position = p
Reading(m) == Parsing("entity") /\ method = m

(* Without a match the caller receives more, or gives up.                   *)
NotMatched(n) ==
  /\ step' = IF n = Incomplete THEN "receive" ELSE "failed"
  /\ UNCHANGED <<position, method, msg, cursor, headers, entityLength, chunkSize>>

ParseResponseLine ==
  /\ Parsing("line")
  /\ LET n == StatusLine(cursor + 1) IN
     IF n > 0 THEN /\ cursor' = cursor + n
                   /\ headers' = {msg[cursor + 1]}
                   /\ position' = "headers"
                   /\ UNCHANGED <<step, method, msg, entityLength, chunkSize>>
              ELSE NotMatched(n)
  /\ UNCHANGED <<answer, stream, start, entityOffset, okOnClose, left>>

InHeaders == Parsing("headers") \/ Reading("trailer")

ParseHeader ==
  /\ InHeaders /\ EndOfLine(cursor + 1) = NoMatch
  /\ LET n == HeaderLine(cursor + 1) IN
     IF n > 0 THEN /\ cursor' = cursor + n
                   /\ headers' = headers \cup {msg[cursor + 1]}
                   /\ UNCHANGED <<step, position, method, msg, entityLength, chunkSize>>
              ELSE NotMatched(n)
  /\ UNCHANGED <<answer, stream, start, entityOffset, okOnClose, left>>

(* What is left in the buffer of the headers after an entity is not read.   *)
EndHeaders ==
  /\ InHeaders /\ EndOfLine(cursor + 1) # NoMatch
  /\ LET n == EndOfLine(cursor + 1) IN
     IF n > 0
     THEN /\ cursor' = cursor + n
          /\ IF position = "headers"
             THEN position' = "entity" /\ UNCHANGED step
             ELSE position' = "complete" /\ step' = "receive"
          /\ UNCHANGED <<method, msg, headers, entityLength, chunkSize>>
     ELSE NotMatched(n)
  /\ UNCHANGED <<answer, stream, start, entityOffset, okOnClose, left>>

ContentLength == (CHOOSE h \in headers : h.is = "length").of

(* parser_get_entity_read_method, called when the headers are parsed.       *)
GetEntityReadMethod ==
  /\ Reading("unknown")
  /\ start' = cursor /\ entityLength' = 0
  /\ IF Line(0) \in headers
     THEN position' = "complete" /\ UNCHANGED method
     ELSE /\ method' = CASE Chunked \in headers                -> "chunked"
                         [] \E h \in headers : h.is = "length" -> "length"
                         [] OTHER                              -> "close"
          /\ UNCHANGED position
  /\ step' = "opened"
  /\ UNCHANGED <<answer, stream, msg, cursor, headers, chunkSize, entityOffset,
                 okOnClose, left>>

(* Bytes after the length that was told are dropped.                        *)
ParseUsingLength ==
  /\ Reading("length")
  /\ LET n == Len(msg) - start IN
     IF n < ContentLength
     THEN entityLength' = n /\ UNCHANGED position
     ELSE entityLength' = ContentLength /\ position' = "complete"
  /\ step' = "receive"
  /\ UNCHANGED <<answer, stream, method, msg, cursor, headers, start, chunkSize,
                 entityOffset, okOnClose, left>>

(* The head of a chunk is taken out of the buffer.                          *)
ParseChunkSize ==
  /\ Reading("chunked")
  /\ LET n == SizeLine(cursor + 1)
         v == Value(cursor + 1) IN
     IF n > 0
     THEN /\ msg' = Deleted(cursor + 1, n)
          /\ chunkSize' = v
          /\ IF v = 0 THEN method' = "trailer" /\ entityLength' = cursor - start
                      ELSE method' = "chunk" /\ UNCHANGED entityLength
          /\ UNCHANGED <<step, position, cursor, headers>>
     ELSE NotMatched(n)
  /\ UNCHANGED <<answer, stream, start, entityOffset, okOnClose, left>>

(* A chunk counts when its end of line is there, which is taken out too.    *)
ParseChunk ==
  /\ Reading("chunk")
  /\ LET end == cursor + chunkSize
         n   == EndOfLine(end + 1) IN
     IF Len(msg) >= end /\ n > 0
     THEN /\ msg' = Deleted(end + 1, n)
          /\ cursor' = end
          /\ entityLength' = entityLength + chunkSize
          /\ method' = "chunked"
          /\ UNCHANGED <<step, position, headers, chunkSize>>
     ELSE NotMatched(n)
  /\ UNCHANGED <<answer, stream, start, entityOffset, okOnClose, left>>

ParseUntilClose ==
  /\ Reading("close")
  /\ cursor' = Len(msg)
  /\ entityLength' = Len(msg) - start
  /\ okOnClose' = TRUE
  /\ step' = "receive"
  /\ UNCHANGED <<answer, stream, position, method, msg, headers, start, chunkSize,
                 entityOffset, left>>

Parse ==
  \/ ParseResponseLine \/ ParseHeader \/ EndHeaders \/ GetEntityReadMethod
  \/ ParseUsingLength \/ ParseChunkSize \/ ParseChunk \/ ParseUntilClose

(* http_ReadHttpGet begins: what was received is parsed, unless it was all. *)
ReadAgain(given) ==
  /\ step' = IF position = "complete" THEN "receive" ELSE "parse"
  /\ entityOffset' = given
  /\ okOnClose' = FALSE
  /\ left' = Timeout
  /\ UNCHANGED <<answer, stream, position, method, msg, cursor, headers, start,
                 entityLength, chunkSize>>

(* The bytes that http_ReadHttpGet has for the caller: want, or all to come. *)
Available(want) ==
  IF entityOffset + want > entityLength THEN entityLength - entityOffset ELSE want

Given(n) == [i \in 1 .. n |-> msg[start + entityOffset + i].of]
=============================================================================
