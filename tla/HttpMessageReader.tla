------------------------- MODULE HttpMessageReader -------------------------
(***************************************************************************)
(* lib/impl/httpmessagereader.cpp: a worker reads a request from a socket.  *)
(* The bytes arrive in pieces of any size, or not at all for 200 ms (then   *)
(* read fails, SO_RCVTIMEO); the reader goes over them one by one and cuts  *)
(* the buffer into C strings by writing '\0' over delimiters.               *)
(*                                                                          *)
(* Positions are 0-based as in the code: text[p + 1] is at position p.      *)
(* nextChar moves to the next position and receives until there is a byte;  *)
(* what a place in the code does with it is a step.  currentChar does not   *)
(* receive, which matters after currentPos++ in readQueryString: the byte   *)
(* it sees there may be the '\0' that receive writes behind the bytes.      *)
(* One character stands for a method, a protocol or a decimal number, with  *)
(* its sign; no text has a '\0' of its own.                                 *)
(***************************************************************************)
EXTENDS Integers, Sequences, FiniteSets

CONSTANTS Texts,       \* what clients send
          Methods,     \* characters that stand for the methods of HTTP
          Numerals,    \* characters that stand for numbers -> the number
          Half, Wrap,  \* 2^31 and 2^64: an int is in -Half .. Half - 1, an unsigned long below Wrap
          Capacity     \* 8190, the bytes receive reads at most

Zero == ""

ASSUME CapacityAssumption == Capacity \in Nat
ASSUME NumeralsAssumption ==
    /\ Half \in Nat /\ Capacity < Half /\ Wrap \in Nat /\ Wrap % (2 * Half) = 0
    /\ Numerals \in [DOMAIN Numerals -> Int]
ASSUME TextsAssumption == \A t \in Texts : t \in Seq({t[i] : i \in DOMAIN t} \ {Zero})

Blanks == {" "}
Space == {" ", "\r", "\n"}
ToLower(c) == IF c = "H" THEN "h" ELSE IF c = "Content-Length" THEN "content-length" ELSE c

\* The number a value starts with, 0 if it is none; and what int keeps of it
\* after strtoul, which takes it modulo 2^64.
Numeral(v) == IF v # <<>> /\ v[1] \in DOMAIN Numerals THEN Numerals[v[1]] ELSE 0
ToInt(number) == ((number + Half) % (2 * Half)) - Half

VARIABLES
    sent,        \* what this client sends
    bufferEnd, currentPos,
    pc,          \* the place in the code; "done" when readRequest has returned or thrown
    cuts,        \* the positions that hold a '\0'
    path,        \* where the path starts, and the other strings:
    parameters,  \* name and value of each parameter (value NoString: none)
    headers,     \* name and value of each header line
    line,        \* startOfHeaderLine, startOfHeaderValue, endOfHeaderValue
    body,        \* where the body starts, NoString: no body
    returned,    \* "request", what was thrown, or "wild": a write outside the buffer
    torn         \* history: a piece ended between two delimiters of the query

received == <<sent, bufferEnd, torn>>
strings == <<path, parameters, headers, body>>
vars == <<received, currentPos, pc, cuts, strings, line, returned>>

NoString == -1
NoLine == [start |-> 0, value |-> 0, end |-> 0]

Places == {"method", "path", "query", "firstOfName", "name", "firstOfValue", "value", "protocol",
           "requestLineEnd", "header", "headersEnd", "headerName", "blanks", "headerValue",
           "headerLineEnd", "body"}

TypeOK ==
    /\ sent \in Texts
    /\ bufferEnd \in 0 .. Capacity /\ currentPos \in 0 .. Capacity + 1
    /\ cuts \subseteq 0 .. Capacity
    /\ pc \in Places \cup {"done"} /\ (pc = "done" <=> returned # "none")
    /\ returned \in {"none", "request", "400", "406", "error", "wild"}
    /\ path \in 0 .. Capacity /\ body \in -1 .. Capacity

Init ==
    /\ sent \in Texts
    /\ bufferEnd = 0 /\ currentPos = 0 /\ pc = "method"
    /\ cuts = {} /\ path = 0 /\ parameters = <<>> /\ headers = <<>> /\ line = NoLine /\ body = NoString
    /\ returned = "none" /\ torn = FALSE

-----------------------------------------------------------------------------
\* The byte at position p, and the string that starts there.
ByteAt(p) == IF p \in cuts \/ p >= bufferEnd THEN Zero ELSE sent[p + 1]
StringAt(p) ==
    LET end == CHOOSE e \in p .. bufferEnd : ByteAt(e) = Zero /\ \A f \in p .. e - 1 : ByteAt(f) # Zero
    IN  SubSeq(sent, p + 1, end)
HeaderName(p) == LET s == StringAt(p) IN [i \in DOMAIN s |-> ToLower(s[i])]

currentChar == ByteAt(currentPos)

\* Msg->header(content_length): the last such line (Map keeps the last of equal keys).
ContentLengths == {i \in DOMAIN headers : HeaderName(headers[i][1]) = <<"content-length">>}
givenLength == Numeral(StringAt(headers[CHOOSE i \in ContentLengths : \A j \in ContentLengths : j <= i][2]))
contentLength == ToInt(givenLength)

\* Whether strtoul sets errno; and bodyStart + contentLength, as a number.
LengthIsTooLong == givenLength \notin -(Wrap - 1) .. Wrap - 1
bodyEnd == currentPos + 1 + contentLength

\* readBody's loop, or that of nextChar, calls receive.
MustReceive ==
    \/ pc \in Places \ {"query", "firstOfName", "firstOfValue", "body"} /\ currentPos >= bufferEnd
    \/ pc = "body" /\ ~LengthIsTooLong /\ bodyEnd > bufferEnd

Delimiters(c) == IF c \in {"?", "&"} THEN {"=", "&"} \cup Space
                 ELSE IF c = "=" THEN {"&"} \cup Space ELSE {}

Tears(b) == b > 0 /\ sent[b + 1] \in Delimiters(sent[b])

ReceiveUnbounded(n) ==
    /\ MustReceive
    /\ bufferEnd + n <= Len(sent)
    /\ bufferEnd' = bufferEnd + n
    /\ torn' = (torn \/ Tears(bufferEnd))
    /\ UNCHANGED <<sent, currentPos, pc, cuts, strings, line, returned>>

\* receive, when n bytes arrive
Receive(n) ==
    /\ MustReceive
    /\ bufferEnd + n <= Len(sent) /\ n <= Capacity - bufferEnd
    /\ bufferEnd' = bufferEnd + n
    /\ torn' = (torn \/ Tears(bufferEnd))
    /\ UNCHANGED <<sent, currentPos, pc, cuts, strings, line, returned>>

Throw(r) == pc' = "done" /\ returned' = r

ReceiveRetries == MustReceive /\ UNCHANGED vars

\* receive throws: no byte in time, or the client has closed, or no room is left.
ReceiveThrows ==
    /\ MustReceive
    /\ Throw("error")
    /\ UNCHANGED <<received, currentPos, cuts, strings, line>>

-----------------------------------------------------------------------------
NextChar(p) == currentPos' = currentPos + 1 /\ pc' = p

\* The reader is at place p, and nextChar has returned.
At(p) == pc = p /\ ~MustReceive

ReadMethod ==
    /\ At("method")
    /\ \/ /\ currentChar # " "
          /\ NextChar("method") /\ UNCHANGED <<path, returned>>
       \/ /\ currentChar = " " /\ sent[1] \notin Methods
          /\ Throw("406") /\ UNCHANGED <<currentPos, path>>
       \/ /\ currentChar = " " /\ sent[1] \in Methods
          /\ path' = currentPos + 1
          /\ NextChar("path") /\ UNCHANGED returned
    /\ UNCHANGED <<received, cuts, parameters, headers, body, line>>

\* msg->buffer[currentPos] = '\0' behind path and query, then on to the protocol
EndPath == cuts' = cuts \cup {currentPos} /\ NextChar("protocol")

ReadPath ==
    /\ At("path")
    /\ \/ /\ currentChar \notin {"?"} \cup Space
          /\ NextChar("path") /\ UNCHANGED cuts
       \/ /\ currentChar = "?"
          /\ pc' = "query" /\ UNCHANGED <<currentPos, cuts>>
       \/ /\ currentChar \in Space
          /\ EndPath
    /\ UNCHANGED <<received, strings, line, returned>>

\* The head of the loop of readQueryString, at '?' or behind a parameter.  The
\* parameter is entered here; the code does it at the end, which nobody can tell.
ReadQuery ==
    /\ At("query")
    /\ \/ /\ currentChar \in Space
          /\ EndPath /\ UNCHANGED parameters
       \/ /\ currentChar \notin Space
          /\ cuts' = cuts \cup {currentPos}
          /\ currentPos' = currentPos + 1
          /\ parameters' = Append(parameters, <<currentPos + 1, NoString>>)
          /\ pc' = "firstOfName"
    /\ UNCHANGED <<received, path, headers, body, line, returned>>

\* The name of a parameter; its first character is not waited for.
ReadQueryName ==
    /\ At("firstOfName") \/ At("name")
    /\ \/ /\ currentChar \notin {"=", "&"} \cup Space
          /\ NextChar("name") /\ UNCHANGED <<cuts, parameters>>
       \/ /\ currentChar \in {"&"} \cup Space
          /\ pc' = "query" /\ UNCHANGED <<currentPos, cuts, parameters>>
       \/ /\ currentChar = "="
          /\ cuts' = cuts \cup {currentPos}
          /\ currentPos' = currentPos + 1
          /\ parameters' = [parameters EXCEPT ![Len(parameters)][2] = currentPos + 1]
          /\ pc' = "firstOfValue"
    /\ UNCHANGED <<received, path, headers, body, line, returned>>

\* And its value.
ReadQueryValue ==
    /\ At("firstOfValue") \/ At("value")
    /\ \/ /\ currentChar \notin {"&"} \cup Space
          /\ NextChar("value")
       \/ /\ currentChar \in {"&"} \cup Space
          /\ pc' = "query" /\ UNCHANGED currentPos
    /\ UNCHANGED <<received, cuts, strings, line, returned>>

ReadProtocol ==
    /\ At("protocol")
    /\ \/ /\ currentChar \notin Space
          /\ NextChar("protocol") /\ UNCHANGED returned
       \/ /\ currentChar = "\r"
          /\ NextChar("requestLineEnd") /\ UNCHANGED returned
       \/ /\ currentChar \in Space \ {"\r"}
          /\ Throw("400") /\ UNCHANGED currentPos
    /\ UNCHANGED <<received, cuts, strings, line>>

\* The '\n' behind a '\r', or 400.
Newline(p) ==
    \/ currentChar = "\n" /\ NextChar(p) /\ UNCHANGED returned
    \/ currentChar # "\n" /\ Throw("400") /\ UNCHANGED currentPos

EndRequestLine ==
    /\ At("requestLineEnd")
    /\ Newline("header")
    /\ UNCHANGED <<received, cuts, strings, line>>

\* The head of the loop of readHeaders.
ReadHeaders ==
    /\ At("header")
    /\ \/ /\ currentChar = "\r"
          /\ NextChar("headersEnd") /\ UNCHANGED line
       \/ /\ currentChar # "\r"
          /\ line' = [start |-> currentPos, value |-> currentPos, end |-> currentPos]
          /\ pc' = "headerName" /\ UNCHANGED currentPos
    /\ UNCHANGED <<received, cuts, strings, returned>>

\* The empty line: endInsert, then the body if there is a content-length.
EndHeaders ==
    /\ At("headersEnd")
    /\ \/ /\ currentChar = "\n" /\ ContentLengths # {}
          /\ pc' = "body" /\ UNCHANGED returned
       \/ /\ currentChar = "\n" /\ ContentLengths = {}
          /\ Throw("request")
       \/ /\ currentChar # "\n"
          /\ Throw("400")
    /\ UNCHANGED <<received, currentPos, cuts, strings, line>>

ReadHeaderName ==
    /\ At("headerName")
    /\ \/ /\ currentChar # ":"
          /\ NextChar("headerName") /\ UNCHANGED <<cuts, returned>>
       \/ /\ currentChar = ":" /\ currentPos > line.start
          /\ cuts' = cuts \cup {currentPos}
          /\ NextChar("blanks") /\ UNCHANGED returned
       \/ /\ currentChar = ":" /\ currentPos = line.start
          /\ Throw("400") /\ UNCHANGED <<currentPos, cuts>>
    /\ UNCHANGED <<received, strings, line>>

SkipBlanks ==
    /\ At("blanks")
    /\ \/ /\ currentChar \in Blanks
          /\ NextChar("blanks") /\ UNCHANGED line
       \/ /\ currentChar \notin Blanks
          /\ line' = [line EXCEPT !.value = currentPos, !.end = currentPos]
          /\ pc' = "headerValue" /\ UNCHANGED currentPos
    /\ UNCHANGED <<received, cuts, strings, returned>>

ReadHeaderValueUntrimmed ==
    /\ At("headerValue")
    /\ \/ /\ currentChar # "\r"
          /\ line' = [line EXCEPT !.end = currentPos + 1]
          /\ NextChar("headerValue")
       \/ /\ currentChar = "\r"
          /\ NextChar("headerLineEnd") /\ UNCHANGED line
    /\ UNCHANGED <<received, cuts, strings, returned>>

\* The value; its end is behind the last character that is not blank.
ReadHeaderValue ==
    /\ At("headerValue")
    /\ \/ /\ currentChar # "\r"
          /\ line' = [line EXCEPT !.end = IF currentChar \in Blanks THEN @ ELSE currentPos + 1]
          /\ NextChar("headerValue")
       \/ /\ currentChar = "\r"
          /\ NextChar("headerLineEnd") /\ UNCHANGED line
    /\ UNCHANGED <<received, cuts, strings, returned>>

EndHeaderLineUnterminated ==
    /\ At("headerLineEnd")
    /\ Newline("header")
    /\ headers' = IF currentChar = "\n" THEN Append(headers, <<line.start, line.value>>) ELSE headers
    /\ UNCHANGED <<received, cuts, path, parameters, body, line>>

EndHeaderLine ==
    /\ At("headerLineEnd")
    /\ Newline("header")
    /\ \/ /\ currentChar = "\n"
          /\ cuts' = cuts \cup {line.end}
          /\ headers' = Append(headers, <<line.start, line.value>>)
       \/ /\ currentChar # "\n"
          /\ UNCHANGED <<cuts, headers>>
    /\ UNCHANGED <<received, path, parameters, body, line>>

\* readBody: a Content-Length strtoul has no room for
LengthThrows ==
    /\ pc = "body" /\ LengthIsTooLong
    /\ Throw("error")
    /\ UNCHANGED <<received, currentPos, cuts, strings, line>>

\* The end of readBody, when it is complete, or when the length is negative: then
\* the zero is written into what is in front of the body.
ReadBody ==
    /\ At("body") /\ ~LengthIsTooLong /\ bodyEnd >= 0
    /\ cuts' = cuts \cup {bodyEnd}
    /\ body' = currentPos + 1
    /\ Throw("request")
    /\ UNCHANGED <<received, currentPos, path, parameters, headers, line>>

\* And when the zero is written in front of the buffer, where anything may be; or
\* when the sum is no int: that is undefined, it may be negative or be waited for.
\* What the program does after this is not said.
WriteOutside ==
    /\ pc = "body" /\ ~LengthIsTooLong /\ bodyEnd \notin 0 .. Half - 1
    /\ Throw("wild")
    /\ UNCHANGED <<received, currentPos, cuts, strings, line>>

Next ==
    \/ \E n \in 1 .. Capacity : Receive(n)
    \/ ReceiveThrows
    \/ ReadMethod \/ ReadPath \/ ReadQuery \/ ReadQueryName \/ ReadQueryValue \/ ReadProtocol \/ EndRequestLine
    \/ ReadHeaders \/ EndHeaders \/ ReadHeaderName \/ SkipBlanks \/ ReadHeaderValue \/ EndHeaderLine
    \/ LengthThrows \/ ReadBody \/ WriteOutside

\* The worker runs, and a read returns in time whether the client sends or not.
Spec == Init /\ [][Next]_vars /\ WF_vars(Next)

-----------------------------------------------------------------------------
\* What a request is, said of the whole text t.

\* The first position of t from i on with a character in C; Len(t) + 1: none.
Find(t, i, C) ==
    LET at == {j \in i .. Len(t) : t[j] \in C}
    IN  IF at = {} THEN Len(t) + 1 ELSE CHOOSE j \in at : \A k \in at : j <= k

\* The last position of t before i with a character in C; 0: none.
FindBack(t, i, C) ==
    LET at == {j \in 1 .. i - 1 : t[j] \in C} \cup {0} IN CHOOSE j \in at : \A k \in at : k <= j

\* The pieces of t between the characters in C that end at each position or before.
PiecesTo(t, C) ==
    LET p[i \in 0 .. Len(t) + 1] ==
            IF i = 0 THEN <<>>
            ELSE IF i <= Len(t) /\ t[i] \notin C THEN p[i - 1]
            ELSE Append(p[i - 1], SubSeq(t, FindBack(t, i, C) + 1, i - 1))
    IN  p

Pieces(t, C) == PiecesTo(t, C)[Len(t) + 1]

NameAndValue(t) ==
    LET e == Find(t, 1, {"="}) IN <<SubSeq(t, 1, e - 1), SubSeq(t, e + 1, Len(t))>>

Trimmed(t) ==
    LET ink == {i \in DOMAIN t : t[i] \notin Blanks}
    IN  IF ink = {} THEN <<>>
        ELSE SubSeq(t, CHOOSE i \in ink : \A j \in ink : i <= j, CHOOSE i \in ink : \A j \in ink : j <= i)

Lowered(t) == [i \in DOMAIN t |-> ToLower(t[i])]

\* The request line: where its target starts and ends, and where it ends itself.
Target(t) == Find(t, 1, {" "}) + 1
TargetEnd(t) == Find(t, Target(t), Space)
LineEnd(t) == Find(t, TargetEnd(t) + 1, Space)
\* The position of the colon of the header line that starts at i, and its end.
ColonIn(t, i) == Find(t, i, {":"})
Cr(t, i) == Find(t, ColonIn(t, i) + 1, {"\r"})
CrLf(t, i) == i < Len(t) /\ t[i] = "\r" /\ t[i + 1] = "\n"

\* Whether there is a header line at position i, and what it says.
HeaderLine(t, i) == i <= Len(t) /\ t[i] # "\r" /\ ColonIn(t, i) # i /\ CrLf(t, Cr(t, i))
Field(t, i) == <<Lowered(SubSeq(t, i, ColonIn(t, i) - 1)), Trimmed(SubSeq(t, ColonIn(t, i) + 1, Cr(t, i) - 1))>>

\* The header lines from each position on, and the position of the empty line;
\* 0 if there is a line that is none.
HeadersFrom(t) ==
    LET h[i \in 1 .. Len(t) + 3] ==
            IF CrLf(t, i) THEN [lines |-> <<>>, end |-> i]
            ELSE IF ~HeaderLine(t, i) THEN [lines |-> <<>>, end |-> 0]
            ELSE LET rest == h[Cr(t, i) + 2]
                 IN  [lines |-> <<Field(t, i)>> \o rest.lines, end |-> rest.end]
    IN  h

Headers(t) == HeadersFrom(t)[LineEnd(t) + 2]

Wellformed(t) == t[1] \in Methods /\ CrLf(t, LineEnd(t)) /\ Headers(t).end # 0

\* The Content-Length among header lines, and whether the body it gives a text
\* ends where an int can say so.
Lengths(lines) == {i \in DOMAIN lines : lines[i][1] = <<"content-length">>}
LengthIn(lines) == Numeral(lines[CHOOSE i \in Lengths(lines) : \A j \in Lengths(lines) : j <= i][2])
PlainLength(t) ==
    Lengths(Headers(t).lines) # {} => LengthIn(Headers(t).lines) \in 0 .. Half - Capacity - 1

\* The request in a well-formed text, and in what the reader has read.
Request(t) ==
    LET q == Find(SubSeq(t, 1, TargetEnd(t) - 1), Target(t), {"?"})
        query == Pieces(SubSeq(t, q + 1, TargetEnd(t) - 1), {"&"})
        h == Headers(t)
    IN  [path |-> SubSeq(t, Target(t), q - 1),
         parameters |-> IF q >= TargetEnd(t) THEN <<>> ELSE [i \in DOMAIN query |-> NameAndValue(query[i])],
         headers |-> h.lines,
         body |-> IF Lengths(h.lines) = {} THEN <<>> ELSE SubSeq(t, h.end + 2, h.end + 1 + LengthIn(h.lines))]

RequestRead ==
    [path |-> StringAt(path),
     parameters |-> [i \in DOMAIN parameters |->
         <<StringAt(parameters[i][1]),
           IF parameters[i][2] = NoString THEN <<>> ELSE StringAt(parameters[i][2])>>],
     headers |-> [i \in DOMAIN headers |-> <<HeaderName(headers[i][1]), StringAt(headers[i][2])>>],
     body |-> IF body = NoString THEN <<>> ELSE StringAt(body)]

\* readRequest: what is read does not depend on how the text came in pieces: a
\* well-formed text gives its request and no other, unless a piece ends between
\* two delimiters of the query, where the reader steps over the second one, or the
\* Content-Length is negative or too large for an int, which nothing checks.  Only
\* then is anything written outside the buffer.
ParseMatchesText ==
    ~torn => /\ returned = "request" => Wellformed(sent) /\ (PlainLength(sent) => RequestRead = Request(sent))
             /\ returned = "wild" => Wellformed(sent) /\ ~PlainLength(sent)
             /\ returned \in {"400", "406"} => ~Wellformed(sent)

\* Path, parameters and headers of a request each end in a '\0' of their own
\* within the bytes received, in whatever pieces they came and whatever the
\* Content-Length; its body starts within these bytes or where they end, and there
\* receive has put a '\0'.
StringsEndInBuffer ==
    returned = "request" =>
        LET starts == {path} \cup {parameters[i][k] : i \in DOMAIN parameters, k \in {1, 2}}
                          \cup {headers[i][k] : i \in DOMAIN headers, k \in {1, 2}}
        IN  /\ \A p \in starts \ {NoString} : \E c \in cuts : p <= c /\ c <= bufferEnd
            /\ body <= bufferEnd

\* A worker is not held for ever by a client that sends nothing, too little or
\* too much.
ReadReturns == <>(returned # "none")

=============================================================================
