---------------------- MODULE HttpMessageReaderProofs ----------------------
(***************************************************************************)
(* Theorems about HttpMessageReader, for any texts, in pieces of any sizes, *)
(* and any size of the buffer: the reader stays within the bytes, every     *)
(* string of a request ends in them (first part), and the request is the    *)
(* one that the text, read as a whole, describes.  For that the second part *)
(* says what the operators of the specification are, the recursive ones     *)
(* among them, and the third one what the reader has found at each place.   *)
(***************************************************************************)
EXTENDS HttpMessageReader, SequenceTheorems, FiniteSetTheorems, WellFoundedInduction, TLAPS

-----------------------------------------------------------------------------
\* The places where the path or the query is read, and those in a header line.
InTarget == {"path", "query", "firstOfName", "name", "firstOfValue", "value"}
InLine == {"headerName", "blanks", "headerValue", "headerLineEnd"}

\* Nothing is cut behind the bytes that have been received.
CutsReceived ==
    /\ bufferEnd \in Nat /\ currentPos \in Nat
    /\ cuts \subseteq 0 .. bufferEnd
    /\ pc \in {"query", "body"} => currentPos < bufferEnd

\* Position p is at or behind the start of the path and of all of the parameters.
BehindTarget(p) ==
    /\ path <= p
    /\ \A i \in DOMAIN parameters : parameters[i][1] <= p /\ parameters[i][2] <= p

\* The path and the parameters start in front of where the reader is, and then in
\* front of one cut that ends them all, if nothing else does.
TargetEnds ==
    /\ path \in Nat
    /\ parameters \in Seq(Int \X Int)
    /\ pc = "method" => parameters = <<>> /\ path = 0
    /\ pc \in {"firstOfName", "name"} => parameters # <<>>
    /\ pc \in InTarget => BehindTarget(currentPos)
    /\ pc \notin InTarget \cup {"method", "done"} \/ returned = "request" =>
          \E c \in cuts : BehindTarget(c)

\* A header line starts in front of its value, and the value in front of its end,
\* where it is cut.
HeadersEnd ==
    /\ headers \in Seq(Int \X Int)
    /\ line \in [start : Nat, value : Nat, end : Nat]
    /\ pc \in InLine => line.start <= line.value /\ line.value <= line.end /\ line.end <= currentPos
    /\ \A i \in DOMAIN headers : \E c \in cuts : headers[i][1] <= c /\ headers[i][2] <= c

\* The body, if there is one, starts where the bytes received end, or in front of it.
BodyEnds ==
    /\ returned = "request" => pc = "done"
    /\ body \in Int /\ body <= bufferEnd

StringsInv == CutsReceived /\ TargetEnds /\ HeadersEnd /\ BodyEnds

-----------------------------------------------------------------------------
\* The parameters, or the headers, and one more.
LEMMA AppendPair ==
    ASSUME NEW s \in Seq(Int \X Int), NEW a \in Int, NEW b \in Int
    PROVE  /\ Append(s, <<a, b>>) \in Seq(Int \X Int)
           /\ Append(s, <<a, b>>) # <<>>
           /\ \A i \in DOMAIN Append(s, <<a, b>>) :
                 \/ i \in DOMAIN s /\ Append(s, <<a, b>>)[i] = s[i]
                 \/ Append(s, <<a, b>>)[i][1] = a /\ Append(s, <<a, b>>)[i][2] = b
<1>1. <<a, b>> \in Int \X Int
    OBVIOUS
<1> DEFINE e == <<a, b>>
<1>2. e[1] = a /\ e[2] = b /\ e \in Int \X Int
    BY <1>1
<1> HIDE DEF e
<1>3. /\ Append(s, e) \in Seq(Int \X Int) /\ Len(s) \in Nat
      /\ DOMAIN s = 1 .. Len(s) /\ DOMAIN Append(s, e) = 1 .. Len(s) + 1
      /\ Append(s, e)[Len(s) + 1] = e
      /\ \A i \in 1 .. Len(s) : Append(s, e)[i] = s[i]
    BY <1>2, AppendProperties, LenProperties
<1>4. Append(s, e) # <<>>
    BY <1>3, EmptySeq
<1>5. \A i \in DOMAIN Append(s, e) : i \in DOMAIN s \/ i = Len(s) + 1
    BY <1>3
<1> QED
    BY <1>2, <1>3, <1>4, <1>5 DEF e

\* The last parameter gets a value.
LEMMA ValueOfLast ==
    ASSUME NEW s \in Seq(Int \X Int), s # <<>>, NEW b \in Int
    PROVE  LET r == [s EXCEPT ![Len(s)][2] = b] IN
           /\ r \in Seq(Int \X Int)
           /\ \A i \in DOMAIN r : /\ i \in DOMAIN s
                                  /\ r[i][1] = s[i][1]
                                  /\ r[i][2] = s[i][2] \/ r[i][2] = b
<1> DEFINE n == Len(s)
           e == [s[n] EXCEPT ![2] = b]
           r == [s EXCEPT ![n] = e]
<1>1. n \in 1 .. n /\ DOMAIN s = 1 .. n /\ n \in Nat
    BY EmptySeq, LenProperties
<1>2. s[n] \in Int \X Int
    BY <1>1
<1>3. e \in Int \X Int /\ e[1] = s[n][1] /\ e[2] = b
    BY <1>2
<1> HIDE DEF e, n
<1>4. r \in Seq(Int \X Int)
    BY <1>1, <1>3, ExceptSeq
<1>5. \A i \in DOMAIN r : i \in DOMAIN s /\ (r[i] = s[i] \/ (i = n /\ r[i] = e))
    BY <1>1
<1>6. r = [s EXCEPT ![Len(s)][2] = b]
    BY DEF r, e, n
<1> QED
    BY <1>3, <1>4, <1>5, <1>6

\* More bytes, or a throw.
LEMMA ReceiveStep ==
    ASSUME Capacity \in Nat, StringsInv, \/ \E n \in 1 .. Capacity : Receive(n)
                                        \/ ReceiveThrows
    PROVE  StringsInv'
<1> USE DEF StringsInv
<1>1. ASSUME NEW n \in 1 .. Capacity, Receive(n)
      PROVE  StringsInv'
  <2>1. /\ bufferEnd' = bufferEnd + n /\ n \in Nat
        /\ UNCHANGED <<currentPos, pc, cuts, strings, line, returned>>
      BY <1>1 DEF Receive
  <2>2. CutsReceived'
      BY <2>1 DEF CutsReceived
  <2>3. BodyEnds'
      BY <2>1 DEF BodyEnds, CutsReceived, strings
  <2> QED
      BY <2>1, <2>2, <2>3 DEF TargetEnds, BehindTarget, HeadersEnd, strings
<1>2. CASE ReceiveThrows
  <2>1. /\ pc' = "done" /\ returned' = "error" /\ UNCHANGED <<bufferEnd, currentPos, cuts, strings, line>>
      BY <1>2 DEF ReceiveThrows, Throw, received
  <2> QED
      BY <2>1 DEF CutsReceived, TargetEnds, BehindTarget, HeadersEnd, BodyEnds, strings, InTarget, InLine
<1> QED
    BY <1>1, <1>2

\* What an int keeps of a number.
LEMMA IntKeeps ==
    /\ \A number \in Int : ToInt(number) \in -Half .. Half - 1
    /\ \A number \in 0 .. Half - 1 : ToInt(number) = number
<1>1. Half \in Nat /\ Half > 0
    BY NumeralsAssumption, CapacityAssumption
<1>2. ASSUME NEW number \in Int
      PROVE  ToInt(number) \in -Half .. Half - 1
  <2>1. number + Half \in Int /\ 2 * Half \in Nat /\ 2 * Half > 0
      BY <1>1
  <2>2. (number + Half) % (2 * Half) \in 0 .. 2 * Half - 1
      BY <2>1
  <2> QED
      BY <1>1, <2>2 DEF ToInt
<1>3. ASSUME NEW number \in 0 .. Half - 1
      PROVE  ToInt(number) = number
  <2>1. number \in Int /\ number + Half \in 0 .. 2 * Half - 1 /\ 2 * Half \in Nat /\ 2 * Half > 0
      BY <1>1
  <2>2. (number + Half) % (2 * Half) = number + Half
      BY <2>1
  <2> QED
      BY <1>1, <2>1, <2>2 DEF ToInt
<1> QED
    BY <1>2, <1>3

LEMMA LengthType == givenLength \in Int /\ contentLength \in Int
<1>1. \A v : Numeral(v) \in Int
    BY NumeralsAssumption DEF Numeral
<1>2. givenLength \in Int
    BY <1>1 DEF givenLength
<1>3. Half \in Nat
    BY NumeralsAssumption
<1>4. contentLength \in -Half .. Half - 1
    BY <1>2, IntKeeps DEF contentLength
<1> QED
    BY <1>2, <1>3, <1>4

\* The reader is at place p, with a byte to look at if it waits for one there.
LEMMA AtPlace ==
    ASSUME StringsInv, NEW p \in Places, At(p)
    PROVE  /\ pc = p /\ returned # "request"
           /\ currentPos \in Nat /\ bufferEnd \in Nat
           /\ p \notin {"firstOfName", "firstOfValue"} => currentPos < bufferEnd
           /\ p = "body" /\ ~LengthIsTooLong => bodyEnd <= bufferEnd
<1>1. pc = p /\ ~MustReceive
    BY DEF At
<1>2. p # "done"
    BY DEF Places
<1>3. bodyEnd \in Int
    BY LengthType DEF bodyEnd, StringsInv, CutsReceived
<1>4. currentPos \in Nat /\ bufferEnd \in Nat /\ (p \in {"query", "body"} => currentPos < bufferEnd)
    BY <1>1 DEF StringsInv, CutsReceived
<1>5. p \notin {"firstOfName", "firstOfValue"} => currentPos < bufferEnd
    BY <1>1, <1>4 DEF MustReceive
<1>6. p = "body" /\ ~LengthIsTooLong => bodyEnd <= bufferEnd
    BY <1>1, <1>3, <1>4 DEF MustReceive
<1> QED
    BY <1>1, <1>2, <1>4, <1>5, <1>6 DEF StringsInv, BodyEnds

\* A byte that is one of these has been received.
LEMMA ByteReceived ==
    ASSUME StringsInv, currentChar # Zero
    PROVE  currentPos < bufferEnd
    BY DEF currentChar, ByteAt, StringsInv, CutsReceived

\* The reader goes on, or not, within the target, the header line or the rest.
LEMMA MoveStep ==
    ASSUME StringsInv, UNCHANGED <<bufferEnd, cuts, strings, line>>,
           currentPos' \in {currentPos, currentPos + 1},
           pc' \in {"query", "body"} => currentPos' < bufferEnd,
           pc' = "method" => pc = "method",
           pc' \in {"firstOfName", "name"} => pc \in {"firstOfName", "name"},
           pc' \in InTarget => pc \in InTarget,
           pc' \in InLine => pc \in InLine,
           pc' \notin InTarget \cup {"method", "done"} \/ returned' = "request" =>
               pc \notin InTarget \cup {"method", "done"} \/ returned = "request",
           returned' = "request" => pc' = "done"
    PROVE  StringsInv'
<1> USE DEF StringsInv
<1>1. currentPos \in Nat /\ currentPos' \in Nat /\ currentPos <= currentPos'
    BY DEF CutsReceived
<1>2. CutsReceived'
    BY <1>1 DEF CutsReceived
<1>3. \A c \in Int : BehindTarget(c)' <=> BehindTarget(c)
    BY DEF BehindTarget, strings
<1>4. BehindTarget(currentPos) => BehindTarget(currentPos')
    BY <1>1, LenProperties DEF BehindTarget, TargetEnds
<1>5. cuts \subseteq Int
    BY DEF CutsReceived
<1>6. TargetEnds'
    BY <1>1, <1>3, <1>4, <1>5 DEF TargetEnds, strings
<1>7. HeadersEnd'
    BY <1>1 DEF HeadersEnd, strings
<1>8. BodyEnds'
    BY DEF BodyEnds, strings
<1> QED
    BY <1>2, <1>6, <1>7, <1>8

\* The steps that only move.
LEMMA MoveSteps ==
    ASSUME StringsInv,
           \/ ReadMethod /\ pc' # "path"
           \/ ReadPath /\ pc' # "protocol"
           \/ ReadQueryName /\ pc' # "firstOfValue"
           \/ ReadQueryValue \/ ReadProtocol \/ EndRequestLine
           \/ ReadHeaders /\ pc' # "headerName"
           \/ EndHeaders
           \/ ReadHeaderName /\ pc' # "blanks"
           \/ SkipBlanks /\ pc' # "headerValue"
           \/ ReadHeaderValue /\ pc' # "headerValue"
    PROVE  StringsInv'
<1> USE DEF NextChar, Throw, InTarget, InLine, strings, received
<1>0. \A p \in Places : At(p) => /\ pc = p /\ returned # "request"
                                 /\ p \notin {"firstOfName", "firstOfValue"} => currentPos < bufferEnd
    BY AtPlace
<1>1. CASE ReadMethod /\ pc' # "path"
  <2>1. At("method") /\ UNCHANGED <<bufferEnd, cuts, strings, line>>
      BY <1>1 DEF ReadMethod
  <2>2. pc = "method" /\ returned # "request"
      BY <1>0, <2>1 DEF Places
  <2> QED
      BY <1>1, <2>1, <2>2, MoveStep DEF ReadMethod
<1>2. CASE ReadPath /\ pc' # "protocol"
  <2>1. At("path") /\ UNCHANGED <<bufferEnd, cuts, strings, line>>
      BY <1>2 DEF ReadPath, EndPath
  <2>2. pc = "path" /\ returned # "request"
      BY <1>0, <2>1 DEF Places
  <2>3. ASSUME pc' = "query"
        PROVE  currentPos' < bufferEnd
    <3>1. currentChar # Zero /\ UNCHANGED currentPos
        BY <1>2, <2>2, <2>3 DEF ReadPath, EndPath, Space, Zero
    <3> QED
        BY <3>1, ByteReceived
  <2> QED
      BY <1>2, <2>1, <2>2, <2>3, MoveStep DEF ReadPath, EndPath
<1>3. CASE ReadQueryName /\ pc' # "firstOfValue"
  <2>1. (At("firstOfName") \/ At("name")) /\ UNCHANGED <<bufferEnd, cuts, strings, line>>
      BY <1>3 DEF ReadQueryName
  <2>2. (pc = "firstOfName" \/ pc = "name") /\ returned # "request"
      BY <1>0, <2>1 DEF Places
  <2>3. ASSUME pc' = "query"
        PROVE  currentPos' < bufferEnd
    <3>1. currentChar # Zero /\ UNCHANGED currentPos
        BY <1>3, <2>2, <2>3 DEF ReadQueryName, Space, Zero
    <3> QED
        BY <3>1, ByteReceived
  <2> QED
      BY <1>3, <2>1, <2>2, <2>3, MoveStep DEF ReadQueryName
<1>4. CASE ReadQueryValue
  <2>1. (At("firstOfValue") \/ At("value")) /\ UNCHANGED <<bufferEnd, cuts, strings, line>>
      BY <1>4 DEF ReadQueryValue
  <2>2. (pc = "firstOfValue" \/ pc = "value") /\ returned # "request"
      BY <1>0, <2>1 DEF Places
  <2>3. ASSUME pc' = "query"
        PROVE  currentPos' < bufferEnd
    <3>1. currentChar # Zero /\ UNCHANGED currentPos
        BY <1>4, <2>2, <2>3 DEF ReadQueryValue, Space, Zero
    <3> QED
        BY <3>1, ByteReceived
  <2> QED
      BY <1>4, <2>1, <2>2, <2>3, MoveStep DEF ReadQueryValue
<1>5. CASE ReadProtocol
  <2>1. At("protocol") /\ UNCHANGED <<bufferEnd, cuts, strings, line>>
      BY <1>5 DEF ReadProtocol
  <2>2. pc = "protocol" /\ returned # "request"
      BY <1>0, <2>1 DEF Places
  <2> QED
      BY <1>5, <2>1, <2>2, MoveStep DEF ReadProtocol
<1>6. CASE EndRequestLine
  <2>1. At("requestLineEnd") /\ UNCHANGED <<bufferEnd, cuts, strings, line>>
      BY <1>6 DEF EndRequestLine, Newline
  <2>2. pc = "requestLineEnd" /\ returned # "request"
      BY <1>0, <2>1 DEF Places
  <2> QED
      BY <1>6, <2>1, <2>2, MoveStep DEF EndRequestLine, Newline
<1>7. CASE ReadHeaders /\ pc' # "headerName"
  <2>1. At("header") /\ UNCHANGED <<bufferEnd, cuts, strings, line>>
      BY <1>7 DEF ReadHeaders
  <2>2. pc = "header" /\ returned # "request"
      BY <1>0, <2>1 DEF Places
  <2> QED
      BY <1>7, <2>1, <2>2, MoveStep DEF ReadHeaders
<1>8. CASE EndHeaders
  <2>1. At("headersEnd") /\ UNCHANGED <<bufferEnd, cuts, strings, line>>
      BY <1>8 DEF EndHeaders
  <2>2. pc = "headersEnd" /\ returned # "request" /\ currentPos < bufferEnd
      BY <1>0, <2>1 DEF Places
  <2> QED
      BY <1>8, <2>1, <2>2, MoveStep DEF EndHeaders
<1>9. CASE ReadHeaderName /\ pc' # "blanks"
  <2>1. At("headerName") /\ UNCHANGED <<bufferEnd, cuts, strings, line>>
      BY <1>9 DEF ReadHeaderName
  <2>2. pc = "headerName" /\ returned # "request"
      BY <1>0, <2>1 DEF Places
  <2> QED
      BY <1>9, <2>1, <2>2, MoveStep DEF ReadHeaderName
<1>10. CASE SkipBlanks /\ pc' # "headerValue"
  <2>1. At("blanks") /\ UNCHANGED <<bufferEnd, cuts, strings, line>>
      BY <1>10 DEF SkipBlanks
  <2>2. pc = "blanks" /\ returned # "request"
      BY <1>0, <2>1 DEF Places
  <2> QED
      BY <1>10, <2>1, <2>2, MoveStep DEF SkipBlanks
<1>11. CASE ReadHeaderValue /\ pc' # "headerValue"
  <2>1. At("headerValue") /\ UNCHANGED <<bufferEnd, cuts, strings, line>>
      BY <1>11 DEF ReadHeaderValue
  <2>2. pc = "headerValue" /\ returned # "request"
      BY <1>0, <2>1 DEF Places
  <2> QED
      BY <1>11, <2>1, <2>2, MoveStep DEF ReadHeaderValue
<1> QED
    BY <1>1, <1>2, <1>3, <1>4, <1>5, <1>6, <1>7, <1>8, <1>9, <1>10, <1>11

\* The method ends, and the path starts.
LEMMA MethodEnds ==
    ASSUME StringsInv, ReadMethod, pc' = "path"
    PROVE  StringsInv'
<1>1. pc = "method" /\ returned # "request" /\ currentPos \in Nat
    BY AtPlace DEF ReadMethod, Places
<1>2. /\ path' = currentPos + 1 /\ currentPos' = currentPos + 1
      /\ UNCHANGED <<bufferEnd, cuts, parameters, headers, body, line, returned>>
    BY <1>1 DEF ReadMethod, NextChar, Throw, received
<1>3. parameters' = <<>>
    BY <1>1, <1>2 DEF StringsInv, TargetEnds
<1>4. CutsReceived'
    BY <1>1, <1>2 DEF StringsInv, CutsReceived
<1>5. TargetEnds'
    BY <1>1, <1>2, <1>3 DEF StringsInv, TargetEnds, BehindTarget, InTarget
<1>6. HeadersEnd' /\ BodyEnds'
    BY <1>1, <1>2 DEF StringsInv, HeadersEnd, BodyEnds, InLine
<1> QED
    BY <1>4, <1>5, <1>6 DEF StringsInv

\* The target ends where it is cut.
LEMMA TargetIsCut ==
    ASSUME StringsInv, \/ ReadPath /\ pc' = "protocol"
                       \/ ReadQuery /\ pc' = "protocol"
    PROVE  StringsInv'
<1>1. pc \in {"path", "query"} /\ returned # "request" /\ currentPos \in Nat /\ currentPos < bufferEnd
    BY AtPlace DEF ReadPath, ReadQuery, Places, StringsInv, CutsReceived
<1>2. /\ cuts' = cuts \cup {currentPos} /\ currentPos' = currentPos + 1
      /\ UNCHANGED <<bufferEnd, strings, line, returned>>
    BY DEF ReadPath, ReadQuery, EndPath, NextChar, received, strings
<1>3. CutsReceived'
    BY <1>1, <1>2 DEF StringsInv, CutsReceived
<1>4. BehindTarget(currentPos) /\ (BehindTarget(currentPos) => \E c \in cuts' : BehindTarget(c)')
    BY <1>1, <1>2 DEF StringsInv, TargetEnds, InTarget, BehindTarget, strings
<1>5. TargetEnds'
    BY <1>1, <1>2, <1>4 DEF StringsInv, TargetEnds, InTarget, strings
<1>6. HeadersEnd' /\ BodyEnds'
    BY <1>1, <1>2 DEF StringsInv, HeadersEnd, BodyEnds, InLine, strings
<1> QED
    BY <1>3, <1>5, <1>6 DEF StringsInv

\* A parameter starts behind a cut, and so does a value.
LEMMA ParameterStarts ==
    ASSUME StringsInv, \/ ReadQuery /\ pc' # "protocol"
                       \/ ReadQueryName /\ pc' = "firstOfValue"
    PROVE  StringsInv'
<1>1. pc \in {"query", "firstOfName", "name"} /\ returned # "request" /\ currentPos \in Nat
    BY AtPlace DEF ReadQuery, ReadQueryName, Places
<1>2. currentPos < bufferEnd
  <2>1. CASE ReadQuery
      BY <2>1 DEF ReadQuery, At, StringsInv, CutsReceived
  <2>2. CASE ReadQueryName /\ pc' = "firstOfValue"
    <3>1. currentChar # Zero
        BY <1>1, <2>2 DEF ReadQueryName, NextChar, Zero
    <3> QED
        BY <3>1, ByteReceived
  <2> QED
      BY <2>1, <2>2
<1>3. /\ cuts' = cuts \cup {currentPos} /\ currentPos' = currentPos + 1
      /\ pc' \in {"firstOfName", "firstOfValue"}
      /\ UNCHANGED <<bufferEnd, path, headers, body, line, returned>>
    BY DEF ReadQuery, EndPath, ReadQueryName, NextChar, received
<1>4. /\ parameters' \in Seq(Int \X Int) /\ (pc' = "firstOfName" => parameters' # <<>>)
      /\ \A i \in DOMAIN parameters' :
            /\ \/ i \in DOMAIN parameters /\ parameters'[i][1] = parameters[i][1]
               \/ parameters'[i][1] = currentPos + 1
            /\ \/ i \in DOMAIN parameters /\ parameters'[i][2] = parameters[i][2]
               \/ parameters'[i][2] \in {NoString, currentPos + 1}
  <2>0. parameters \in Seq(Int \X Int)
      BY DEF StringsInv, TargetEnds
  <2>1. CASE ReadQuery /\ pc' # "protocol"
    <3>1. parameters' = Append(parameters, <<currentPos + 1, NoString>>)
        BY <2>1 DEF ReadQuery, EndPath, NextChar
    <3>2. currentPos + 1 \in Int /\ NoString \in Int
        BY <1>1 DEF NoString
    <3> DEFINE p == currentPos + 1
    <3> HIDE DEF p
    <3>3. /\ parameters' = Append(parameters, <<p, NoString>>) /\ p \in Int /\ NoString \in Int
          /\ p = currentPos + 1
        BY <3>1, <3>2 DEF p
    <3>4. /\ parameters' \in Seq(Int \X Int) /\ parameters' # <<>>
          /\ \A i \in DOMAIN parameters' :
                \/ i \in DOMAIN parameters /\ parameters'[i] = parameters[i]
                \/ parameters'[i][1] = p /\ parameters'[i][2] = NoString
        BY <2>0, <3>3, AppendPair
    <3> QED
        BY <3>3, <3>4
  <2>2. CASE ReadQueryName /\ pc' = "firstOfValue"
    <3>1. parameters' = [parameters EXCEPT ![Len(parameters)][2] = currentPos + 1]
        BY <1>1, <2>2 DEF ReadQueryName, NextChar
    <3>2. parameters # <<>>
        BY <2>2 DEF ReadQueryName, At, StringsInv, TargetEnds
    <3> QED
        BY <1>1, <2>0, <2>2, <3>1, <3>2, ValueOfLast
  <2> QED
      BY <2>1, <2>2
<1>5. CutsReceived'
    BY <1>1, <1>2, <1>3 DEF StringsInv, CutsReceived
<1>6. /\ path \in Nat /\ path <= currentPos
      /\ \A i \in DOMAIN parameters : /\ parameters[i][1] \in Int /\ parameters[i][1] <= currentPos
                                      /\ parameters[i][2] \in Int /\ parameters[i][2] <= currentPos
  <2>1. BehindTarget(currentPos) /\ path \in Nat /\ parameters \in Seq(Int \X Int)
      BY <1>1 DEF StringsInv, TargetEnds, InTarget
  <2>2. \A i \in DOMAIN parameters : parameters[i] \in Int \X Int
      BY <2>1
  <2> QED
      BY <2>1, <2>2 DEF BehindTarget
<1>7. BehindTarget(currentPos)'
  <2>1. ASSUME NEW i \in DOMAIN parameters'
        PROVE  parameters'[i][1] <= currentPos' /\ parameters'[i][2] <= currentPos'
    <3> DEFINE q == parameters'[i]
    <3>1. /\ \/ i \in DOMAIN parameters /\ q[1] = parameters[i][1]
             \/ q[1] = currentPos + 1
          /\ \/ i \in DOMAIN parameters /\ q[2] = parameters[i][2]
             \/ q[2] \in {-1, currentPos + 1}
        BY <1>4, <2>1 DEF NoString
    <3> HIDE DEF q
    <3>2. \/ q[1] \in Int /\ q[1] <= currentPos
          \/ q[1] = currentPos + 1
        BY <1>6, <3>1
    <3>3. \/ q[2] \in Int /\ q[2] <= currentPos
          \/ q[2] \in {-1, currentPos + 1}
        BY <1>6, <3>1
    <3>4. q[1] <= currentPos' /\ q[2] <= currentPos'
        BY <1>1, <1>3, <3>2, <3>3
    <3> QED
        BY <3>4 DEF q
  <2> QED
      BY <1>1, <1>3, <1>6, <2>1 DEF BehindTarget
<1>8. TargetEnds'
    BY <1>1, <1>3, <1>4, <1>7 DEF StringsInv, TargetEnds, InTarget
<1>9. HeadersEnd' /\ BodyEnds'
    BY <1>1, <1>3 DEF StringsInv, HeadersEnd, BodyEnds, InLine
<1> QED
    BY <1>5, <1>8, <1>9 DEF StringsInv

\* A line starts, its name is cut, its value starts and grows.
LEMMA LineStep ==
    ASSUME StringsInv, \/ ReadHeaders /\ pc' = "headerName"
                       \/ ReadHeaderName /\ pc' = "blanks"
                       \/ SkipBlanks /\ pc' = "headerValue"
                       \/ ReadHeaderValue /\ pc' = "headerValue"
    PROVE  StringsInv'
<1>1. /\ pc \in {"header", "headerName", "blanks", "headerValue"} /\ returned # "request"
      /\ currentPos \in Nat /\ currentPos < bufferEnd
    BY AtPlace DEF ReadHeaders, ReadHeaderName, SkipBlanks, ReadHeaderValue, Places
<1>2. /\ currentPos' \in {currentPos, currentPos + 1} /\ pc' \in InLine
      /\ cuts \subseteq cuts' /\ cuts' \subseteq cuts \cup {currentPos}
      /\ UNCHANGED <<bufferEnd, strings, returned>>
    BY <1>1 DEF ReadHeaders, ReadHeaderName, SkipBlanks, ReadHeaderValue, NextChar, Throw, received, InLine
<1>3. CutsReceived'
    BY <1>1, <1>2 DEF StringsInv, CutsReceived, InLine
<1>4. TargetEnds'
  <2>1. \E c \in cuts : BehindTarget(c)
      BY <1>1 DEF StringsInv, TargetEnds, InTarget
  <2>2. \E c \in cuts' : BehindTarget(c)'
      BY <1>2, <2>1 DEF BehindTarget, strings
  <2> QED
      BY <1>2, <2>2 DEF StringsInv, TargetEnds, InTarget, InLine, strings
<1>5. HeadersEnd'
  <2>1. /\ line \in [start : Nat, value : Nat, end : Nat]
        /\ pc # "header" => line.start <= line.value /\ line.value <= line.end /\ line.end <= currentPos
      BY <1>1 DEF StringsInv, HeadersEnd, InLine
  <2>2. /\ line' \in [start : Nat, value : Nat, end : Nat]
        /\ line'.start <= line'.value /\ line'.value <= line'.end /\ line'.end <= currentPos'
    <3>1. CASE ReadHeaders /\ pc' = "headerName"
        BY <1>1, <3>1 DEF ReadHeaders, NextChar
    <3>2. CASE ReadHeaderName /\ pc' = "blanks"
        BY <1>1, <2>1, <3>2 DEF ReadHeaderName, NextChar, Throw, At
    <3>3. CASE SkipBlanks /\ pc' = "headerValue"
      <4>1. /\ line' = [line EXCEPT !.value = currentPos, !.end = currentPos]
            /\ currentPos' = currentPos /\ pc = "blanks"
          BY <3>3 DEF SkipBlanks, NextChar, At
      <4>2. line.start \in Nat /\ line.start <= currentPos
          BY <1>1, <2>1, <4>1
      <4>3. line' = [start |-> line.start, value |-> currentPos, end |-> currentPos]
          BY <2>1, <4>1
      <4> QED
          BY <1>1, <4>1, <4>2, <4>3
    <3>4. CASE ReadHeaderValue /\ pc' = "headerValue"
      <4>1. /\ line' = [line EXCEPT !.end = IF currentChar \in Blanks THEN @ ELSE currentPos + 1]
            /\ currentPos' = currentPos + 1 /\ pc = "headerValue"
          BY <3>4 DEF ReadHeaderValue, NextChar, At
      <4> QED
          BY <1>1, <2>1, <4>1
    <3> QED
        BY <3>1, <3>2, <3>3, <3>4
  <2> QED
      BY <1>2, <2>2 DEF StringsInv, HeadersEnd, strings
<1>6. BodyEnds'
    BY <1>1, <1>2 DEF StringsInv, BodyEnds, strings
<1> QED
    BY <1>3, <1>4, <1>5, <1>6 DEF StringsInv

\* The end of a line is cut, and the header is known.
LEMMA LineEnds ==
    ASSUME StringsInv, EndHeaderLine
    PROVE  StringsInv'
<1>1. /\ pc = "headerLineEnd" /\ returned # "request"
      /\ currentPos \in Nat /\ currentPos < bufferEnd
    BY AtPlace DEF EndHeaderLine, Places
<1>2. CASE currentChar # "\n"
  <2>1. pc' = "done" /\ returned' = "400" /\ UNCHANGED <<bufferEnd, currentPos, cuts, strings, line>>
      BY <1>2 DEF EndHeaderLine, Newline, Throw, received, strings
  <2> QED
      BY <1>1, <2>1, MoveStep DEF InTarget, InLine
<1>3. CASE currentChar = "\n"
  <2>1. /\ pc' = "header" /\ currentPos' = currentPos + 1 /\ cuts' = cuts \cup {line.end}
        /\ headers' = Append(headers, <<line.start, line.value>>)
        /\ UNCHANGED <<bufferEnd, path, parameters, body, line, returned>>
      BY <1>3 DEF EndHeaderLine, Newline, NextChar, received
  <2>2. /\ line.start \in Nat /\ line.value \in Nat /\ line.end \in Nat
        /\ line.start <= line.value /\ line.value <= line.end /\ line.end <= currentPos
        /\ headers \in Seq(Int \X Int)
      BY <1>1 DEF StringsInv, HeadersEnd, InLine
  <2>3. CutsReceived'
    <3>1. line.end \in 0 .. bufferEnd
      <4>1. bufferEnd \in Nat /\ line.end <= bufferEnd
          BY <1>1, <2>2 DEF StringsInv, CutsReceived
      <4> QED
          BY <2>2, <4>1
    <3>2. /\ bufferEnd \in Nat /\ currentPos + 1 \in Nat /\ cuts \subseteq 0 .. bufferEnd
        BY <1>1 DEF StringsInv, CutsReceived
    <3> QED
        BY <2>1, <3>1, <3>2 DEF CutsReceived
  <2>4. \E c \in cuts' : BehindTarget(c)'
      BY <1>1, <2>1 DEF StringsInv, TargetEnds, InTarget, BehindTarget
  <2>5. TargetEnds'
      BY <2>1, <2>4 DEF StringsInv, TargetEnds, InTarget
  <2>6. /\ headers' \in Seq(Int \X Int)
        /\ \A i \in DOMAIN headers' :
              \/ i \in DOMAIN headers /\ headers'[i] = headers[i]
              \/ headers'[i][1] = line.start /\ headers'[i][2] = line.value
      BY <2>1, <2>2, AppendPair
  <2>7. \A i \in DOMAIN headers' : \E c \in cuts' : headers'[i][1] <= c /\ headers'[i][2] <= c
    <3> TAKE i \in DOMAIN headers'
    <3>1. CASE i \in DOMAIN headers /\ headers'[i] = headers[i]
        BY <2>1, <3>1 DEF StringsInv, HeadersEnd
    <3>2. CASE headers'[i][1] = line.start /\ headers'[i][2] = line.value
      <4>1. line.end \in cuts' /\ line.start <= line.end
          BY <2>1, <2>2
      <4> QED
          BY <2>2, <3>2, <4>1
    <3> QED
        BY <2>6, <3>1, <3>2
  <2>8. HeadersEnd' /\ BodyEnds'
      BY <1>1, <2>1, <2>6, <2>7 DEF StringsInv, HeadersEnd, BodyEnds, InLine
  <2> QED
      BY <2>3, <2>5, <2>8 DEF StringsInv
<1> QED
    BY <1>2, <1>3

\* A zero is written behind the body, or in front of it, but then in the buffer.
LEMMA BodyIsCut ==
    ASSUME StringsInv, ReadBody
    PROVE  StringsInv'
<1> DEFINE e == bodyEnd
<1>1. /\ pc = "body" /\ currentPos \in Nat /\ bufferEnd \in Nat /\ currentPos < bufferEnd
      /\ e \in Int /\ 0 <= e /\ e <= bufferEnd
  <2>1. At("body") /\ ~LengthIsTooLong /\ 0 <= bodyEnd
      BY LengthType DEF ReadBody, bodyEnd, StringsInv, CutsReceived
  <2>2. bodyEnd \in Int
      BY LengthType DEF bodyEnd, StringsInv, CutsReceived
  <2> QED
      BY <2>1, <2>2, AtPlace DEF Places
<1> HIDE DEF e
<1>2. e \in 0 .. bufferEnd
    BY <1>1
<1>3. /\ cuts' = cuts \cup {e} /\ body' = currentPos + 1 /\ pc' = "done"
      /\ UNCHANGED <<bufferEnd, currentPos, path, parameters, headers, line>>
    BY DEF ReadBody, Throw, received, e
<1>4. CutsReceived'
    BY <1>2, <1>3 DEF StringsInv, CutsReceived
<1>5. \E c \in cuts' : BehindTarget(c)'
    BY <1>1, <1>3 DEF StringsInv, TargetEnds, InTarget, BehindTarget
<1>6. TargetEnds' /\ HeadersEnd'
    BY <1>3, <1>5 DEF StringsInv, TargetEnds, HeadersEnd, InTarget, InLine
<1>7. BodyEnds'
    BY <1>1, <1>3 DEF BodyEnds
<1> QED
    BY <1>4, <1>6, <1>7 DEF StringsInv

\* A length that is refused, or leads out of the buffer.
LEMMA LengthSteps ==
    ASSUME StringsInv, LengthThrows \/ WriteOutside
    PROVE  StringsInv'
<1>1. /\ pc' = "done" /\ returned' \in {"error", "wild"}
      /\ UNCHANGED <<bufferEnd, currentPos, cuts, strings, line>>
    BY DEF LengthThrows, WriteOutside, Throw, received
<1>2. currentPos' \in {currentPos, currentPos + 1}
    BY <1>1
<1> QED
    BY <1>1, <1>2, MoveStep DEF InTarget, InLine

-----------------------------------------------------------------------------
\* The strings, from the first byte on.
LEMMA StringsInductive ==
    ASSUME Capacity \in Nat
    PROVE  /\ Init => StringsInv
           /\ StringsInv /\ [Next]_vars => StringsInv'
<1>1. Init => StringsInv
    BY EmptySeq DEF Init, StringsInv, CutsReceived, TargetEnds, BehindTarget, HeadersEnd, BodyEnds, NoLine,
                    InTarget, InLine, NoString
<1>2. StringsInv /\ [Next]_vars => StringsInv'
  <2> SUFFICES ASSUME StringsInv, [Next]_vars
               PROVE  StringsInv'
      OBVIOUS
  <2>1. CASE UNCHANGED vars
    <3>1. pc' \in {"query", "body"} => currentPos' < bufferEnd
        BY <2>1 DEF vars, StringsInv, CutsReceived
    <3>2. UNCHANGED <<bufferEnd, cuts, strings, line, currentPos, pc, returned>>
        BY <2>1 DEF vars, received
    <3> QED
        BY <3>1, <3>2, MoveStep DEF StringsInv, BodyEnds
  <2> QED
      BY <2>1, ReceiveStep, MoveSteps, MethodEnds, TargetIsCut, ParameterStarts, LineStep, LineEnds, BodyIsCut,
         LengthSteps DEF Next
<1> QED
    BY <1>1, <1>2

\* The reader is at most one position behind what has been received, and not
\* there when it looks at a byte without waiting for it.
InBuffer ==
    /\ sent \in Texts
    /\ bufferEnd \in 0 .. Capacity
    /\ currentPos <= bufferEnd + 1
    /\ pc \in {"firstOfName", "firstOfValue"} => currentPos <= bufferEnd
    /\ pc \in Places \cup {"done"} /\ (pc = "done" <=> returned # "none")
    /\ returned \in {"none", "request", "400", "406", "error", "wild"}
    /\ path \in 0 .. Capacity /\ body \in -1 .. Capacity

\* The steps that receive nothing.
LEMMA MoveInBuffer ==
    ASSUME Capacity \in Nat, StringsInv, InBuffer,
           pc # "done", UNCHANGED received, pc' \in Places \cup {"done"},
           currentPos' \in {currentPos, currentPos + 1},
           pc' = "done" => returned' \in {"request", "400", "406", "error", "wild"}, pc' # "done" => UNCHANGED returned,
           path' = path \/ (path' = currentPos + 1 /\ currentPos < bufferEnd),
           body' = body \/ (body' = currentPos + 1 /\ currentPos + 1 <= bufferEnd),
           \/ currentPos' = currentPos
           \/ currentPos < bufferEnd
           \/ currentPos <= bufferEnd /\ pc' \notin {"firstOfName", "firstOfValue"},
           pc' \in {"firstOfName", "firstOfValue"} => currentPos' <= bufferEnd
    PROVE  InBuffer'
<1>1. currentPos \in Nat /\ bufferEnd \in Nat
    BY DEF StringsInv, CutsReceived
<1>2. UNCHANGED <<sent, bufferEnd>>
    BY DEF received
<1>3. path' \in 0 .. Capacity /\ body' \in -1 .. Capacity
    BY <1>1 DEF InBuffer
<1>4. currentPos' <= bufferEnd' + 1 /\ (pc' \in {"firstOfName", "firstOfValue"} => currentPos' <= bufferEnd')
    BY <1>1, <1>2 DEF InBuffer
<1>5. (pc' = "done" <=> returned' # "none") /\ returned' \in {"none", "request", "400", "406", "error", "wild"}
    BY DEF InBuffer
<1> QED
    BY <1>2, <1>3, <1>4, <1>5 DEF InBuffer

\* Every step.
LEMMA StaysInBuffer ==
    ASSUME Capacity \in Nat, StringsInv, InBuffer, Next
    PROVE  InBuffer'
<1>0. currentPos \in Nat /\ bufferEnd \in Nat
    BY DEF StringsInv, CutsReceived
<1>1. \A p \in Places : At(p) =>
          /\ pc = p
          /\ p \notin {"firstOfName", "firstOfValue"} => currentPos < bufferEnd
    BY AtPlace
<1>2. ASSUME NEW n \in 1 .. Capacity, Receive(n)
      PROVE  InBuffer'
    BY <1>0, <1>2 DEF Receive, InBuffer, strings
<1>3. CASE ReceiveThrows
    BY <1>0, <1>3 DEF ReceiveThrows, Throw, InBuffer, received, strings
<1>5. CASE ReadMethod
  <2>1. pc = "method" /\ currentPos < bufferEnd
      BY <1>1, <1>5 DEF ReadMethod, Places
  <2> QED
      BY MoveInBuffer, <1>5, <2>1 DEF ReadMethod, NextChar, Throw, Places
<1>6. CASE ReadPath
  <2>1. pc = "path" /\ currentPos < bufferEnd
      BY <1>1, <1>6 DEF ReadPath, Places
  <2> QED
      BY MoveInBuffer, <1>6, <2>1 DEF ReadPath, EndPath, NextChar, Places, strings
<1>7. CASE ReadQuery
  <2>1. pc = "query" /\ currentPos < bufferEnd
      BY <1>1, <1>7 DEF ReadQuery, Places, StringsInv, CutsReceived
  <2> QED
      BY MoveInBuffer, <1>0, <1>7, <2>1 DEF ReadQuery, EndPath, NextChar, Places, strings
<1>8. CASE ReadQueryName
  <2>1. pc \in {"firstOfName", "name"} /\ (pc = "name" => currentPos < bufferEnd)
      BY <1>1, <1>8 DEF ReadQueryName, Places
  <2>2. currentPos <= bufferEnd
      BY <1>0, <2>1 DEF InBuffer
  <2>3. currentChar = "=" => currentPos < bufferEnd
      BY ByteReceived DEF Zero
  <2> QED
      BY MoveInBuffer, <1>0, <1>8, <2>1, <2>2, <2>3 DEF ReadQueryName, NextChar, Places, strings
<1>9. CASE ReadQueryValue
  <2>1. pc \in {"firstOfValue", "value"} /\ (pc = "value" => currentPos < bufferEnd)
      BY <1>1, <1>9 DEF ReadQueryValue, Places
  <2>2. currentPos <= bufferEnd
      BY <1>0, <2>1 DEF InBuffer
  <2> QED
      BY MoveInBuffer, <1>0, <1>9, <2>1, <2>2 DEF ReadQueryValue, NextChar, Places, strings
<1>10. CASE ReadProtocol \/ EndRequestLine
  <2>1. pc \in {"protocol", "requestLineEnd"} /\ currentPos < bufferEnd
      BY <1>1, <1>10 DEF ReadProtocol, EndRequestLine, Places
  <2> QED
      BY MoveInBuffer, <1>10, <2>1 DEF ReadProtocol, EndRequestLine, Newline, NextChar, Throw, Places, strings
<1>11. CASE ReadHeaders \/ EndHeaders
  <2>1. pc \in {"header", "headersEnd"} /\ currentPos < bufferEnd
      BY <1>1, <1>11 DEF ReadHeaders, EndHeaders, Places
  <2> QED
      BY MoveInBuffer, <1>11, <2>1 DEF ReadHeaders, EndHeaders, NextChar, Throw, Places, strings
<1>12. CASE ReadHeaderName \/ SkipBlanks
  <2>1. pc \in {"headerName", "blanks"} /\ currentPos < bufferEnd
      BY <1>1, <1>12 DEF ReadHeaderName, SkipBlanks, Places
  <2> QED
      BY MoveInBuffer, <1>12, <2>1 DEF ReadHeaderName, SkipBlanks, NextChar, Throw, Places, strings
<1>13. CASE ReadHeaderValue \/ EndHeaderLine
  <2>1. pc \in {"headerValue", "headerLineEnd"} /\ currentPos < bufferEnd
      BY <1>1, <1>13 DEF ReadHeaderValue, EndHeaderLine, Places
  <2> QED
      BY MoveInBuffer, <1>13, <2>1 DEF ReadHeaderValue, EndHeaderLine, Newline, NextChar, Throw, Places, strings
<1>14. CASE ReadBody
  <2>1. pc = "body" /\ currentPos < bufferEnd
      BY <1>1, <1>14 DEF ReadBody, Places
  <2>2. currentPos + 1 <= bufferEnd
      BY <1>0, <2>1
  <2> QED
      BY MoveInBuffer, <1>0, <1>14, <2>1, <2>2 DEF ReadBody, Throw, Places
<1>15. CASE LengthThrows \/ WriteOutside
  <2>1. /\ pc = "body" /\ pc' = "done" /\ returned' \in {"error", "wild"}
        /\ UNCHANGED <<received, currentPos, path, body>>
      BY <1>15 DEF LengthThrows, WriteOutside, Throw, strings
  <2> QED
      BY MoveInBuffer, <1>0, <2>1 DEF Places
<1> QED
    BY <1>2, <1>3, <1>5, <1>6, <1>7, <1>8, <1>9, <1>10, <1>11, <1>12, <1>13, <1>14, <1>15 DEF Next

\* The reader, its cuts and the starts of its strings stay within the buffer,
\* whatever the client sends, but for the one write a Content-Length leads out of
\* it (WriteOutside), after which the reader is done; and it has a result just
\* when it is done.
THEOREM TypeCorrect == Spec => []TypeOK
<1>0. Capacity \in Nat
    BY CapacityAssumption
<1>1. Init => StringsInv /\ InBuffer
  <2>1. Init => InBuffer
      BY <1>0 DEF Init, InBuffer, Places, NoString
  <2> QED
      BY <1>0, <2>1, StringsInductive
<1>2. StringsInv /\ InBuffer /\ [Next]_vars => (StringsInv /\ InBuffer)'
  <2> SUFFICES ASSUME StringsInv, InBuffer, [Next]_vars
               PROVE  StringsInv' /\ InBuffer'
      OBVIOUS
  <2>1. CASE UNCHANGED vars
    <3>1. UNCHANGED <<sent, bufferEnd, currentPos, pc, path, body, returned>>
        BY <2>1 DEF vars, received, strings
    <3>2. InBuffer'
        BY <3>1 DEF InBuffer
    <3> QED
        BY <1>0, <3>2, StringsInductive
  <2> QED
      BY <1>0, <2>1, StaysInBuffer, StringsInductive
<1>3. StringsInv /\ InBuffer => TypeOK
  <2> SUFFICES ASSUME StringsInv, InBuffer
               PROVE  TypeOK
      OBVIOUS
  <2>1. bufferEnd \in Nat /\ currentPos \in Nat /\ cuts \subseteq 0 .. bufferEnd /\ bufferEnd <= Capacity
      BY <1>0 DEF StringsInv, CutsReceived, InBuffer
  <2>2. cuts \subseteq 0 .. Capacity /\ currentPos \in 0 .. Capacity + 1
      BY <1>0, <2>1 DEF InBuffer
  <2> QED
      BY <1>0, <2>2 DEF TypeOK, InBuffer
<1> QED
    BY <1>1, <1>2, <1>3, PTL DEF Spec

\* Path, parameters and headers of a request each end in a cut within the bytes
\* received, and its body where they end at the latest, whatever the client sends
\* and however long it says its body is, in whatever pieces, for a buffer of any
\* size.
THEOREM StringsCorrect == Spec => []StringsEndInBuffer
<1>0. Capacity \in Nat
    BY CapacityAssumption
<1>1. Init => StringsInv
    BY <1>0, StringsInductive
<1>2. StringsInv /\ [Next]_vars => StringsInv'
    BY <1>0, StringsInductive
<1>3. StringsInv => StringsEndInBuffer
  <2> SUFFICES ASSUME StringsInv, returned = "request"
               PROVE  StringsEndInBuffer
      BY DEF StringsEndInBuffer
  <2> DEFINE Ends(p) == \E c \in cuts : p <= c /\ c <= bufferEnd
  <2>1. \A c \in cuts : c <= bufferEnd
      BY DEF StringsInv, CutsReceived
  <2>2. Ends(path) /\ \A i \in DOMAIN parameters : Ends(parameters[i][1]) /\ Ends(parameters[i][2])
      BY <2>1 DEF StringsInv, TargetEnds, BehindTarget
  <2>3. \A i \in DOMAIN headers : Ends(headers[i][1]) /\ Ends(headers[i][2])
      BY <2>1 DEF StringsInv, HeadersEnd
  <2>4. body <= bufferEnd
      BY DEF StringsInv, BodyEnds
  <2> DEFINE starts == {path} \cup {parameters[i][k] : i \in DOMAIN parameters, k \in {1, 2}}
                          \cup {headers[i][k] : i \in DOMAIN headers, k \in {1, 2}}
  <2>5. \A p \in starts \ {NoString} : Ends(p)
    <3> HIDE DEF Ends
    <3> QED
        BY <2>2, <2>3
  <2> QED
      BY <2>4, <2>5 DEF StringsEndInBuffer
<1> QED
    BY <1>1, <1>2, <1>3, PTL DEF Spec

-----------------------------------------------------------------------------
\* The least and the greatest element of a set; what Find, FindBack and Trimmed find.

\* A non-empty set of naturals has a least element.
LEMMA LeastElement ==
    ASSUME NEW T \in SUBSET Nat, T # {}
    PROVE  \E m \in T : \A k \in T : m <= k
<1> DEFINE C == {0 .. m : m \in T}
<1>1. C \subseteq FiniteSubsetsOf(Nat)
  <2>1. \A m \in T : IsFiniteSet(0 .. m)
      BY FS_Interval
  <2> QED
      BY <2>1 DEF FiniteSubsetsOf
<1>2. C # {}
    OBVIOUS
<1>3. PICK x \in C : \A y \in C : ~ (<<y, x>> \in StrictSubsetOrdering(Nat))
    BY <1>1, <1>2, FS_StrictSubsetOrderingWellFounded, WFMin, Zenon
<1>4. PICK m \in T : x = 0 .. m
    OBVIOUS
<1>5. ASSUME NEW k \in T, k < m
      PROVE  FALSE
  <2>1. 0 .. k \subseteq 0 .. m /\ m \in 0 .. m /\ m \notin 0 .. k
      BY <1>5
  <2>2. <<0 .. k, 0 .. m>> \in StrictSubsetOrdering(Nat)
      BY <2>1 DEF StrictSubsetOrdering
  <2> QED
      BY <1>3, <1>4, <2>2
<1> QED
    BY <1>5

\* A non-empty set of naturals with an upper bound has a greatest element.
LEMMA GreatestElement ==
    ASSUME NEW n \in Nat, NEW T \in SUBSET (0 .. n), T # {}
    PROVE  \E m \in T : \A k \in T : k <= m
<1> DEFINE back == {n - j : j \in T}
<1>0. \A j \in T : j \in Nat /\ n - j \in Nat
    OBVIOUS
<1>1. back \in SUBSET Nat /\ back # {}
    BY <1>0
<1>2. PICK x \in back : \A k \in back : x <= k
    BY <1>1, LeastElement
<1>3. PICK m \in T : x = n - m
    BY <1>2
<1>4. ASSUME NEW k \in T PROVE k <= m
  <2>1. n - k \in back /\ k \in Nat /\ m \in Nat
      OBVIOUS
  <2>2. n - m <= n - k
      BY <2>1, <1>2, <1>3
  <2> QED
      BY <2>1, <2>2
<1> QED
    BY <1>4

\* No character in C from position a to b of t.
Clear(t, C, a, b) == \A j \in a .. b : t[j] \notin C

\* Find finds the first of the characters, or the place behind the text.
LEMMA FindIs ==
    ASSUME NEW S, NEW t \in Seq(S), NEW C, NEW i \in Nat \ {0}, NEW n \in i .. Len(t),
           Clear(t, C, i, n - 1), t[n] \in C
    PROVE  Find(t, i, C) = n
<1> DEFINE at == {j \in i .. Len(t) : t[j] \in C}
<1>1. n \in at /\ \A k \in at : n <= k
    BY LenProperties DEF Clear
<1>2. \A m \in at : (\A k \in at : m <= k) => m = n
    BY <1>1, LenProperties
<1>3. at # {} /\ (CHOOSE j \in at : \A k \in at : j <= k) = n
    BY <1>1, <1>2
<1> QED
    BY <1>3 DEF Find

\* Or there is none.
LEMMA FindNone ==
    ASSUME NEW S, NEW t \in Seq(S), NEW C, NEW i \in Nat \ {0}, Clear(t, C, i, Len(t))
    PROVE  Find(t, i, C) = Len(t) + 1
    BY DEF Find, Clear

\* Where it is.
LEMMA FindFinds ==
    ASSUME NEW S, NEW t \in Seq(S), NEW C, NEW i \in Nat \ {0}
    PROVE  /\ Find(t, i, C) \in Nat /\ Find(t, i, C) <= Len(t) + 1
           /\ (Find(t, i, C) \in i .. Len(t) /\ t[Find(t, i, C)] \in C) \/ Find(t, i, C) = Len(t) + 1
           /\ Clear(t, C, i, Find(t, i, C) - 1)
<1> DEFINE at == {j \in i .. Len(t) : t[j] \in C}
<1>0. Len(t) \in Nat
    BY LenProperties
<1>1. CASE at = {}
  <2>1. Clear(t, C, i, Len(t))
      BY <1>0, <1>1 DEF Clear
  <2> QED
      BY <1>0, <2>1, FindNone
<1>2. CASE at # {}
  <2>1. at \in SUBSET Nat
      BY <1>0
  <2>2. PICK n \in at : \A k \in at : n <= k
      BY <1>2, <2>1, LeastElement
  <2>3. n \in i .. Len(t) /\ t[n] \in C /\ Clear(t, C, i, n - 1)
      BY <1>0, <2>2 DEF Clear
  <2>4. Find(t, i, C) = n
      BY <2>3, FindIs
  <2> QED
      BY <1>0, <2>3, <2>4
<1> QED
    BY <1>1, <1>2

\* FindBack finds the last one in front of a place.
LEMMA FindBackIs ==
    ASSUME NEW t, NEW C, NEW i \in Nat, NEW n \in Nat, n < i,
           n = 0 \/ t[n] \in C, Clear(t, C, n + 1, i - 1)
    PROVE  FindBack(t, i, C) = n
<1> DEFINE at == {j \in 1 .. i - 1 : t[j] \in C} \cup {0}
<1>1. n \in at /\ \A k \in at : k <= n
    BY DEF Clear
<1>2. \A m \in at : (\A k \in at : k <= m) => m = n
    BY <1>1
<1>3. (CHOOSE j \in at : \A k \in at : k <= j) = n
    BY <1>1, <1>2
<1> QED
    BY <1>3 DEF FindBack

\* It is in front of the place, or 0.
LEMMA FindBackType ==
    ASSUME NEW t, NEW C, NEW i \in Nat \ {0}
    PROVE  FindBack(t, i, C) \in 0 .. i - 1
<1> DEFINE at == {j \in 1 .. i - 1 : t[j] \in C} \cup {0}
           back == {i - j : j \in at}
<1>1. back \in SUBSET Nat /\ back # {}
    OBVIOUS
<1>2. PICK m \in back : \A k \in back : m <= k
    BY <1>1, LeastElement
<1>3. PICK n \in at : m = i - n
    BY <1>2
<1>4. ASSUME NEW k \in at PROVE k <= n
  <2>1. i - k \in back /\ k \in Nat /\ n \in Nat
      OBVIOUS
  <2>2. i - n <= i - k
      BY <2>1, <1>2, <1>3
  <2> QED
      BY <2>1, <2>2
<1>5. \E j \in at : \A k \in at : k <= j
    BY <1>4
<1>6. (CHOOSE j \in at : \A k \in at : k <= j) \in at
    BY <1>5
<1>7. FindBack(t, i, C) = CHOOSE j \in at : \A k \in at : k <= j
    BY DEF FindBack
<1>8. \A j \in at : j \in 0 .. i - 1
    OBVIOUS
<1> HIDE DEF at
<1> QED
    BY <1>6, <1>7, <1>8

\* What is trimmed: from the first character to the last one that is not blank.
LEMMA TrimmedIs ==
    ASSUME NEW S, NEW t \in Seq(S), NEW a \in Nat \ {0}, NEW b \in a .. Len(t),
           t[a] \notin Blanks, t[b] \notin Blanks,
           \A j \in 1 .. a - 1 : t[j] \in Blanks, \A j \in b + 1 .. Len(t) : t[j] \in Blanks
    PROVE  Trimmed(t) = SubSeq(t, a, b)
<1> DEFINE ink == {i \in DOMAIN t : t[i] \notin Blanks}
<1>0. Len(t) \in Nat /\ DOMAIN t = 1 .. Len(t)
    BY LenProperties
<1>1. a \in ink /\ b \in ink /\ \A j \in ink : j \in Nat /\ a <= j /\ j <= b
    BY <1>0
<1>2. \A i \in ink : ((\A j \in ink : i <= j) => i = a) /\ ((\A j \in ink : j <= i) => i = b)
    BY <1>1
<1>3. (CHOOSE i \in ink : \A j \in ink : i <= j) = a
  <2> HIDE DEF ink
  <2> QED
    BY <1>1, <1>2
<1>4. (CHOOSE i \in ink : \A j \in ink : j <= i) = b
  <2> HIDE DEF ink
  <2> QED
    BY <1>1, <1>2
<1> QED
    BY <1>1, <1>3, <1>4 DEF Trimmed

\* Of blanks nothing is left.
LEMMA TrimmedBlanks ==
    ASSUME NEW S, NEW t \in Seq(S), \A j \in 1 .. Len(t) : t[j] \in Blanks
    PROVE  Trimmed(t) = <<>>
    BY LenProperties DEF Trimmed

\* What is behind position p of a text, up to position e.
Part(t, p, e) == SubSeq(t, p + 1, e)

\* Part of a part of a text.
LEMMA PartOfPart ==
    ASSUME NEW S, NEW t \in Seq(S), NEW a \in Nat \ {0}, NEW b \in Nat, b <= Len(t),
           NEW c \in Nat \ {0}, NEW d \in Int, d <= b - a + 1
    PROVE  SubSeq(SubSeq(t, a, b), c, d) = SubSeq(t, a + c - 1, a + d - 1)
<1>0. Len(t) \in Nat
    BY LenProperties
<1>1. CASE c <= d
  <2>1. a \in 1 .. Len(t) /\ b \in 1 .. Len(t) /\ c \in 1 .. b - a + 1 /\ d \in 1 .. b - a + 1
      BY <1>0, <1>1
  <2> QED
      BY <2>1, SubSeqOfSubSeq
<1>2. CASE d < c
    BY <1>2, SubSeqEmpty
<1> QED
    BY <1>1, <1>2

\* What a part of a text is made of.
LEMMA PartType ==
    ASSUME NEW S, NEW t \in Seq(S), NEW a \in Nat \ {0}, NEW b \in Int, b <= Len(t)
    PROVE  /\ SubSeq(t, a, b) \in Seq(S)
           /\ Len(SubSeq(t, a, b)) = IF a <= b THEN b - a + 1 ELSE 0
           /\ \A k \in 1 .. b - a + 1 : SubSeq(t, a, b)[k] = t[a + k - 1]
<1>1. \A k \in a .. b : t[k] \in S
    BY LenProperties
<1> QED
    BY <1>1, SubSeqProperties

-----------------------------------------------------------------------------
\* The pieces up to position i, from those up to the position before.
NextPieces(t, C, before, i) ==
    IF i <= Len(t) /\ t[i] \notin C THEN before
    ELSE Append(before, SubSeq(t, FindBack(t, i, C) + 1, i - 1))

ArePieces(f, k, t, C) ==
    /\ f = [i \in 0 .. k |-> f[i]]
    /\ f[0] = <<>>
    /\ \A i \in 1 .. k : f[i] = NextPieces(t, C, f[i - 1], i)

\* There is such a function, for every k: there would be a least k without one.
LEMMA PiecesExist ==
    ASSUME NEW t, NEW C
    PROVE  \A k \in Nat : \E f : ArePieces(f, k, t, C)
<1> DEFINE Lacking == {k \in Nat : ~ \E f : ArePieces(f, k, t, C)}
<1> SUFFICES ASSUME Lacking # {} PROVE FALSE
    OBVIOUS
<1>1. PICK k \in Lacking : \A j \in Lacking : k <= j
    BY LeastElement
<1>2. ArePieces([n \in 0 .. 0 |-> <<>>], 0, t, C)
    BY DEF ArePieces
<1>3. k # 0
    BY <1>1, <1>2
<1>4. k \in Nat /\ k - 1 \in Nat /\ k - 1 \notin Lacking
    BY <1>1, <1>3
<1>5. PICK f : ArePieces(f, k - 1, t, C)
    BY <1>4
<1> DEFINE new == NextPieces(t, C, f[k - 1], k)
<1> HIDE DEF new
<1> DEFINE g == [n \in 0 .. k |-> IF n = k THEN new ELSE f[n]]
<1>6. \A n \in 0 .. k : g[n] = IF n = k THEN new ELSE f[n]
    OBVIOUS
<1>7. g = [n \in 0 .. k |-> g[n]]
    OBVIOUS
<1> HIDE DEF g
<1>8. g[0] = <<>>
  <2>1. f[0] = <<>>
      BY <1>5 DEF ArePieces
  <2>2. 0 \in 0 .. k /\ k # 0
      BY <1>3, <1>4
  <2> QED
      BY <1>6, <2>1, <2>2
<1>9. ASSUME NEW n \in 1 .. k
      PROVE  g[n] = NextPieces(t, C, g[n - 1], n)
  <2>1. n - 1 \in 0 .. k /\ n - 1 # k /\ n \in 0 .. k
      BY <1>4
  <2>2. g[n - 1] = f[n - 1]
      BY <2>1, <1>6
  <2>3. CASE n = k
      BY <2>1, <2>2, <2>3, <1>6 DEF new
  <2>4. CASE n # k
    <3>1. n \in 1 .. k - 1
        BY <2>4, <1>4
    <3>2. f[n] = NextPieces(t, C, f[n - 1], n)
        BY <3>1, <1>5 DEF ArePieces
    <3> QED
        BY <2>1, <2>2, <2>4, <3>2, <1>6
  <2> QED
      BY <2>3, <2>4
<1>10. ArePieces(g, k, t, C)
    BY <1>7, <1>8, <1>9 DEF ArePieces
<1> QED
    BY <1>1, <1>10

\* The recursive function of the specification is that.
LEMMA PiecesToIs ==
    ASSUME NEW S, NEW t \in Seq(S), NEW C
    PROVE  ArePieces(PiecesTo(t, C), Len(t) + 1, t, C)
<1> DEFINE n == Len(t) + 1
           there(p, i) == IF i = 0 THEN <<>>
                          ELSE IF i <= Len(t) /\ t[i] \notin C THEN p[i - 1]
                          ELSE Append(p[i - 1], SubSeq(t, FindBack(t, i, C) + 1, i - 1))
           Def(p) == p = [i \in 0 .. n |-> there(p, i)]
<1>0. n \in Nat
    BY LenProperties
<1>1. PICK f : ArePieces(f, n, t, C)
    BY <1>0, PiecesExist
<1>2. \A p : /\ there(p, 0) = <<>>
              /\ \A i \in 1 .. n : there(p, i) = NextPieces(t, C, p[i - 1], i)
    BY DEF NextPieces
<1>3. PiecesTo(t, C) = CHOOSE p : Def(p)
    BY DEF PiecesTo
<1> HIDE DEF there
<1>4. \A i \in 0 .. n : f[i] = there(f, i)
  <2> SUFFICES ASSUME NEW i \in 0 .. n PROVE f[i] = there(f, i)
      OBVIOUS
  <2>1. CASE i = 0
      BY <2>1, <1>1, <1>2 DEF ArePieces
  <2>2. CASE i # 0
    <3>1. i \in 1 .. n
        BY <2>2, <1>0
    <3> QED
        BY <3>1, <1>1, <1>2 DEF ArePieces
  <2> QED
      BY <2>1, <2>2
<1>5. Def(f)
    BY <1>1, <1>4 DEF ArePieces
<1>6. PICK p : p = PiecesTo(t, C) /\ Def(p)
    BY <1>3, <1>5
<1>7. (p = [i \in 0 .. n |-> p[i]]) /\ \A i \in 0 .. n : p[i] = there(p, i)
    BY <1>6
<1>8. p[0] = <<>>
    BY <1>0, <1>2, <1>7
<1>9. ASSUME NEW i \in 1 .. n PROVE p[i] = NextPieces(t, C, p[i - 1], i)
  <2>1. i \in 0 .. n /\ i # 0
      BY <1>0
  <2>2. p[i] = there(p, i)
      BY <2>1, <1>7
  <2>3. there(p, i) = NextPieces(t, C, p[i - 1], i)
      BY <1>2
  <2> QED
      BY <2>2, <2>3
<1> QED
    BY <1>6, <1>7, <1>8, <1>9 DEF ArePieces

\* So the pieces up to a position are those up to the position before, or one more.
LEMMA PiecesAre ==
    ASSUME NEW S, NEW t \in Seq(S), NEW C
    PROVE  /\ PiecesTo(t, C)[0] = <<>>
           /\ \A i \in 0 .. Len(t) + 1 : PiecesTo(t, C)[i] \in Seq(Seq(S))
           /\ \A i \in 1 .. Len(t) + 1 :
                 PiecesTo(t, C)[i] =
                     IF i <= Len(t) /\ t[i] \notin C THEN PiecesTo(t, C)[i - 1]
                     ELSE Append(PiecesTo(t, C)[i - 1], SubSeq(t, FindBack(t, i, C) + 1, i - 1))
<1> DEFINE n == Len(t) + 1
           p == PiecesTo(t, C)
<1>0. n \in Nat /\ Len(t) \in Nat
    BY LenProperties
<1>1. /\ p[0] = <<>>
      /\ \A i \in 1 .. n : p[i] = NextPieces(t, C, p[i - 1], i)
    BY PiecesToIs DEF ArePieces
<1> HIDE DEF p
<1> DEFINE Bad == {i \in 0 .. n : p[i] \notin Seq(Seq(S))}
<1>2. ASSUME Bad # {} PROVE FALSE
  <2>0. Bad \in SUBSET Nat
      BY <1>0
  <2>1. PICK i \in Bad : \A j \in Bad : i <= j
      BY <1>2, <2>0, LeastElement
  <2>2. i # 0
      BY <1>1, <2>1, EmptySeq
  <2>3. i \in 1 .. n /\ i - 1 \in 0 .. n /\ i \in Nat \ {0} /\ i - 1 \notin Bad
      BY <2>1, <2>2, <1>0
  <2>4. p[i - 1] \in Seq(Seq(S))
      BY <2>3
  <2>5. FindBack(t, i, C) \in 0 .. i - 1
      BY <2>3, FindBackType
  <2>6. FindBack(t, i, C) + 1 \in Nat \ {0} /\ i - 1 \in Int /\ i - 1 <= Len(t)
      BY <2>3, <2>5, <1>0
  <2> DEFINE piece == SubSeq(t, FindBack(t, i, C) + 1, i - 1)
  <2>7. piece \in Seq(S)
      BY <2>6, PartType
  <2> HIDE DEF piece
  <2>8. NextPieces(t, C, p[i - 1], i) = p[i - 1] \/ NextPieces(t, C, p[i - 1], i) = Append(p[i - 1], piece)
      BY DEF NextPieces, piece
  <2>9. Append(p[i - 1], piece) \in Seq(Seq(S))
      BY <2>4, <2>7, AppendProperties
  <2> QED
      BY <1>1, <2>1, <2>3, <2>4, <2>8, <2>9
<1> QED
    BY <1>1, <1>2 DEF p, NextPieces

-----------------------------------------------------------------------------
\* A header line is followed by something.
LEMMA LineGoesOn ==
    ASSUME NEW S, NEW t \in Seq(S), NEW i \in 1 .. Len(t)
    PROVE  /\ ColonIn(t, i) \in i .. Len(t) + 1
           /\ Cr(t, i) \in i + 1 .. Len(t) + 1
<1>0. Len(t) \in Nat /\ i \in Nat \ {0}
    BY LenProperties
<1>1. ColonIn(t, i) \in i .. Len(t) + 1
    BY <1>0, FindFinds DEF ColonIn
<1> DEFINE c == ColonIn(t, i)
<1> HIDE DEF c
<1>2. c + 1 \in Nat \ {0} /\ c \in Nat /\ i <= c
    BY <1>0, <1>1 DEF c
<1>3. Find(t, c + 1, {"\r"}) \in c + 1 .. Len(t) \/ Find(t, c + 1, {"\r"}) = Len(t) + 1
    BY <1>2, FindFinds
<1>4. Find(t, c + 1, {"\r"}) \in i + 1 .. Len(t) + 1
    BY <1>0, <1>2, <1>3
<1> QED
    BY <1>1, <1>4 DEF c, Cr

\* The header lines from position i on, from those behind the first one.
NextHeaders(t, rest, i) ==
    IF CrLf(t, i) THEN [lines |-> <<>>, end |-> i]
    ELSE IF ~HeaderLine(t, i) THEN [lines |-> <<>>, end |-> 0]
    ELSE [lines |-> <<Field(t, i)>> \o rest.lines, end |-> rest.end]

AreHeaders(f, k, t) ==
    /\ f = [i \in k .. Len(t) + 3 |-> f[i]]
    /\ \A i \in k .. Len(t) + 3 : f[i] = NextHeaders(t, f[Cr(t, i) + 2], i)

\* Where there is no line, what follows does not matter.
LEMMA NoLineNoRest ==
    ASSUME NEW t, NEW i, ~HeaderLine(t, i), NEW r, NEW s
    PROVE  NextHeaders(t, r, i) = NextHeaders(t, s, i)
    BY DEF NextHeaders

\* There is such a function from every position to the end of the text.
LEMMA HeadersExist ==
    ASSUME NEW S, NEW t \in Seq(S)
    PROVE  \A j \in 0 .. Len(t) + 3 : \E f : AreHeaders(f, Len(t) + 4 - j, t)
<1> DEFINE n == Len(t) + 3
           Lacking == {j \in 0 .. n : ~ \E f : AreHeaders(f, n + 1 - j, t)}
<1>0. n \in Nat /\ Len(t) \in Nat
    BY LenProperties
<1>1. ASSUME Lacking # {} PROVE FALSE
  <2>0. Lacking \in SUBSET Nat
      BY <1>0
  <2>1. PICK j \in Lacking : \A i \in Lacking : j <= i
      BY <1>1, <2>0, LeastElement
  <2>2. j # 0
    <3> DEFINE e == [i \in n + 1 .. n |-> 0]
    <3>1. e = [i \in n + 1 .. n |-> e[i]] /\ \A i \in n + 1 .. n : FALSE
        BY <1>0
    <3>2. AreHeaders(e, n + 1, t)
        BY <3>1 DEF AreHeaders
    <3>3. n + 1 - 0 = n + 1
        BY <1>0
    <3> QED
        BY <2>1, <3>2, <3>3
  <2>3. j \in 1 .. n /\ j - 1 \in 0 .. n /\ j - 1 \notin Lacking /\ n + 1 - (j - 1) = n + 2 - j
      BY <1>0, <2>1, <2>2
  <2> DEFINE k == n + 1 - j
  <2>4. k \in 1 .. n /\ n + 2 - j = k + 1 /\ k \in Nat
      BY <1>0, <2>3
  <2>5. PICK f : AreHeaders(f, n + 2 - j, t)
      BY <2>3
  <2>6. AreHeaders(f, k + 1, t)
      BY <2>4, <2>5
  <2>7. ~ \E g : AreHeaders(g, k, t)
      BY <2>1
  <2> HIDE DEF k
  <2> DEFINE new == NextHeaders(t, f[Cr(t, k) + 2], k)
  <2> HIDE DEF new
  <2> DEFINE g == [i \in k .. n |-> IF i = k THEN new ELSE f[i]]
  <2>8. (\A i \in k .. n : g[i] = IF i = k THEN new ELSE f[i]) /\ g = [i \in k .. n |-> g[i]]
      OBVIOUS
  <2> HIDE DEF g
  <2>9. ASSUME NEW i \in k .. n
        PROVE  g[i] = NextHeaders(t, g[Cr(t, i) + 2], i)
    <3>1. g[i] = NextHeaders(t, f[Cr(t, i) + 2], i)
      <4>1. CASE i = k
          BY <4>1, <2>8 DEF new
      <4>2. CASE i # k
        <5>1. i \in k + 1 .. n
            BY <4>2, <2>4, <1>0
        <5> QED
            BY <5>1, <4>2, <2>6, <2>8 DEF AreHeaders
      <4> QED
          BY <4>1, <4>2
    <3>2. CASE HeaderLine(t, i)
      <4>1. i \in 1 .. Len(t)
          BY <3>2, <2>4, <1>0 DEF HeaderLine
      <4>2. Cr(t, i) \in i + 1 .. Len(t) + 1
          BY <4>1, LineGoesOn
      <4>3. Cr(t, i) + 2 \in k .. n /\ Cr(t, i) + 2 # k
          BY <4>1, <4>2, <2>4, <1>0
      <4> QED
          BY <3>1, <4>3, <2>8
    <3>3. CASE ~HeaderLine(t, i)
        BY <3>1, <3>3, NoLineNoRest
    <3> QED
        BY <3>2, <3>3
  <2>10. AreHeaders(g, k, t)
      BY <2>8, <2>9 DEF AreHeaders
  <2> QED
      BY <2>7, <2>10
<1> SUFFICES ASSUME NEW j \in 0 .. n PROVE \E f : AreHeaders(f, Len(t) + 4 - j, t)
    OBVIOUS
<1>2. n + 1 - j = Len(t) + 4 - j
    BY <1>0
<1> QED
    BY <1>1, <1>2

\* The recursive function of the specification is that.
LEMMA HeadersFromIs ==
    ASSUME NEW S, NEW t \in Seq(S)
    PROVE  AreHeaders(HeadersFrom(t), 1, t)
<1> DEFINE n == Len(t) + 3
           there(h, i) == IF CrLf(t, i) THEN [lines |-> <<>>, end |-> i]
                          ELSE IF ~HeaderLine(t, i) THEN [lines |-> <<>>, end |-> 0]
                          ELSE LET rest == h[Cr(t, i) + 2]
                               IN  [lines |-> <<Field(t, i)>> \o rest.lines, end |-> rest.end]
           Def(h) == h = [i \in 1 .. n |-> there(h, i)]
<1>0. n \in Nat /\ n \in 0 .. n /\ Len(t) + 4 - n = 1
    BY LenProperties
<1>1. PICK f : AreHeaders(f, 1, t)
    BY <1>0, HeadersExist
<1>2. \A h, i : there(h, i) = NextHeaders(t, h[Cr(t, i) + 2], i)
    BY DEF NextHeaders
<1>3. HeadersFrom(t) = CHOOSE h : Def(h)
    BY DEF HeadersFrom
<1> HIDE DEF there
<1>4. \A i \in 1 .. n : f[i] = there(f, i)
    BY <1>1, <1>2 DEF AreHeaders
<1>5. Def(f)
    BY <1>1, <1>4 DEF AreHeaders
<1>6. PICK h : h = HeadersFrom(t) /\ Def(h)
    BY <1>3, <1>5
<1>7. (h = [i \in 1 .. n |-> h[i]]) /\ \A i \in 1 .. n : h[i] = there(h, i)
    BY <1>6
<1> QED
    BY <1>2, <1>6, <1>7 DEF AreHeaders

Fields(t) == {Field(t, i) : i \in 1 .. Len(t) + 3}

\* So the header lines from a position on are the first one and those behind it.
LEMMA HeadersAre ==
    ASSUME NEW S, NEW t \in Seq(S)
    PROVE  LET h == HeadersFrom(t) IN
           \A i \in 1 .. Len(t) + 3 :
              /\ h[i].lines \in Seq(Fields(t)) /\ h[i].end \in Nat
              /\ CrLf(t, i) => h[i].lines = <<>> /\ h[i].end = i
              /\ ~CrLf(t, i) /\ ~HeaderLine(t, i) => h[i].lines = <<>> /\ h[i].end = 0
              /\ ~CrLf(t, i) /\ HeaderLine(t, i) =>
                    /\ Cr(t, i) + 2 \in i + 1 .. Len(t) + 3
                    /\ h[i].lines = <<Field(t, i)>> \o h[Cr(t, i) + 2].lines
                    /\ h[i].end = h[Cr(t, i) + 2].end
<1> DEFINE n == Len(t) + 3
           h == HeadersFrom(t)
<1>0. n \in Nat /\ Len(t) \in Nat
    BY LenProperties
<1>1. \A i \in 1 .. n : h[i] = NextHeaders(t, h[Cr(t, i) + 2], i)
    BY HeadersFromIs DEF AreHeaders
<1> HIDE DEF h
<1>2. ASSUME NEW i \in 1 .. n
      PROVE  /\ CrLf(t, i) => h[i].lines = <<>> /\ h[i].end = i
             /\ ~CrLf(t, i) /\ ~HeaderLine(t, i) => h[i].lines = <<>> /\ h[i].end = 0
             /\ ~CrLf(t, i) /\ HeaderLine(t, i) =>
                    /\ Cr(t, i) + 2 \in i + 1 .. n
                    /\ h[i].lines = <<Field(t, i)>> \o h[Cr(t, i) + 2].lines
                    /\ h[i].end = h[Cr(t, i) + 2].end
  <2>1. h[i] = NextHeaders(t, h[Cr(t, i) + 2], i)
      BY <1>1
  <2>2. ASSUME HeaderLine(t, i) PROVE Cr(t, i) + 2 \in i + 1 .. n
    <3>1. i \in 1 .. Len(t)
        BY <2>2, <1>0 DEF HeaderLine
    <3>2. Cr(t, i) \in i + 1 .. Len(t) + 1
        BY <3>1, LineGoesOn
    <3> QED
        BY <3>1, <3>2, <1>0
  <2> QED
      BY <2>1, <2>2 DEF NextHeaders
<1> DEFINE Typed(i) == h[i].lines \in Seq(Fields(t)) /\ h[i].end \in Nat
           Bad == {j \in 1 .. n : ~Typed(n + 1 - j)}
<1>3. ASSUME Bad # {} PROVE FALSE
  <2>0. Bad \in SUBSET Nat
      BY <1>0
  <2>1. PICK j \in Bad : \A k \in Bad : j <= k
      BY <1>3, <2>0, LeastElement
  <2> DEFINE i == n + 1 - j
  <2>2. i \in 1 .. n /\ j = n + 1 - i /\ ~Typed(i)
      BY <1>0, <2>1
  <2> HIDE DEF i
  <2>3. ASSUME NEW k \in i + 1 .. n PROVE Typed(k)
    <3>1. n + 1 - k \in 1 .. n /\ n + 1 - k < j /\ n + 1 - (n + 1 - k) = k
        BY <1>0, <2>2
    <3>2. n + 1 - k \notin Bad
        BY <3>1, <2>1
    <3> QED
        BY <3>1, <3>2
  <2>4. <<>> \in Seq(Fields(t)) /\ 0 \in Nat /\ i \in Nat
      BY <2>2, EmptySeq, <1>0
  <2>5. CASE ~CrLf(t, i) /\ HeaderLine(t, i)
    <3> DEFINE r == Cr(t, i) + 2
    <3>1. r \in i + 1 .. n /\ h[i].lines = <<Field(t, i)>> \o h[r].lines /\ h[i].end = h[r].end
        BY <1>2, <2>2, <2>5
    <3> HIDE DEF r
    <3>2. h[r].lines \in Seq(Fields(t)) /\ h[r].end \in Nat
        BY <2>3, <3>1
    <3>3. <<Field(t, i)>> \in Seq(Fields(t))
        BY <2>2 DEF Fields
    <3>4. h[i].lines \in Seq(Fields(t))
        BY <3>1, <3>2, <3>3, ConcatProperties
    <3> QED
        BY <2>2, <3>1, <3>2, <3>4
  <2>6. CASE ~(~CrLf(t, i) /\ HeaderLine(t, i))
    <3>1. h[i].lines = <<>> /\ h[i].end \in {0, i}
        BY <1>2, <2>2, <2>6
    <3> QED
        BY <2>2, <2>4, <3>1
  <2> QED
      BY <2>5, <2>6
<1>4. ASSUME NEW i \in 1 .. n PROVE Typed(i)
  <2>1. n + 1 - i \in 1 .. n /\ n + 1 - (n + 1 - i) = i
      BY <1>0
  <2> QED
      BY <1>3, <2>1
<1> QED
    BY <1>2, <1>4 DEF h

-----------------------------------------------------------------------------
\* What the reader has found at each place, said of the text it reads.

\* The first cut in C from p on is e; the string that starts at p is s.
FirstCut(p, e, C) == p \in Nat /\ e \in C /\ p <= e /\ \A c \in C : c < p \/ e <= c
Holds(t, p, s, C) == \E e \in C : FirstCut(p, e, C) /\ SubSeq(t, p + 1, e) = s

\* Where the method ends; where the query starts, or the target ends without one;
\* the query, and its pieces up to each position in it.
MethodEnd(t) == Find(t, 1, Blanks)
TargetStops == {"?"} \cup Space
QueryAt(t) == Find(t, Target(t), TargetStops)
Query(t) == SubSeq(t, QueryAt(t) + 1, TargetEnd(t) - 1)
PiecesOf(t) == PiecesTo(Query(t), {"&"})

\* A parameter says what a piece of the query does, and the first ones what the pieces xs do.
Says(t, x, s, C) ==
    /\ Holds(t, x[1], NameAndValue(s)[1], C)
    /\ x[2] = NoString => NameAndValue(s)[2] = <<>>
    /\ x[2] # NoString => Holds(t, x[2], NameAndValue(s)[2], C)
Spells(t, ps, xs, C) == \A k \in DOMAIN xs : Says(t, ps[k], xs[k], C)

\* The string that starts at p is the path; the parameters ps, or all but the last
\* one, say what the pieces of the query up to position i of the text do.
PathHolds(t, p, C) == Holds(t, p, SubSeq(t, p + 1, QueryAt(t) - 1), C)
ParametersHold(t, i, ps, C) ==
    LET pieces == PiecesOf(t)[i - QueryAt(t)] IN Len(ps) = Len(pieces) /\ Spells(t, ps, pieces, C)
FrontHolds(t, i, ps, C) ==
    LET pieces == PiecesOf(t)[i - QueryAt(t)] IN Len(ps) - 1 = Len(pieces) /\ Spells(t, ps, pieces, C)

\* So for a header.
SaysField(t, x, f, C) ==
    /\ \E e \in C : FirstCut(x[1], e, C) /\ Lowered(SubSeq(t, x[1] + 1, e)) = f[1]
    /\ Holds(t, x[2], f[2], C)

\* What is left to read from position i on is what is missing in hs.
HeadersAt(t, i, hs, C) ==
    LET h == Headers(t) rest == HeadersFrom(t)[i]
    IN  /\ i \in 1 .. Len(t) + 3
        /\ h.end = rest.end
        /\ Len(h.lines) = Len(hs) + Len(rest.lines)
        /\ \A k \in DOMAIN rest.lines : h.lines[Len(hs) + k] = rest.lines[k]
        /\ \A k \in DOMAIN hs : SaysField(t, hs[k], h.lines[k], C)

\* The header lines that are a content-length.

\* How many characters have been looked at.
Looked == IF currentPos <= bufferEnd THEN currentPos ELSE bufferEnd

InParameter == {"firstOfName", "name", "firstOfValue", "value"}

PositionInv ==
    /\ bufferEnd <= Len(sent)
    /\ pc # "done" => \A c \in cuts : c < currentPos
    /\ currentPos <= bufferEnd \/ pc \in {"name", "value", "done"}

MethodRead ==
    /\ pc = "method" => cuts = {} /\ Clear(sent, Blanks, 1, currentPos)
    /\ pc \notin {"method", "done"} => path = MethodEnd(sent) /\ sent[1] \in Methods
    /\ pc \notin {"method", "done"} => path <= currentPos

PathRead ==
    pc = "path" => cuts = {} /\ parameters = <<>> /\ Clear(sent, TargetStops, path + 1, currentPos)

\* At '?', or behind a parameter.
QueryRead ==
    pc = "query" =>
        LET C == cuts \cup {currentPos} q == QueryAt(sent)
        IN  /\ path < q /\ q <= currentPos + 1 /\ sent[q] = "?"
            /\ q = currentPos + 1 \/ sent[currentPos + 1] \in {"&"} \cup Space
            /\ Clear(sent, Space, q + 1, currentPos)
            /\ PathHolds(sent, path, C)
            /\ ParametersHold(sent, currentPos + 1, parameters, C)

\* In a parameter, whose name starts behind position d, and whose value behind v.
NameRead(t, p, here, looked, d, v, C) ==
    /\ v = NoString /\ Clear(t, {"=", "&"}, d + 1, looked)
    /\ \A c \in C : c < d
    /\ looked = here \/ looked = d
    /\ p = "firstOfName" => d = here
ValueRead(t, p, here, looked, d, v, C) ==
    /\ d < v /\ v <= looked /\ t[v] = "="
    /\ Clear(t, {"=", "&"}, d + 1, v - 1) /\ Clear(t, {"&"}, v + 1, looked)
    /\ FirstCut(d, v - 1, C)
    /\ \A c \in C : c < v
    /\ looked = here \/ looked = v
    /\ p = "firstOfValue" => v = here
ParameterRead ==
    pc \in InParameter =>
        LET last == parameters[Len(parameters)] q == QueryAt(sent)
        IN  /\ parameters # <<>>
            /\ path < q /\ q <= last[1] /\ last[1] <= Looked /\ sent[q] = "?"
            /\ last[1] = q \/ sent[last[1]] = "&"
            /\ Clear(sent, Space, q + 1, Looked)
            /\ PathHolds(sent, path, cuts)
            /\ FrontHolds(sent, Looked, parameters, cuts)
            /\ pc \in {"firstOfName", "name"} => NameRead(sent, pc, currentPos, Looked, last[1], last[2], cuts)
            /\ pc \in {"firstOfValue", "value"} => ValueRead(sent, pc, currentPos, Looked, last[1], last[2], cuts)

\* Behind the target.
Behind == Places \ (InTarget \cup {"method"})

TargetRead ==
    pc \in Behind =>
        LET q == QueryAt(sent) e == TargetEnd(sent)
        IN  /\ path < q /\ e <= currentPos
            /\ PathHolds(sent, path, cuts)
            /\ IF q = e THEN parameters = <<>> ELSE ParametersHold(sent, e, parameters, cuts)

ProtocolRead ==
    /\ pc = "protocol" => Clear(sent, Space, TargetEnd(sent) + 1, currentPos)
    /\ pc = "requestLineEnd" => LineEnd(sent) = currentPos /\ sent[currentPos] = "\r"
    /\ pc \in Behind \ {"protocol", "requestLineEnd"} => CrLf(sent, LineEnd(sent))

HeadersRead ==
    /\ pc \in Places \ ({"header", "headersEnd", "body"} \cup InLine) => headers = <<>>
    /\ pc = "header" => HeadersAt(sent, currentPos + 1, headers, cuts)
    /\ pc = "headersEnd" => sent[currentPos] = "\r" /\ HeadersAt(sent, currentPos, headers, cuts)
    /\ pc = "body" => /\ CrLf(sent, currentPos) /\ HeadersAt(sent, currentPos, headers, cuts)
                      /\ Lengths(Headers(sent).lines) # {}

LineRead ==
    pc \in InLine =>
        LET s == line.start + 1 c == ColonIn(sent, s) v == line.value e == line.end
        IN  /\ HeadersAt(sent, s, headers, cuts) /\ sent[s] # "\r"
            /\ pc = "headerName" => Clear(sent, {":"}, s, currentPos) /\ \A x \in cuts : x < s - 1
            /\ pc # "headerName" =>
                  /\ s < c /\ c <= currentPos /\ FirstCut(s - 1, c - 1, cuts) /\ \A x \in cuts : x < c
            /\ pc = "blanks" => \A j \in c + 1 .. currentPos : sent[j] \in Blanks
            /\ pc = "headerValue" =>
                  /\ c <= v /\ v <= e /\ e <= currentPos
                  /\ sent[v + 1] \notin Blanks /\ \A j \in c + 1 .. v : sent[j] \in Blanks
                  /\ Clear(sent, {"\r"}, c + 1, currentPos)
                  /\ \A j \in e + 1 .. currentPos : sent[j] \in Blanks
                  /\ e > v => sent[e] \notin Blanks
                  /\ e = v => v = currentPos
            /\ pc = "headerLineEnd" =>
                  /\ c <= v /\ v <= e /\ e < currentPos
                  /\ Cr(sent, s) = currentPos
                  /\ Trimmed(SubSeq(sent, c + 1, currentPos - 1)) = SubSeq(sent, v + 1, e)

Answered ==
    /\ returned = "request" => Wellformed(sent) /\ (PlainLength(sent) => RequestRead = Request(sent))
    /\ returned = "wild" => Wellformed(sent) /\ ~PlainLength(sent)
    /\ returned \in {"400", "406"} => ~Wellformed(sent)

ParseInv ==
    /\ PositionInv
    /\ ~torn => /\ MethodRead /\ PathRead /\ QueryRead /\ ParameterRead /\ TargetRead /\ ProtocolRead
                /\ HeadersRead /\ LineRead /\ Answered

-----------------------------------------------------------------------------
\* Strings stay what they are when a cut is made behind all cuts.
LEMMA FirstCutMore ==
    ASSUME NEW C, C \subseteq Int, NEW x \in Int, \A c \in C : c < x, NEW p, NEW e, FirstCut(p, e, C)
    PROVE  FirstCut(p, e, C \cup {x})
<1>1. e \in C /\ e < x /\ e \in Int
    BY DEF FirstCut
<1> QED
    BY <1>1 DEF FirstCut

\* So the string is the same,
LEMMA HoldsMore ==
    ASSUME NEW C, C \subseteq Int, NEW x \in Int, \A c \in C : c < x,
           NEW t, NEW p, NEW s, Holds(t, p, s, C)
    PROVE  Holds(t, p, s, C \cup {x})
<1>1. PICK e \in C : FirstCut(p, e, C) /\ SubSeq(t, p + 1, e) = s
    BY DEF Holds
<1>2. FirstCut(p, e, C \cup {x})
    BY <1>1, FirstCutMore
<1> QED
    BY <1>1, <1>2 DEF Holds

\* and so are the parameters,
LEMMA SpellsMore ==
    ASSUME NEW C, C \subseteq Int, NEW x \in Int, \A c \in C : c < x,
           NEW t, NEW ps, NEW xs, Spells(t, ps, xs, C)
    PROVE  Spells(t, ps, xs, C \cup {x})
<1> SUFFICES ASSUME NEW k \in DOMAIN xs
             PROVE  Says(t, ps[k], xs[k], C \cup {x})
    BY DEF Spells
<1>1. Says(t, ps[k], xs[k], C)
    BY DEF Spells
<1> QED
    BY <1>1, HoldsMore DEF Says

\* the whole target,
LEMMA TargetMore ==
    ASSUME NEW C, C \subseteq Int, NEW x \in Int, \A c \in C : c < x, NEW t
    PROVE  /\ \A p : PathHolds(t, p, C) => PathHolds(t, p, C \cup {x})
           /\ \A i, ps : ParametersHold(t, i, ps, C) => ParametersHold(t, i, ps, C \cup {x})
           /\ \A i, ps : FrontHolds(t, i, ps, C) => FrontHolds(t, i, ps, C \cup {x})
    BY HoldsMore, SpellsMore DEF PathHolds, ParametersHold, FrontHolds

\* and the headers.
LEMMA HeadersAtMore ==
    ASSUME NEW C, C \subseteq Int, NEW x \in Int, \A c \in C : c < x,
           NEW t, NEW i, NEW hs, HeadersAt(t, i, hs, C)
    PROVE  HeadersAt(t, i, hs, C \cup {x})
<1>1. ASSUME NEW y, NEW f, SaysField(t, y, f, C)
      PROVE  SaysField(t, y, f, C \cup {x})
  <2>1. Holds(t, y[2], f[2], C \cup {x})
      BY <1>1, HoldsMore DEF SaysField
  <2>2. PICK e \in C : FirstCut(y[1], e, C) /\ Lowered(SubSeq(t, y[1] + 1, e)) = f[1]
      BY <1>1 DEF SaysField
  <2>3. FirstCut(y[1], e, C \cup {x})
      BY <2>2, FirstCutMore
  <2> QED
      BY <2>1, <2>2, <2>3 DEF SaysField
<1> QED
    BY <1>1 DEF HeadersAt

\* A cut behind the start of a string that no cut has ended ends it.
LEMMA CutEnds ==
    ASSUME NEW C, NEW x \in Int, NEW p \in Nat, p <= x, \A c \in C : c < p
    PROVE  FirstCut(p, x, C \cup {x})
    BY DEF FirstCut

\* The string is what is in between.
LEMMA CutHolds ==
    ASSUME NEW C, NEW x \in Int, NEW p \in Nat, p <= x, \A c \in C : c < p, NEW t
    PROVE  Holds(t, p, SubSeq(t, p + 1, x), C \cup {x})
    BY CutEnds DEF Holds, FirstCut

\* The characters of the text; none of them is a '\0'.
Chars == {sent[i] : i \in DOMAIN sent} \ {Zero}

\* What a client sends is a text.
LEMMA SentType ==
    ASSUME sent \in Texts
    PROVE  /\ sent \in Seq(Chars) /\ Len(sent) \in Nat /\ DOMAIN sent = 1 .. Len(sent)
           /\ \A i \in 1 .. Len(sent) : sent[i] # Zero
<1>1. sent \in Seq(Chars)
    BY TextsAssumption DEF Chars
<1>2. Zero \notin Chars
    BY DEF Chars
<1> QED
    BY <1>1, <1>2, LenProperties

\* There is no body before its end is there.
NoBodyYet == pc # "done" => body = NoString

ReadInv == StringsInv /\ InBuffer /\ NoBodyYet /\ ParseInv

\* The byte to look at.
LEMMA HereIs ==
    ASSUME ReadInv, pc # "done"
    PROVE  /\ currentPos < bufferEnd => currentChar = sent[currentPos + 1] /\ currentPos + 1 \in 1 .. Len(sent)
           /\ currentPos >= bufferEnd => currentChar = Zero
<1>1. currentPos \in Nat /\ bufferEnd \in Nat /\ bufferEnd <= Len(sent) /\ \A c \in cuts : c < currentPos
    BY DEF ReadInv, StringsInv, CutsReceived, ParseInv, PositionInv
<1>2. currentPos \notin cuts
    BY <1>1
<1> QED
    BY <1>1, <1>2, SentType DEF currentChar, ByteAt, ReadInv, InBuffer

\* What is said of a place holds at all others.
LEMMA Elsewhere ==
    /\ pc' # "path" => PathRead'
    /\ pc' # "query" => QueryRead'
    /\ pc' \notin InParameter => ParameterRead'
    /\ pc' \notin Behind => TargetRead' /\ ProtocolRead'
    /\ pc' \notin InLine => LineRead'
    /\ returned' = "none" => Answered'
<1>1. /\ pc' # "path" => PathRead'
      /\ pc' # "query" => QueryRead'
      /\ pc' \notin InParameter => ParameterRead'
      /\ pc' \notin InLine => LineRead'
    BY DEF PathRead, QueryRead, ParameterRead, LineRead
<1>2. pc' \notin Behind => TargetRead' /\ ProtocolRead'
    BY DEF TargetRead, ProtocolRead, Behind, Places, InTarget
<1>3. returned' = "none" => Answered'
    BY DEF Answered
<1> QED
    BY <1>1, <1>2, <1>3

-----------------------------------------------------------------------------
\* Where the target starts and ends, and where its query starts.
LEMMA ClearMore ==
    ASSUME NEW t, NEW C, NEW a \in Int, NEW b \in Int, Clear(t, C, a, b), t[b + 1] \notin C
    PROVE  Clear(t, C, a, b + 1)
    BY DEF Clear

\* Where the target and its path end.
LEMMA TargetFacts ==
    ASSUME NEW S, NEW t \in Seq(S)
    PROVE  /\ Target(t) \in Nat \ {0} /\ TargetEnd(t) \in Nat /\ QueryAt(t) \in Nat
           /\ QueryAt(t) <= TargetEnd(t) /\ TargetEnd(t) <= Len(t) + 1 /\ Len(t) \in Nat
           /\ Clear(t, Space, Target(t), TargetEnd(t) - 1)
           /\ Clear(t, TargetStops, Target(t), QueryAt(t) - 1)
           /\ TargetEnd(t) <= Len(t) => Target(t) <= QueryAt(t) /\ t[TargetEnd(t)] \in Space
           /\ QueryAt(t) < TargetEnd(t) => Target(t) <= QueryAt(t) /\ t[QueryAt(t)] = "?"
<1>0. Len(t) \in Nat
    BY LenProperties
<1>1. Target(t) \in Nat \ {0}
  <2>1. 1 \in Nat \ {0}
      OBVIOUS
  <2>2. Find(t, 1, {" "}) \in Nat
      BY <2>1, FindFinds
  <2> DEFINE f == Find(t, 1, {" "})
  <2>3. f \in Nat /\ Target(t) = f + 1
      BY <2>2 DEF Target
  <2> HIDE DEF f
  <2> QED
      BY <2>3
<1> DEFINE a == Target(t)
           e == TargetEnd(t)
           q == QueryAt(t)
<1> HIDE DEF a
<1>2. /\ Find(t, a, Space) \in Nat /\ Find(t, a, Space) <= Len(t) + 1
      /\ (Find(t, a, Space) \in a .. Len(t) /\ t[Find(t, a, Space)] \in Space) \/ Find(t, a, Space) = Len(t) + 1
      /\ Clear(t, Space, a, Find(t, a, Space) - 1)
    BY <1>1, FindFinds DEF a
<1>3. e = Find(t, a, Space)
    BY DEF TargetEnd, a
<1>4. /\ Find(t, a, TargetStops) \in Nat /\ Find(t, a, TargetStops) <= Len(t) + 1
      /\ \/ Find(t, a, TargetStops) \in a .. Len(t) /\ t[Find(t, a, TargetStops)] \in TargetStops
         \/ Find(t, a, TargetStops) = Len(t) + 1
      /\ Clear(t, TargetStops, a, Find(t, a, TargetStops) - 1)
    BY <1>1, FindFinds DEF a
<1>5. q = Find(t, a, TargetStops)
    BY DEF QueryAt, a
<1> HIDE DEF e, q
<1>6. a \in Nat /\ e \in Nat /\ q \in Nat
    BY <1>1, <1>2, <1>3, <1>4, <1>5 DEF a
<1>7. q <= e
  <2> SUFFICES ASSUME e < q PROVE FALSE
      BY <1>6
  <2>1. e \in a .. Len(t) /\ t[e] \in Space
      BY <1>0, <1>2, <1>3, <1>4, <1>5, <1>6
  <2>2. e \in a .. q - 1
      BY <1>6, <2>1
  <2> QED
      BY <1>4, <1>5, <2>1, <2>2 DEF Clear, TargetStops
<1>8. ASSUME q < e
      PROVE  a <= q /\ t[q] = "?"
  <2>1. q \in a .. Len(t) /\ t[q] \in TargetStops
      BY <1>0, <1>2, <1>3, <1>4, <1>5, <1>6, <1>8
  <2>2. q \in a .. e - 1
      BY <1>6, <1>8, <2>1
  <2>3. t[q] \notin Space
      BY <1>2, <1>3, <2>2 DEF Clear
  <2> QED
      BY <1>6, <2>1, <2>3 DEF TargetStops
<1>9. ASSUME e <= Len(t)
      PROVE  a <= q /\ t[e] \in Space
  <2>1. e \in a .. Len(t) /\ t[e] \in Space
      BY <1>0, <1>2, <1>3, <1>6, <1>9
  <2>2. CASE q < e
      BY <1>8, <2>1, <2>2
  <2>3. CASE q = e
      BY <1>6, <2>1, <2>3
  <2> QED
      BY <1>6, <1>7, <2>1, <2>2, <2>3
<1> QED
    BY <1>0, <1>1, <1>2, <1>3, <1>4, <1>5, <1>6, <1>7, <1>8, <1>9 DEF a, e, q

\* What a request has to say of a target that ends.
LEMMA RequestTarget ==
    ASSUME NEW S, NEW t \in Seq(S), TargetEnd(t) <= Len(t)
    PROVE  /\ Request(t).path = SubSeq(t, Target(t), QueryAt(t) - 1)
           /\ QueryAt(t) = TargetEnd(t) => Request(t).parameters = <<>>
           /\ QueryAt(t) # TargetEnd(t) =>
                 Request(t).parameters = [k \in DOMAIN Pieces(Query(t), {"&"}) |-> NameAndValue(Pieces(Query(t), {"&"})[k])]
<1> DEFINE a == Target(t)
           e == TargetEnd(t)
           q == QueryAt(t)
           u == SubSeq(t, 1, e - 1)
<1>1. /\ a \in Nat \ {0} /\ e \in Nat /\ q \in Nat /\ q <= e /\ a <= q /\ Len(t) \in Nat
      /\ Clear(t, TargetStops, a, q - 1)
      /\ q < e => t[q] = "?"
    BY TargetFacts
<1> HIDE DEF a, e, q
<1>2. /\ u \in Seq(S) /\ Len(u) = e - 1 /\ \A k \in 1 .. e - 1 : u[k] = t[k]
  <2>1. e - 1 \in Int /\ e - 1 <= Len(t) /\ 1 \in Nat \ {0}
      BY <1>1 DEF e
  <2>2. /\ u \in Seq(S) /\ Len(u) = (IF 1 <= e - 1 THEN e - 1 - 1 + 1 ELSE 0)
        /\ \A k \in 1 .. (e - 1 - 1 + 1) : u[k] = t[1 + k - 1]
      BY <2>1, PartType
  <2> QED
      BY <2>2, <1>1
<1> HIDE DEF u
<1>3. Find(u, a, {"?"}) = q
  <2>1. Clear(u, {"?"}, a, q - 1)
      BY <1>1, <1>2 DEF Clear, TargetStops
  <2>2. CASE q < e
    <3>1. q \in a .. Len(u) /\ u[q] \in {"?"}
        BY <1>1, <1>2, <2>2
    <3> QED
        BY <1>1, <1>2, <2>1, <3>1, FindIs
  <2>3. CASE q = e
    <3>1. Clear(u, {"?"}, a, Len(u))
        BY <1>2, <2>1, <2>3
    <3> QED
        BY <1>1, <1>2, <2>3, <3>1, FindNone
  <2> QED
      BY <1>1, <2>2, <2>3
<1>4. Find(SubSeq(t, 1, TargetEnd(t) - 1), Target(t), {"?"}) = QueryAt(t)
    BY <1>3 DEF u, e, a, q
<1>5. QueryAt(t) >= TargetEnd(t) <=> QueryAt(t) = TargetEnd(t)
    BY <1>1 DEF e, q
<1> QED
    BY <1>4, <1>5 DEF Request, Query

\* The query, character by character.
LEMMA QueryFacts ==
    ASSUME NEW S, NEW t \in Seq(S), QueryAt(t) < TargetEnd(t)
    PROVE  /\ Query(t) \in Seq(S) /\ Len(Query(t)) = TargetEnd(t) - 1 - QueryAt(t)
           /\ \A k \in 1 .. TargetEnd(t) - 1 - QueryAt(t) : Query(t)[k] = t[QueryAt(t) + k]
<1> DEFINE e == TargetEnd(t)
           q == QueryAt(t)
<1>1. e \in Nat /\ q \in Nat /\ q < e /\ e <= Len(t) + 1 /\ Len(t) \in Nat
    BY TargetFacts
<1>2. Query(t) = SubSeq(t, q + 1, e - 1)
    BY DEF Query
<1> HIDE DEF e, q
<1>3. q + 1 \in Nat \ {0} /\ e - 1 \in Int /\ e - 1 <= Len(t)
    BY <1>1
<1> DEFINE a == q + 1
           b == e - 1
<1>4. /\ SubSeq(t, a, b) \in Seq(S)
      /\ Len(SubSeq(t, a, b)) = IF a <= b THEN b - a + 1 ELSE 0
      /\ \A k \in 1 .. b - a + 1 : SubSeq(t, a, b)[k] = t[a + k - 1]
  <2> HIDE DEF a, b
  <2> QED
      BY <1>3, PartType DEF a, b
<1>5. Len(Query(t)) = e - 1 - q
    BY <1>1, <1>2, <1>4
<1>6. \A k \in 1 .. e - 1 - q : Query(t)[k] = t[q + k]
  <2> SUFFICES ASSUME NEW k \in 1 .. e - 1 - q PROVE Query(t)[k] = t[q + k]
      OBVIOUS
  <2>1. k \in 1 .. b - a + 1 /\ a + k - 1 = q + k
      BY <1>1
  <2>2. SubSeq(t, a, b)[k] = t[a + k - 1]
      BY <1>4, <2>1
  <2> QED
      BY <2>1, <2>2, <1>2
<1> QED
    BY <1>2, <1>4, <1>5, <1>6 DEF e, q

\* The pieces of the query up to position i of the text, from those in front of it.
LEMMA PieceGoesOn ==
    ASSUME NEW S, NEW t \in Seq(S), NEW i \in QueryAt(t) + 1 .. TargetEnd(t)
    PROVE  /\ i < TargetEnd(t) /\ t[i] # "&" => PiecesOf(t)[i - QueryAt(t)] = PiecesOf(t)[i - 1 - QueryAt(t)]
           /\ PiecesOf(t)[i - 1 - QueryAt(t)] \in Seq(Seq(S))
<1> DEFINE e == TargetEnd(t)
           q == QueryAt(t)
           u == Query(t)
           p == PiecesTo(u, {"&"})
<1>1. e \in Nat /\ q \in Nat /\ i \in Nat /\ q < e
    BY TargetFacts
<1>2. u \in Seq(S) /\ Len(u) = e - 1 - q /\ \A k \in 1 .. e - 1 - q : u[k] = t[q + k]
    BY <1>1, QueryFacts
<1>3. /\ \A k \in 0 .. Len(u) + 1 : p[k] \in Seq(Seq(S))
      /\ \A k \in 1 .. Len(u) + 1 : k <= Len(u) /\ u[k] \notin {"&"} => p[k] = p[k - 1]
  <2> HIDE DEF u
  <2> QED
      BY <1>2, PiecesAre
<1>4. p = PiecesOf(t)
    BY DEF PiecesOf
<1> HIDE DEF e, q, u, p
<1>5. i - q \in 1 .. Len(u) + 1 /\ i - 1 - q \in 0 .. Len(u) + 1 /\ i - q - 1 = i - 1 - q
    BY <1>1, <1>2 DEF e, q
<1>6. ASSUME i < e, t[i] # "&"
      PROVE  p[i - q] = p[i - 1 - q]
  <2>1. i - q \in 1 .. e - 1 - q /\ q + (i - q) = i
      BY <1>1, <1>5, <1>6, <1>2
  <2>2. u[i - q] = t[i] /\ i - q <= Len(u)
      BY <1>2, <2>1
  <2> QED
      BY <1>3, <1>5, <1>6, <2>2
<1> QED
    BY <1>3, <1>4, <1>5, <1>6 DEF e, q

\* A piece ends in front of a '&', or with the target.
LEMMA PieceEnds ==
    ASSUME NEW S, NEW t \in Seq(S), NEW i \in QueryAt(t) + 1 .. TargetEnd(t),
           i = TargetEnd(t) \/ t[i] = "&",
           NEW d \in QueryAt(t) .. i - 1, d = QueryAt(t) \/ t[d] = "&", Clear(t, {"&"}, d + 1, i - 1)
    PROVE  PiecesOf(t)[i - QueryAt(t)] = Append(PiecesOf(t)[i - 1 - QueryAt(t)], SubSeq(t, d + 1, i - 1))
<1> DEFINE e == TargetEnd(t)
           q == QueryAt(t)
           u == Query(t)
           p == PiecesTo(u, {"&"})
<1>1. e \in Nat /\ q \in Nat /\ i \in Nat /\ d \in Nat /\ q < e /\ e <= Len(t) + 1 /\ Len(t) \in Nat
    BY TargetFacts
<1>2. u \in Seq(S) /\ Len(u) = e - 1 - q /\ \A k \in 1 .. e - 1 - q : u[k] = t[q + k]
    BY <1>1, QueryFacts
<1>3. \A k \in 1 .. Len(u) + 1 : ~(k <= Len(u) /\ u[k] \notin {"&"}) =>
          p[k] = Append(p[k - 1], SubSeq(u, FindBack(u, k, {"&"}) + 1, k - 1))
  <2> HIDE DEF u
  <2> QED
      BY <1>2, PiecesAre
<1>4. p = PiecesOf(t) /\ u = SubSeq(t, q + 1, e - 1)
    BY DEF PiecesOf, Query
<1> HIDE DEF e, q, u, p
<1> DEFINE k == i - q
           n == d - q
<1>5. k \in 1 .. Len(u) + 1 /\ n \in 0 .. k - 1 /\ k - 1 = i - 1 - q
    BY <1>1, <1>2 DEF e, q
<1>6. k > Len(u) \/ u[k] = "&"
  <2>1. CASE i = e
      BY <2>1, <1>1, <1>2
  <2>2. CASE i # e
    <3>1. k \in 1 .. e - 1 - q /\ q + k = i
        BY <2>2, <1>1, <1>2, <1>5
    <3> QED
        BY <2>2, <3>1, <1>2 DEF e
  <2> QED
      BY <2>1, <2>2
<1>7. n = 0 \/ u[n] = "&"
  <2>1. CASE d = q
      BY <2>1, <1>1
  <2>2. CASE d # q
    <3>1. n \in 1 .. e - 1 - q /\ q + n = d
        BY <2>2, <1>1, <1>2, <1>5
    <3> QED
        BY <2>2, <3>1, <1>2 DEF q
  <2> QED
      BY <2>1, <2>2
<1>8. Clear(u, {"&"}, n + 1, k - 1)
  <2> SUFFICES ASSUME NEW j \in n + 1 .. k - 1 PROVE u[j] \notin {"&"}
      BY DEF Clear
  <2>1. j \in 1 .. e - 1 - q /\ q + j \in d + 1 .. i - 1
      BY <1>1, <1>2, <1>5
  <2> QED
      BY <2>1, <1>2 DEF Clear
<1>9. FindBack(u, k, {"&"}) = n
  <2>1. k \in Nat /\ n \in Nat /\ n < k
      BY <1>5, <1>1, <1>2
  <2> HIDE DEF k, n
  <2> QED
      BY <2>1, <1>7, <1>8, FindBackIs
<1>10. SubSeq(u, n + 1, k - 1) = SubSeq(t, d + 1, i - 1)
  <2>1. /\ q + 1 \in Nat \ {0} /\ e - 1 \in Nat /\ e - 1 <= Len(t)
        /\ n + 1 \in Nat \ {0} /\ k - 1 \in Int /\ k - 1 <= e - 1 - (q + 1) + 1
        /\ q + 1 + (n + 1) - 1 = d + 1 /\ q + 1 + (k - 1) - 1 = i - 1
      BY <1>1, <1>2, <1>5
  <2> DEFINE a == q + 1
             b == e - 1
             x == n + 1
             y == k - 1
  <2>2. SubSeq(SubSeq(t, a, b), x, y) = SubSeq(t, a + x - 1, a + y - 1)
    <3>1. a \in Nat \ {0} /\ b \in Nat /\ b <= Len(t) /\ x \in Nat \ {0} /\ y \in Int /\ y <= b - a + 1
        BY <2>1
    <3> HIDE DEF a, b, x, y
    <3> QED
        BY <3>1, PartOfPart
  <2> QED
      BY <2>1, <2>2, <1>4
<1>11. p[k] = Append(p[k - 1], SubSeq(u, n + 1, k - 1))
  <2>1. ~(k <= Len(u) /\ u[k] \notin {"&"})
      BY <1>1, <1>2, <1>5, <1>6
  <2> QED
      BY <2>1, <1>3, <1>5, <1>9
<1> QED
    BY <1>4, <1>5, <1>10, <1>11 DEF q

\* Where the target ends, if nothing has ended it before position i.
LEMMA TargetEndIs ==
    ASSUME NEW S, NEW t \in Seq(S), NEW i \in Nat, Target(t) <= i, i <= Len(t),
           Clear(t, Space, Target(t), i - 1)
    PROVE  IF t[i] \in Space THEN TargetEnd(t) = i ELSE i < TargetEnd(t)
<1>1. Target(t) \in Nat \ {0} /\ TargetEnd(t) \in Nat /\ TargetEnd(t) <= Len(t) + 1 /\ Len(t) \in Nat
      /\ (TargetEnd(t) <= Len(t) => Target(t) <= QueryAt(t) /\ QueryAt(t) <= TargetEnd(t) /\ t[TargetEnd(t)] \in Space)
      /\ QueryAt(t) \in Nat
    BY TargetFacts
<1>2. CASE t[i] \in Space
  <2>1. i \in Target(t) .. Len(t)
      BY <1>1
  <2>2. Find(t, Target(t), Space) = i
      BY <1>1, <1>2, <2>1, FindIs
  <2> QED
      BY <1>2, <2>2 DEF TargetEnd
<1>3. CASE t[i] \notin Space
  <2> SUFFICES ASSUME TargetEnd(t) <= i PROVE FALSE
      BY <1>1, <1>3
  <2>1. TargetEnd(t) \in Target(t) .. i /\ t[TargetEnd(t)] \in Space
      BY <1>1
  <2> QED
      BY <2>1, <1>3, <1>1 DEF Clear
<1> QED
    BY <1>2, <1>3

\* The name and the value in a piece.
LEMMA NameOnly ==
    ASSUME NEW S, NEW t \in Seq(S), NEW d \in Nat \ {0}, NEW i \in d + 1 .. Len(t) + 1,
           Clear(t, {"="}, d + 1, i - 1)
    PROVE  NameAndValue(SubSeq(t, d + 1, i - 1)) = <<SubSeq(t, d + 1, i - 1), <<>>>>
<1> DEFINE x == SubSeq(t, d + 1, i - 1)
           n == i - 1 - d
<1>0. Len(t) \in Nat /\ d + 1 \in Nat \ {0} /\ i - 1 \in Int /\ i - 1 <= Len(t) /\ n \in Nat /\ i - 1 - (d + 1) + 1 = n
    BY LenProperties
<1>1. /\ x \in Seq(S) /\ Len(x) = n /\ \A k \in 1 .. n : x[k] = t[d + k]
  <2> DEFINE a == d + 1
             b == i - 1
  <2>1. a \in Nat \ {0} /\ b \in Int /\ b <= Len(t) /\ b - a + 1 = n /\ (a <= b \/ n = 0)
      BY <1>0
  <2>2. /\ SubSeq(t, a, b) \in Seq(S)
        /\ Len(SubSeq(t, a, b)) = IF a <= b THEN b - a + 1 ELSE 0
        /\ \A k \in 1 .. b - a + 1 : SubSeq(t, a, b)[k] = t[a + k - 1]
    <3> HIDE DEF a, b
    <3> QED
        BY <2>1, PartType
  <2>3. Len(x) = n
      BY <1>0, <2>1, <2>2
  <2>4. \A k \in 1 .. n : a + k - 1 = d + k
      BY <1>0
  <2> QED
      BY <2>1, <2>2, <2>3, <2>4
<1> HIDE DEF x
<1>2. Clear(x, {"="}, 1, Len(x))
  <2> SUFFICES ASSUME NEW k \in 1 .. n PROVE x[k] # "="
      BY <1>1 DEF Clear
  <2>1. d + k \in d + 1 .. i - 1
      BY <1>0
  <2> QED
      BY <1>1, <2>1 DEF Clear
<1>3. Find(x, 1, {"="}) = n + 1
    BY <1>1, <1>2, FindNone
<1>4. SubSeq(x, 1, n + 1 - 1) = x
  <2>1. n + 1 - 1 = Len(x)
      BY <1>0, <1>1
  <2> QED
      BY <2>1, <1>1, SubSeqFull
<1>5. SubSeq(x, n + 1 + 1, Len(x)) = <<>>
  <2>1. n + 1 + 1 \in Int /\ Len(x) \in Int /\ Len(x) < n + 1 + 1
      BY <1>0, <1>1
  <2> QED
      BY <2>1, SubSeqEmpty
<1>6. NameAndValue(x) = <<x, <<>>>>
    BY <1>3, <1>4, <1>5 DEF NameAndValue
<1> QED
    BY <1>6 DEF x

\* The name and the value, if there is a '='.
LEMMA NameThenValue ==
    ASSUME NEW S, NEW t \in Seq(S), NEW d \in Nat \ {0}, NEW i \in d + 1 .. Len(t) + 1,
           NEW v \in d + 1 .. i - 1, t[v] = "=", Clear(t, {"="}, d + 1, v - 1)
    PROVE  NameAndValue(SubSeq(t, d + 1, i - 1)) = <<SubSeq(t, d + 1, v - 1), SubSeq(t, v + 1, i - 1)>>
<1> DEFINE x == SubSeq(t, d + 1, i - 1)
           n == i - 1 - d
           m == v - d
<1>0. /\ Len(t) \in Nat /\ d + 1 \in Nat \ {0} /\ i - 1 \in Nat /\ i - 1 <= Len(t) /\ n \in Nat
      /\ m \in 1 .. n /\ d + m = v /\ i - 1 - (d + 1) + 1 = n
    BY LenProperties
<1> DEFINE a == d + 1
           b == i - 1
<1>a. a \in Nat \ {0} /\ b \in Nat /\ b <= Len(t) /\ b - a + 1 = n /\ (a <= b \/ n = 0)
    BY <1>0
<1>1. /\ x \in Seq(S) /\ Len(x) = n /\ \A k \in 1 .. n : x[k] = t[d + k]
  <2>2. /\ SubSeq(t, a, b) \in Seq(S)
        /\ Len(SubSeq(t, a, b)) = IF a <= b THEN b - a + 1 ELSE 0
        /\ \A k \in 1 .. b - a + 1 : SubSeq(t, a, b)[k] = t[a + k - 1]
    <3> HIDE DEF a, b
    <3> QED
        BY <1>a, PartType
  <2>3. Len(x) = n
      BY <1>0, <1>a, <2>2
  <2>4. \A k \in 1 .. n : a + k - 1 = d + k
      BY <1>0
  <2> QED
      BY <1>a, <2>2, <2>3, <2>4
<1>2. Find(x, 1, {"="}) = m
  <2> HIDE DEF x
  <2>1. x[m] = "="
      BY <1>0, <1>1
  <2>2. ASSUME NEW k \in 1 .. m - 1 PROVE x[k] # "="
    <3>1. d + k \in d + 1 .. v - 1 /\ k \in 1 .. n
        BY <1>0
    <3> QED
        BY <1>1, <3>1 DEF Clear
  <2>3. Clear(x, {"="}, 1, m - 1)
      BY <2>2 DEF Clear
  <2>4. 1 \in Nat \ {0} /\ m \in 1 .. Len(x) /\ x[m] \in {"="} /\ x \in Seq(S)
      BY <1>0, <1>1, <2>1
  <2> HIDE DEF m
  <2> QED
      BY <2>3, <2>4, FindIs
<1>3. ASSUME NEW f \in Nat \ {0}, NEW g \in Int, g <= n
      PROVE  SubSeq(x, f, g) = SubSeq(t, a + f - 1, a + g - 1)
  <2>1. g <= b - a + 1
      BY <1>3, <1>a
  <2> HIDE DEF a, b
  <2>2. SubSeq(SubSeq(t, a, b), f, g) = SubSeq(t, a + f - 1, a + g - 1)
      BY <1>a, <2>1, PartOfPart
  <2> QED
      BY <2>2 DEF a, b
<1>4. SubSeq(x, 1, m - 1) = SubSeq(t, d + 1, v - 1)
  <2>1. /\ 1 \in Nat \ {0} /\ m - 1 \in Int /\ m - 1 <= n
        /\ a + 1 - 1 = d + 1 /\ a + (m - 1) - 1 = v - 1
      BY <1>0
  <2>2. SubSeq(x, 1, m - 1) = SubSeq(t, a + 1 - 1, a + (m - 1) - 1)
      BY <1>3, <2>1
  <2> QED
      BY <2>1, <2>2
<1>5. SubSeq(x, m + 1, Len(x)) = SubSeq(t, v + 1, i - 1)
  <2>1. /\ m + 1 \in Nat \ {0} /\ n \in Int /\ n <= n
        /\ a + (m + 1) - 1 = v + 1 /\ a + n - 1 = i - 1
      BY <1>0
  <2>2. SubSeq(x, m + 1, n) = SubSeq(t, a + (m + 1) - 1, a + n - 1)
      BY <1>3, <2>1
  <2> QED
      BY <1>1, <2>1, <2>2
<1> QED
    BY <1>2, <1>4, <1>5 DEF NameAndValue

-----------------------------------------------------------------------------
\* What the invariant says of the types.
LEMMA ReadFacts ==
    ASSUME ReadInv
    PROVE  /\ currentPos \in Nat /\ bufferEnd \in Nat /\ bufferEnd <= Len(sent)
           /\ cuts \subseteq Int
           /\ pc # "done" => \A c \in cuts : c < currentPos
           /\ sent \in Texts /\ sent \in Seq(Chars) /\ Len(sent) \in Nat
           /\ path \in Nat /\ parameters \in Seq(Int \X Int) /\ headers \in Seq(Int \X Int)
           /\ line \in [start : Nat, value : Nat, end : Nat]
           /\ (pc = "done" <=> returned # "none")
           /\ currentPos <= bufferEnd \/ pc \in {"name", "value", "done"}
<1>1. cuts \subseteq 0 .. bufferEnd /\ currentPos \in Nat /\ bufferEnd \in Nat
    BY DEF ReadInv, StringsInv, CutsReceived
<1>2. cuts \subseteq Int
    BY <1>1
<1> QED
    BY <1>1, <1>2, SentType DEF ReadInv, StringsInv, TargetEnds, HeadersEnd, InBuffer, ParseInv, PositionInv

\* A place that waits for its byte has it.
LEMMA ByteIsThere ==
    ASSUME ReadInv, NEW p \in Places, At(p)
    PROVE  /\ pc = p /\ returned = "none"
           /\ p \notin {"firstOfName", "firstOfValue"} => currentPos < bufferEnd
<1>1. p # "done"
    BY DEF Places
<1> QED
    BY <1>1, AtPlace, ReadFacts DEF ReadInv, StringsInv, CutsReceived

\* The steps that stay within the bytes, and cut at most where they are.
LEMMA PositionStep ==
    ASSUME ReadInv, pc # "done", UNCHANGED <<sent, bufferEnd>>,
           \/ currentPos' = currentPos /\ cuts' = cuts
           \/ currentPos' = currentPos + 1 /\ (cuts' = cuts \/ cuts' = cuts \cup {currentPos}),
           currentPos' <= bufferEnd \/ pc' \in {"name", "value", "done"},
           pc \in {"name", "value"} /\ currentPos' = currentPos => currentPos <= bufferEnd
    PROVE  PositionInv'
<1>1. /\ currentPos \in Nat /\ bufferEnd \in Nat /\ bufferEnd <= Len(sent) /\ cuts \subseteq Int
      /\ \A c \in cuts : c < currentPos
    BY ReadFacts
<1>2. \A c \in cuts' : c < currentPos'
  <2>1. CASE cuts' = cuts
      BY <1>1, <2>1
  <2>2. CASE currentPos' = currentPos + 1 /\ cuts' = cuts \cup {currentPos}
      BY <1>1, <2>2
  <2> QED
      BY <2>1, <2>2
<1>3. bufferEnd' <= Len(sent') /\ (currentPos' <= bufferEnd' \/ pc' \in {"name", "value", "done"})
    BY <1>1
<1> QED
    BY <1>2, <1>3 DEF PositionInv

\* Where the target has not ended yet.
LEMMA InTargetStill ==
    ASSUME NEW S, NEW t \in Seq(S), Target(t) <= QueryAt(t), t[QueryAt(t)] = "?",
           NEW i \in Nat, QueryAt(t) < i, i <= Len(t), Clear(t, Space, QueryAt(t) + 1, i - 1)
    PROVE  /\ t[i] \in Space => TargetEnd(t) = i
           /\ t[i] \notin Space => i < TargetEnd(t)
           /\ i \in QueryAt(t) + 1 .. TargetEnd(t)
           /\ t[i] \notin {"&"} \cup Space =>
                 PiecesOf(t)[i - QueryAt(t)] = PiecesOf(t)[i - 1 - QueryAt(t)]
<1> DEFINE q == QueryAt(t)
<1>1. /\ q \in Nat /\ Target(t) \in Nat /\ TargetEnd(t) \in Nat
      /\ Clear(t, TargetStops, Target(t), q - 1)
    BY TargetFacts
<1>2. Clear(t, Space, Target(t), i - 1)
  <2> SUFFICES ASSUME NEW j \in Target(t) .. i - 1 PROVE t[j] \notin Space
      BY DEF Clear
  <2>1. j \in Target(t) .. q - 1 \/ j = q \/ j \in q + 1 .. i - 1
      BY <1>1
  <2> QED
      BY <2>1, <1>1 DEF Clear, Space, TargetStops
<1>3. IF t[i] \in Space THEN TargetEnd(t) = i ELSE i < TargetEnd(t)
  <2>1. Target(t) <= i
      BY <1>1
  <2> QED
      BY <1>2, <2>1, TargetEndIs
<1>4. i \in q + 1 .. TargetEnd(t)
    BY <1>1, <1>3
<1>5. i < TargetEnd(t) /\ t[i] # "&" => PiecesOf(t)[i - q] = PiecesOf(t)[i - 1 - q]
    BY <1>4, PieceGoesOn
<1> QED
    BY <1>3, <1>4, <1>5

\* The pieces are sequences; there is none in front of the query.
LEMMA PiecesTyped ==
    ASSUME NEW S, NEW t \in Seq(S), NEW i \in QueryAt(t) .. TargetEnd(t), QueryAt(t) < TargetEnd(t)
    PROVE  /\ PiecesOf(t)[i - QueryAt(t)] \in Seq(Seq(S))
           /\ PiecesOf(t)[0] = <<>>
<1> DEFINE q == QueryAt(t)
           k == i - q
           u == Query(t)
<1>1. q \in Nat /\ TargetEnd(t) \in Nat
    BY TargetFacts
<1>2. u \in Seq(S) /\ Len(u) = TargetEnd(t) - 1 - q
    BY QueryFacts
<1>3. k \in 0 .. Len(u) + 1
    BY <1>1, <1>2
<1>4. PiecesTo(u, {"&"})[0] = <<>> /\ PiecesTo(u, {"&"})[k] \in Seq(Seq(S))
  <2> HIDE DEF u, k
  <2> QED
      BY <1>2, <1>3, PiecesAre
<1> QED
    BY <1>4 DEF PiecesOf

-----------------------------------------------------------------------------
\* The method, and the path.
LEMMA ReadMethodParses ==
    ASSUME ReadInv, ~torn, ReadMethod
    PROVE  ParseInv'
<1>1. pc = "method" /\ returned = "none" /\ currentPos < bufferEnd
    BY ByteIsThere DEF ReadMethod, Places
<1>2. currentPos \in Nat /\ bufferEnd \in Nat /\ sent \in Seq(Chars) /\ Len(sent) \in Nat /\ bufferEnd <= Len(sent)
    BY ReadFacts
<1>3. currentChar = sent[currentPos + 1] /\ currentPos + 1 \in 1 .. Len(sent)
    BY <1>1, HereIs
<1>4. cuts = {} /\ Clear(sent, Blanks, 1, currentPos) /\ headers = <<>> /\ parameters = <<>>
    BY <1>1 DEF ReadInv, ParseInv, MethodRead, HeadersRead, Places, InLine, StringsInv, TargetEnds
<1>5. UNCHANGED <<sent, bufferEnd, torn, cuts, parameters, headers, body, line>>
    BY DEF ReadMethod, received
<1>6. \/ /\ currentChar \notin Blanks
         /\ pc' = "method" /\ currentPos' = currentPos + 1 /\ UNCHANGED <<path, returned>>
      \/ /\ currentChar \in Blanks /\ sent[1] \notin Methods
         /\ pc' = "done" /\ returned' = "406" /\ UNCHANGED <<currentPos, path>>
      \/ /\ currentChar \in Blanks /\ sent[1] \in Methods
         /\ pc' = "path" /\ currentPos' = currentPos + 1 /\ path' = currentPos + 1 /\ UNCHANGED returned
    BY DEF ReadMethod, NextChar, Throw, Blanks
<1>7. CASE currentChar \notin Blanks
  <2>1. pc' = "method" /\ currentPos' = currentPos + 1 /\ UNCHANGED <<path, returned>>
      BY <1>6, <1>7
  <2>2. Clear(sent, Blanks, 1, currentPos + 1)
      BY <1>2, <1>3, <1>4, <1>7, ClearMore
  <2>3. MethodRead'
      BY <1>4, <1>5, <2>1, <2>2 DEF MethodRead
  <2>4. HeadersRead'
      BY <1>4, <1>5, <2>1 DEF HeadersRead, Places, InLine
  <2>5. PositionInv'
      BY <1>1, <1>2, <1>5, <2>1, PositionStep
  <2>6. PathRead' /\ QueryRead' /\ ParameterRead' /\ TargetRead' /\ ProtocolRead' /\ LineRead' /\ Answered'
      BY <1>1, <2>1, Elsewhere DEF InParameter, Behind, InLine
  <2> QED
      BY <2>3, <2>4, <2>5, <2>6 DEF ParseInv
<1>8. CASE currentChar \in Blanks /\ sent[1] \notin Methods
  <2>1. pc' = "done" /\ returned' = "406" /\ UNCHANGED <<currentPos, path>>
      BY <1>6, <1>8
  <2>2. ~Wellformed(sent)
      BY <1>8 DEF Wellformed
  <2>3. Answered'
      BY <1>5, <2>1, <2>2 DEF Answered
  <2>4. MethodRead' /\ HeadersRead'
      BY <2>1 DEF MethodRead, HeadersRead, Places, InLine
  <2>5. PositionInv'
      BY <1>1, <1>2, <1>5, <2>1, PositionStep
  <2>6. PathRead' /\ QueryRead' /\ ParameterRead' /\ TargetRead' /\ ProtocolRead' /\ LineRead'
      BY <2>1, Elsewhere DEF InParameter, Behind, InLine, Places
  <2> QED
      BY <2>3, <2>4, <2>5, <2>6 DEF ParseInv
<1>9. CASE currentChar \in Blanks /\ sent[1] \in Methods
  <2>1. pc' = "path" /\ currentPos' = currentPos + 1 /\ path' = currentPos + 1 /\ UNCHANGED returned
      BY <1>6, <1>9
  <2>2. MethodEnd(sent) = currentPos + 1
    <3> DEFINE n == currentPos + 1
    <3>1. 1 \in Nat \ {0} /\ n \in 1 .. Len(sent) /\ n - 1 = currentPos
        BY <1>2, <1>3
    <3>2. sent[n] \in Blanks
        BY <1>3, <1>9
    <3>3. Clear(sent, Blanks, 1, n - 1)
        BY <1>4, <3>1
    <3> HIDE DEF n
    <3>4. Find(sent, 1, Blanks) = n
        BY <1>2, <3>1, <3>2, <3>3, FindIs
    <3> QED
        BY <3>4 DEF n, MethodEnd
  <2>3. MethodRead'
      BY <1>2, <1>5, <1>9, <2>1, <2>2 DEF MethodRead
  <2>4. PathRead'
    <3>1. Clear(sent, TargetStops, currentPos + 1 + 1, currentPos + 1)
        BY <1>2 DEF Clear
    <3> QED
        BY <1>4, <1>5, <2>1, <3>1 DEF PathRead
  <2>5. PositionInv'
      BY <1>1, <1>2, <1>5, <2>1, PositionStep
  <2>6. HeadersRead'
      BY <1>4, <1>5, <2>1 DEF HeadersRead, Places, InLine
  <2>7. QueryRead' /\ ParameterRead' /\ TargetRead' /\ ProtocolRead' /\ LineRead' /\ Answered'
      BY <1>1, <2>1, Elsewhere DEF InParameter, Behind, InLine, InTarget
  <2> QED
      BY <2>3, <2>4, <2>5, <2>6, <2>7 DEF ParseInv
<1> QED
    BY <1>7, <1>8, <1>9

\* The end of the path.
LEMMA ReadPathParses ==
    ASSUME ReadInv, ~torn, ReadPath
    PROVE  ParseInv'
<1>1. pc = "path" /\ returned = "none" /\ currentPos < bufferEnd
    BY ByteIsThere DEF ReadPath, Places
<1>2. /\ currentPos \in Nat /\ bufferEnd \in Nat /\ sent \in Seq(Chars) /\ Len(sent) \in Nat /\ bufferEnd <= Len(sent)
      /\ path \in Nat
    BY ReadFacts
<1>3. currentChar = sent[currentPos + 1] /\ currentPos + 1 \in 1 .. Len(sent)
    BY <1>1, HereIs
<1>4. /\ cuts = {} /\ parameters = <<>> /\ headers = <<>>
      /\ Clear(sent, TargetStops, path + 1, currentPos)
      /\ path = MethodEnd(sent) /\ sent[1] \in Methods /\ path <= currentPos
    BY <1>1 DEF ReadInv, ParseInv, MethodRead, PathRead, HeadersRead, Places, InLine
<1>5. UNCHANGED <<sent, bufferEnd, torn, path, parameters, headers, body, line, returned>>
    BY DEF ReadPath, received, strings
<1>6. Target(sent) = path + 1
    BY <1>4 DEF Target, MethodEnd, Blanks
<1>7. CASE currentChar \notin TargetStops
  <2>1. pc' = "path" /\ currentPos' = currentPos + 1 /\ UNCHANGED cuts
      BY <1>7 DEF ReadPath, NextChar, Space, TargetStops
  <2>2. Clear(sent, TargetStops, path + 1, currentPos + 1)
      BY <1>2, <1>3, <1>4, <1>7, ClearMore
  <2>3. MethodRead' /\ PathRead'
      BY <1>2, <1>4, <1>5, <2>1, <2>2 DEF MethodRead, PathRead
  <2>4. HeadersRead'
      BY <1>4, <1>5, <2>1 DEF HeadersRead, Places, InLine
  <2>5. PositionInv'
      BY <1>1, <1>2, <1>5, <2>1, PositionStep
  <2>6. QueryRead' /\ ParameterRead' /\ TargetRead' /\ ProtocolRead' /\ LineRead' /\ Answered'
      BY <1>1, <1>5, <2>1, Elsewhere DEF InParameter, Behind, InLine, InTarget
  <2> QED
      BY <2>3, <2>4, <2>5, <2>6 DEF ParseInv
<1>8. ASSUME currentChar \in TargetStops
      PROVE  /\ QueryAt(sent) = currentPos + 1
             /\ Holds(sent, path, SubSeq(sent, path + 1, currentPos), cuts \cup {currentPos})
  <2>1. QueryAt(sent) = currentPos + 1
    <3> DEFINE n == currentPos + 1
               a == path + 1
    <3>1. a \in Nat \ {0} /\ n \in a .. Len(sent) /\ Clear(sent, TargetStops, a, n - 1) /\ sent[n] \in TargetStops
        BY <1>2, <1>3, <1>4, <1>8
    <3>2. QueryAt(sent) = Find(sent, a, TargetStops)
        BY <1>6 DEF QueryAt
    <3> HIDE DEF n, a
    <3>3. QueryAt(sent) = n
        BY <1>2, <3>1, <3>2, FindIs
    <3> QED
        BY <3>3 DEF n
  <2>2. Holds(sent, path, SubSeq(sent, path + 1, currentPos), cuts \cup {currentPos})
    <3>1. path \in Nat /\ currentPos \in Int /\ path <= currentPos /\ \A c \in cuts : c < path
        BY <1>2, <1>4
    <3> QED
        BY <3>1, CutHolds
  <2> QED
      BY <2>1, <2>2
<1>9. IF sent[currentPos + 1] \in Space THEN TargetEnd(sent) = currentPos + 1 ELSE currentPos + 1 < TargetEnd(sent)
  <2> DEFINE i == currentPos + 1
  <2>1. i \in Nat /\ Target(sent) <= i /\ i <= Len(sent)
      BY <1>2, <1>3, <1>4, <1>6
  <2>2. Clear(sent, Space, Target(sent), i - 1)
      BY <1>2, <1>4, <1>6 DEF Clear, TargetStops
  <2> HIDE DEF i
  <2>3. IF sent[i] \in Space THEN TargetEnd(sent) = i ELSE i < TargetEnd(sent)
      BY <1>2, <2>1, <2>2, TargetEndIs
  <2> QED
      BY <2>3 DEF i
<1>10. CASE currentChar = "?"
  <2>0. currentChar \in TargetStops
      BY <1>10 DEF TargetStops
  <2>1. pc' = "query" /\ UNCHANGED <<currentPos, cuts>>
      BY <1>10 DEF ReadPath, Space
  <2> DEFINE q == currentPos + 1
  <2>2. QueryAt(sent) = q /\ sent[q] = "?" /\ path < q /\ q - 1 = currentPos /\ q - q = 0
      BY <1>2, <1>3, <1>4, <1>8, <1>10, <2>0
  <2>3. PiecesOf(sent)[0] = <<>>
    <3>1. "?" \notin Space
        BY DEF Space
    <3>2. q < TargetEnd(sent)
        BY <1>9, <2>2, <3>1
    <3>3. q \in QueryAt(sent) .. TargetEnd(sent) /\ QueryAt(sent) < TargetEnd(sent)
        BY <1>2, <2>2, <3>2, TargetFacts
    <3> QED
        BY <1>2, <3>3, PiecesTyped
  <2>4. ParametersHold(sent, q, parameters, cuts \cup {currentPos})
    <3>1. q - QueryAt(sent) = 0
        BY <2>2
    <3>2. Len(parameters) = Len(<<>>) /\ Spells(sent, parameters, <<>>, cuts \cup {currentPos})
        BY <1>4 DEF Spells
    <3> QED
        BY <2>3, <3>1, <3>2 DEF ParametersHold
  <2>5. Clear(sent, Space, q + 1, currentPos)
      BY <1>2 DEF Clear
  <2>6. PathHolds(sent, path, cuts \cup {currentPos})
      BY <1>8, <2>0, <2>2 DEF PathHolds
  <2>7. QueryRead'
    <3> HIDE DEF q
    <3>1. q = currentPos + 1
        BY DEF q
    <3> QED
        BY <1>2, <1>5, <2>1, <2>2, <2>3, <2>4, <2>5, <2>6, <3>1 DEF QueryRead
  <2>8. MethodRead' /\ HeadersRead'
      BY <1>4, <1>5, <2>1 DEF MethodRead, HeadersRead, Places, InLine
  <2>9. PositionInv'
      BY <1>1, <1>2, <1>5, <2>1, PositionStep
  <2>10. PathRead' /\ ParameterRead' /\ TargetRead' /\ ProtocolRead' /\ LineRead' /\ Answered'
      BY <1>1, <1>5, <2>1, Elsewhere DEF InParameter, Behind, InLine, InTarget
  <2> QED
      BY <2>7, <2>8, <2>9, <2>10 DEF ParseInv
<1>11. CASE currentChar \in Space
  <2>0. currentChar \in TargetStops
      BY <1>11 DEF TargetStops
  <2>1. pc' = "protocol" /\ cuts' = cuts \cup {currentPos} /\ currentPos' = currentPos + 1
      BY <1>11 DEF ReadPath, EndPath, NextChar, Space
  <2> DEFINE q == currentPos + 1
  <2>2. QueryAt(sent) = q /\ TargetEnd(sent) = q /\ path < q /\ q - 1 = currentPos /\ q \in Nat
      BY <1>2, <1>3, <1>4, <1>8, <1>9, <1>11, <2>0
  <2>3. PathHolds(sent, path, cuts \cup {currentPos})
      BY <1>8, <2>0, <2>2 DEF PathHolds
  <2>4. TargetRead' /\ ProtocolRead'
    <3> HIDE DEF q
    <3>1. q = currentPos + 1
        BY DEF q
    <3>2. Clear(sent, Space, q + 1, q)
        BY <2>2 DEF Clear
    <3>3. TargetRead'
        BY <1>4, <1>5, <2>1, <2>2, <2>3, <3>1 DEF TargetRead
    <3>4. ProtocolRead'
        BY <1>4, <1>5, <2>1, <2>2, <3>1, <3>2 DEF ProtocolRead
    <3> QED
        BY <3>3, <3>4
  <2>5. MethodRead' /\ HeadersRead'
      BY <1>2, <1>4, <1>5, <2>1 DEF MethodRead, HeadersRead, Places, InLine
  <2>6. PositionInv'
      BY <1>1, <1>2, <1>5, <2>1, PositionStep
  <2>7. PathRead' /\ QueryRead' /\ ParameterRead' /\ LineRead' /\ Answered'
      BY <1>1, <1>5, <2>1, Elsewhere DEF InParameter, InLine
  <2> QED
      BY <2>4, <2>5, <2>6, <2>7 DEF ParseInv
<1> QED
    BY <1>7, <1>10, <1>11 DEF TargetStops

-----------------------------------------------------------------------------
\* What separates the target is no delimiter in it.
LEMMA NotSpace == "?" \notin Space /\ "=" \notin Space /\ "&" \notin Space /\ ":" \notin Space /\ Zero \notin Space
    BY DEF Space, Zero

\* Where the query is, for the places that read it.
LEMMA QueryPlace ==
    ASSUME ReadInv, ~torn, pc \in InTarget \ {"path"}
    PROVE  /\ Target(sent) = path + 1 /\ path \in Nat /\ QueryAt(sent) \in Nat
           /\ path < QueryAt(sent) /\ Target(sent) <= QueryAt(sent) /\ sent[QueryAt(sent)] = "?"
           /\ sent[1] \in Methods /\ path = MethodEnd(sent) /\ path <= currentPos /\ headers = <<>>
<1>1. path = MethodEnd(sent) /\ path <= currentPos /\ sent[1] \in Methods /\ headers = <<>>
    BY DEF ReadInv, ParseInv, MethodRead, HeadersRead, InTarget, InLine, Places
<1>2. path < QueryAt(sent) /\ sent[QueryAt(sent)] = "?"
    BY DEF ReadInv, ParseInv, QueryRead, ParameterRead, InTarget, InParameter
<1>3. path \in Nat /\ sent \in Seq(Chars)
    BY ReadFacts
<1>4. Target(sent) = MethodEnd(sent) + 1
    BY DEF Target, MethodEnd, Blanks
<1>5. QueryAt(sent) \in Nat
    BY <1>3, TargetFacts
<1> QED
    BY <1>1, <1>2, <1>3, <1>4, <1>5

\* What stays as it is in the query.
LEMMA QueryStays ==
    ASSUME ReadInv, ~torn, pc \in InTarget \ {"path"}, UNCHANGED <<sent, path, headers>>,
           pc' \in InTarget \ {"path"}, currentPos' \in {currentPos, currentPos + 1}
    PROVE  MethodRead' /\ HeadersRead'
<1>1. path = MethodEnd(sent) /\ path <= currentPos /\ sent[1] \in Methods /\ headers = <<>> /\ currentPos \in Nat /\ path \in Nat
    BY QueryPlace, ReadFacts
<1>2. path' <= currentPos'
    BY <1>1
<1> QED
    BY <1>1, <1>2 DEF MethodRead, HeadersRead, InTarget, InLine, Places

\* The head of the loop: the query ends.
LEMMA QueryEndsParses ==
    ASSUME ReadInv, ~torn, ReadQuery, currentChar \in Space
    PROVE  ParseInv'
<1>1. pc = "query" /\ returned = "none" /\ currentPos < bufferEnd
    BY ByteIsThere DEF ReadQuery, Places
<1>2. /\ currentPos \in Nat /\ bufferEnd \in Nat /\ sent \in Seq(Chars) /\ Len(sent) \in Nat /\ bufferEnd <= Len(sent)
    BY ReadFacts
<1>3. currentChar = sent[currentPos + 1] /\ currentPos + 1 \in 1 .. Len(sent)
    BY <1>1, HereIs
<1>4. /\ Target(sent) = path + 1 /\ path \in Nat /\ QueryAt(sent) \in Nat
      /\ path < QueryAt(sent) /\ Target(sent) <= QueryAt(sent) /\ sent[QueryAt(sent)] = "?"
      /\ sent[1] \in Methods /\ path = MethodEnd(sent) /\ path <= currentPos /\ headers = <<>>
    BY <1>1, QueryPlace DEF InTarget
<1>5. /\ UNCHANGED <<sent, bufferEnd, torn, path, parameters, headers, body, line, returned>>
      /\ pc' = "protocol" /\ cuts' = cuts \cup {currentPos} /\ currentPos' = currentPos + 1
    BY DEF ReadQuery, EndPath, NextChar, received, strings
<1> DEFINE i == currentPos + 1
           q == QueryAt(sent)
           C == cuts \cup {currentPos}
<1>6. /\ q <= i /\ Clear(sent, Space, q + 1, currentPos)
      /\ PathHolds(sent, path, C) /\ ParametersHold(sent, i, parameters, C)
  <2>1. QueryRead
      BY DEF ReadInv, ParseInv
  <2> QED
      BY <1>1, <2>1 DEF QueryRead
<1>7. q < i /\ i \in Nat /\ i <= Len(sent) /\ i - 1 = currentPos
  <2>1. q # i
      BY <1>3, <1>4, NotSpace
  <2>2. q <= i /\ q \in Nat
      BY <1>4, <1>6
  <2> QED
      BY <1>2, <1>3, <2>1, <2>2
<1>8. TargetEnd(sent) = i
  <2>1. Clear(sent, Space, q + 1, i - 1) /\ sent[i] \in Space
      BY <1>3, <1>6, <1>7
  <2> HIDE DEF i
  <2> QED
      BY <1>2, <1>4, <1>7, <2>1, InTargetStill
<1>10. TargetRead'
    BY <1>4, <1>5, <1>6, <1>7, <1>8 DEF TargetRead
<1>11. ProtocolRead'
  <2>1. Clear(sent, Space, i + 1, i)
      BY <1>7 DEF Clear
  <2> QED
      BY <1>5, <1>8, <2>1 DEF ProtocolRead
<1>12. MethodRead' /\ HeadersRead'
    BY <1>2, <1>4, <1>5 DEF MethodRead, HeadersRead, Places, InLine
<1>13. PositionInv'
    BY <1>1, <1>2, <1>5, PositionStep
<1>14. PathRead' /\ QueryRead' /\ ParameterRead' /\ LineRead' /\ Answered'
    BY <1>1, <1>5, Elsewhere DEF InParameter, InLine
<1> QED
    BY <1>10, <1>11, <1>12, <1>13, <1>14 DEF ParseInv

\* The front of the parameters stays what it is.
LEMMA SpellsFront ==
    ASSUME NEW t, NEW ps, NEW qs, NEW xs, NEW C, Spells(t, ps, xs, C), \A k \in DOMAIN xs : qs[k] = ps[k]
    PROVE  Spells(t, qs, xs, C)
    BY DEF Spells

\* A parameter starts.
LEMMA ParameterStartsParses ==
    ASSUME ReadInv, ~torn, ReadQuery, currentChar \notin Space
    PROVE  ParseInv'
<1>1. pc = "query" /\ returned = "none" /\ currentPos < bufferEnd
    BY ByteIsThere DEF ReadQuery, Places
<1>2. /\ currentPos \in Nat /\ bufferEnd \in Nat /\ sent \in Seq(Chars) /\ Len(sent) \in Nat /\ bufferEnd <= Len(sent)
      /\ parameters \in Seq(Int \X Int) /\ \A c \in cuts : c < currentPos
    BY <1>1, ReadFacts
<1>3. currentChar = sent[currentPos + 1] /\ currentPos + 1 \in 1 .. Len(sent)
    BY <1>1, HereIs
<1>4. /\ Target(sent) = path + 1 /\ path \in Nat /\ QueryAt(sent) \in Nat
      /\ path < QueryAt(sent) /\ Target(sent) <= QueryAt(sent) /\ sent[QueryAt(sent)] = "?"
    BY <1>1, QueryPlace DEF InTarget
<1> DEFINE d == currentPos + 1
           q == QueryAt(sent)
           C == cuts \cup {currentPos}
           pieces == PiecesOf(sent)[d - q]
<1>5. /\ UNCHANGED <<sent, bufferEnd, torn, path, headers, body, line, returned>>
      /\ pc' = "firstOfName" /\ cuts' = C /\ currentPos' = d
      /\ parameters' = Append(parameters, <<d, NoString>>)
    BY DEF ReadQuery, EndPath, NextChar, received, strings
<1>6. /\ q <= d /\ Clear(sent, Space, q + 1, currentPos)
      /\ PathHolds(sent, path, C) /\ ParametersHold(sent, d, parameters, C)
      /\ q = d \/ sent[d] \in {"&"} \cup Space
  <2>1. QueryRead
      BY DEF ReadInv, ParseInv
  <2> QED
      BY <1>1, <2>1 DEF QueryRead
<1>7. d \in Nat /\ d <= bufferEnd /\ d <= Len(sent) /\ d - 1 = currentPos
    BY <1>1, <1>2
<1>8. d = q \/ sent[d] = "&"
    BY <1>3, <1>6
<1>9. Clear(sent, Space, q + 1, d)
  <2>1. CASE d = q
      BY <1>4, <2>1 DEF Clear
  <2>2. CASE d # q
      BY <1>2, <1>3, <1>4, <1>6, <2>2, ClearMore
  <2> QED
      BY <2>1, <2>2
<1>10. pieces \in Seq(Seq(Chars))
  <2>1. d \in q .. TargetEnd(sent) /\ q < TargetEnd(sent)
    <3>1. CASE d = q
      <4>1. Clear(sent, Space, Target(sent), d - 1)
        <5>1. Clear(sent, TargetStops, Target(sent), q - 1)
            BY <1>2, TargetFacts
        <5> QED
            BY <3>1, <5>1 DEF Clear, TargetStops
      <4>2. sent[d] \notin Space
          BY <3>1, <1>4, NotSpace
      <4>3. d < TargetEnd(sent)
          BY <1>2, <1>4, <1>7, <3>1, <4>1, <4>2, TargetEndIs
      <4> QED
          BY <3>1, <4>3, <1>2, <1>4, TargetFacts
    <3>2. CASE d # q
      <4>1. q < d /\ Clear(sent, Space, q + 1, d - 1)
          BY <1>4, <1>6, <1>7, <3>2
      <4>2. d \in q + 1 .. TargetEnd(sent)
        <5> HIDE DEF d
        <5> QED
            BY <1>2, <1>4, <1>7, <4>1, InTargetStill
      <4>3. TargetEnd(sent) \in Nat /\ q \in Nat
          BY <1>2, <1>4, TargetFacts
      <4> QED
          BY <4>2, <4>3
    <3> QED
        BY <3>1, <3>2
  <2> HIDE DEF d
  <2> QED
      BY <1>2, <2>1, PiecesTyped
<1>11. /\ Len(parameters') = Len(parameters) + 1 /\ Len(parameters) \in Nat
       /\ \A k \in DOMAIN pieces : parameters'[k] = parameters[k]
       /\ parameters'[Len(parameters')] = <<d, NoString>>
  <2> DEFINE x == <<d, NoString>>
  <2>1. x \in Int \X Int
      BY <1>7 DEF NoString
  <2>2. parameters' = Append(parameters, x)
      BY <1>5
  <2> HIDE DEF x
  <2>3. /\ Len(parameters') = Len(parameters) + 1 /\ Len(parameters) \in Nat
        /\ \A k \in 1 .. Len(parameters) : parameters'[k] = parameters[k]
        /\ parameters'[Len(parameters) + 1] = x
      BY <1>2, <2>1, <2>2, AppendProperties, LenProperties
  <2>4. DOMAIN pieces = 1 .. Len(parameters)
      BY <1>6, <1>10, LenProperties DEF ParametersHold
  <2> QED
      BY <2>3, <2>4 DEF x
<1>12. FrontHolds(sent, d, parameters', C)
  <2>1. Len(parameters) = Len(pieces) /\ Spells(sent, parameters, pieces, C)
      BY <1>6 DEF ParametersHold
  <2>2. Spells(sent, parameters', pieces, C)
      BY <1>11, <2>1, SpellsFront
  <2>3. Len(parameters') - 1 = Len(pieces)
      BY <1>11, <2>1
  <2> QED
      BY <2>2, <2>3 DEF FrontHolds
<1>13. parameters'[Len(parameters')][1] = d /\ parameters'[Len(parameters')][2] = NoString /\ parameters' # <<>>
    BY <1>11, EmptySeq
<1>14. Looked' = d
    BY <1>5, <1>7 DEF Looked
<1>15. Clear(sent, {"=", "&"}, d + 1, d) /\ \A c \in C : c < d
  <2>1. Clear(sent, {"=", "&"}, d + 1, d)
      BY <1>7 DEF Clear
  <2>2. \A c \in C : c \in cuts \/ c = currentPos
      OBVIOUS
  <2>3. cuts \subseteq Int
      BY ReadFacts
  <2> QED
      BY <1>2, <2>1, <2>2, <2>3
<1>16. NameRead(sent', pc', currentPos', Looked', d, NoString, cuts')
    BY <1>5, <1>14, <1>15 DEF NameRead
<1>20. ParameterRead'
  <2>1. path' < q /\ q <= d /\ d <= Looked' /\ sent'[q] = "?" /\ QueryAt(sent') = q
      BY <1>4, <1>5, <1>6, <1>7, <1>14
  <2>2. (d = q \/ sent'[d] = "&") /\ Clear(sent', Space, q + 1, Looked')
      BY <1>5, <1>8, <1>9, <1>14
  <2>3. PathHolds(sent', path', cuts') /\ FrontHolds(sent', Looked', parameters', cuts')
      BY <1>5, <1>6, <1>12, <1>14
  <2> DEFINE last == parameters'[Len(parameters')]
  <2>4. last[1] = d /\ last[2] = NoString /\ parameters' # <<>>
      BY <1>13
  <2> HIDE DEF d, C, pieces, q, last
  <2>5. last = parameters'[Len(parameters')]
      BY DEF last
  <2>6. pc' = "firstOfName" /\ NameRead(sent', pc', currentPos', Looked', last[1], last[2], cuts')
      BY <1>5, <1>16, <2>4
  <2> QED
      BY <2>1, <2>2, <2>3, <2>4, <2>5, <2>6 DEF ParameterRead
<1>17. MethodRead' /\ HeadersRead'
    BY <1>1, <1>5, QueryStays DEF InTarget
<1>18. PositionInv'
    BY <1>1, <1>2, <1>5, <1>7, PositionStep
<1>19. PathRead' /\ QueryRead' /\ TargetRead' /\ ProtocolRead' /\ LineRead' /\ Answered'
    BY <1>1, <1>5, Elsewhere DEF InLine, Behind, InTarget
<1> QED
    BY <1>17, <1>18, <1>19, <1>20 DEF ParseInv

-----------------------------------------------------------------------------
\* What a reader in a parameter has found.
LEMMA InParameterIs ==
    ASSUME ReadInv, ~torn, pc \in InParameter
    PROVE  LET last == parameters[Len(parameters)] q == QueryAt(sent)
           IN  /\ parameters # <<>> /\ Len(parameters) \in Nat \ {0} /\ DOMAIN parameters = 1 .. Len(parameters)
               /\ last \in Int \X Int
               /\ q <= last[1] /\ last[1] <= Looked /\ last[1] \in Nat \ {0} /\ Looked \in Nat
               /\ last[1] = q \/ sent[last[1]] = "&"
               /\ Clear(sent, Space, q + 1, Looked)
               /\ PathHolds(sent, path, cuts)
               /\ FrontHolds(sent, Looked, parameters, cuts)
               /\ pc \in {"firstOfName", "name"} => NameRead(sent, pc, currentPos, Looked, last[1], last[2], cuts)
               /\ pc \in {"firstOfValue", "value"} => ValueRead(sent, pc, currentPos, Looked, last[1], last[2], cuts)
<1> DEFINE last == parameters[Len(parameters)]
           q == QueryAt(sent)
<1>1. ParameterRead
    BY DEF ReadInv, ParseInv
<1>2. /\ parameters # <<>> /\ path < q /\ q <= last[1] /\ last[1] <= Looked
      /\ last[1] = q \/ sent[last[1]] = "&"
      /\ Clear(sent, Space, q + 1, Looked)
      /\ PathHolds(sent, path, cuts)
      /\ FrontHolds(sent, Looked, parameters, cuts)
      /\ pc \in {"firstOfName", "name"} => NameRead(sent, pc, currentPos, Looked, last[1], last[2], cuts)
      /\ pc \in {"firstOfValue", "value"} => ValueRead(sent, pc, currentPos, Looked, last[1], last[2], cuts)
    BY <1>1 DEF ParameterRead
<1>3. parameters \in Seq(Int \X Int) /\ path \in Nat /\ currentPos \in Nat /\ bufferEnd \in Nat /\ sent \in Seq(Chars)
    BY ReadFacts
<1>4. Len(parameters) \in Nat \ {0} /\ DOMAIN parameters = 1 .. Len(parameters)
    BY <1>2, <1>3, EmptySeq, LenProperties
<1>5. last \in Int \X Int
  <2>1. Len(parameters) \in 1 .. Len(parameters)
      BY <1>4
  <2> QED
      BY <2>1, <1>3, ElementOfSeq
<1>6. q \in Nat
    BY <1>3, TargetFacts
<1>7. Looked \in Nat
    BY <1>3 DEF Looked
<1>8. last[1] \in Nat \ {0}
  <2>1. last[1] \in Int
      BY <1>5
  <2> QED
      BY <2>1, <1>2, <1>3, <1>6
<1> QED
    BY <1>2, <1>4, <1>5, <1>7, <1>8

\* The next character is one of the parameter: the pieces in front stay what they are.
LEMMA LookOn ==
    ASSUME ReadInv, ~torn, pc \in InParameter, Looked + 1 <= Len(sent),
           sent[Looked + 1] \notin {"&"} \cup Space
    PROVE  /\ Clear(sent, Space, QueryAt(sent) + 1, Looked + 1)
           /\ \A ps, C : FrontHolds(sent, Looked, ps, C) => FrontHolds(sent, Looked + 1, ps, C)
<1> DEFINE q == QueryAt(sent)
           i == Looked + 1
<1>1. /\ sent \in Seq(Chars) /\ q \in Nat /\ Target(sent) <= q /\ sent[q] = "?"
  <2>1. pc \in InTarget \ {"path"}
      BY DEF InParameter, InTarget
  <2> QED
      BY <2>1, QueryPlace, ReadFacts
<1>2. Looked \in Nat /\ q <= Looked /\ Clear(sent, Space, q + 1, Looked)
    BY <1>1, InParameterIs
<1>3. i \in Nat /\ q < i /\ i <= Len(sent) /\ i - 1 = Looked
    BY <1>1, <1>2
<1>4. PiecesOf(sent)[i - q] = PiecesOf(sent)[i - 1 - q]
  <2>1. Clear(sent, Space, q + 1, i - 1)
      BY <1>2, <1>3
  <2>2. sent[i] \notin {"&"} \cup Space
      OBVIOUS
  <2> HIDE DEF i
  <2> QED
      BY <1>1, <1>3, <2>1, <2>2, InTargetStill
<1>5. Clear(sent, Space, q + 1, i)
  <2>1. q + 1 \in Int /\ Looked \in Int /\ sent[Looked + 1] \notin Space
      BY <1>1, <1>2
  <2> QED
      BY <2>1, <1>2, ClearMore
<1>6. PiecesOf(sent)[i - q] = PiecesOf(sent)[Looked - q]
    BY <1>3, <1>4
<1>7. ASSUME NEW ps, NEW C, FrontHolds(sent, Looked, ps, C)
      PROVE  FrontHolds(sent, i, ps, C)
  <2> HIDE DEF i
  <2> QED
      BY <1>6, <1>7 DEF FrontHolds
<1> QED
    BY <1>5, <1>7

\* The reader goes on in a parameter.
LEMMA ParameterGoesOn ==
    ASSUME ReadInv, ~torn, pc \in InParameter, UNCHANGED <<sent, path, parameters, headers, cuts>>,
           (pc \in {"firstOfName", "name"} /\ pc' = "name") \/ (pc \in {"firstOfValue", "value"} /\ pc' = "value"),
           currentPos' \in {currentPos, currentPos + 1},
           \/ /\ Looked' = Looked + 1 /\ Looked' = currentPos'
              /\ Looked + 1 <= Len(sent)
              /\ pc' = "name" => sent[Looked + 1] \notin {"=", "&"} \cup Space
              /\ pc' = "value" => sent[Looked + 1] \notin {"&"} \cup Space
           \/ /\ Looked' = Looked
              /\ Looked = parameters[Len(parameters)][IF pc' = "name" THEN 1 ELSE 2]
    PROVE  MethodRead' /\ HeadersRead' /\ ParameterRead'
<1> DEFINE last == parameters[Len(parameters)]
           d == last[1]
           v == last[2]
           q == QueryAt(sent)
<1>1. pc \in InTarget \ {"path"} /\ pc' \in InTarget \ {"path"} /\ pc' \in InParameter
    BY DEF InTarget, InParameter
<1>2. MethodRead' /\ HeadersRead'
    BY <1>1, QueryStays
<1>3. q \in Nat /\ path < q /\ sent[q] = "?" /\ currentPos \in Nat
    BY <1>1, QueryPlace, ReadFacts
<1>4. /\ parameters # <<>> /\ last \in Int \X Int
      /\ q <= d /\ d <= Looked /\ d \in Nat \ {0} /\ Looked \in Nat
      /\ d = q \/ sent[d] = "&"
      /\ Clear(sent, Space, q + 1, Looked)
      /\ PathHolds(sent, path, cuts)
      /\ FrontHolds(sent, Looked, parameters, cuts)
      /\ pc \in {"firstOfName", "name"} => NameRead(sent, pc, currentPos, Looked, d, v, cuts)
      /\ pc \in {"firstOfValue", "value"} => ValueRead(sent, pc, currentPos, Looked, d, v, cuts)
    BY InParameterIs
<1>5. d \in Int /\ v \in Int /\ Looked' \in Nat /\ d <= Looked'
    BY <1>4
<1> HIDE DEF last
<1>6. Clear(sent, Space, q + 1, Looked') /\ FrontHolds(sent, Looked', parameters, cuts)
  <2>1. CASE Looked' = Looked
      BY <1>4, <2>1
  <2>2. CASE Looked' = Looked + 1 /\ Looked + 1 <= Len(sent) /\ sent[Looked + 1] \notin {"&"} \cup Space
      BY <1>4, <2>2, LookOn
  <2>3. pc' \in {"name", "value"}
      OBVIOUS
  <2> QED
      BY <2>1, <2>2, <2>3
<1>7. pc' = "name" => NameRead(sent, pc', currentPos', Looked', d, v, cuts)
  <2> SUFFICES ASSUME pc' = "name" PROVE NameRead(sent, pc', currentPos', Looked', d, v, cuts)
      OBVIOUS
  <2>1. NameRead(sent, pc, currentPos, Looked, d, v, cuts)
      BY <1>4
  <2>2. v = NoString /\ Clear(sent, {"=", "&"}, d + 1, Looked) /\ \A c \in cuts : c < d
      BY <2>1 DEF NameRead
  <2>3. Clear(sent, {"=", "&"}, d + 1, Looked')
    <3>1. CASE Looked' = Looked
        BY <2>2, <3>1
    <3>2. CASE Looked' = Looked + 1 /\ sent[Looked + 1] \notin {"=", "&"} \cup Space
      <4>1. sent[Looked + 1] \notin {"=", "&"} /\ d + 1 \in Int /\ Looked \in Int
          BY <3>2, <1>4, <1>5
      <4> QED
          BY <2>2, <3>2, <4>1, ClearMore
    <3> QED
        BY <3>1, <3>2
  <2>4. Looked' = currentPos' \/ Looked' = d
      BY DEF last
  <2> QED
      BY <2>2, <2>3, <2>4 DEF NameRead
<1>8. pc' = "value" => ValueRead(sent, pc', currentPos', Looked', d, v, cuts)
  <2> SUFFICES ASSUME pc' = "value" PROVE ValueRead(sent, pc', currentPos', Looked', d, v, cuts)
      OBVIOUS
  <2>1. ValueRead(sent, pc, currentPos, Looked, d, v, cuts)
      BY <1>4
  <2>2. /\ d < v /\ v <= Looked /\ sent[v] = "="
        /\ Clear(sent, {"=", "&"}, d + 1, v - 1) /\ Clear(sent, {"&"}, v + 1, Looked)
        /\ FirstCut(d, v - 1, cuts)
        /\ \A c \in cuts : c < v
      BY <2>1 DEF ValueRead
  <2>3. Clear(sent, {"&"}, v + 1, Looked')
    <3>1. CASE Looked' = Looked
        BY <2>2, <3>1
    <3>2. CASE Looked' = Looked + 1 /\ sent[Looked + 1] \notin {"&"} \cup Space
      <4>1. sent[Looked + 1] \notin {"&"} /\ v + 1 \in Int /\ Looked \in Int
          BY <3>2, <1>4, <1>5
      <4> QED
          BY <2>2, <3>2, <4>1, ClearMore
    <3> QED
        BY <3>1, <3>2
  <2>4. Looked' = currentPos' \/ Looked' = v
      BY DEF last
  <2>5. v <= Looked'
      BY <1>4, <1>5, <2>2
  <2> QED
      BY <2>2, <2>3, <2>4, <2>5 DEF ValueRead
<1>9. ParameterRead'
  <2>1. sent' = sent /\ path' = path /\ parameters' = parameters /\ cuts' = cuts /\ pc' \in {"name", "value"}
        /\ last = parameters[Len(parameters)]
      BY DEF last
  <2> QED
      BY <1>3, <1>4, <1>5, <1>6, <1>7, <1>8, <2>1 DEF ParameterRead
<1> QED
    BY <1>2, <1>9

-----------------------------------------------------------------------------
\* The last parameter says what the last piece does.
LEMMA SpellsLast ==
    ASSUME NEW S, NEW xs \in Seq(S), NEW s \in S, NEW t, NEW ps, NEW C, Len(ps) - 1 = Len(xs), Len(ps) \in Nat,
           Spells(t, ps, xs, C), Says(t, ps[Len(ps)], s, C)
    PROVE  Len(ps) = Len(Append(xs, s)) /\ Spells(t, ps, Append(xs, s), C)
<1>1. /\ Len(Append(xs, s)) = Len(xs) + 1 /\ Len(xs) \in Nat
      /\ DOMAIN xs = 1 .. Len(xs) /\ DOMAIN Append(xs, s) = 1 .. Len(xs) + 1
      /\ \A k \in 1 .. Len(xs) : Append(xs, s)[k] = xs[k]
      /\ Append(xs, s)[Len(xs) + 1] = s
    BY AppendProperties, LenProperties
<1>2. Len(ps) = Len(xs) + 1
    BY <1>1
<1>3. ASSUME NEW k \in DOMAIN Append(xs, s)
      PROVE  Says(t, ps[k], Append(xs, s)[k], C)
  <2>1. CASE k \in 1 .. Len(xs)
      BY <1>1, <2>1 DEF Spells
  <2>2. CASE k = Len(xs) + 1
      BY <1>1, <1>2, <2>2
  <2> QED
      BY <1>1, <2>1, <2>2
<1> QED
    BY <1>1, <1>2, <1>3 DEF Spells

\* A parameter without a value, and one with a value.
LEMMA SaysName ==
    ASSUME NEW t, NEW x, NEW s, NEW n, NEW C, NameAndValue(s) = <<n, <<>>>>,
           x[2] = NoString, Holds(t, x[1], n, C)
    PROVE  Says(t, x, s, C)
<1>1. NameAndValue(s)[1] = n /\ NameAndValue(s)[2] = <<>>
    OBVIOUS
<1> QED
    BY <1>1, Zenon DEF Says

\* The same for a value.
LEMMA SaysNameAndValue ==
    ASSUME NEW t, NEW x, NEW s, NEW n, NEW v, NEW C, NameAndValue(s) = <<n, v>>,
           x[2] # NoString, Holds(t, x[1], n, C), Holds(t, x[2], v, C)
    PROVE  Says(t, x, s, C)
<1>1. NameAndValue(s)[1] = n /\ NameAndValue(s)[2] = v
    OBVIOUS
<1> QED
    BY <1>1, Zenon DEF Says

\* The last parameter, where it ends.
LEMMA LastSays ==
    ASSUME ReadInv, ~torn, pc \in InParameter, currentPos < bufferEnd
    PROVE  LET last == parameters[Len(parameters)]
           IN  /\ Says(sent, last, SubSeq(sent, last[1] + 1, currentPos), cuts \cup {currentPos})
               /\ Clear(sent, {"&"}, last[1] + 1, currentPos)
<1> DEFINE last == parameters[Len(parameters)]
           d == last[1]
           v == last[2]
           i == currentPos + 1
           C == cuts \cup {currentPos}
<1>1. /\ currentPos \in Nat /\ bufferEnd \in Nat /\ sent \in Seq(Chars) /\ Len(sent) \in Nat /\ bufferEnd <= Len(sent)
      /\ cuts \subseteq Int /\ \A c \in cuts : c < currentPos
  <2>1. pc # "done"
      BY DEF InParameter
  <2> QED
      BY <2>1, ReadFacts
<1>2. Looked = currentPos
    BY <1>1 DEF Looked
<1>3. /\ last \in Int \X Int /\ d \in Nat \ {0} /\ d <= currentPos
      /\ pc \in {"firstOfName", "name"} => NameRead(sent, pc, currentPos, Looked, d, v, cuts)
      /\ pc \in {"firstOfValue", "value"} => ValueRead(sent, pc, currentPos, Looked, d, v, cuts)
    BY <1>2, InParameterIs
<1>4. i - 1 = currentPos /\ i \in d + 1 .. Len(sent) + 1 /\ v \in Int
    BY <1>1, <1>3
<1> HIDE DEF last, i
<1>5. CASE pc \in {"firstOfName", "name"}
  <2>1. NameRead(sent, pc, currentPos, Looked, d, v, cuts)
      BY <1>3, <1>5
  <2>2. v = NoString /\ Clear(sent, {"=", "&"}, d + 1, currentPos) /\ \A c \in cuts : c < d
      BY <1>2, <2>1 DEF NameRead
  <2>3. Clear(sent, {"="}, d + 1, i - 1) /\ Clear(sent, {"&"}, d + 1, currentPos)
      BY <1>4, <2>2 DEF Clear
  <2>4. NameAndValue(SubSeq(sent, d + 1, currentPos)) = <<SubSeq(sent, d + 1, currentPos), <<>>>>
      BY <1>1, <1>3, <1>4, <2>3, NameOnly
  <2>5. Holds(sent, d, SubSeq(sent, d + 1, currentPos), C)
    <3>1. currentPos \in Int /\ d \in Nat /\ d <= currentPos
        BY <1>1, <1>3
    <3> HIDE DEF d
    <3> QED
        BY <2>2, <3>1, CutHolds
  <2>6. Says(sent, last, SubSeq(sent, d + 1, currentPos), C)
      BY <2>2, <2>4, <2>5, SaysName
  <2> QED
      BY <2>3, <2>6 DEF last
<1>6. CASE pc \in {"firstOfValue", "value"}
  <2>1. ValueRead(sent, pc, currentPos, Looked, d, v, cuts)
      BY <1>3, <1>6
  <2>2. /\ d < v /\ v <= currentPos /\ sent[v] = "="
        /\ Clear(sent, {"=", "&"}, d + 1, v - 1) /\ Clear(sent, {"&"}, v + 1, currentPos)
        /\ FirstCut(d, v - 1, cuts)
        /\ \A c \in cuts : c < v
      BY <1>2, <2>1 DEF ValueRead
  <2>3. Clear(sent, {"="}, d + 1, v - 1) /\ v \in d + 1 .. i - 1
      BY <1>3, <1>4, <2>2 DEF Clear
  <2>4. Clear(sent, {"&"}, d + 1, currentPos)
    <3> SUFFICES ASSUME NEW j \in d + 1 .. currentPos PROVE sent[j] \notin {"&"}
        BY DEF Clear
    <3>1. j \in d + 1 .. v - 1 \/ j = v \/ j \in v + 1 .. currentPos
        BY <1>1, <1>3, <1>4, <2>2
    <3> QED
        BY <2>2, <3>1 DEF Clear
  <2>5. NameAndValue(SubSeq(sent, d + 1, currentPos)) = <<SubSeq(sent, d + 1, v - 1), SubSeq(sent, v + 1, currentPos)>>
      BY <1>1, <1>3, <1>4, <2>2, <2>3, NameThenValue
  <2>6. Holds(sent, v, SubSeq(sent, v + 1, currentPos), C)
    <3>1. currentPos \in Int /\ v \in Nat /\ v <= currentPos
        BY <1>1, <1>3, <1>4, <2>2
    <3> HIDE DEF v
    <3> QED
        BY <2>2, <3>1, CutHolds
  <2>7. Holds(sent, d, SubSeq(sent, d + 1, v - 1), C)
    <3>0. currentPos \in Int
        BY <1>1
    <3>1. FirstCut(d, v - 1, C)
        BY <1>1, <2>2, <3>0, FirstCutMore
    <3>2. v - 1 \in C
        BY <3>1 DEF FirstCut
    <3> QED
        BY <3>1, <3>2 DEF Holds
  <2>8. v # NoString
      BY <1>3, <1>4, <2>2 DEF NoString
  <2>9. Says(sent, last, SubSeq(sent, d + 1, currentPos), C)
      BY <2>5, <2>6, <2>7, <2>8, SaysNameAndValue
  <2> QED
      BY <2>4, <2>9 DEF last
<1> QED
    BY <1>5, <1>6 DEF InParameter

\* A parameter ends: the pieces up to here are all in the parameters.
LEMMA ParameterEnds ==
    ASSUME ReadInv, ~torn, pc \in InParameter, currentPos < bufferEnd,
           sent[currentPos + 1] \in {"&"} \cup Space
    PROVE  LET C == cuts \cup {currentPos} q == QueryAt(sent)
           IN  /\ path < q /\ q <= currentPos + 1 /\ sent[q] = "?"
               /\ Clear(sent, Space, q + 1, currentPos)
               /\ PathHolds(sent, path, C)
               /\ ParametersHold(sent, currentPos + 1, parameters, C)
<1> DEFINE last == parameters[Len(parameters)]
           d == last[1]
           i == currentPos + 1
           q == QueryAt(sent)
           C == cuts \cup {currentPos}
<1>1. /\ currentPos \in Nat /\ bufferEnd \in Nat /\ sent \in Seq(Chars) /\ Len(sent) \in Nat /\ bufferEnd <= Len(sent)
      /\ cuts \subseteq Int /\ \A c \in cuts : c < currentPos
  <2>1. pc # "done"
      BY DEF InParameter
  <2> QED
      BY <2>1, ReadFacts
<1>2. Looked = currentPos
    BY <1>1 DEF Looked
<1>3. q \in Nat /\ path < q /\ Target(sent) <= q /\ sent[q] = "?"
  <2>1. pc \in InTarget \ {"path"}
      BY DEF InParameter, InTarget
  <2> QED
      BY <2>1, QueryPlace
<1>4. /\ Len(parameters) \in Nat
      /\ q <= d /\ d <= currentPos /\ d \in Nat /\ (d = q \/ sent[d] = "&")
      /\ Clear(sent, Space, q + 1, currentPos)
      /\ PathHolds(sent, path, cuts) /\ FrontHolds(sent, currentPos, parameters, cuts)
    BY <1>2, InParameterIs
<1>5. PathHolds(sent, path, C) /\ FrontHolds(sent, currentPos, parameters, C)
  <2>1. currentPos \in Int
      BY <1>1
  <2> QED
      BY <1>1, <1>4, <2>1, TargetMore
<1>6. Says(sent, last, SubSeq(sent, d + 1, currentPos), C) /\ Clear(sent, {"&"}, d + 1, currentPos)
    BY LastSays
<1>7. i - 1 = currentPos /\ i \in Nat /\ i <= Len(sent) /\ q < i /\ d \in q .. i - 1 /\ i - 1 - q = currentPos - q
    BY <1>1, <1>3, <1>4
<1> HIDE DEF last, i, q
<1>8. /\ i \in q + 1 .. TargetEnd(sent)
      /\ i = TargetEnd(sent) \/ sent[i] = "&"
  <2>1. Clear(sent, Space, q + 1, i - 1) /\ sent[i] \in {"&"} \cup Space
      BY <1>4, <1>7 DEF i
  <2>2. /\ sent[i] \in Space => TargetEnd(sent) = i
        /\ i \in q + 1 .. TargetEnd(sent)
      BY <1>1, <1>3, <1>7, <2>1, InTargetStill DEF q
  <2> QED
      BY <2>1, <2>2
<1> DEFINE xs == PiecesOf(sent)[currentPos - q]
           s == SubSeq(sent, d + 1, currentPos)
<1>9. PiecesOf(sent)[i - q] = Append(xs, s)
  <2>1. Clear(sent, {"&"}, d + 1, i - 1)
      BY <1>6, <1>7
  <2>2. PiecesOf(sent)[i - q] = Append(PiecesOf(sent)[i - 1 - q], SubSeq(sent, d + 1, i - 1))
    <3> HIDE DEF d
    <3> QED
        BY <1>1, <1>4, <1>7, <1>8, <2>1, PieceEnds DEF q
  <2> QED
      BY <1>7, <2>2
<1>10. xs \in Seq(Seq(Chars)) /\ s \in Seq(Chars)
  <2>1. TargetEnd(sent) \in Nat
      BY <1>1, TargetFacts
  <2>2. currentPos \in q .. TargetEnd(sent) /\ q < TargetEnd(sent)
      BY <1>1, <1>3, <1>7, <1>8, <2>1
  <2>3. xs \in Seq(Seq(Chars))
      BY <1>1, <2>2, PiecesTyped DEF q
  <2>4. d + 1 \in Nat \ {0} /\ currentPos \in Int /\ currentPos <= Len(sent)
      BY <1>1, <1>4
  <2> QED
      BY <1>1, <2>3, <2>4, PartType
<1>11. Len(parameters) - 1 = Len(xs) /\ Spells(sent, parameters, xs, C)
    BY <1>5 DEF FrontHolds, q
<1>12. Len(parameters) = Len(Append(xs, s)) /\ Spells(sent, parameters, Append(xs, s), C)
  <2> HIDE DEF xs, s, d, C
  <2>1. Says(sent, parameters[Len(parameters)], s, C)
      BY <1>6 DEF last, s, C, d
  <2> QED
      BY <1>4, <1>10, <1>11, <2>1, SpellsLast
<1>13. ParametersHold(sent, i, parameters, C)
    BY <1>9, <1>12 DEF ParametersHold, q
<1>14. q <= currentPos + 1
    BY <1>1, <1>3, <1>7 DEF i, q
<1> QED
    BY <1>3, <1>4, <1>5, <1>13, <1>14 DEF i, q

-----------------------------------------------------------------------------
\* The reader leaves a parameter.
LEMMA ParameterEndsParses ==
    ASSUME ReadInv, ~torn, pc \in InParameter, returned = "none", currentChar \in {"&"} \cup Space,
           pc' = "query",
           UNCHANGED <<sent, bufferEnd, torn, currentPos, cuts, path, parameters, headers, returned>>
    PROVE  ParseInv'
<1>1. /\ pc # "done" /\ pc \in InTarget \ {"path"} /\ pc \in Places
    BY DEF InParameter, InTarget, Places
<1>2. currentPos < bufferEnd
  <2>1. currentChar # Zero
      BY NotSpace DEF Zero
  <2> QED
      BY <2>1, ByteReceived DEF ReadInv
<1>3. currentChar = sent[currentPos + 1]
    BY <1>1, <1>2, HereIs
<1>4. QueryRead'
  <2> DEFINE C == cuts \cup {currentPos}
             q == QueryAt(sent)
  <2>1. /\ path < q /\ q <= currentPos + 1 /\ sent[q] = "?"
        /\ Clear(sent, Space, q + 1, currentPos)
        /\ PathHolds(sent, path, C)
        /\ ParametersHold(sent, currentPos + 1, parameters, C)
      BY <1>2, <1>3, ParameterEnds
  <2>2. sent[currentPos + 1] \in {"&"} \cup Space
      BY <1>3
  <2> QED
      BY <2>1, <2>2 DEF QueryRead
<1>5. MethodRead' /\ HeadersRead'
    BY <1>1, QueryStays DEF InTarget
<1>6. currentPos <= bufferEnd
    BY <1>2, ReadFacts
<1>7. PositionInv'
    BY <1>1, <1>6, PositionStep
<1>8. PathRead' /\ ParameterRead' /\ TargetRead' /\ ProtocolRead' /\ LineRead' /\ Answered'
    BY Elsewhere DEF InLine, Behind, InTarget, InParameter
<1> QED
    BY <1>4, <1>5, <1>7, <1>8 DEF ParseInv

\* The reader goes on to the next character of a parameter, or over the '\0' it has
\* taken for its first one.
LEMMA ParameterGoesOnParses ==
    ASSUME ReadInv, ~torn, pc \in InParameter, returned = "none",
           pc \in {"name", "value"} => currentPos < bufferEnd,
           (pc \in {"firstOfName", "name"} /\ pc' = "name") \/ (pc \in {"firstOfValue", "value"} /\ pc' = "value"),
           pc' = "name" => currentChar \notin {"=", "&"} \cup Space,
           pc' = "value" => currentChar \notin {"&"} \cup Space,
           currentPos' = currentPos + 1,
           UNCHANGED <<sent, bufferEnd, torn, cuts, path, parameters, headers, returned>>
    PROVE  ParseInv'
<1>1. /\ pc # "done" /\ pc' \notin {"path", "query", "done"} /\ pc' \notin InLine /\ pc' \notin Behind
    BY DEF InParameter, InTarget, InLine, Behind
<1>2. /\ currentPos \in Nat /\ bufferEnd \in Nat /\ bufferEnd <= Len(sent) /\ Len(sent) \in Nat /\ currentPos <= bufferEnd
      /\ currentPos <= bufferEnd \/ pc \in {"name", "value"}
    BY <1>1, ReadFacts
<1>3. MethodRead' /\ HeadersRead' /\ ParameterRead'
  <2>1. CASE currentPos < bufferEnd
    <3>1. currentChar = sent[currentPos + 1]
        BY <1>1, <2>1, HereIs
    <3>2. Looked = currentPos /\ Looked' = currentPos + 1 /\ Looked + 1 <= Len(sent)
        BY <1>2, <2>1 DEF Looked
    <3>3. /\ Looked' = Looked + 1 /\ Looked' = currentPos' /\ Looked + 1 <= Len(sent)
          /\ pc' = "name" => sent[Looked + 1] \notin {"=", "&"} \cup Space
          /\ pc' = "value" => sent[Looked + 1] \notin {"&"} \cup Space
        BY <3>1, <3>2
    <3> QED
        BY <3>3, ParameterGoesOn
  <2>2. CASE currentPos = bufferEnd
    <3> DEFINE last == parameters[Len(parameters)]
    <3>1. Looked = currentPos /\ Looked' = currentPos
        BY <1>2, <2>2 DEF Looked
    <3>2. pc \in {"firstOfName", "firstOfValue"}
        BY <1>2, <2>2 DEF InParameter
    <3>3. /\ pc \in {"firstOfName", "name"} => NameRead(sent, pc, currentPos, Looked, last[1], last[2], cuts)
          /\ pc \in {"firstOfValue", "value"} => ValueRead(sent, pc, currentPos, Looked, last[1], last[2], cuts)
        BY InParameterIs
    <3>4. /\ pc = "firstOfName" => last[1] = currentPos
          /\ pc = "firstOfValue" => last[2] = currentPos
        BY <3>3 DEF NameRead, ValueRead
    <3>5. Looked = parameters[Len(parameters)][IF pc' = "name" THEN 1 ELSE 2]
        BY <3>1, <3>2, <3>4
    <3>6. Looked' = Looked
        BY <3>1
    <3> QED
        BY <3>5, <3>6, ParameterGoesOn
  <2> QED
      BY <1>2, <2>1, <2>2
<1>4. PositionInv'
    BY <1>1, <1>2, PositionStep
<1>5. PathRead' /\ QueryRead' /\ TargetRead' /\ ProtocolRead' /\ LineRead' /\ Answered'
    BY <1>1, Elsewhere
<1> QED
    BY <1>3, <1>4, <1>5 DEF ParseInv

\* A value starts.
LEMMA ValueStartsParses ==
    ASSUME ReadInv, ~torn, pc \in {"firstOfName", "name"}, returned = "none", currentChar = "=",
           pc' = "firstOfValue", cuts' = cuts \cup {currentPos}, currentPos' = currentPos + 1,
           parameters' = [parameters EXCEPT ![Len(parameters)][2] = currentPos + 1],
           UNCHANGED <<sent, bufferEnd, torn, path, headers, returned>>
    PROVE  ParseInv'
<1> DEFINE last == parameters[Len(parameters)]
           d == last[1]
           v == currentPos + 1
           q == QueryAt(sent)
           C == cuts \cup {currentPos}
<1>1. pc # "done" /\ pc \in InParameter /\ pc \in InTarget \ {"path"}
    BY DEF InParameter, InTarget
<1>2. currentPos < bufferEnd
    BY ByteReceived DEF ReadInv, Zero
<1>3. sent[v] = "="
    BY <1>1, <1>2, HereIs
<1>4. /\ currentPos \in Nat /\ currentPos \in Int /\ bufferEnd \in Nat /\ sent \in Seq(Chars) /\ Len(sent) \in Nat
      /\ bufferEnd <= Len(sent) /\ cuts \subseteq Int /\ \A c \in cuts : c < currentPos
      /\ parameters \in Seq(Int \X Int)
    BY <1>1, ReadFacts
<1>5. Looked = currentPos /\ Looked' = v /\ v \in Nat /\ v <= Len(sent) /\ v - 1 = currentPos
    BY <1>2, <1>4 DEF Looked
<1>6. /\ parameters # <<>> /\ Len(parameters) \in Nat \ {0} /\ DOMAIN parameters = 1 .. Len(parameters)
      /\ last \in Int \X Int
      /\ q <= d /\ d <= currentPos /\ d \in Nat \ {0} /\ (d = q \/ sent[d] = "&")
      /\ PathHolds(sent, path, cuts) /\ FrontHolds(sent, currentPos, parameters, cuts)
      /\ NameRead(sent, pc, currentPos, currentPos, d, last[2], cuts)
    BY <1>1, <1>5, InParameterIs
<1>7. q \in Nat /\ path < q /\ sent[q] = "?"
    BY <1>1, QueryPlace
<1>8. Clear(sent, {"=", "&"}, d + 1, currentPos) /\ \A c \in cuts : c < d
    BY <1>6 DEF NameRead
<1>9. /\ Clear(sent, Space, q + 1, v)
      /\ FrontHolds(sent, v, parameters, cuts)
  <2>1. Looked + 1 = v /\ sent[Looked + 1] \notin {"&"} \cup Space
      BY <1>3, <1>5, NotSpace
  <2> QED
      BY <1>1, <1>5, <1>6, <2>1, LookOn
<1>10. PathHolds(sent, path, C) /\ FrontHolds(sent, v, parameters, C)
    BY <1>4, <1>6, <1>9, TargetMore
<1>11. /\ Len(parameters') = Len(parameters)
       /\ parameters'[Len(parameters)] = <<d, v>>
       /\ \A k \in 1 .. Len(parameters) - 1 : parameters'[k] = parameters[k]
  <2> DEFINE n == Len(parameters)
             x == [last EXCEPT ![2] = v]
  <2>1. parameters' = [parameters EXCEPT ![n] = x]
      OBVIOUS
  <2>2. x = <<d, v>> /\ x \in Int \X Int
      BY <1>4, <1>6
  <2> HIDE DEF x
  <2>3. /\ Len(parameters') = n /\ parameters'[n] = x
        /\ \A k \in 1 .. n - 1 : parameters'[k] = parameters[k]
      BY <1>4, <1>6, <2>1, <2>2, ExceptSeq
  <2> QED
      BY <2>2, <2>3
<1>12. FrontHolds(sent, v, parameters', C)
  <2> DEFINE xs == PiecesOf(sent)[v - q]
  <2>1. Len(parameters) - 1 = Len(xs) /\ Spells(sent, parameters, xs, C)
      BY <1>10 DEF FrontHolds
  <2>2. DOMAIN xs = 1 .. Len(parameters) - 1
    <3>1. Target(sent) <= q
        BY <1>1, QueryPlace
    <3>2. TargetEnd(sent) \in Nat
        BY <1>4, TargetFacts
    <3>3. v \in q + 1 .. TargetEnd(sent)
      <4>1. q < v /\ Clear(sent, Space, q + 1, v - 1)
        <5>1. Clear(sent, Space, QueryAt(sent) + 1, Looked)
            BY <1>1, InParameterIs
        <5> QED
            BY <1>4, <1>5, <1>6, <1>7, <5>1
      <4> HIDE DEF v
      <4> QED
          BY <1>4, <1>5, <1>7, <3>1, <4>1, InTargetStill
    <3>4. v \in q .. TargetEnd(sent) /\ q < TargetEnd(sent)
        BY <1>7, <3>2, <3>3
    <3>5. xs \in Seq(Seq(Chars))
      <4> HIDE DEF v
      <4> QED
          BY <1>4, <3>4, PiecesTyped
    <3> QED
        BY <2>1, <3>5, LenProperties
  <2>3. \A k \in DOMAIN xs : parameters'[k] = parameters[k]
      BY <1>11, <2>2
  <2> HIDE DEF xs, C
  <2>4. Spells(sent, parameters', xs, C)
      BY <2>1, <2>3, SpellsFront
  <2>5. Len(parameters') - 1 = Len(xs)
      BY <1>11, <2>1
  <2> QED
      BY <2>4, <2>5 DEF FrontHolds, xs
<1>13. ValueRead(sent, "firstOfValue", v, v, d, v, C)
  <2>1. d < v /\ Clear(sent, {"=", "&"}, d + 1, v - 1) /\ Clear(sent, {"&"}, v + 1, v)
      BY <1>4, <1>5, <1>6, <1>8 DEF Clear
  <2>2. FirstCut(d, v - 1, C)
    <3>1. d \in Nat /\ d <= currentPos
        BY <1>6
    <3> HIDE DEF d
    <3>2. FirstCut(d, currentPos, C)
        BY <1>4, <1>8, <3>1, CutEnds
    <3> QED
        BY <1>5, <3>2
  <2>3. \A c \in C : c < v
      BY <1>4
  <2> HIDE DEF v, C
  <2> QED
      BY <1>3, <1>5, <2>1, <2>2, <2>3 DEF ValueRead
<1>14. ParameterRead'
  <2> DEFINE now == parameters'[Len(parameters')]
  <2>0. parameters' # <<>>
    <3>1. Len(parameters') # 0
        BY <1>6, <1>11
    <3> QED
        BY <3>1
  <2>1. now[1] = d /\ now[2] = v
      BY <1>11
  <2>2. path' < q /\ q <= d /\ d <= v /\ sent'[q] = "?" /\ QueryAt(sent') = q
      BY <1>4, <1>6, <1>7
  <2>3. (d = q \/ sent'[d] = "&") /\ Clear(sent', Space, q + 1, v)
      BY <1>6, <1>9
  <2>4. PathHolds(sent', path', cuts') /\ FrontHolds(sent', v, parameters', cuts')
      BY <1>10, <1>12
  <2>5. pc' = "firstOfValue" /\ ValueRead(sent', pc', currentPos', v, d, v, cuts')
      BY <1>13
  <2>6. Looked' = v
      BY <1>5
  <2> HIDE DEF d, C, q, v, now
  <2>7. now = parameters'[Len(parameters')]
      BY DEF now
  <2> QED
      BY <2>0, <2>1, <2>2, <2>3, <2>4, <2>5, <2>6, <2>7 DEF ParameterRead
<1>15. MethodRead' /\ HeadersRead'
    BY <1>1, QueryStays DEF InTarget
<1>16. PositionInv'
    BY <1>1, <1>2, <1>4, PositionStep
<1>17. PathRead' /\ QueryRead' /\ TargetRead' /\ ProtocolRead' /\ LineRead' /\ Answered'
    BY Elsewhere DEF InLine, Behind, InTarget
<1> QED
    BY <1>14, <1>15, <1>16, <1>17 DEF ParseInv

-----------------------------------------------------------------------------
\* The steps in the query.
LEMMA ReadQueryParses ==
    ASSUME ReadInv, ~torn, ReadQuery \/ ReadQueryName \/ ReadQueryValue
    PROVE  ParseInv'
<1>1. CASE ReadQuery
    BY <1>1, QueryEndsParses, ParameterStartsParses
<1>2. CASE ReadQueryName
  <2>1. pc \in {"firstOfName", "name"} /\ pc \in InParameter /\ returned = "none"
      BY <1>2, ByteIsThere DEF ReadQueryName, Places, InParameter
  <2>2. pc = "name" => currentPos < bufferEnd
    <3>1. pc = "name" => At("name")
        BY <1>2 DEF ReadQueryName, At
    <3> QED
        BY <3>1, ByteIsThere DEF Places
  <2>3. UNCHANGED <<sent, bufferEnd, torn, path, headers, returned>>
      BY <1>2 DEF ReadQueryName, received
  <2>4. CASE currentChar \notin {"=", "&"} \cup Space
    <3>1. pc' = "name" /\ currentPos' = currentPos + 1 /\ UNCHANGED <<cuts, parameters>>
        BY <1>2, <2>4, NotSpace DEF ReadQueryName, NextChar
    <3> QED
        BY <2>1, <2>2, <2>3, <2>4, <3>1, ParameterGoesOnParses
  <2>5. CASE currentChar \in {"&"} \cup Space
    <3>1. pc' = "query" /\ UNCHANGED <<currentPos, cuts, parameters>>
        BY <1>2, <2>5, NotSpace DEF ReadQueryName
    <3> QED
        BY <2>1, <2>3, <2>5, <3>1, ParameterEndsParses
  <2>6. CASE currentChar = "="
    <3>1. /\ pc' = "firstOfValue" /\ cuts' = cuts \cup {currentPos} /\ currentPos' = currentPos + 1
          /\ parameters' = [parameters EXCEPT ![Len(parameters)][2] = currentPos + 1]
        BY <1>2, <2>6, NotSpace DEF ReadQueryName
    <3> QED
        BY <2>1, <2>3, <2>6, <3>1, ValueStartsParses
  <2> QED
      BY <2>4, <2>5, <2>6
<1>3. CASE ReadQueryValue
  <2>1. pc \in {"firstOfValue", "value"} /\ pc \in InParameter /\ returned = "none"
      BY <1>3, ByteIsThere DEF ReadQueryValue, Places, InParameter
  <2>2. pc = "value" => currentPos < bufferEnd
    <3>1. pc = "value" => At("value")
        BY <1>3 DEF ReadQueryValue, At
    <3> QED
        BY <3>1, ByteIsThere DEF Places
  <2>3. UNCHANGED <<sent, bufferEnd, torn, cuts, path, parameters, headers, returned>>
      BY <1>3 DEF ReadQueryValue, received, strings
  <2>4. CASE currentChar \notin {"&"} \cup Space
    <3>1. pc' = "value" /\ currentPos' = currentPos + 1
        BY <1>3, <2>4, NotSpace DEF ReadQueryValue, NextChar
    <3> QED
        BY <2>1, <2>2, <2>3, <2>4, <3>1, ParameterGoesOnParses
  <2>5. CASE currentChar \in {"&"} \cup Space
    <3>1. pc' = "query" /\ UNCHANGED currentPos
        BY <1>3, <2>5, NotSpace DEF ReadQueryValue
    <3> QED
        BY <2>1, <2>3, <2>5, <3>1, ParameterEndsParses
  <2> QED
      BY <2>4, <2>5
<1> QED
    BY <1>1, <1>2, <1>3

-----------------------------------------------------------------------------
\* What stays true when only more bytes are there, or the reader throws.
LEMMA PlacesStay ==
    ASSUME UNCHANGED <<sent, currentPos, pc, cuts, strings, line, returned>>
    PROVE  /\ MethodRead => MethodRead'
           /\ PathRead => PathRead'
           /\ QueryRead => QueryRead'
           /\ ParameterRead /\ (pc \in InParameter => Looked' = Looked) => ParameterRead'
           /\ TargetRead => TargetRead'
           /\ ProtocolRead => ProtocolRead'
           /\ HeadersRead => HeadersRead'
           /\ LineRead => LineRead'
<1>1. UNCHANGED <<path, parameters, headers>>
    BY DEF strings
<1>2. MethodRead => MethodRead'
    BY <1>1 DEF MethodRead
<1>3. PathRead => PathRead'
    BY <1>1 DEF PathRead
<1>4. QueryRead => QueryRead'
    BY <1>1 DEF QueryRead
<1>5. ASSUME ParameterRead, pc \in InParameter => Looked' = Looked
      PROVE  ParameterRead'
    BY <1>1, <1>5 DEF ParameterRead
<1>6. TargetRead => TargetRead'
    BY <1>1 DEF TargetRead
<1>7. ProtocolRead => ProtocolRead'
    BY <1>1 DEF ProtocolRead
<1>8. HeadersRead => HeadersRead'
    BY <1>1 DEF HeadersRead
<1>9. LineRead => LineRead'
    BY <1>1 DEF LineRead
<1> QED
    BY <1>2, <1>3, <1>4, <1>5, <1>6, <1>7, <1>8, <1>9

\* More bytes: the character a '\0' was taken for is looked at now, and is none that
\* would have meant anything.
LEMMA ReceiveParses ==
    ASSUME ReadInv, NEW n \in Nat \ {0}, Receive(n)
    PROVE  ParseInv'
<1>1. /\ UNCHANGED <<sent, currentPos, pc, cuts, strings, line, returned>>
      /\ bufferEnd' = bufferEnd + n /\ bufferEnd + n <= Len(sent)
      /\ torn' = (torn \/ Tears(bufferEnd))
      /\ pc # "done" /\ pc \notin {"query", "firstOfName", "firstOfValue"}
      /\ pc # "body" => currentPos >= bufferEnd
    BY DEF Receive, MustReceive, Places
<1>2. /\ currentPos \in Nat /\ bufferEnd \in Nat /\ \A c \in cuts : c < currentPos
      /\ currentPos <= bufferEnd \/ pc \in {"name", "value", "done"}
      /\ currentPos <= bufferEnd + 1 /\ returned = "none" /\ sent \in Seq(Chars)
    BY <1>1, ReadFacts DEF ReadInv, InBuffer
<1>3. PositionInv'
  <2>1. currentPos' <= bufferEnd' \/ pc' \in {"name", "value", "done"}
      BY <1>1, <1>2
  <2>2. \A c \in cuts' : c < currentPos'
      BY <1>1, <1>2
  <2> QED
      BY <1>1, <2>1, <2>2 DEF PositionInv
<1>4. ASSUME ~torn'
      PROVE  /\ MethodRead' /\ PathRead' /\ QueryRead' /\ ParameterRead' /\ TargetRead' /\ ProtocolRead'
             /\ HeadersRead' /\ LineRead' /\ Answered'
  <2>1. ~torn /\ ~Tears(bufferEnd)
      BY <1>1, <1>4
  <2>2. /\ MethodRead /\ PathRead /\ QueryRead /\ ParameterRead /\ TargetRead /\ ProtocolRead
        /\ HeadersRead /\ LineRead
      BY <2>1 DEF ReadInv, ParseInv
  <2>3. Answered'
      BY <1>1, <1>2, Elsewhere
  <2>4. CASE pc \in InParameter /\ currentPos = bufferEnd + 1
    <3> DEFINE last == parameters[Len(parameters)]
    <3>1. pc \in {"name", "value"}
        BY <1>1, <2>4 DEF InParameter
    <3>2. Looked = bufferEnd /\ Looked' = bufferEnd + 1 /\ Looked' = currentPos'
        BY <1>1, <1>2, <2>4 DEF Looked
    <3>3. /\ pc = "name" => NameRead(sent, pc, currentPos, Looked, last[1], last[2], cuts)
          /\ pc = "value" => ValueRead(sent, pc, currentPos, Looked, last[1], last[2], cuts)
          /\ last[1] \in Nat \ {0} /\ last[2] \in Int
          /\ last[1] = QueryAt(sent) \/ sent[last[1]] = "&"
        BY <2>1, <2>4, InParameterIs
    <3>4. sent[QueryAt(sent)] = "?"
      <4>1. pc \in InTarget \ {"path"}
          BY <2>4 DEF InParameter, InTarget
      <4> QED
          BY <2>1, <4>1, QueryPlace
    <3>5. pc = "name" => sent[bufferEnd + 1] \notin {"=", "&"} \cup Space
      <4> SUFFICES ASSUME pc = "name" PROVE sent[bufferEnd + 1] \notin {"=", "&"} \cup Space
          OBVIOUS
      <4>1. NameRead(sent, pc, currentPos, Looked, last[1], last[2], cuts)
          BY <3>3
      <4>2. last[1] = bufferEnd
          BY <1>2, <2>4, <3>2, <4>1 DEF NameRead
      <4>3. bufferEnd > 0 /\ sent[bufferEnd] \in {"?", "&"}
          BY <3>3, <3>4, <4>2
      <4> QED
          BY <2>1, <4>3 DEF Tears, Delimiters
    <3>6. pc = "value" => sent[bufferEnd + 1] \notin {"&"} \cup Space
      <4> SUFFICES ASSUME pc = "value" PROVE sent[bufferEnd + 1] \notin {"&"} \cup Space
          OBVIOUS
      <4>1. ValueRead(sent, pc, currentPos, Looked, last[1], last[2], cuts)
          BY <3>3
      <4>2. last[2] = bufferEnd /\ sent[last[2]] = "=" /\ last[1] < last[2]
          BY <1>2, <2>4, <3>2, <4>1 DEF ValueRead
      <4>3. bufferEnd > 0 /\ sent[bufferEnd] = "="
          BY <3>3, <4>2
      <4> QED
          BY <2>1, <4>3 DEF Tears, Delimiters
    <3>7. /\ Looked' = Looked + 1 /\ Looked' = currentPos'
          /\ Looked + 1 <= Len(sent)
          /\ pc' = "name" => sent[Looked + 1] \notin {"=", "&"} \cup Space
          /\ pc' = "value" => sent[Looked + 1] \notin {"&"} \cup Space
      <4>1. bufferEnd + 1 <= Len(sent)
        <5>1. Len(sent) \in Nat
            BY ReadFacts
        <5> QED
            BY <1>1, <1>2, <5>1
      <4> QED
          BY <1>1, <3>2, <3>5, <3>6, <4>1
    <3>8. UNCHANGED <<path, parameters, headers>>
        BY <1>1 DEF strings
    <3>9. /\ currentPos' \in {currentPos, currentPos + 1}
          /\ (pc \in {"firstOfName", "name"} /\ pc' = "name") \/ (pc \in {"firstOfValue", "value"} /\ pc' = "value")
        BY <1>1, <3>1
    <3>10. ParameterRead'
        BY <1>1, <2>1, <2>4, <3>7, <3>8, <3>9, ParameterGoesOn
    <3> QED
        BY <1>1, <2>2, <2>3, <3>10, PlacesStay
  <2>5. CASE ~(pc \in InParameter /\ currentPos = bufferEnd + 1)
    <3>1. pc \in InParameter => Looked' = Looked
      <4>1. pc \in InParameter => currentPos = bufferEnd
          BY <1>1, <1>2, <2>5 DEF InParameter
      <4> QED
          BY <1>1, <1>2, <4>1 DEF Looked
    <3> QED
        BY <1>1, <2>2, <2>3, <3>1, PlacesStay
  <2> QED
      BY <2>4, <2>5
<1> QED
    BY <1>3, <1>4 DEF ParseInv

\* The steps with which the reader is done.
LEMMA DoneParses ==
    ASSUME PositionInv, pc' = "done", UNCHANGED <<sent, bufferEnd>>, ~torn' => Answered'
    PROVE  ParseInv'
<1>1. PositionInv'
    BY DEF PositionInv
<1>2. MethodRead' /\ HeadersRead'
    BY DEF MethodRead, HeadersRead, Places, InLine
<1>3. PathRead' /\ QueryRead' /\ ParameterRead' /\ TargetRead' /\ ProtocolRead' /\ LineRead'
    BY Elsewhere DEF InLine, Behind, Places, InParameter
<1> QED
    BY <1>1, <1>2, <1>3 DEF ParseInv

\* A read that fails.
LEMMA ThrowsParses ==
    ASSUME ReadInv, ReceiveThrows
    PROVE  ParseInv'
<1>1. pc' = "done" /\ returned' = "error" /\ UNCHANGED <<sent, bufferEnd>>
    BY DEF ReceiveThrows, Throw, received
<1>2. Answered'
    BY <1>1 DEF Answered
<1> QED
    BY <1>1, <1>2, DoneParses DEF ReadInv, ParseInv

\* Nothing happens.
LEMMA StutterParses ==
    ASSUME ReadInv, UNCHANGED vars
    PROVE  ParseInv'
<1>1. UNCHANGED <<sent, bufferEnd, torn, currentPos, pc, cuts, strings, line, returned, path, parameters, headers, body>>
    BY DEF vars, received, strings
<1>2. Looked' = Looked
    BY <1>1 DEF Looked
<1>3. PositionInv'
    BY <1>1 DEF ReadInv, ParseInv, PositionInv
<1>4. Answered => Answered'
  <2>1. RequestRead' = RequestRead
      BY <1>1 DEF RequestRead, StringAt, HeaderName, ByteAt
  <2> QED
      BY <1>1, <2>1 DEF Answered
<1> QED
    BY <1>1, <1>2, <1>3, <1>4, PlacesStay DEF ReadInv, ParseInv

-----------------------------------------------------------------------------
\* What is known behind the target, and stays.
LEMMA BehindIs ==
    ASSUME ReadInv, ~torn, pc \in Behind
    PROVE  /\ TargetEnd(sent) <= currentPos /\ TargetEnd(sent) \in Nat \ {0}
           /\ sent[1] \in Methods /\ pc \in Places /\ returned = "none"
<1>1. pc \in Places /\ pc \notin {"method", "done"}
    BY DEF Behind, Places
<1>2. sent[1] \in Methods
    BY <1>1 DEF ReadInv, ParseInv, MethodRead
<1>3. TargetRead
    BY DEF ReadInv, ParseInv
<1>4. path < QueryAt(sent) /\ TargetEnd(sent) <= currentPos
    BY <1>3 DEF TargetRead
<1>5. TargetEnd(sent) \in Nat \ {0}
  <2>1. path \in Nat /\ QueryAt(sent) \in Nat /\ TargetEnd(sent) \in Nat /\ QueryAt(sent) <= TargetEnd(sent)
      BY ReadFacts, TargetFacts
  <2> QED
      BY <1>4, <2>1
<1>6. returned = "none"
    BY <1>1, ReadFacts
<1> QED
    BY <1>1, <1>2, <1>4, <1>5, <1>6

\* The target stays what it is.
LEMMA TargetStays ==
    ASSUME ReadInv, ~torn, pc \in Behind, pc' \in Behind, UNCHANGED <<sent, path, parameters>>,
           currentPos' \in {currentPos, currentPos + 1},
           \/ UNCHANGED cuts
           \/ \E x \in Int : (\A c \in cuts : c < x) /\ cuts' = cuts \cup {x}
    PROVE  TargetRead' /\ MethodRead'
<1> DEFINE q == QueryAt(sent)
           e == TargetEnd(sent)
<1>1. currentPos \in Nat /\ cuts \subseteq Int /\ path \in Nat
    BY ReadFacts
<1>2. pc \notin {"method", "done"} /\ pc' \notin {"method", "done"}
    BY DEF Behind, Places
<1>3. /\ path < q /\ e <= currentPos /\ e \in Nat
      /\ PathHolds(sent, path, cuts)
      /\ IF q = e THEN parameters = <<>> ELSE ParametersHold(sent, e, parameters, cuts)
  <2>1. TargetRead
      BY DEF ReadInv, ParseInv
  <2> QED
      BY <2>1, BehindIs DEF TargetRead
<1>4. PathHolds(sent, path, cuts') /\ (q # e => ParametersHold(sent, e, parameters, cuts'))
  <2>1. CASE UNCHANGED cuts
      BY <1>3, <2>1
  <2>2. ASSUME NEW x \in Int, \A c \in cuts : c < x, cuts' = cuts \cup {x}
        PROVE  PathHolds(sent, path, cuts') /\ (q # e => ParametersHold(sent, e, parameters, cuts'))
      BY <1>1, <1>3, <2>2, TargetMore
  <2> QED
      BY <2>1, <2>2
<1>5. e <= currentPos'
    BY <1>1, <1>3
<1>6. TargetRead'
    BY <1>3, <1>4, <1>5 DEF TargetRead
<1>7. MethodRead'
  <2>1. path = MethodEnd(sent) /\ sent[1] \in Methods /\ path <= currentPos
      BY <1>2 DEF ReadInv, ParseInv, MethodRead
  <2>2. path <= currentPos'
      BY <1>1, <2>1
  <2> QED
      BY <1>2, <2>1, <2>2 DEF MethodRead
<1> QED
    BY <1>6, <1>7

\* What stays behind the request line.
LEMMA BehindLine ==
    ASSUME ReadInv, ~torn, pc \in Behind \ {"protocol", "requestLineEnd"}
    PROVE  /\ CrLf(sent, LineEnd(sent))
           /\ Wellformed(sent) <=> Headers(sent).end # 0
<1>1. CrLf(sent, LineEnd(sent))
    BY DEF ReadInv, ParseInv, ProtocolRead
<1> QED
    BY <1>1, BehindIs DEF Wellformed

\* And so does the request line.
LEMMA ProtocolStays ==
    ASSUME ReadInv, ~torn, pc \in Behind \ {"protocol", "requestLineEnd"}, UNCHANGED sent,
           pc' \notin {"protocol", "requestLineEnd"}
    PROVE  ProtocolRead'
    BY BehindLine DEF ProtocolRead

-----------------------------------------------------------------------------
\* The protocol.
LEMMA ReadProtocolParses ==
    ASSUME ReadInv, ~torn, ReadProtocol
    PROVE  ParseInv'
<1>1. pc = "protocol" /\ returned = "none" /\ currentPos < bufferEnd /\ pc \in Behind
    BY ByteIsThere DEF ReadProtocol, Places, Behind, InTarget
<1>2. /\ currentPos \in Nat /\ bufferEnd \in Nat /\ sent \in Seq(Chars) /\ Len(sent) \in Nat /\ bufferEnd <= Len(sent)
    BY ReadFacts
<1>3. currentChar = sent[currentPos + 1] /\ currentPos + 1 \in 1 .. Len(sent)
    BY <1>1, HereIs
<1>4. UNCHANGED <<sent, bufferEnd, torn, cuts, path, parameters, headers, body, line>>
    BY DEF ReadProtocol, received, strings
<1> DEFINE e == TargetEnd(sent)
           n == currentPos + 1
<1>5. e \in Nat \ {0} /\ e <= currentPos /\ Clear(sent, Space, e + 1, currentPos) /\ headers = <<>>
  <2>1. ProtocolRead /\ HeadersRead
      BY DEF ReadInv, ParseInv
  <2> QED
      BY <1>1, <2>1, BehindIs DEF ProtocolRead, HeadersRead, InLine, Places
<1>6. CASE currentChar \notin Space
  <2>1. pc' = "protocol" /\ currentPos' = n /\ UNCHANGED returned
      BY <1>6 DEF ReadProtocol, NextChar, Space
  <2>2. Clear(sent, Space, e + 1, n)
      BY <1>2, <1>3, <1>5, <1>6, ClearMore
  <2>3. ProtocolRead'
      BY <1>4, <2>1, <2>2 DEF ProtocolRead
  <2>4. HeadersRead'
      BY <1>4, <1>5, <2>1 DEF HeadersRead, InLine
  <2>5. TargetRead' /\ MethodRead'
      BY <1>1, <1>4, <2>1, TargetStays
  <2>6. PositionInv'
      BY <1>1, <1>2, <1>4, <2>1, PositionStep
  <2>7. PathRead' /\ QueryRead' /\ ParameterRead' /\ LineRead' /\ Answered'
      BY <1>1, <2>1, Elsewhere DEF InParameter, InLine
  <2> QED
      BY <2>3, <2>4, <2>5, <2>6, <2>7 DEF ParseInv
<1>7. ASSUME currentChar \in Space
      PROVE  LineEnd(sent) = n
  <2> DEFINE a == e + 1
  <2>1. a \in Nat \ {0} /\ n \in a .. Len(sent) /\ sent[n] \in Space /\ Clear(sent, Space, a, n - 1)
      BY <1>2, <1>3, <1>5, <1>7
  <2> HIDE DEF n, a
  <2>2. Find(sent, a, Space) = n
      BY <1>2, <2>1, FindIs
  <2> QED
      BY <2>2 DEF LineEnd, a
<1>8. CASE currentChar = "\r"
  <2>0. currentChar \in Space
      BY <1>8 DEF Space
  <2>1. pc' = "requestLineEnd" /\ currentPos' = n /\ UNCHANGED returned
      BY <1>8, <2>0 DEF ReadProtocol, NextChar
  <2>2. LineEnd(sent) = n /\ sent[n] = "\r"
      BY <1>3, <1>7, <1>8, <2>0
  <2>3. ProtocolRead'
      BY <1>4, <2>1, <2>2 DEF ProtocolRead
  <2>4. HeadersRead'
      BY <1>4, <1>5, <2>1 DEF HeadersRead, InLine
  <2>5. TargetRead' /\ MethodRead'
    <3>1. pc' \in Behind
        BY <2>1 DEF Behind, Places, InTarget
    <3> QED
        BY <1>1, <1>4, <2>1, <3>1, TargetStays
  <2>6. PositionInv'
      BY <1>1, <1>2, <1>4, <2>1, PositionStep
  <2>7. PathRead' /\ QueryRead' /\ ParameterRead' /\ LineRead' /\ Answered'
      BY <1>1, <2>1, Elsewhere DEF InParameter, InLine
  <2> QED
      BY <2>3, <2>4, <2>5, <2>6, <2>7 DEF ParseInv
<1>9. CASE currentChar \in Space \ {"\r"}
  <2>1. pc' = "done" /\ returned' = "400"
      BY <1>9 DEF ReadProtocol, Throw
  <2>2. ~CrLf(sent, LineEnd(sent))
      BY <1>3, <1>7, <1>9 DEF CrLf
  <2>3. Answered'
      BY <1>4, <2>1, <2>2 DEF Answered, Wellformed
  <2> QED
      BY <1>4, <2>1, <2>3, DoneParses DEF ReadInv, ParseInv
<1> QED
    BY <1>6, <1>8, <1>9

\* The end of the request line.
LEMMA EndRequestLineParses ==
    ASSUME ReadInv, ~torn, EndRequestLine
    PROVE  ParseInv'
<1>1. pc = "requestLineEnd" /\ returned = "none" /\ currentPos < bufferEnd /\ pc \in Behind
    BY ByteIsThere DEF EndRequestLine, Places, Behind, InTarget
<1>2. /\ currentPos \in Nat /\ bufferEnd \in Nat /\ sent \in Seq(Chars) /\ Len(sent) \in Nat /\ bufferEnd <= Len(sent)
    BY ReadFacts
<1>3. currentChar = sent[currentPos + 1] /\ currentPos + 1 \in 1 .. Len(sent)
    BY <1>1, HereIs
<1>4. UNCHANGED <<sent, bufferEnd, torn, cuts, path, parameters, headers, body, line>>
    BY DEF EndRequestLine, received, strings
<1>5. LineEnd(sent) = currentPos /\ sent[currentPos] = "\r" /\ headers = <<>>
  <2>1. ProtocolRead /\ HeadersRead
      BY DEF ReadInv, ParseInv
  <2> QED
      BY <1>1, <2>1 DEF ProtocolRead, HeadersRead, InLine, Places
<1>6. CASE currentChar = "\n"
  <2>1. pc' = "header" /\ currentPos' = currentPos + 1 /\ UNCHANGED returned
      BY <1>6 DEF EndRequestLine, Newline, NextChar
  <2>2. CrLf(sent, LineEnd(sent))
      BY <1>1, <1>2, <1>3, <1>5, <1>6 DEF CrLf
  <2>3. ProtocolRead'
      BY <1>4, <2>1, <2>2 DEF ProtocolRead
  <2>4. HeadersAt(sent, currentPos + 2, headers, cuts)
    <3> DEFINE i == currentPos + 2
               rest == HeadersFrom(sent)[i]
    <3>1. i \in 1 .. Len(sent) + 3 /\ Headers(sent) = rest
        BY <1>2, <1>3, <1>5 DEF Headers
    <3>2. Len(headers) = 0 /\ DOMAIN headers = {}
        BY <1>5
    <3>3. rest.lines \in Seq(Fields(sent))
      <4> HIDE DEF i
      <4> QED
          BY <1>2, <3>1, HeadersAre
    <3>4. Len(rest.lines) \in Nat /\ DOMAIN rest.lines = 1 .. Len(rest.lines)
        BY <3>3, LenProperties
    <3> HIDE DEF i, rest
    <3>5. Len(rest.lines) = Len(headers) + Len(rest.lines)
        BY <3>2, <3>4
    <3>6. \A k \in DOMAIN rest.lines : rest.lines[Len(headers) + k] = rest.lines[k]
      <4> SUFFICES ASSUME NEW k \in 1 .. Len(rest.lines) PROVE Len(headers) + k = k
          BY <3>4
      <4> QED
          BY <3>2
    <3>7. \A k \in DOMAIN headers : SaysField(sent, headers[k], rest.lines[k], cuts)
        BY <3>2
    <3> USE DEF rest
    <3> HIDE <3>2
    <3> QED
        BY <3>1, <3>5, <3>6, <3>7 DEF HeadersAt, i
  <2>5. HeadersRead'
    <3>1. currentPos' + 1 = currentPos + 2
        BY <1>2, <2>1
    <3> QED
        BY <1>4, <2>1, <2>4, <3>1 DEF HeadersRead, InLine
  <2>6. TargetRead' /\ MethodRead'
    <3>1. pc' \in Behind
        BY <2>1 DEF Behind, Places, InTarget
    <3> QED
        BY <1>1, <1>4, <2>1, <3>1, TargetStays
  <2>7. PositionInv'
      BY <1>1, <1>2, <1>4, <2>1, PositionStep
  <2>8. PathRead' /\ QueryRead' /\ ParameterRead' /\ LineRead' /\ Answered'
      BY <1>1, <2>1, Elsewhere DEF InParameter, InLine
  <2> QED
      BY <2>3, <2>5, <2>6, <2>7, <2>8 DEF ParseInv
<1>7. CASE currentChar # "\n"
  <2>1. pc' = "done" /\ returned' = "400"
      BY <1>7 DEF EndRequestLine, Newline, Throw
  <2>2. ~CrLf(sent, LineEnd(sent))
      BY <1>3, <1>5, <1>7 DEF CrLf
  <2>3. Answered'
      BY <1>4, <2>1, <2>2 DEF Answered, Wellformed
  <2> QED
      BY <1>4, <2>1, <2>3, DoneParses DEF ReadInv, ParseInv
<1> QED
    BY <1>6, <1>7

-----------------------------------------------------------------------------
\* A line that is none makes the text none.
LEMMA NoHeaders ==
    ASSUME NEW S, NEW t \in Seq(S), NEW i, NEW hs, NEW C, HeadersAt(t, i, hs, C), ~CrLf(t, i), ~HeaderLine(t, i)
    PROVE  Headers(t).end = 0
<1>1. Headers(t).end = HeadersFrom(t)[i].end /\ i \in 1 .. Len(t) + 3
    BY DEF HeadersAt
<1> QED
    BY <1>1, HeadersAre

\* The reader is in a header line, at a byte it has.
LEMMA LineIs ==
    ASSUME ReadInv, ~torn, pc \in InLine, currentPos < bufferEnd
    PROVE  LET s == line.start + 1 c == ColonIn(sent, s)
           IN  /\ line.start \in Nat /\ line.value \in Nat /\ line.end \in Nat /\ s \in 1 .. Len(sent)
               /\ c \in Nat /\ Cr(sent, s) \in Nat /\ line.start <= currentPos
               /\ HeadersAt(sent, s, headers, cuts) /\ sent[s] # "\r" /\ ~CrLf(sent, s)
               /\ ~HeaderLine(sent, s) => ~Wellformed(sent)
<1> DEFINE s == line.start + 1
<1>1. LineRead
    BY DEF ReadInv, ParseInv
<1>2. HeadersAt(sent, s, headers, cuts) /\ sent[s] # "\r"
    BY <1>1 DEF LineRead
<1>3. /\ line \in [start : Nat, value : Nat, end : Nat] /\ currentPos \in Nat /\ bufferEnd \in Nat
      /\ bufferEnd <= Len(sent) /\ Len(sent) \in Nat /\ sent \in Seq(Chars)
    BY ReadFacts
<1>4. line.start <= line.value /\ line.value <= line.end /\ line.end <= currentPos
    BY DEF ReadInv, StringsInv, HeadersEnd
<1>5. line.start \in Nat /\ line.value \in Nat /\ line.end \in Nat /\ s \in 1 .. Len(sent) /\ line.start <= currentPos
    BY <1>3, <1>4
<1> HIDE DEF s
<1>6. ColonIn(sent, s) \in s .. Len(sent) + 1 /\ Cr(sent, s) \in s + 1 .. Len(sent) + 1
    BY <1>3, <1>5, LineGoesOn
<1>7. ~CrLf(sent, s)
    BY <1>2 DEF CrLf
<1>8. ~HeaderLine(sent, s) => ~Wellformed(sent)
  <2>1. pc \in Behind \ {"protocol", "requestLineEnd"}
      BY DEF Behind, InLine, InTarget, Places
  <2> QED
      BY <1>2, <1>3, <1>7, <2>1, NoHeaders, BehindLine
<1>9. ColonIn(sent, s) \in Nat /\ Cr(sent, s) \in Nat
    BY <1>3, <1>5, <1>6
<1> QED
    BY <1>2, <1>5, <1>7, <1>8, <1>9 DEF s

\* A step from a place behind the request line to another one.
LEMMA GoesOn ==
    ASSUME ReadInv, ~torn, pc \in Behind \ {"protocol", "requestLineEnd"},
           pc' \in Behind \ {"protocol", "requestLineEnd"},
           currentPos < bufferEnd, UNCHANGED <<sent, bufferEnd, path, parameters, returned>>,
           \/ currentPos' = currentPos /\ cuts' = cuts
           \/ currentPos' = currentPos + 1 /\ (cuts' = cuts \/ cuts' = cuts \cup {currentPos}),
           HeadersRead', LineRead'
    PROVE  ParseInv'
<1>1. /\ currentPos \in Nat /\ bufferEnd \in Nat /\ pc # "done" /\ \A c \in cuts : c < currentPos
      /\ pc' # "done" /\ returned = "none" /\ pc \notin {"name", "value"}
  <2>1. pc # "done" /\ pc' # "done" /\ pc \notin {"name", "value"}
      BY DEF Behind, Places, InTarget
  <2> QED
      BY <2>1, ReadFacts
<1>2. PositionInv'
    BY <1>1, PositionStep
<1>3. TargetRead' /\ MethodRead'
  <2>1. currentPos \in Int /\ currentPos' \in {currentPos, currentPos + 1}
      BY <1>1
  <2> QED
      BY <1>1, <2>1, TargetStays
<1>4. ProtocolRead'
    BY ProtocolStays
<1>5. PathRead' /\ QueryRead' /\ ParameterRead' /\ Answered'
  <2>1. pc' \notin {"path", "query"} /\ pc' \notin InParameter
      BY DEF Behind, InTarget, InParameter
  <2> QED
      BY <1>1, <2>1, Elsewhere
<1> QED
    BY <1>2, <1>3, <1>4, <1>5 DEF ParseInv

\* The head of the loop.
LEMMA ReadHeadersParses ==
    ASSUME ReadInv, ~torn, ReadHeaders
    PROVE  ParseInv'
<1>1. pc = "header" /\ returned = "none" /\ currentPos < bufferEnd /\ pc \in Behind \ {"protocol", "requestLineEnd"}
    BY ByteIsThere DEF ReadHeaders, Places, Behind, InTarget
<1>2. /\ currentPos \in Nat /\ bufferEnd \in Nat /\ sent \in Seq(Chars) /\ Len(sent) \in Nat /\ bufferEnd <= Len(sent)
      /\ \A c \in cuts : c < currentPos
    BY <1>1, ReadFacts
<1>3. currentChar = sent[currentPos + 1] /\ currentPos + 1 \in 1 .. Len(sent)
    BY <1>1, HereIs
<1>4. UNCHANGED <<sent, bufferEnd, torn, cuts, path, parameters, headers, body, returned>>
    BY DEF ReadHeaders, received, strings
<1>5. HeadersAt(sent, currentPos + 1, headers, cuts)
  <2>1. HeadersRead
      BY DEF ReadInv, ParseInv
  <2> QED
      BY <1>1, <2>1 DEF HeadersRead
<1>6. CASE currentChar = "\r"
  <2>1. pc' = "headersEnd" /\ currentPos' = currentPos + 1
      BY <1>6 DEF ReadHeaders, NextChar
  <2>2. HeadersRead'
      BY <1>3, <1>4, <1>5, <1>6, <2>1 DEF HeadersRead, InLine
  <2>3. LineRead'
      BY <2>1, Elsewhere DEF InLine
  <2>4. pc' \in Behind \ {"protocol", "requestLineEnd"}
      BY <2>1 DEF Behind, Places, InTarget
  <2> QED
      BY <1>1, <1>4, <2>1, <2>2, <2>3, <2>4, GoesOn
<1>7. CASE currentChar # "\r"
  <2>1. /\ pc' = "headerName" /\ currentPos' = currentPos
        /\ line' = [start |-> currentPos, value |-> currentPos, end |-> currentPos]
      BY <1>7 DEF ReadHeaders
  <2>2. line'.start = currentPos
      BY <2>1
  <2>3. Clear(sent, {":"}, currentPos + 1, currentPos)
      BY <1>2 DEF Clear
  <2>4. \A x \in cuts : x < currentPos + 1 - 1
      BY <1>2
  <2>5. LineRead'
    <3> DEFINE s == currentPos + 1
    <3>1. line'.start + 1 = s
        BY <2>2
    <3>2. HeadersAt(sent', s, headers', cuts')
        BY <1>4, <1>5
    <3>3. sent'[s] # "\r"
        BY <1>3, <1>4, <1>7
    <3>4. Clear(sent', {":"}, s, currentPos')
        BY <1>4, <2>1, <2>3
    <3>5. \A x \in cuts' : x < s - 1
        BY <1>2, <1>4
    <3>6. pc' = "headerName"
        BY <2>1
    <3> HIDE DEF s
    <3> QED
        BY <3>1, <3>2, <3>3, <3>4, <3>5, <3>6 DEF LineRead
  <2>6. HeadersRead'
      BY <2>1 DEF HeadersRead, InLine
  <2>7. pc' \in Behind \ {"protocol", "requestLineEnd"}
      BY <2>1 DEF Behind, Places, InTarget
  <2> QED
      BY <1>1, <1>4, <2>1, <2>5, <2>6, <2>7, GoesOn
<1> QED
    BY <1>6, <1>7

\* The name of a header.
LEMMA ReadHeaderNameParses ==
    ASSUME ReadInv, ~torn, ReadHeaderName
    PROVE  ParseInv'
<1>1. /\ pc = "headerName" /\ returned = "none" /\ currentPos < bufferEnd
      /\ pc \in Behind \ {"protocol", "requestLineEnd"} /\ pc \in InLine
    BY ByteIsThere DEF ReadHeaderName, Places, Behind, InTarget, InLine
<1>2. /\ currentPos \in Nat /\ bufferEnd \in Nat /\ sent \in Seq(Chars) /\ Len(sent) \in Nat /\ bufferEnd <= Len(sent)
      /\ \A c \in cuts : c < currentPos
      /\ cuts \subseteq Int
    BY <1>1, ReadFacts
<1>3. currentChar = sent[currentPos + 1] /\ currentPos + 1 \in 1 .. Len(sent)
    BY <1>1, HereIs
<1>4. UNCHANGED <<sent, bufferEnd, torn, path, parameters, headers, body, line>>
    BY DEF ReadHeaderName, received, strings
<1> DEFINE s == line.start + 1
           n == currentPos + 1
<1>5. /\ line.start \in Nat /\ s \in 1 .. Len(sent) /\ line.start <= currentPos
      /\ HeadersAt(sent, s, headers, cuts) /\ sent[s] # "\r"
      /\ ~HeaderLine(sent, s) => ~Wellformed(sent)
    BY <1>1, LineIs
<1>6. Clear(sent, {":"}, s, currentPos) /\ \A x \in cuts : x < s - 1
  <2>1. LineRead
      BY DEF ReadInv, ParseInv
  <2> QED
      BY <1>1, <2>1 DEF LineRead
<1>7. CASE currentChar # ":"
  <2>1. pc' = "headerName" /\ currentPos' = n /\ UNCHANGED <<cuts, returned>>
      BY <1>7 DEF ReadHeaderName, NextChar
  <2>2. Clear(sent, {":"}, s, n)
      BY <1>2, <1>3, <1>5, <1>6, <1>7, ClearMore
  <2>3. LineRead'
    <3> HIDE DEF n
    <3> QED
        BY <1>4, <1>5, <1>6, <2>1, <2>2 DEF LineRead
  <2>4. HeadersRead'
      BY <2>1 DEF HeadersRead, InLine
  <2>5. pc' \in Behind \ {"protocol", "requestLineEnd"}
      BY <2>1 DEF Behind, Places, InTarget
  <2> QED
      BY <1>1, <1>4, <2>1, <2>3, <2>4, <2>5, GoesOn
<1>8. ASSUME currentChar = ":"
      PROVE  ColonIn(sent, s) = n
  <2>1. s \in Nat \ {0} /\ n \in s .. Len(sent) /\ sent[n] \in {":"} /\ Clear(sent, {":"}, s, n - 1)
      BY <1>2, <1>3, <1>5, <1>6, <1>8
  <2> HIDE DEF n, s
  <2>2. Find(sent, s, {":"}) = n
      BY <1>2, <2>1, FindIs
  <2> QED
      BY <2>2 DEF ColonIn
<1>9. CASE currentChar = ":" /\ currentPos > line.start
  <2>1. pc' = "blanks" /\ currentPos' = n /\ cuts' = cuts \cup {currentPos} /\ UNCHANGED returned
      BY <1>5, <1>9 DEF ReadHeaderName, NextChar
  <2>2. ColonIn(sent, s) = n
      BY <1>8, <1>9
  <2>3. FirstCut(s - 1, n - 1, cuts')
    <3>1. s - 1 \in Nat /\ currentPos \in Int /\ s - 1 <= currentPos /\ n - 1 = currentPos
        BY <1>2, <1>5
    <3> HIDE DEF s
    <3>2. FirstCut(s - 1, currentPos, cuts \cup {currentPos})
        BY <1>6, <3>1, CutEnds
    <3> QED
        BY <2>1, <3>1, <3>2
  <2>4. HeadersAt(sent, s, headers, cuts')
    <3>1. currentPos \in Int
        BY <1>2
    <3> QED
        BY <1>2, <1>5, <2>1, <3>1, HeadersAtMore
  <2>5. s < n /\ n <= n /\ (\A x \in cuts' : x < n) /\ \A j \in n + 1 .. n : sent[j] \in Blanks
      BY <1>2, <1>5, <1>9, <2>1
  <2>6. LineRead'
    <3> HIDE DEF n
    <3> QED
        BY <1>4, <1>5, <2>1, <2>2, <2>3, <2>4, <2>5 DEF LineRead
  <2>7. HeadersRead'
      BY <2>1 DEF HeadersRead, InLine
  <2>8. pc' \in Behind \ {"protocol", "requestLineEnd"}
      BY <2>1 DEF Behind, Places, InTarget
  <2> QED
      BY <1>1, <1>4, <2>1, <2>6, <2>7, <2>8, GoesOn
<1>10. CASE currentChar = ":" /\ currentPos = line.start
  <2>1. pc' = "done" /\ returned' = "400"
      BY <1>5, <1>10 DEF ReadHeaderName, Throw
  <2>2. ~HeaderLine(sent, s)
      BY <1>8, <1>10 DEF HeaderLine
  <2>3. Answered'
      BY <1>4, <1>5, <2>1, <2>2 DEF Answered
  <2> QED
      BY <1>4, <2>1, <2>3, DoneParses DEF ReadInv, ParseInv
<1> QED
    BY <1>2, <1>5, <1>7, <1>9, <1>10

-----------------------------------------------------------------------------
\* A '\r' is no blank.
LEMMA NoCr == "\r" \notin Blanks
    BY DEF Blanks

\* What is left of a value without the blanks around it.
LEMMA ValueTrimmed ==
    ASSUME NEW S, NEW t \in Seq(S), NEW c \in Nat \ {0}, NEW v \in Nat, NEW e \in Nat, NEW b \in Nat,
           c <= v, v <= e, e <= b, b <= Len(t), t[v + 1] \notin Blanks,
           \A j \in c + 1 .. v : t[j] \in Blanks, \A j \in e + 1 .. b : t[j] \in Blanks,
           e > v => t[e] \notin Blanks, e = v => v = b
    PROVE  Trimmed(Part(t, c, b)) = Part(t, v, e)
<1> DEFINE a == c + 1
           u == SubSeq(t, a, b)
<1>1. Len(t) \in Nat /\ a \in Nat \ {0} /\ a <= b + 1
    BY LenProperties
<1>2. /\ u \in Seq(S) /\ Len(u) = b - a + 1
      /\ \A k \in 1 .. b - a + 1 : u[k] = t[a + k - 1]
  <2>1. /\ SubSeq(t, a, b) \in Seq(S)
        /\ Len(SubSeq(t, a, b)) = IF a <= b THEN b - a + 1 ELSE 0
        /\ \A k \in 1 .. b - a + 1 : SubSeq(t, a, b)[k] = t[a + k - 1]
    <3> HIDE DEF a
    <3> QED
        BY <1>1, PartType
  <2> QED
      BY <2>1, <1>1
<1>3. CASE e = v
  <2>1. \A j \in 1 .. Len(u) : u[j] \in Blanks
    <3> SUFFICES ASSUME NEW j \in 1 .. b - a + 1 PROVE u[j] \in Blanks
        BY <1>2
    <3>1. a + j - 1 \in c + 1 .. v
        BY <1>1, <1>3
    <3> QED
        BY <1>2, <3>1
  <2>2. Trimmed(u) = <<>>
    <3> HIDE DEF u
    <3> QED
        BY <1>2, <2>1, TrimmedBlanks
  <2>3. SubSeq(t, v + 1, e) = <<>>
    <3>1. v + 1 \in Int /\ e \in Int /\ e < v + 1
        BY <1>3
    <3> QED
        BY <3>1, SubSeqEmpty
  <2> QED
      BY <2>2, <2>3 DEF Part
<1>4. CASE e > v
  <2> DEFINE x == v + 1 - c
             y == e - c
  <2>1. /\ x \in Nat \ {0} /\ y \in x .. b - a + 1
        /\ a + x - 1 = v + 1 /\ a + y - 1 = e
      BY <1>1, <1>4
  <2>2. u[x] \notin Blanks /\ u[y] \notin Blanks
    <3>1. x \in 1 .. b - a + 1 /\ y \in 1 .. b - a + 1
        BY <1>1, <2>1
    <3>2. u[x] = t[a + x - 1] /\ u[y] = t[a + y - 1]
      <4> HIDE DEF u, a, x, y
      <4> QED
          BY <1>2, <3>1
    <3> HIDE DEF u, x, y
    <3> QED
        BY <1>4, <2>1, <3>2
  <2>3. \A j \in 1 .. x - 1 : u[j] \in Blanks
    <3> SUFFICES ASSUME NEW j \in 1 .. x - 1 PROVE u[j] \in Blanks
        OBVIOUS
    <3>1. a + j - 1 \in c + 1 .. v /\ j \in 1 .. b - a + 1
        BY <1>1, <1>4
    <3> QED
        BY <1>2, <3>1
  <2>4. \A j \in y + 1 .. Len(u) : u[j] \in Blanks
    <3> SUFFICES ASSUME NEW j \in y + 1 .. b - a + 1 PROVE u[j] \in Blanks
        BY <1>2
    <3>1. a + j - 1 \in e + 1 .. b /\ j \in 1 .. b - a + 1
        BY <1>1, <1>4
    <3> QED
        BY <1>2, <3>1
  <2>5. Trimmed(u) = SubSeq(u, x, y)
    <3>1. y \in x .. Len(u)
        BY <1>2, <2>1
    <3> HIDE DEF u, x, y
    <3> QED
        BY <1>2, <2>1, <2>2, <2>3, <2>4, <3>1, TrimmedIs
  <2>6. SubSeq(SubSeq(t, a, b), x, y) = SubSeq(t, a + x - 1, a + y - 1)
    <3>1. y \in Int /\ y <= b - a + 1
        BY <1>1, <2>1
    <3> HIDE DEF a, x, y
    <3> QED
        BY <1>1, <2>1, <3>1, PartOfPart
  <2> QED
      BY <2>1, <2>5, <2>6 DEF Part
<1> QED
    BY <1>3, <1>4

\* The blanks in front of a value.
LEMMA SkipBlanksParses ==
    ASSUME ReadInv, ~torn, SkipBlanks
    PROVE  ParseInv'
<1>1. /\ pc = "blanks" /\ returned = "none" /\ currentPos < bufferEnd
      /\ pc \in Behind \ {"protocol", "requestLineEnd"} /\ pc \in InLine
    BY ByteIsThere DEF SkipBlanks, Places, Behind, InTarget, InLine
<1>2. /\ currentPos \in Nat /\ bufferEnd \in Nat /\ sent \in Seq(Chars) /\ Len(sent) \in Nat /\ bufferEnd <= Len(sent)
      /\ line \in [start : Nat, value : Nat, end : Nat]
    BY <1>1, ReadFacts
<1>3. currentChar = sent[currentPos + 1] /\ currentPos + 1 \in 1 .. Len(sent)
    BY <1>1, HereIs
<1>4. UNCHANGED <<sent, bufferEnd, torn, cuts, path, parameters, headers, body, returned>>
    BY DEF SkipBlanks, received, strings
<1> DEFINE s == line.start + 1
           c == ColonIn(sent, s)
           n == currentPos + 1
<1>5. /\ line.start \in Nat /\ s \in 1 .. Len(sent) /\ c \in Nat
      /\ HeadersAt(sent, s, headers, cuts) /\ sent[s] # "\r"
    BY <1>1, LineIs
<1>6. /\ s < c /\ c <= currentPos /\ FirstCut(s - 1, c - 1, cuts) /\ \A x \in cuts : x < c
      /\ \A j \in c + 1 .. currentPos : sent[j] \in Blanks
  <2>1. LineRead
      BY DEF ReadInv, ParseInv
  <2> QED
      BY <1>1, <2>1 DEF LineRead, InLine
<1>7. CASE currentChar \in Blanks
  <2>1. pc' = "blanks" /\ currentPos' = n /\ UNCHANGED line
      BY <1>7 DEF SkipBlanks, NextChar
  <2>2. c <= n /\ \A j \in c + 1 .. n : sent[j] \in Blanks
    <3>1. \A j \in c + 1 .. n : j \in c + 1 .. currentPos \/ j = n
        BY <1>2, <1>5
    <3> QED
        BY <1>2, <1>3, <1>5, <1>6, <1>7, <3>1
  <2>3. LineRead'
    <3> HIDE DEF n
    <3> QED
        BY <1>4, <1>5, <1>6, <2>1, <2>2 DEF LineRead
  <2>4. HeadersRead'
      BY <2>1 DEF HeadersRead, InLine
  <2>5. pc' \in Behind \ {"protocol", "requestLineEnd"}
      BY <2>1 DEF Behind, Places, InTarget
  <2> QED
      BY <1>1, <1>4, <2>1, <2>3, <2>4, <2>5, GoesOn
<1>8. CASE currentChar \notin Blanks
  <2>1. /\ pc' = "headerValue" /\ currentPos' = currentPos
        /\ line' = [line EXCEPT !.value = currentPos, !.end = currentPos]
      BY <1>8 DEF SkipBlanks
  <2>2. line'.start = line.start /\ line'.value = currentPos /\ line'.end = currentPos
      BY <1>2, <2>1
  <2>3. sent[currentPos + 1] \notin Blanks
      BY <1>3, <1>8
  <2>4. Clear(sent, {"\r"}, c + 1, currentPos)
      BY <1>6, NoCr DEF Clear
  <2>5. /\ currentPos <= currentPos /\ \A j \in currentPos + 1 .. currentPos : sent[j] \in Blanks
        /\ ~(currentPos > currentPos)
      BY <1>2
  <2>6. LineRead'
    <3>1. /\ line'.start + 1 = s /\ HeadersAt(sent', s, headers', cuts') /\ sent'[s] # "\r"
          /\ c = ColonIn(sent', s)
          /\ s < c /\ c <= currentPos' /\ FirstCut(s - 1, c - 1, cuts') /\ \A x \in cuts' : x < c
        BY <1>4, <1>5, <1>6, <2>1, <2>2
    <3>2. /\ pc' = "headerValue" /\ line'.value = currentPos' /\ line'.end = currentPos'
          /\ sent'[currentPos' + 1] \notin Blanks /\ \A j \in c + 1 .. currentPos' : sent'[j] \in Blanks
          /\ Clear(sent', {"\r"}, c + 1, currentPos')
          /\ currentPos' <= currentPos' /\ \A j \in currentPos' + 1 .. currentPos' : sent'[j] \in Blanks
          /\ ~(currentPos' > currentPos')
        BY <1>4, <1>6, <2>1, <2>2, <2>3, <2>4, <2>5
    <3> HIDE DEF s, c
    <3> QED
        BY <3>1, <3>2 DEF LineRead
  <2>7. HeadersRead'
      BY <2>1 DEF HeadersRead, InLine
  <2>8. pc' \in Behind \ {"protocol", "requestLineEnd"}
      BY <2>1 DEF Behind, Places, InTarget
  <2> QED
      BY <1>1, <1>4, <2>1, <2>6, <2>7, <2>8, GoesOn
<1> QED
    BY <1>7, <1>8

-----------------------------------------------------------------------------
\* The value of a header.
LEMMA ReadHeaderValueParses ==
    ASSUME ReadInv, ~torn, ReadHeaderValue
    PROVE  ParseInv'
<1>1. /\ pc = "headerValue" /\ returned = "none" /\ currentPos < bufferEnd
      /\ pc \in Behind \ {"protocol", "requestLineEnd"} /\ pc \in InLine
    BY ByteIsThere DEF ReadHeaderValue, Places, Behind, InTarget, InLine
<1>2. /\ currentPos \in Nat /\ bufferEnd \in Nat /\ sent \in Seq(Chars) /\ Len(sent) \in Nat /\ bufferEnd <= Len(sent)
      /\ line \in [start : Nat, value : Nat, end : Nat]
    BY <1>1, ReadFacts
<1>3. currentChar = sent[currentPos + 1] /\ currentPos + 1 \in 1 .. Len(sent)
    BY <1>1, HereIs
<1>4. UNCHANGED <<sent, bufferEnd, torn, cuts, path, parameters, headers, body, returned>>
    BY DEF ReadHeaderValue, received, strings
<1> DEFINE s == line.start + 1
           c == ColonIn(sent, s)
           v == line.value
           e == line.end
           n == currentPos + 1
<1>5. /\ line.start \in Nat /\ s \in 1 .. Len(sent) /\ c \in Nat /\ v \in Nat /\ e \in Nat
      /\ HeadersAt(sent, s, headers, cuts) /\ sent[s] # "\r"
    BY <1>1, LineIs
<1>6. /\ s < c /\ FirstCut(s - 1, c - 1, cuts) /\ \A x \in cuts : x < c
      /\ c <= v /\ v <= e /\ e <= currentPos
      /\ sent[v + 1] \notin Blanks /\ \A j \in c + 1 .. v : sent[j] \in Blanks
      /\ Clear(sent, {"\r"}, c + 1, currentPos)
      /\ \A j \in e + 1 .. currentPos : sent[j] \in Blanks
      /\ e > v => sent[e] \notin Blanks
      /\ e = v => v = currentPos
  <2>1. LineRead
      BY DEF ReadInv, ParseInv
  <2> QED
      BY <1>1, <2>1 DEF LineRead, InLine
<1>7. c <= n /\ n - 1 = currentPos /\ n \in Nat
    BY <1>2, <1>5, <1>6
<1> HIDE DEF s, c, v, e
<1>8. CASE currentChar # "\r"
  <2> DEFINE f == IF currentChar \in Blanks THEN e ELSE n
  <2>1. /\ pc' = "headerValue" /\ currentPos' = n
        /\ line' = [line EXCEPT !.end = IF currentChar \in Blanks THEN @ ELSE currentPos + 1]
      BY <1>8 DEF ReadHeaderValue, NextChar
  <2>2. line'.start + 1 = s /\ line'.value = v /\ line'.end = f
      BY <1>2, <2>1 DEF s, v, e
  <2>3. Clear(sent, {"\r"}, c + 1, n)
      BY <1>2, <1>3, <1>5, <1>6, <1>8, ClearMore
  <2>6. /\ v <= f /\ f <= n /\ (\A j \in f + 1 .. n : sent[j] \in Blanks)
        /\ (f > v => sent[f] \notin Blanks) /\ f # v
    <3>1. CASE currentChar \in Blanks
      <4>1. f = e
          BY <3>1
      <4>2. \A j \in e + 1 .. n : sent[j] \in Blanks
        <5>1. \A j \in e + 1 .. n : j \in e + 1 .. currentPos \/ j = n
            BY <1>2, <1>5
        <5> QED
            BY <1>3, <1>6, <3>1, <5>1
      <4>3. e # v
        <5>1. e = v => sent[v + 1] = currentChar
            BY <1>3, <1>6
        <5> QED
            BY <1>6, <3>1, <5>1
      <4> QED
          BY <1>2, <1>5, <1>6, <4>1, <4>2, <4>3
    <3>2. CASE currentChar \notin Blanks
      <4>1. f = n
          BY <3>2
      <4>2. v < n /\ sent[n] \notin Blanks /\ n <= n /\ \A j \in n + 1 .. n : sent[j] \in Blanks
          BY <1>2, <1>3, <1>5, <1>6, <3>2
      <4> QED
          BY <1>5, <1>7, <4>1, <4>2
    <3> QED
        BY <3>1, <3>2
  <2>7. LineRead'
    <3>1. /\ HeadersAt(sent', s, headers', cuts') /\ sent'[s] # "\r"
          /\ c = ColonIn(sent', s)
          /\ s < c /\ c <= currentPos' /\ FirstCut(s - 1, c - 1, cuts') /\ \A x \in cuts' : x < c
        BY <1>4, <1>5, <1>6, <1>7, <2>1 DEF c
    <3>2. /\ pc' = "headerValue" /\ c <= v /\ v <= f /\ f <= currentPos'
          /\ sent'[v + 1] \notin Blanks /\ \A j \in c + 1 .. v : sent'[j] \in Blanks
          /\ Clear(sent', {"\r"}, c + 1, currentPos')
          /\ \A j \in f + 1 .. currentPos' : sent'[j] \in Blanks
          /\ f > v => sent'[f] \notin Blanks
          /\ f # v
        BY <1>4, <1>6, <2>1, <2>3, <2>6
    <3> HIDE DEF f
    <3> QED
        BY <2>2, <3>1, <3>2 DEF LineRead
  <2>8. HeadersRead'
      BY <2>1 DEF HeadersRead, InLine
  <2>9. pc' \in Behind \ {"protocol", "requestLineEnd"}
      BY <2>1 DEF Behind, Places, InTarget
  <2> QED
      BY <1>1, <1>4, <2>1, <2>7, <2>8, <2>9, GoesOn
<1>9. CASE currentChar = "\r"
  <2>1. pc' = "headerLineEnd" /\ currentPos' = n /\ UNCHANGED line
      BY <1>9 DEF ReadHeaderValue, NextChar
  <2>2. Cr(sent, s) = n
    <3> DEFINE a == c + 1
    <3>1. a \in Nat \ {0} /\ n \in a .. Len(sent) /\ sent[n] \in {"\r"} /\ Clear(sent, {"\r"}, a, n - 1)
        BY <1>2, <1>3, <1>5, <1>6, <1>9
    <3> HIDE DEF n, a
    <3>2. Find(sent, a, {"\r"}) = n
        BY <1>2, <3>1, FindIs
    <3> QED
        BY <3>2 DEF Cr, c, a
  <2>3. Trimmed(SubSeq(sent, c + 1, n - 1)) = SubSeq(sent, v + 1, e)
    <3>1. /\ c \in Nat \ {0} /\ currentPos \in Nat /\ e <= currentPos /\ currentPos <= Len(sent)
          /\ \A j \in e + 1 .. currentPos : sent[j] \in Blanks
          /\ e = v => v = currentPos
        BY <1>2, <1>3, <1>5, <1>6, <1>7
    <3>2. /\ c <= v /\ v <= e /\ sent[v + 1] \notin Blanks
          /\ \A j \in c + 1 .. v : sent[j] \in Blanks
          /\ e > v => sent[e] \notin Blanks
        BY <1>6
    <3>3. v \in Nat /\ e \in Nat /\ sent \in Seq(Chars)
        BY <1>2, <1>5
    <3>4. n - 1 = currentPos
        BY <1>2
    <3>5. Trimmed(Part(sent, c, currentPos)) = Part(sent, v, e)
      <4> HIDE DEF c, v, e
      <4> QED
          BY <3>1, <3>2, <3>3, ValueTrimmed
    <3> QED
        BY <3>4, <3>5 DEF Part
  <2>4. LineRead'
    <3>1. /\ HeadersAt(sent', s, headers', cuts') /\ sent'[s] # "\r"
          /\ c = ColonIn(sent', s)
          /\ s < c /\ c <= currentPos' /\ FirstCut(s - 1, c - 1, cuts') /\ \A x \in cuts' : x < c
        BY <1>4, <1>5, <1>6, <1>7, <2>1 DEF c
    <3>2. /\ pc' = "headerLineEnd" /\ c <= v /\ v <= e /\ e < currentPos'
          /\ Cr(sent', s) = currentPos'
          /\ Trimmed(SubSeq(sent', c + 1, currentPos' - 1)) = SubSeq(sent', v + 1, e)
        BY <1>2, <1>4, <1>5, <1>6, <2>1, <2>2, <2>3
    <3>3. line'.start + 1 = s /\ line'.value = v /\ line'.end = e
        BY <2>1 DEF s, v, e
    <3> QED
        BY <3>1, <3>2, <3>3 DEF LineRead
  <2>5. HeadersRead'
      BY <2>1 DEF HeadersRead, InLine
  <2>6. pc' \in Behind \ {"protocol", "requestLineEnd"}
      BY <2>1 DEF Behind, Places, InTarget
  <2> QED
      BY <1>1, <1>4, <2>1, <2>4, <2>5, <2>6, GoesOn
<1> QED
    BY <1>8, <1>9

-----------------------------------------------------------------------------
\* One header line more.
LEMMA FirstOfLines ==
    ASSUME NEW F, NEW f \in F, NEW fs \in Seq(F)
    PROVE  /\ Len(<<f>> \o fs) = 1 + Len(fs) /\ (<<f>> \o fs)[1] = f
           /\ \A k \in 1 .. Len(fs) : (<<f>> \o fs)[1 + k] = fs[k]
<1>1. <<f>> \in Seq(F) /\ Len(<<f>>) = 1 /\ <<f>>[1] = f
    OBVIOUS
<1> DEFINE one == <<f>>
<1>2. one \in Seq(F) /\ Len(one) = 1 /\ one[1] = f
    BY <1>1
<1> HIDE DEF one
<1>3. /\ Len(one \o fs) = Len(one) + Len(fs) /\ Len(fs) \in Nat
      /\ \A i \in 1 .. Len(one) + Len(fs) : (one \o fs)[i] = IF i <= Len(one) THEN one[i] ELSE fs[i - Len(one)]
    BY <1>2, ConcatProperties, LenProperties
<1>4. (one \o fs)[1] = f
    BY <1>2, <1>3
<1>5. ASSUME NEW k \in 1 .. Len(fs)
      PROVE  (one \o fs)[1 + k] = fs[k]
  <2>1. 1 + k \in 1 .. Len(one) + Len(fs) /\ ~(1 + k <= Len(one)) /\ 1 + k - Len(one) = k
      BY <1>2, <1>3
  <2> QED
      BY <1>3, <2>1
<1> QED
    BY <1>2, <1>3, <1>4, <1>5 DEF one

\* With it one header line less is missing.
LEMMA OneMoreHeader ==
    ASSUME NEW S, NEW t \in Seq(S), NEW s, NEW hs \in Seq(Int \X Int), NEW x \in Int \X Int,
           NEW C, C \subseteq Int, NEW e \in Int, \A c \in C : c < e,
           HeadersAt(t, s, hs, C), HeaderLine(t, s), ~CrLf(t, s), SaysField(t, x, Field(t, s), C \cup {e})
    PROVE  HeadersAt(t, Cr(t, s) + 2, Append(hs, x), C \cup {e})
<1> DEFINE h == Headers(t)
           rest == HeadersFrom(t)[s]
           i == Cr(t, s) + 2
           next == HeadersFrom(t)[i]
           n == Len(hs)
           m == Len(next.lines)
           fs == Append(hs, x)
           D == C \cup {e}
<1>1. /\ s \in 1 .. Len(t) + 3 /\ h.end = rest.end
      /\ Len(h.lines) = n + Len(rest.lines)
      /\ \A k \in DOMAIN rest.lines : h.lines[n + k] = rest.lines[k]
      /\ \A k \in DOMAIN hs : SaysField(t, hs[k], h.lines[k], D)
  <2>1. HeadersAt(t, s, hs, D)
      BY HeadersAtMore
  <2> QED
      BY <2>1 DEF HeadersAt
<1>2. /\ i \in s + 1 .. Len(t) + 3
      /\ rest.lines = <<Field(t, s)>> \o next.lines /\ rest.end = next.end
      /\ rest.lines \in Seq(Fields(t))
    BY <1>1, HeadersAre
<1>3. i \in 1 .. Len(t) + 3 /\ Len(t) \in Nat
    BY <1>1, <1>2, LenProperties
<1>4. next.lines \in Seq(Fields(t)) /\ Field(t, s) \in Fields(t)
  <2> HIDE DEF i
  <2> QED
      BY <1>1, <1>3, HeadersAre DEF Fields
<1> DEFINE nexts == next.lines
           lines == rest.lines
<1>5. /\ Len(lines) = 1 + m /\ m \in Nat /\ lines[1] = Field(t, s)
      /\ \A k \in 1 .. m : lines[1 + k] = nexts[k]
      /\ DOMAIN lines = 1 .. 1 + m /\ DOMAIN nexts = 1 .. m
  <2> HIDE DEF nexts, lines
  <2>1. lines = <<Field(t, s)>> \o nexts /\ nexts \in Seq(Fields(t)) /\ lines \in Seq(Fields(t)) /\ m = Len(nexts)
      BY <1>2, <1>4 DEF nexts, lines
  <2>2. m \in Nat /\ DOMAIN nexts = 1 .. m
      BY <2>1, LenProperties
  <2>3. Len(lines) = 1 + m /\ lines[1] = Field(t, s) /\ \A k \in 1 .. m : lines[1 + k] = nexts[k]
      BY <1>4, <2>1, FirstOfLines
  <2>4. DOMAIN lines = 1 .. Len(lines)
      BY <2>1, LenProperties
  <2> QED
      BY <2>2, <2>3, <2>4
<1>6. /\ Len(fs) = n + 1 /\ n \in Nat /\ fs[n + 1] = x /\ DOMAIN fs = 1 .. n + 1 /\ DOMAIN hs = 1 .. n
      /\ \A k \in 1 .. n : fs[k] = hs[k]
    BY AppendProperties, LenProperties
<1> HIDE DEF fs, n, m, h, rest, next, D
<1>7. Len(h.lines) = Len(fs) + m
    BY <1>1, <1>5, <1>6
<1>8. ASSUME NEW k \in 1 .. m
      PROVE  h.lines[Len(fs) + k] = next.lines[k]
  <2>1. 1 + k \in DOMAIN lines /\ n + (1 + k) = Len(fs) + k
      BY <1>5, <1>6
  <2> QED
      BY <1>1, <1>5, <2>1
<1>9. ASSUME NEW k \in DOMAIN fs
      PROVE  SaysField(t, fs[k], h.lines[k], D)
  <2>1. CASE k \in 1 .. n
      BY <1>1, <1>6, <2>1
  <2>2. CASE k = n + 1
    <3>1. h.lines[n + 1] = Field(t, s)
      <4>1. 1 \in DOMAIN lines
          BY <1>5
      <4>2. h.lines[n + 1] = lines[1]
          BY <1>1, <4>1
      <4> QED
          BY <1>5, <4>2
    <3> QED
        BY <1>6, <2>2, <3>1 DEF D
  <2> QED
      BY <1>6, <2>1, <2>2
<1>10. h.end = next.end
    BY <1>1, <1>2
<1>11. HeadersAt(t, i, fs, D)
  <2> HIDE DEF i
  <2> QED
      BY <1>3, <1>5, <1>7, <1>8, <1>9, <1>10 DEF HeadersAt, h, next, m
<1> QED
    BY <1>11 DEF fs, D

\* The end of a header line.
LEMMA EndHeaderLineParses ==
    ASSUME ReadInv, ~torn, EndHeaderLine
    PROVE  ParseInv'
<1>1. /\ pc = "headerLineEnd" /\ returned = "none" /\ currentPos < bufferEnd
      /\ pc \in Behind \ {"protocol", "requestLineEnd"} /\ pc \in InLine
    BY ByteIsThere DEF EndHeaderLine, Places, Behind, InTarget, InLine
<1>2. /\ currentPos \in Nat /\ bufferEnd \in Nat /\ sent \in Seq(Chars) /\ Len(sent) \in Nat /\ bufferEnd <= Len(sent)
      /\ headers \in Seq(Int \X Int) /\ cuts \subseteq Int /\ \A x \in cuts : x < currentPos
    BY <1>1, ReadFacts
<1>3. currentChar = sent[currentPos + 1] /\ currentPos + 1 \in 1 .. Len(sent)
    BY <1>1, HereIs
<1>4. UNCHANGED <<sent, bufferEnd, torn, path, parameters, body, line>>
    BY DEF EndHeaderLine, received
<1> DEFINE s == line.start + 1
           c == ColonIn(sent, s)
           v == line.value
           e == line.end
<1>5. /\ line.start \in Nat /\ s \in 1 .. Len(sent) /\ c \in Nat /\ v \in Nat /\ e \in Nat /\ s - 1 = line.start
      /\ HeadersAt(sent, s, headers, cuts) /\ sent[s] # "\r" /\ ~CrLf(sent, s)
      /\ ~HeaderLine(sent, s) => ~Wellformed(sent)
    BY <1>1, LineIs
<1>6. /\ s < c /\ FirstCut(s - 1, c - 1, cuts) /\ \A x \in cuts : x < c
      /\ c <= v /\ v <= e /\ e < currentPos
      /\ Cr(sent, s) = currentPos
      /\ Trimmed(SubSeq(sent, c + 1, currentPos - 1)) = SubSeq(sent, v + 1, e)
  <2>1. LineRead
      BY DEF ReadInv, ParseInv
  <2> QED
      BY <1>1, <2>1 DEF LineRead, InLine
<1>7. CrLf(sent, currentPos) <=> sent[currentPos] = "\r" /\ currentChar = "\n"
    BY <1>1, <1>2, <1>3 DEF CrLf
<1>8. sent[currentPos] = "\r"
  <2>1. currentPos # Len(sent) + 1
      BY <1>1, <1>2
  <2> DEFINE a == c + 1
  <2>2. a \in Nat \ {0} /\ Find(sent, a, {"\r"}) = currentPos
    <3>1. a \in Nat \ {0}
        BY <1>5
    <3>2. Cr(sent, s) = Find(sent, a, {"\r"})
        BY DEF Cr
    <3> QED
        BY <1>6, <3>1, <3>2
  <2> HIDE DEF a
  <2>3. sent[Find(sent, a, {"\r"})] \in {"\r"}
      BY <1>2, <2>1, <2>2, FindFinds
  <2> QED
      BY <2>2, <2>3
<1>9. CASE currentChar = "\n"
  <2> DEFINE x == <<line.start, line.value>>
  <2>1. /\ pc' = "header" /\ currentPos' = currentPos + 1 /\ UNCHANGED returned
        /\ cuts' = cuts \cup {e} /\ headers' = Append(headers, x)
      BY <1>9 DEF EndHeaderLine, Newline, NextChar
  <2>2. HeaderLine(sent, s)
    <3>1. s <= Len(sent) /\ c # s /\ CrLf(sent, Cr(sent, s))
        BY <1>5, <1>6, <1>7, <1>8, <1>9
    <3> QED
        BY <1>5, <3>1 DEF HeaderLine
  <2>3. x \in Int \X Int /\ x[1] = s - 1 /\ x[2] = v
      BY <1>5
  <2>4. e \in Int /\ \A y \in cuts : y < e
      BY <1>2, <1>5, <1>6
  <2>5. SaysField(sent, x, Field(sent, s), cuts')
    <3> DEFINE f == Field(sent, s)
    <3>1. f[1] = Lowered(SubSeq(sent, s, c - 1)) /\ f[2] = SubSeq(sent, v + 1, e)
        BY <1>6 DEF Field
    <3>2. FirstCut(s - 1, c - 1, cuts')
      <4>1. FirstCut(s - 1, c - 1, cuts \cup {e})
        <5> HIDE DEF s, c, e
        <5> QED
            BY <1>2, <1>6, <2>4, FirstCutMore
      <4> QED
          BY <2>1, <4>1
    <3>3. Holds(sent, v, SubSeq(sent, v + 1, e), cuts')
      <4>1. v \in Nat /\ v <= e /\ \A y \in cuts : y < v
          BY <1>2, <1>5, <1>6
      <4> HIDE DEF v, e
      <4>2. Holds(sent, v, SubSeq(sent, v + 1, e), cuts \cup {e})
          BY <2>4, <4>1, CutHolds
      <4> QED
          BY <2>1, <4>2
    <3>4. c - 1 \in cuts' /\ s - 1 + 1 = s
        BY <1>5, <3>2 DEF FirstCut
    <3>5. \E y \in cuts' : FirstCut(x[1], y, cuts') /\ Lowered(SubSeq(sent, x[1] + 1, y)) = f[1]
      <4> HIDE DEF f, x, s, c
      <4> QED
          BY <2>3, <3>1, <3>2, <3>4
    <3>6. Holds(sent, x[2], f[2], cuts')
      <4> HIDE DEF f, x, v, e
      <4> QED
          BY <2>3, <3>1, <3>3
    <3> HIDE DEF f, x
    <3>7. SaysField(sent, x, f, cuts')
        BY <3>5, <3>6 DEF SaysField
    <3> QED
        BY <3>7 DEF f
  <2>6. HeadersAt(sent, currentPos + 2, headers', cuts')
    <3>1. SaysField(sent, x, Field(sent, s), cuts \cup {e})
        BY <2>1, <2>5
    <3> HIDE DEF x, s, e
    <3>2. HeadersAt(sent, Cr(sent, s) + 2, Append(headers, x), cuts \cup {e})
        BY <1>2, <1>5, <2>2, <2>3, <2>4, <3>1, OneMoreHeader
    <3> QED
        BY <1>6, <2>1, <3>2
  <2>7. HeadersRead'
    <3>1. currentPos' + 1 = currentPos + 2
        BY <1>2, <2>1
    <3> QED
        BY <1>4, <2>1, <2>6, <3>1 DEF HeadersRead, InLine
  <2>8. pc' \in Behind \ {"protocol", "requestLineEnd"}
      BY <2>1 DEF Behind, Places, InTarget
  <2>9. TargetRead' /\ MethodRead'
      BY <1>1, <1>4, <2>1, <2>4, <2>8, TargetStays
  <2>10. ProtocolRead'
      BY <1>1, <1>4, <2>8, ProtocolStays
  <2>11. PositionInv'
    <3>1. \A y \in cuts' : y < currentPos'
        BY <1>2, <1>5, <1>6, <2>1
    <3>2. currentPos' <= bufferEnd'
        BY <1>1, <1>2, <1>4, <2>1
    <3> QED
        BY <1>2, <1>4, <3>1, <3>2 DEF PositionInv
  <2>12. PathRead' /\ QueryRead' /\ ParameterRead' /\ LineRead' /\ Answered'
      BY <1>1, <2>1, Elsewhere DEF InParameter, InLine
  <2> QED
      BY <2>7, <2>9, <2>10, <2>11, <2>12 DEF ParseInv
<1>10. CASE currentChar # "\n"
  <2>1. pc' = "done" /\ returned' = "400"
      BY <1>10 DEF EndHeaderLine, Newline, Throw
  <2>2. ~HeaderLine(sent, s)
      BY <1>6, <1>7, <1>10 DEF HeaderLine
  <2>3. Answered'
      BY <1>4, <1>5, <2>1, <2>2 DEF Answered
  <2> QED
      BY <1>4, <2>1, <2>3, DoneParses DEF ReadInv, ParseInv
<1> QED
    BY <1>9, <1>10

-----------------------------------------------------------------------------
\* What has been read, said of the text and the cuts.
Byte(t, C, b, p) == IF p \in C \/ p >= b THEN Zero ELSE t[p + 1]
CString(t, C, b, p) ==
    LET end == CHOOSE e \in p .. b : Byte(t, C, b, e) = Zero /\ \A f \in p .. e - 1 : Byte(t, C, b, f) # Zero
    IN  SubSeq(t, p + 1, end)

PathsRead(t, C, b, ps) ==
    [i \in DOMAIN ps |->
        <<CString(t, C, b, ps[i][1]), IF ps[i][2] = NoString THEN <<>> ELSE CString(t, C, b, ps[i][2])>>]
LinesRead(t, C, b, hs) == [i \in DOMAIN hs |-> <<Lowered(CString(t, C, b, hs[i][1])), CString(t, C, b, hs[i][2])>>]
AllRead(t, C, b, p, ps, hs, y) ==
    [path |-> CString(t, C, b, p), parameters |-> PathsRead(t, C, b, ps), headers |-> LinesRead(t, C, b, hs),
     body |-> IF y = NoString THEN <<>> ELSE CString(t, C, b, y)]

\* The request is that, now and after a step.
LEMMA RequestReadIs ==
    /\ RequestRead = AllRead(sent, cuts, bufferEnd, path, parameters, headers, body)
    /\ RequestRead' = AllRead(sent', cuts', bufferEnd', path', parameters', headers', body')
<1>1. \A p : StringAt(p) = CString(sent, cuts, bufferEnd, p) /\ HeaderName(p) = Lowered(StringAt(p))
    BY DEF StringAt, HeaderName, ByteAt, CString, Byte, Lowered
<1>2. \A p : StringAt(p)' = CString(sent', cuts', bufferEnd', p) /\ HeaderName(p)' = Lowered(StringAt(p)')
    BY DEF StringAt, HeaderName, ByteAt, CString, Byte, Lowered
<1>3. RequestRead = AllRead(sent, cuts, bufferEnd, path, parameters, headers, body)
    BY <1>1 DEF RequestRead, AllRead, PathsRead, LinesRead
<1>4. RequestRead' = AllRead(sent', cuts', bufferEnd', path', parameters', headers', body')
    BY <1>2 DEF RequestRead, AllRead, PathsRead, LinesRead
<1> QED
    BY <1>3, <1>4

\* All cuts are within the bytes received, and none of these is a '\0'.
Received(t, C, b) == b \in Nat /\ C \subseteq 0 .. b /\ \A i \in 1 .. b : t[i] # Zero

\* A string ends at the first cut behind its start.
LEMMA StringIs ==
    ASSUME NEW t, NEW b, NEW C, Received(t, C, b), NEW p, NEW e, FirstCut(p, e, C)
    PROVE  CString(t, C, b, p) = Part(t, p, e)
<1>0. b \in Nat /\ C \subseteq 0 .. b /\ \A i \in 1 .. b : t[i] # Zero
    BY DEF Received
<1>1. p \in Nat /\ e \in C /\ e \in p .. b /\ \A c \in C : c < p \/ e <= c
    BY <1>0 DEF FirstCut
<1>2. Byte(t, C, b, e) = Zero
    BY <1>1 DEF Byte
<1>3. ASSUME NEW f \in p .. e - 1
      PROVE  Byte(t, C, b, f) # Zero
  <2>1. f \notin C /\ ~(f >= b) /\ f + 1 \in 1 .. b
      BY <1>0, <1>1
  <2> QED
      BY <1>0, <2>1 DEF Byte
<1> DEFINE Is(x) == Byte(t, C, b, x) = Zero /\ \A f \in p .. x - 1 : Byte(t, C, b, f) # Zero
<1>4. Is(e) /\ \A x \in p .. b : Is(x) => x = e
    BY <1>1, <1>2, <1>3
<1>5. CString(t, C, b, p) = SubSeq(t, p + 1, CHOOSE x \in p .. b : Is(x))
    BY DEF CString
<1> HIDE DEF Is
<1>6. (CHOOSE x \in p .. b : Is(x)) = e
    BY <1>1, <1>4
<1> QED
    BY <1>5, <1>6 DEF Part

\* So it is what the invariant says.
LEMMA HoldsString ==
    ASSUME NEW t, NEW b, NEW C, Received(t, C, b),
           NEW p, NEW s, Holds(t, p, s, C)
    PROVE  CString(t, C, b, p) = s
<1>1. PICK e \in C : FirstCut(p, e, C) /\ Part(t, p, e) = s
    BY DEF Holds, Part
<1> QED
    BY <1>1, StringIs

\* The parameters that have been read.
LEMMA PathsReadAre ==
    ASSUME NEW S, NEW t \in Seq(S), NEW b, NEW C, Received(t, C, b),
           NEW ps \in Seq(Int \X Int), QueryAt(t) < TargetEnd(t), ParametersHold(t, TargetEnd(t), ps, C)
    PROVE  PathsRead(t, C, b, ps) =
               [k \in DOMAIN Pieces(Query(t), {"&"}) |-> NameAndValue(Pieces(Query(t), {"&"})[k])]
<1> DEFINE xs == Pieces(Query(t), {"&"})
           e == TargetEnd(t)
           q == QueryAt(t)
<1>1. PiecesOf(t)[e - q] = xs
  <2>1. Len(Query(t)) = e - 1 - q /\ e \in Nat /\ q \in Nat
      BY QueryFacts, TargetFacts
  <2>2. e - q = Len(Query(t)) + 1
      BY <2>1
  <2> QED
      BY <2>2 DEF PiecesOf, Pieces
<1>2. xs \in Seq(Seq(S))
  <2>1. e \in q .. e
      BY TargetFacts
  <2> QED
      BY <1>1, <2>1, PiecesTyped
<1>3. Len(ps) = Len(xs) /\ Spells(t, ps, xs, C)
    BY <1>1 DEF ParametersHold
<1> HIDE DEF xs, e, q
<1>4. DOMAIN ps = DOMAIN xs
    BY <1>2, <1>3, LenProperties
<1>5. ASSUME NEW k \in DOMAIN xs
      PROVE  <<CString(t, C, b, ps[k][1]), IF ps[k][2] = NoString THEN <<>> ELSE CString(t, C, b, ps[k][2])>>
                 = NameAndValue(xs[k])
  <2> DEFINE nv == NameAndValue(xs[k])
  <2>1. nv = <<nv[1], nv[2]>>
      BY DEF NameAndValue
  <2>2. Says(t, ps[k], xs[k], C)
      BY <1>3 DEF Spells
  <2>3. /\ Holds(t, ps[k][1], nv[1], C)
        /\ ps[k][2] = NoString => nv[2] = <<>>
        /\ ps[k][2] # NoString => Holds(t, ps[k][2], nv[2], C)
      BY <2>2 DEF Says
  <2> HIDE DEF nv
  <2>4. CString(t, C, b, ps[k][1]) = nv[1]
      BY <2>3, HoldsString
  <2>5. (IF ps[k][2] = NoString THEN <<>> ELSE CString(t, C, b, ps[k][2])) = nv[2]
      BY <2>3, HoldsString
  <2>6. <<CString(t, C, b, ps[k][1]), IF ps[k][2] = NoString THEN <<>> ELSE CString(t, C, b, ps[k][2])>> = nv
      BY <2>1, <2>4, <2>5, Zenon
  <2> QED
      BY <2>6 DEF nv
<1>6. PathsRead(t, C, b, ps) = [k \in DOMAIN xs |-> NameAndValue(xs[k])]
    BY <1>4, <1>5, Zenon DEF PathsRead
<1> QED
    BY <1>6 DEF xs

\* The header lines that have been read.
LEMMA LinesReadAre ==
    ASSUME NEW S, NEW t \in Seq(S), NEW b, NEW C, Received(t, C, b),
           NEW hs \in Seq(Int \X Int), NEW i, HeadersAt(t, i, hs, C), CrLf(t, i)
    PROVE  /\ Headers(t).end = i /\ i \in Nat \ {0}
           /\ LinesRead(t, C, b, hs) = Headers(t).lines
           /\ Headers(t).lines \in Seq(Fields(t)) /\ DOMAIN Headers(t).lines = DOMAIN hs
<1> DEFINE fs == Headers(t).lines
<1>1. /\ i \in 1 .. Len(t) + 3
      /\ Headers(t).end = HeadersFrom(t)[i].end
      /\ Len(fs) = Len(hs) + Len(HeadersFrom(t)[i].lines)
      /\ \A k \in DOMAIN hs : SaysField(t, hs[k], fs[k], C)
    BY DEF HeadersAt
<1>2. HeadersFrom(t)[i].lines = <<>> /\ HeadersFrom(t)[i].end = i
    BY <1>1, HeadersAre
<1>3. Len(hs) \in Nat /\ DOMAIN hs = 1 .. Len(hs)
    BY LenProperties
<1>4. Len(fs) = Len(hs)
    BY <1>1, <1>2, <1>3
<1>5. fs \in Seq(Fields(t))
  <2>1. LineEnd(t) + 2 \in 1 .. Len(t) + 3
    <3>1. LineEnd(t) \in Nat /\ LineEnd(t) <= Len(t) + 1 /\ Len(t) \in Nat
      <4> DEFINE a == TargetEnd(t) + 1
      <4>1. a \in Nat \ {0} /\ Len(t) \in Nat
          BY TargetFacts
      <4> HIDE DEF a
      <4>2. Find(t, a, Space) \in Nat /\ Find(t, a, Space) <= Len(t) + 1
          BY <4>1, FindFinds
      <4> QED
          BY <4>1, <4>2 DEF LineEnd, a
    <3> QED
        BY <3>1
  <2> QED
      BY <2>1, HeadersAre DEF Headers
<1> HIDE DEF fs
<1>6. DOMAIN fs = DOMAIN hs
    BY <1>3, <1>4, <1>5, LenProperties
<1>7. ASSUME NEW k \in DOMAIN hs
      PROVE  <<Lowered(CString(t, C, b, hs[k][1])), CString(t, C, b, hs[k][2])>> = fs[k]
  <2>1. fs[k] = <<fs[k][1], fs[k][2]>>
    <3>1. fs[k] \in Fields(t)
        BY <1>3, <1>4, <1>5, ElementOfSeq
    <3>2. PICK j \in 1 .. Len(t) + 3 : fs[k] = Field(t, j)
        BY <3>1 DEF Fields
    <3> QED
        BY <3>2 DEF Field
  <2>2. SaysField(t, hs[k], fs[k], C)
      BY <1>1
  <2>3. CString(t, C, b, hs[k][2]) = fs[k][2]
      BY <2>2, HoldsString DEF SaysField
  <2>4. PICK e \in C : FirstCut(hs[k][1], e, C) /\ Lowered(Part(t, hs[k][1], e)) = fs[k][1]
      BY <2>2 DEF SaysField, Part
  <2>5. Lowered(CString(t, C, b, hs[k][1])) = fs[k][1]
      BY <2>4, StringIs
  <2> QED
      BY <2>1, <2>3, <2>5, Zenon
<1>8. LinesRead(t, C, b, hs) = [k \in DOMAIN fs |-> fs[k]]
    BY <1>6, <1>7, Zenon DEF LinesRead
<1>9. fs = [k \in DOMAIN fs |-> fs[k]]
    BY <1>5, LenProperties
<1>10. i \in Nat \ {0}
    BY <1>1
<1> QED
    BY <1>1, <1>2, <1>5, <1>6, <1>8, <1>9, <1>10 DEF fs

-----------------------------------------------------------------------------
\* The last of the positions in I.
LastOf(I) == CHOOSE i \in I : \A j \in I : j <= i

\* What is asked of a text whose target ends, and has the header lines it should.
LEMMA RequestIs ==
    ASSUME NEW S, NEW t \in Seq(S), TargetEnd(t) <= Len(t)
    PROVE  Request(t) =
             [path |-> SubSeq(t, Target(t), QueryAt(t) - 1),
              parameters |-> IF QueryAt(t) = TargetEnd(t) THEN <<>>
                             ELSE [k \in DOMAIN Pieces(Query(t), {"&"}) |-> NameAndValue(Pieces(Query(t), {"&"})[k])],
              headers |-> Headers(t).lines,
              body |-> IF Lengths(Headers(t).lines) = {} THEN <<>>
                       ELSE SubSeq(t, Headers(t).end + 2, Headers(t).end + 1 + LengthIn(Headers(t).lines))]
<1>1. Request(t).path = SubSeq(t, Target(t), QueryAt(t) - 1)
    BY RequestTarget
<1>2. Request(t).parameters = IF QueryAt(t) = TargetEnd(t) THEN <<>>
                              ELSE [k \in DOMAIN Pieces(Query(t), {"&"}) |-> NameAndValue(Pieces(Query(t), {"&"})[k])]
    BY RequestTarget
<1>3. Request(t).headers = Headers(t).lines
    BY DEF Request
<1>4. Request(t).body = IF Lengths(Headers(t).lines) = {} THEN <<>>
                        ELSE SubSeq(t, Headers(t).end + 2, Headers(t).end + 1 + LengthIn(Headers(t).lines))
    BY DEF Request
<1>5. Request(t) = [path |-> Request(t).path, parameters |-> Request(t).parameters,
                    headers |-> Request(t).headers, body |-> Request(t).body]
    BY DEF Request
<1> QED
    BY <1>1, <1>2, <1>3, <1>4, <1>5, Zenon

\* The reader is at the end of the empty line, and everything it has read is the request,
\* with cuts C that may have one for the end of the body.
LEMMA AnswerIs ==
    ASSUME ReadInv, ~torn, pc \in {"headersEnd", "body"}, CrLf(sent, currentPos), currentPos < bufferEnd,
           NEW C, C \subseteq 0 .. bufferEnd,
           C = cuts \/ \E x \in Int : (\A c \in cuts : c < x) /\ C = cuts \cup {x}
    PROVE  /\ Wellformed(sent) /\ Headers(sent).end = currentPos
           /\ LinesRead(sent, C, bufferEnd, headers) = Headers(sent).lines
           /\ CString(sent, C, bufferEnd, path) = Request(sent).path
           /\ PathsRead(sent, C, bufferEnd, parameters) = Request(sent).parameters
           /\ Received(sent, C, bufferEnd)
           /\ TargetEnd(sent) <= Len(sent)
<1> DEFINE q == QueryAt(sent)
           e == TargetEnd(sent)
           t == sent
           b == bufferEnd
<1>1. pc \in Behind \ {"protocol", "requestLineEnd"} /\ pc # "done"
    BY DEF Behind, Places, InTarget
<1>2. /\ currentPos \in Nat /\ b \in Nat /\ t \in Seq(Chars) /\ Len(t) \in Nat /\ b <= Len(t)
      /\ parameters \in Seq(Int \X Int) /\ headers \in Seq(Int \X Int) /\ path \in Nat
      /\ cuts \subseteq Int
      /\ \A i \in 1 .. Len(t) : t[i] # Zero
    BY ReadFacts, SentType
<1>3. Received(t, C, b)
    BY <1>2 DEF Received
<1>4. /\ HeadersAt(t, currentPos, headers, cuts)
      /\ path < q /\ e <= currentPos /\ PathHolds(t, path, cuts)
      /\ IF q = e THEN parameters = <<>> ELSE ParametersHold(t, e, parameters, cuts)
  <2>1. HeadersRead /\ TargetRead
      BY DEF ReadInv, ParseInv
  <2>2. pc \in Behind
      BY <1>1
  <2> QED
      BY <2>1, <2>2 DEF HeadersRead, TargetRead
<1>5. /\ HeadersAt(t, currentPos, headers, C) /\ PathHolds(t, path, C)
      /\ q # e => ParametersHold(t, e, parameters, C)
  <2>1. CASE C = cuts
      BY <1>4, <2>1
  <2>2. ASSUME NEW x \in Int, \A c \in cuts : c < x, C = cuts \cup {x}
        PROVE  /\ HeadersAt(t, currentPos, headers, C) /\ PathHolds(t, path, C)
               /\ q # e => ParametersHold(t, e, parameters, C)
      BY <1>2, <1>4, <2>2, HeadersAtMore, TargetMore
  <2> QED
      BY <2>1, <2>2
<1>6. q \in Nat /\ e \in Nat /\ q <= e /\ e <= Len(t)
  <2>1. q \in Nat /\ e \in Nat /\ q <= e
      BY <1>2, TargetFacts
  <2>2. e <= currentPos
      BY <1>4
  <2>3. currentPos < b
      OBVIOUS
  <2> HIDE DEF q, e
  <2> QED
      BY <1>2, <2>1, <2>2, <2>3
<1>7. CString(t, C, b, path) = Request(t).path
  <2>1. MethodRead
      BY DEF ReadInv, ParseInv
  <2>2. path = MethodEnd(t) /\ pc \notin {"method", "done"}
      BY <1>1, <2>1 DEF MethodRead
  <2>3. Target(t) = path + 1
      BY <2>2 DEF Target, MethodEnd, Blanks
  <2>4. CString(t, C, b, path) = SubSeq(t, path + 1, q - 1)
      BY <1>3, <1>5, HoldsString DEF PathHolds
  <2>5. Request(t).path = SubSeq(t, Target(t), q - 1)
      BY <1>2, <1>6, RequestTarget
  <2> QED
      BY <2>3, <2>4, <2>5
<1>8. PathsRead(t, C, b, parameters) = Request(t).parameters
  <2>1. CASE q = e
    <3>1. Request(t).parameters = <<>>
        BY <1>2, <1>6, <2>1, RequestTarget
    <3>2. PathsRead(t, C, b, parameters) = <<>>
        BY <1>4, <2>1 DEF PathsRead
    <3> QED
        BY <3>1, <3>2
  <2>2. CASE q # e
    <3>1. q < e /\ ParametersHold(t, e, parameters, C)
        BY <1>5, <1>6, <2>2
    <3>2. PathsRead(t, C, b, parameters) =
             [k \in DOMAIN Pieces(Query(t), {"&"}) |-> NameAndValue(Pieces(Query(t), {"&"})[k])]
        BY <1>2, <1>3, <3>1, PathsReadAre
    <3>3. Request(t).parameters =
             [k \in DOMAIN Pieces(Query(t), {"&"}) |-> NameAndValue(Pieces(Query(t), {"&"})[k])]
        BY <1>2, <1>6, <2>2, RequestTarget
    <3> QED
        BY <3>2, <3>3
  <2> QED
      BY <2>1, <2>2
<1>9. /\ Headers(t).end = currentPos /\ currentPos \in Nat \ {0}
      /\ LinesRead(t, C, b, headers) = Headers(t).lines
    BY <1>2, <1>3, <1>5, LinesReadAre
<1>10. Wellformed(t)
    BY <1>1, <1>9, BehindLine
<1> QED
    BY <1>3, <1>6, <1>7, <1>8, <1>9, <1>10

\* The length the reader finds is that of the request.
LEMMA ContentLengthIs ==
    ASSUME ReadInv, LinesRead(sent, cuts, bufferEnd, headers) = Headers(sent).lines
    PROVE  /\ ContentLengths = Lengths(Headers(sent).lines)
           /\ ContentLengths # {} => givenLength = LengthIn(Headers(sent).lines)
<1> DEFINE fs == Headers(sent).lines
<1>1. DOMAIN fs = DOMAIN headers
    BY DEF LinesRead
<1>2. \A i \in DOMAIN headers : fs[i] = <<HeaderName(headers[i][1]), StringAt(headers[i][2])>>
  <2>1. \A p : StringAt(p) = CString(sent, cuts, bufferEnd, p) /\ HeaderName(p) = Lowered(StringAt(p))
      BY DEF StringAt, HeaderName, ByteAt, CString, Byte, Lowered
  <2> QED
      BY <2>1 DEF LinesRead
<1> HIDE DEF fs
<1>3. \A i \in DOMAIN headers : fs[i][1] = HeaderName(headers[i][1]) /\ fs[i][2] = StringAt(headers[i][2])
    BY <1>2
<1>4. ContentLengths = Lengths(fs)
    BY <1>1, <1>3 DEF ContentLengths, Lengths
<1>5. ASSUME ContentLengths # {}
      PROVE  givenLength = LengthIn(fs)
  <2>1. givenLength = Numeral(StringAt(headers[LastOf(ContentLengths)][2]))
      BY DEF givenLength, LastOf
  <2>2. LastOf(ContentLengths) \in ContentLengths
    <3>1. headers \in Seq(Int \X Int)
        BY ReadFacts
    <3>2. ContentLengths \in SUBSET (0 .. Len(headers)) /\ Len(headers) \in Nat
        BY <3>1, LenProperties DEF ContentLengths
    <3>3. \E i \in ContentLengths : \A j \in ContentLengths : j <= i
        BY <1>5, <3>2, GreatestElement
    <3> QED
        BY <3>3 DEF LastOf
  <2>3. LastOf(ContentLengths) \in DOMAIN headers
      BY <2>2 DEF ContentLengths
  <2> QED
      BY <1>3, <1>4, <2>1, <2>3 DEF LengthIn, LastOf
<1> QED
    BY <1>4, <1>5 DEF fs

-----------------------------------------------------------------------------
\* What has been read is the request.
LEMMA AllReadIs ==
    ASSUME NEW S, NEW t \in Seq(S), TargetEnd(t) <= Len(t), NEW C, NEW b, NEW p, NEW ps, NEW hs, NEW y,
           LinesRead(t, C, b, hs) = Headers(t).lines,
           CString(t, C, b, p) = Request(t).path,
           PathsRead(t, C, b, ps) = Request(t).parameters,
           IF Lengths(Headers(t).lines) = {} THEN y = NoString
           ELSE /\ y # NoString
                /\ CString(t, C, b, y) = SubSeq(t, Headers(t).end + 2, Headers(t).end + 1 + LengthIn(Headers(t).lines))
    PROVE  AllRead(t, C, b, p, ps, hs, y) = Request(t)
<1> DEFINE body_ == IF y = NoString THEN <<>> ELSE CString(t, C, b, y)
<1>1. /\ Request(t).headers = Headers(t).lines
      /\ Request(t).body = IF Lengths(Headers(t).lines) = {} THEN <<>>
                           ELSE SubSeq(t, Headers(t).end + 2, Headers(t).end + 1 + LengthIn(Headers(t).lines))
      /\ Request(t) = [path |-> Request(t).path, parameters |-> Request(t).parameters,
                       headers |-> Request(t).headers, body |-> Request(t).body]
  <2>1. Request(t) =
             [path |-> SubSeq(t, Target(t), QueryAt(t) - 1),
              parameters |-> IF QueryAt(t) = TargetEnd(t) THEN <<>>
                             ELSE [k \in DOMAIN Pieces(Query(t), {"&"}) |-> NameAndValue(Pieces(Query(t), {"&"})[k])],
              headers |-> Headers(t).lines,
              body |-> IF Lengths(Headers(t).lines) = {} THEN <<>>
                       ELSE SubSeq(t, Headers(t).end + 2, Headers(t).end + 1 + LengthIn(Headers(t).lines))]
      BY RequestIs
  <2> QED
      BY <2>1
<1>2. body_ = Request(t).body
    BY <1>1, Zenon
<1>3. AllRead(t, C, b, p, ps, hs, y) =
          [path |-> CString(t, C, b, p), parameters |-> PathsRead(t, C, b, ps), headers |-> LinesRead(t, C, b, hs),
           body |-> body_]
    BY Zenon DEF AllRead
<1> QED
    BY <1>1, <1>2, <1>3, Zenon

\* The empty line.
LEMMA EndHeadersParses ==
    ASSUME ReadInv, ~torn, EndHeaders
    PROVE  ParseInv'
<1>1. /\ pc = "headersEnd" /\ returned = "none" /\ currentPos < bufferEnd /\ pc # "done"
      /\ pc \in Behind \ {"protocol", "requestLineEnd"}
    BY ByteIsThere DEF EndHeaders, Places, Behind, InTarget
<1>2. /\ currentPos \in Nat /\ bufferEnd \in Nat /\ sent \in Seq(Chars) /\ Len(sent) \in Nat /\ bufferEnd <= Len(sent)
      /\ cuts \subseteq 0 .. bufferEnd
    BY ReadFacts DEF ReadInv, StringsInv, CutsReceived
<1>3. currentChar = sent[currentPos + 1] /\ currentPos + 1 \in 1 .. Len(sent)
    BY <1>1, HereIs
<1>4. UNCHANGED <<sent, bufferEnd, torn, currentPos, cuts, path, parameters, headers, body, line>>
    BY DEF EndHeaders, received, strings
<1>5. sent[currentPos] = "\r" /\ HeadersAt(sent, currentPos, headers, cuts)
  <2>1. HeadersRead
      BY DEF ReadInv, ParseInv
  <2> QED
      BY <1>1, <2>1 DEF HeadersRead
<1>6. CrLf(sent, currentPos) <=> currentChar = "\n"
    BY <1>1, <1>2, <1>3, <1>5 DEF CrLf
<1>7. ASSUME currentChar = "\n"
      PROVE  /\ Wellformed(sent)
             /\ LinesRead(sent, cuts, bufferEnd, headers) = Headers(sent).lines
             /\ CString(sent, cuts, bufferEnd, path) = Request(sent).path
             /\ PathsRead(sent, cuts, bufferEnd, parameters) = Request(sent).parameters
             /\ TargetEnd(sent) <= Len(sent)
             /\ ContentLengths = Lengths(Headers(sent).lines)
  <2>1. /\ Wellformed(sent)
        /\ LinesRead(sent, cuts, bufferEnd, headers) = Headers(sent).lines
        /\ CString(sent, cuts, bufferEnd, path) = Request(sent).path
        /\ PathsRead(sent, cuts, bufferEnd, parameters) = Request(sent).parameters
        /\ TargetEnd(sent) <= Len(sent)
      BY <1>1, <1>2, <1>6, <1>7, AnswerIs
  <2> QED
      BY <2>1, ContentLengthIs
<1>8. CASE currentChar = "\n" /\ ContentLengths # {}
  <2>1. pc' = "body" /\ UNCHANGED returned
      BY <1>8 DEF EndHeaders
  <2>2. HeadersRead'
      BY <1>4, <1>5, <1>6, <1>7, <1>8, <2>1 DEF HeadersRead, InLine
  <2>3. LineRead'
      BY <2>1, Elsewhere DEF InLine
  <2>4. pc' \in Behind \ {"protocol", "requestLineEnd"}
      BY <2>1 DEF Behind, Places, InTarget
  <2> QED
      BY <1>1, <1>4, <2>1, <2>2, <2>3, <2>4, GoesOn
<1>9. CASE currentChar = "\n" /\ ContentLengths = {}
  <2>1. pc' = "done" /\ returned' = "request"
      BY <1>9 DEF EndHeaders, Throw
  <2>2. body = NoString
      BY <1>1 DEF ReadInv, NoBodyYet
  <2>3. AllRead(sent, cuts, bufferEnd, path, parameters, headers, body) = Request(sent)
      BY <1>2, <1>7, <1>9, <2>2, AllReadIs
  <2>4. RequestRead' = AllRead(sent', cuts', bufferEnd', path', parameters', headers', body')
      BY RequestReadIs
  <2>5. RequestRead' = Request(sent)
      BY <1>4, <2>3, <2>4
  <2>6. Answered'
      BY <1>4, <1>7, <1>9, <2>1, <2>5 DEF Answered
  <2> QED
      BY <1>4, <2>1, <2>6, DoneParses DEF ReadInv, ParseInv
<1>10. CASE currentChar # "\n"
  <2>1. pc' = "done" /\ returned' = "400"
      BY <1>10 DEF EndHeaders, Throw
  <2>2. ~HeaderLine(sent, currentPos) /\ ~CrLf(sent, currentPos)
      BY <1>5, <1>6, <1>10 DEF HeaderLine
  <2>3. ~Wellformed(sent)
      BY <1>1, <1>2, <1>5, <2>2, NoHeaders, BehindLine
  <2>4. Answered'
      BY <1>4, <2>1, <2>3 DEF Answered
  <2> QED
      BY <1>4, <2>1, <2>4, DoneParses DEF ReadInv, ParseInv
<1> QED
    BY <1>8, <1>9, <1>10

\* Where the body is to be read, the text has its header lines, and the length the
\* request says is the one the reader takes, if it is plain.
LEMMA BodyIsDue ==
    ASSUME ReadInv, ~torn, pc = "body"
    PROVE  /\ Wellformed(sent) /\ Headers(sent).end = currentPos /\ Lengths(Headers(sent).lines) # {}
           /\ CrLf(sent, currentPos) /\ returned = "none"
           /\ currentPos \in Nat /\ bufferEnd \in Nat /\ currentPos < bufferEnd
           /\ PlainLength(sent) =>
                 /\ contentLength = LengthIn(Headers(sent).lines) /\ contentLength \in Nat
                 /\ bodyEnd \in 0 .. Half - 1
<1>1. CrLf(sent, currentPos) /\ Lengths(Headers(sent).lines) # {}
  <2>1. HeadersRead
      BY DEF ReadInv, ParseInv
  <2> QED
      BY <2>1 DEF HeadersRead
<1>2. /\ currentPos \in Nat /\ bufferEnd \in Nat /\ currentPos < bufferEnd /\ cuts \subseteq 0 .. bufferEnd
      /\ returned = "none" /\ bufferEnd <= Capacity
    BY ReadFacts DEF ReadInv, StringsInv, CutsReceived, InBuffer
<1>3. /\ Wellformed(sent) /\ Headers(sent).end = currentPos
      /\ LinesRead(sent, cuts, bufferEnd, headers) = Headers(sent).lines
    BY <1>1, <1>2, AnswerIs
<1>4. givenLength = LengthIn(Headers(sent).lines)
    BY <1>1, <1>3, ContentLengthIs
<1>5. ASSUME PlainLength(sent)
      PROVE  /\ contentLength = LengthIn(Headers(sent).lines) /\ contentLength \in Nat
             /\ bodyEnd \in 0 .. Half - 1
  <2>1. givenLength \in 0 .. Half - Capacity - 1
      BY <1>1, <1>4, <1>5 DEF PlainLength
  <2>2. Half \in Nat /\ Capacity \in Nat
      BY NumeralsAssumption, CapacityAssumption
  <2>3. givenLength \in 0 .. Half - 1
      BY <2>1, <2>2
  <2>4. contentLength = givenLength
      BY <2>3, IntKeeps DEF contentLength
  <2>5. bodyEnd = currentPos + 1 + givenLength
      BY <2>4 DEF bodyEnd
  <2> QED
      BY <1>2, <1>4, <2>1, <2>2, <2>4, <2>5
<1> QED
    BY <1>1, <1>2, <1>3, <1>5

\* A length that is refused, or leads out of the buffer: it is not plain.
LEMMA LengthParses ==
    ASSUME ReadInv, ~torn, LengthThrows \/ WriteOutside
    PROVE  ParseInv'
<1>1. /\ pc = "body" /\ pc' = "done" /\ UNCHANGED <<sent, bufferEnd>>
      /\ returned' = "error" \/ (returned' = "wild" /\ bodyEnd \notin 0 .. Half - 1)
    BY DEF LengthThrows, WriteOutside, Throw, received
<1>2. Answered'
    BY <1>1, BodyIsDue DEF Answered
<1> QED
    BY <1>1, <1>2, DoneParses DEF ReadInv, ParseInv

\* The body, when it is complete.
LEMMA ReadBodyParses ==
    ASSUME ReadInv, ~torn, ReadBody
    PROVE  ParseInv'
<1> DEFINE n == contentLength
           y == currentPos + 1
           x == bodyEnd
           C == cuts \cup {x}
<1>1. pc = "body" /\ returned = "none" /\ x <= bufferEnd /\ pc # "done"
  <2>1. At("body") /\ ~LengthIsTooLong
      BY DEF ReadBody
  <2> QED
      BY <2>1, AtPlace, ByteIsThere DEF Places, ReadInv
<1>2. /\ currentPos \in Nat /\ bufferEnd \in Nat /\ sent \in Seq(Chars) /\ Len(sent) \in Nat /\ bufferEnd <= Len(sent)
      /\ cuts \subseteq 0 .. bufferEnd /\ \A c \in cuts : c < currentPos
    BY <1>1, ReadFacts DEF ReadInv, StringsInv, CutsReceived
<1>3. /\ pc' = "done" /\ returned' = "request" /\ body' = y /\ cuts' = C
      /\ UNCHANGED <<sent, bufferEnd, torn, path, parameters, headers>>
    BY DEF ReadBody, Throw, received
<1>4. /\ CrLf(sent, currentPos) /\ Lengths(Headers(sent).lines) # {}
      /\ Wellformed(sent) /\ Headers(sent).end = currentPos /\ currentPos < bufferEnd
    BY <1>1, BodyIsDue
<1>5. ASSUME PlainLength(sent)
      PROVE  RequestRead' = Request(sent)
  <2>1. n = LengthIn(Headers(sent).lines) /\ n \in Nat
      BY <1>1, <1>5, BodyIsDue
  <2>2. x = y + n
      BY DEF bodyEnd
  <2>3. /\ C \subseteq 0 .. bufferEnd /\ x \in Int /\ \A c \in cuts : c < x
        /\ y \in Nat /\ y <= x /\ \A c \in cuts : c < y
    <3>1. y \in Nat /\ \A c \in cuts : c < y /\ c \in Int
        BY <1>2
    <3> HIDE DEF y, n
    <3>2. x \in Nat /\ y <= x
        BY <2>1, <2>2, <3>1
    <3> HIDE DEF x
    <3>3. \A c \in cuts : c < x
        BY <3>1, <3>2
    <3>4. x \in 0 .. bufferEnd
        BY <1>1, <1>2, <3>2
    <3> QED
        BY <1>2, <3>1, <3>2, <3>3, <3>4
  <2> HIDE DEF n, x, C
  <2>4. /\ LinesRead(sent, C, bufferEnd, headers) = Headers(sent).lines
        /\ CString(sent, C, bufferEnd, path) = Request(sent).path
        /\ PathsRead(sent, C, bufferEnd, parameters) = Request(sent).parameters
        /\ Received(sent, C, bufferEnd) /\ TargetEnd(sent) <= Len(sent)
    <3>1. \E z \in Int : (\A c \in cuts : c < z) /\ C = cuts \cup {z}
        BY <2>3 DEF C
    <3> QED
        BY <1>1, <1>4, <2>3, <3>1, AnswerIs
  <2>5. CString(sent, C, bufferEnd, y) = SubSeq(sent, Headers(sent).end + 2, Headers(sent).end + 1 + LengthIn(Headers(sent).lines))
    <3>1. FirstCut(y, x, C)
        BY <2>3, CutEnds DEF C
    <3>2. CString(sent, C, bufferEnd, y) = Part(sent, y, x)
        BY <2>4, <3>1, StringIs
    <3>3. y + 1 = Headers(sent).end + 2 /\ x = Headers(sent).end + 1 + LengthIn(Headers(sent).lines)
        BY <1>2, <1>4, <2>1, <2>2
    <3> QED
        BY <3>2, <3>3 DEF Part
  <2>6. y # NoString
      BY <1>2 DEF NoString
  <2>7. AllRead(sent, C, bufferEnd, path, parameters, headers, y) = Request(sent)
    <3> HIDE DEF y
    <3> QED
        BY <1>2, <1>4, <2>4, <2>5, <2>6, AllReadIs
  <2>8. RequestRead' = AllRead(sent', cuts', bufferEnd', path', parameters', headers', body')
      BY RequestReadIs
  <2> QED
      BY <1>3, <2>7, <2>8
<1>6. Answered'
    BY <1>3, <1>4, <1>5 DEF Answered
<1> QED
    BY <1>3, <1>6, DoneParses DEF ReadInv, ParseInv

-----------------------------------------------------------------------------
\* There is no body before the last step.
LEMMA BodyComesLast ==
    ASSUME NoBodyYet, [Next]_vars
    PROVE  NoBodyYet'
<1>1. CASE ReadBody
    BY <1>1 DEF ReadBody, Throw, NoBodyYet
<1>2. CASE ReceiveThrows \/ \E n \in 1 .. Capacity : Receive(n)
    BY <1>2 DEF ReceiveThrows, Receive, Throw, MustReceive, strings, NoBodyYet, Places
<1>3. CASE ReadMethod \/ ReadPath \/ ReadQuery \/ ReadQueryName \/ ReadQueryValue \/ ReadProtocol \/ EndRequestLine
  <2>1. body' = body /\ pc # "done"
      BY <1>3 DEF ReadMethod, ReadPath, ReadQuery, ReadQueryName, ReadQueryValue, ReadProtocol, EndRequestLine,
                  strings, At
  <2> QED
      BY <2>1 DEF NoBodyYet
<1>4. CASE ReadHeaders \/ EndHeaders \/ ReadHeaderName \/ SkipBlanks \/ ReadHeaderValue \/ EndHeaderLine
  <2>1. body' = body /\ pc # "done"
      BY <1>4 DEF ReadHeaders, EndHeaders, ReadHeaderName, SkipBlanks, ReadHeaderValue, EndHeaderLine, strings, At
  <2> QED
      BY <2>1 DEF NoBodyYet
<1>5. CASE UNCHANGED vars
    BY <1>5 DEF vars, strings, NoBodyYet
<1>6. CASE LengthThrows \/ WriteOutside
    BY <1>6 DEF LengthThrows, WriteOutside, Throw, NoBodyYet
<1> QED
    BY <1>1, <1>2, <1>3, <1>4, <1>5, <1>6 DEF Next

\* Torn or not, the reader stays where its cuts are behind it.
LEMMA PositionHolds ==
    ASSUME ReadInv,
           \/ ReadMethod \/ ReadPath \/ ReadQuery \/ ReadQueryName \/ ReadQueryValue \/ ReadProtocol \/ EndRequestLine
           \/ ReadHeaders \/ EndHeaders \/ ReadHeaderName \/ SkipBlanks \/ ReadHeaderValue \/ EndHeaderLine
           \/ LengthThrows \/ ReadBody \/ WriteOutside
    PROVE  PositionInv' /\ (torn => torn')
<1>1. /\ currentPos \in Nat /\ bufferEnd \in Nat /\ bufferEnd <= Len(sent) /\ cuts \subseteq Int
      /\ pc # "done" => \A c \in cuts : c < currentPos
      /\ pc \in {"firstOfName", "firstOfValue"} => currentPos <= bufferEnd
    BY ReadFacts DEF ReadInv, InBuffer
<1>2. UNCHANGED <<sent, bufferEnd, torn>>
  <2>1. UNCHANGED received
      BY DEF ReadMethod, ReadPath, ReadQuery, ReadQueryName, ReadQueryValue, ReadProtocol, EndRequestLine,
             ReadHeaders, EndHeaders, ReadHeaderName, SkipBlanks, ReadHeaderValue, EndHeaderLine, ReadBody,
             LengthThrows, WriteOutside
  <2> QED
      BY <2>1 DEF received
<1>3. CASE ReadMethod \/ ReadPath \/ ReadQuery
  <2>1. pc \in {"method", "path", "query"} /\ currentPos < bufferEnd
      BY <1>3, ByteIsThere DEF ReadMethod, ReadPath, ReadQuery, Places
  <2>2. \/ currentPos' = currentPos /\ cuts' = cuts
        \/ currentPos' = currentPos + 1 /\ (cuts' = cuts \/ cuts' = cuts \cup {currentPos})
      BY <1>3 DEF ReadMethod, ReadPath, ReadQuery, NextChar, EndPath, Throw
  <2>3. currentPos' <= bufferEnd
      BY <1>1, <2>1, <2>2
  <2> QED
      BY <1>2, <2>1, <2>2, <2>3, PositionStep
<1>4. CASE ReadQueryName
  <2>1. pc \in {"firstOfName", "name"} /\ (pc = "name" => currentPos < bufferEnd)
      BY <1>4, ByteIsThere DEF ReadQueryName, Places
  <2>2. currentPos <= bufferEnd
      BY <1>1, <2>1
  <2>3. currentChar = "=" => currentPos < bufferEnd
      BY ByteReceived DEF Zero, ReadInv
  <2>4. \/ currentPos' = currentPos /\ cuts' = cuts
        \/ currentPos' = currentPos + 1 /\ (cuts' = cuts \/ cuts' = cuts \cup {currentPos})
      BY <1>4 DEF ReadQueryName, NextChar
  <2>5. currentPos' <= bufferEnd \/ pc' = "name"
      BY <1>1, <1>4, <2>2, <2>3 DEF ReadQueryName, NextChar
  <2> QED
      BY <1>2, <2>1, <2>2, <2>4, <2>5, PositionStep
<1>5. CASE ReadQueryValue
  <2>1. pc \in {"firstOfValue", "value"} /\ (pc = "value" => currentPos < bufferEnd)
      BY <1>5, ByteIsThere DEF ReadQueryValue, Places
  <2>2. currentPos <= bufferEnd
      BY <1>1, <2>1
  <2>3. currentPos' \in {currentPos, currentPos + 1} /\ cuts' = cuts
      BY <1>5 DEF ReadQueryValue, NextChar
  <2>4. currentPos' <= bufferEnd \/ pc' = "value"
      BY <1>5, <2>2 DEF ReadQueryValue, NextChar
  <2> QED
      BY <1>2, <2>1, <2>2, <2>3, <2>4, PositionStep
<1>6. CASE ReadProtocol \/ EndRequestLine \/ ReadHeaders \/ EndHeaders
  <2>1. pc \in {"protocol", "requestLineEnd", "header", "headersEnd"} /\ currentPos < bufferEnd
      BY <1>6, ByteIsThere DEF ReadProtocol, EndRequestLine, ReadHeaders, EndHeaders, Places
  <2>2. (currentPos' = currentPos \/ currentPos' = currentPos + 1) /\ cuts' = cuts
      BY <1>6 DEF ReadProtocol, EndRequestLine, ReadHeaders, EndHeaders, Newline, NextChar, Throw
  <2>3. currentPos' <= bufferEnd
      BY <1>1, <2>1, <2>2
  <2> QED
      BY <1>2, <2>1, <2>2, <2>3, PositionStep
<1>7. CASE ReadHeaderName \/ SkipBlanks \/ ReadHeaderValue
  <2>1. pc \in {"headerName", "blanks", "headerValue"} /\ currentPos < bufferEnd
      BY <1>7, ByteIsThere DEF ReadHeaderName, SkipBlanks, ReadHeaderValue, Places
  <2>2. \/ currentPos' = currentPos /\ cuts' = cuts
        \/ currentPos' = currentPos + 1 /\ (cuts' = cuts \/ cuts' = cuts \cup {currentPos})
      BY <1>7 DEF ReadHeaderName, SkipBlanks, ReadHeaderValue, NextChar, Throw
  <2>3. currentPos' <= bufferEnd
      BY <1>1, <2>1, <2>2
  <2> QED
      BY <1>2, <2>1, <2>2, <2>3, PositionStep
<1>8. CASE EndHeaderLine
  <2>1. pc = "headerLineEnd" /\ currentPos < bufferEnd
      BY <1>8, ByteIsThere DEF EndHeaderLine, Places
  <2>2. line.end \in Nat /\ line.end <= currentPos
    <3>1. HeadersEnd
        BY DEF ReadInv, StringsInv
    <3> QED
        BY <2>1, <3>1 DEF HeadersEnd, InLine
  <2>3. \/ pc' = "done"
        \/ currentPos' = currentPos + 1 /\ cuts' = cuts \cup {line.end}
      BY <1>8 DEF EndHeaderLine, Newline, NextChar, Throw
  <2>4. pc' # "done" => currentPos' <= bufferEnd /\ \A c \in cuts' : c < currentPos'
    <3>1. \A c \in cuts : c < currentPos /\ c \in Int
        BY <1>1, <2>1
    <3>2. currentPos + 1 <= bufferEnd /\ line.end < currentPos + 1 /\ \A c \in cuts : c < currentPos + 1
        BY <1>1, <2>1, <2>2, <3>1
    <3> QED
        BY <2>3, <3>2
  <2> QED
      BY <1>1, <1>2, <2>4 DEF PositionInv
<1>9. CASE LengthThrows \/ ReadBody \/ WriteOutside
  <2>1. pc' = "done"
      BY <1>9 DEF LengthThrows, ReadBody, WriteOutside, Throw
  <2> QED
      BY <1>1, <1>2, <2>1 DEF PositionInv
<1> QED
    BY <1>2, <1>3, <1>4, <1>5, <1>6, <1>7, <1>8, <1>9

\* Every step leaves what has been read as the text says it.
LEMMA Parses ==
    ASSUME ReadInv, [Next]_vars
    PROVE  ParseInv'
<1>1. ASSUME NEW n \in 1 .. Capacity, Receive(n)
      PROVE  ParseInv'
  <2>1. n \in Nat \ {0}
      OBVIOUS
  <2> QED
      BY <1>1, <2>1, ReceiveParses
<1>2. CASE ReceiveThrows
    BY <1>2, ThrowsParses
<1>3. CASE UNCHANGED vars
    BY <1>3, StutterParses
<1>4. ASSUME ~torn, Next
      PROVE  ParseInv'
    BY <1>1, <1>2, <1>4, ReadMethodParses, ReadPathParses, ReadQueryParses, ReadProtocolParses,
       EndRequestLineParses, ReadHeadersParses, EndHeadersParses, ReadHeaderNameParses, SkipBlanksParses,
       ReadHeaderValueParses, EndHeaderLineParses, ReadBodyParses, LengthParses
       DEF Next
<1>5. ASSUME torn, Next
      PROVE  ParseInv'
  <2>1. CASE ReceiveThrows \/ \E n \in 1 .. Capacity : Receive(n)
      BY <1>1, <1>2, <2>1
  <2>2. CASE ~(ReceiveThrows \/ \E n \in 1 .. Capacity : Receive(n))
    <3>1. PositionInv' /\ torn'
        BY <1>5, <2>2, PositionHolds DEF Next
    <3> QED
        BY <3>1 DEF ParseInv
  <2> QED
      BY <2>1, <2>2
<1> QED
    BY <1>3, <1>4, <1>5

-----------------------------------------------------------------------------
\* The invariant holds from the first byte on, and says that the answer is right.
LEMMA ParseInductive ==
    /\ Init => ReadInv
    /\ ReadInv /\ [Next]_vars => ReadInv'
    /\ ReadInv => ParseMatchesText
<1>0. Capacity \in Nat
    BY CapacityAssumption
<1>1. Init => ReadInv
  <2> SUFFICES ASSUME Init PROVE ReadInv
      OBVIOUS
  <2>1. /\ sent \in Texts /\ bufferEnd = 0 /\ currentPos = 0 /\ pc = "method" /\ cuts = {} /\ headers = <<>>
        /\ returned = "none" /\ body = NoString /\ path = 0
      BY DEF Init
  <2>2. StringsInv /\ InBuffer /\ NoBodyYet
    <3>1. InBuffer
        BY <1>0, <2>1 DEF InBuffer, Places, NoString
    <3>2. NoBodyYet
        BY <2>1 DEF NoBodyYet
    <3> QED
        BY <1>0, <3>1, <3>2, StringsInductive
  <2>3. PositionInv
      BY <2>1, SentType DEF PositionInv
  <2>4. MethodRead /\ HeadersRead
    <3>1. Clear(sent, Blanks, 1, 0)
        BY DEF Clear
    <3> QED
        BY <2>1, <3>1 DEF MethodRead, HeadersRead, InLine, Places
  <2>5. PathRead /\ QueryRead /\ ParameterRead /\ LineRead /\ Answered
      BY <2>1 DEF PathRead, QueryRead, ParameterRead, InParameter, LineRead, InLine, Answered
  <2>6. TargetRead /\ ProtocolRead
      BY <2>1 DEF TargetRead, ProtocolRead, Behind, Places, InTarget
  <2> QED
      BY <2>2, <2>3, <2>4, <2>5, <2>6 DEF ReadInv, ParseInv
<1>2. ReadInv /\ [Next]_vars => ReadInv'
  <2> SUFFICES ASSUME ReadInv, [Next]_vars PROVE ReadInv'
      OBVIOUS
  <2>1. StringsInv /\ InBuffer /\ NoBodyYet
      BY DEF ReadInv
  <2>2. StringsInv'
      BY <1>0, <2>1, StringsInductive
  <2>3. NoBodyYet'
      BY <2>1, BodyComesLast
  <2>4. InBuffer'
    <3>1. CASE UNCHANGED vars
      <4>1. UNCHANGED <<sent, bufferEnd, currentPos, pc, path, body, returned>>
          BY <3>1 DEF vars, received, strings
      <4> QED
          BY <2>1, <4>1 DEF InBuffer
    <3> QED
        BY <1>0, <2>1, <3>1, StaysInBuffer
  <2>5. ParseInv'
      BY Parses
  <2> QED
      BY <2>2, <2>3, <2>4, <2>5 DEF ReadInv
<1>3. ReadInv => ParseMatchesText
    BY DEF ReadInv, ParseInv, Answered, ParseMatchesText
<1> QED
    BY <1>1, <1>2, <1>3

\* What is read does not depend on how the text came in pieces, whatever the client
\* sends, in whatever pieces, for a buffer of any size: a well-formed text gives its
\* request and no other, what is refused is not well-formed, and nothing is written
\* outside the buffer, unless a piece ends between two delimiters of the query, or
\* the Content-Length is negative or too large for an int.
THEOREM ParseCorrect == Spec => []ParseMatchesText
<1>1. Init => ReadInv
    BY ParseInductive
<1>2. ReadInv /\ [Next]_vars => ReadInv'
    BY ParseInductive
<1>3. ReadInv => ParseMatchesText
    BY ParseInductive
<1> QED
    BY <1>1, <1>2, <1>3, PTL DEF Spec
=============================================================================
