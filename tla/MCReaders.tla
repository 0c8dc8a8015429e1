----------------------------- MODULE MCReaders -----------------------------
(***************************************************************************)
(* The readers of texts, for TLC.  They have nothing in common but that     *)
(* each one goes over a text from somebody else: a behavior is one of them  *)
(* at work (part), the variables of the others stay as they are.            *)
(***************************************************************************)
EXTENDS JsonText, HttpMessageReader

VARIABLES part, file, at, entryLine, group, json, outcome

-----------------------------------------------------------------------------
\* Requests with and without query, headers and body, and with what is wrong in
\* each place.

crlf == <<"\r", "\n">>
requestStart == <<"GET", " ", "/", "p">>
requestEnd == <<" ", "HTTP/1.1">> \o crlf
length(n) == <<"Content-Length", ":", n>> \o crlf
\* With Half = 128, Wrap = 65536: plain, into the text, in front of the buffer, no int
\* for the sum, taken for 1, taken for -100, and out of range on both sides.
MCNumerals == "1" :> 1 @@ "2" :> 2 @@ "-13" :> -13 @@ "-100" :> -100 @@ "127" :> 127 @@
              "257" :> 257 @@ "156" :> 156 @@ "65536" :> 65536 @@ "-65536" :> -65536
host == <<"H", ":", " ", "x", " ", "y", " ">> \o crlf

MCTexts ==
    { requestStart \o requestEnd \o crlf,
      requestStart \o requestEnd \o host \o host \o crlf,
      requestStart \o <<"?", "n", "=", "v", "&", "n", "=", "w">> \o requestEnd \o crlf,
      requestStart \o <<"?", "n", "&", "m", "=", "=">> \o requestEnd \o host \o crlf,
      requestStart \o <<"?", "n", "=", "&", "=", "v", "&">> \o requestEnd \o crlf,
      requestStart \o <<"?">> \o requestEnd \o crlf,
      requestStart \o requestEnd \o length("1") \o host \o length("2") \o crlf \o <<"a", "b", "c">>,
      requestStart \o requestEnd \o length("2") \o crlf \o <<"a">>,
      <<"POST", " ">> \o requestEnd \o length("z") \o crlf,
      requestStart \o requestEnd \o length("-13") \o crlf \o <<"a">>,
      requestStart \o requestEnd \o length("-100") \o crlf \o <<"a">>,
      requestStart \o requestEnd \o length("127") \o crlf \o <<"a">>,
      requestStart \o requestEnd \o length("257") \o crlf \o <<"a", "b">>,
      requestStart \o requestEnd \o length("156") \o crlf,
      requestStart \o requestEnd \o length("65536") \o crlf,
      requestStart \o requestEnd \o length("-65536") \o crlf,
      <<"XYZ", " ", "/">> \o requestEnd \o crlf,
      requestStart \o crlf \o crlf,
      requestStart \o <<" ", "HTTP/1.1", "\r", "x">>,
      requestStart \o requestEnd \o <<":", "x">> \o crlf \o crlf,
      requestStart \o requestEnd \o <<"H", ":", "\r", "x">>,
      requestStart \o requestEnd \o <<"\r", "x">>,
      requestStart \o requestEnd \o host \o host \o host \o crlf }

-----------------------------------------------------------------------------
\* JSON values, texts and the texts around them, and Accept-Languages.

\* With Bits = 9, Precision = 3: numbers with one text (n5 and n6) as 0.3 and 0.1 + 0.2 are,
\* one that is not written with all its digits (n3), one that is not read with all (n7).
Dec(neg, n, exp) == Number(FromDecimal(neg, n, exp))
n1 == Dec(FALSE, 12, 0)
n2 == Dec(TRUE, 5, -3)
n3 == Dec(FALSE, 17, 4)
n4 == Dec(TRUE, 123, -9)
n5 == Number(Exactly(FALSE, 263, -8))
n6 == Number(Exactly(FALSE, 33, -5))
n7 == Dec(FALSE, 523, -4)
n8 == Dec(FALSE, 15, -6)
MCLowest == -30
MCTenPowers == -6 .. 9
s1 == String(<<"a", "\"", "\\", "\n", NotAscii>>)
s2 == String(<<"a">>)
Obj(v, w) == Object(<<"k">> :> v @@ <<"l">> :> w)

MCValues == {n1, n2, n3, n4, n5, n6, n7, n8, Number(Nought(FALSE)), Number(Nought(TRUE)), s1, String(<<>>), Null, Boolean(TRUE), Boolean(FALSE),
  Array(<<>>), Array(<<n1, s2>>), Array(<<s2, n1>>), Object(<<>>), Obj(Array(<<n2, Null>>), s1),
  Obj(Boolean(TRUE), Undefined), Obj(Obj(n1, s2), Null), Obj(Undefined, Undefined),
  Object(<<"k">> :> n1), Array(<<n5>>), Array(<<n6>>)}

q == "\""
plain ==
  { <<"{", q, "a", q, ":", "1", ",", q, "b", q, " ", ":", "[", "]", ",", "}">>,
    <<"{", q, "a", q, ":", "null", ",", q, "a", q, ":", "[", "2", ",", " ", "true", ",", "]", "}">>,
    <<" ", "[", "{", " ", "}", " ", ",", q, "a", "\\", q, "]", q, "\n", "]", " ">>,
    <<q, "\\", "n", "\\", "\\", ",", "ae", q>>,
    <<q, q, " ">>,
    <<"-", "1", "0", ".", "0", "2", "e", "-", "1", "2">>,
    <<"[", "0", "0", "1", "2", "3", "4", ",", "-", "]">>,
    <<"1", "2", "3", "4", "5", ".", "0", "1", "e", "+", "0", "3">>,
    <<q, "\\", "u", "0", "0", "4", "1", q>>,
    <<q, "\\", "u", "0", "0", "0", "0", "a", q>> }
Without1(t) == {RemoveAt(t, i) : i \in DOMAIN t}
Replaced(t) == {ReplaceAt(t, i, c) : i \in DOMAIN t, c \in {",", q, "}", "]", "\\", "1", " ", "g", "ae", "e", ".", ":"}}
\* The power of ten is too large for a double, or the exponent for an int.
hugeNumbers == { <<"0", "e", "1", "0">>, <<"1", "e", "1", "0">>, <<"1", "e", "1", "3", "0">>, <<"3", "e", "-", "1", "0">> }
MCBodies == (hugeNumbers \cup UNION {{t} \cup Without1(t) \cup Replaced(t) : t \in plain}) \ {<<>>}
MCAscii == 0 :> Nul @@ 65 :> "A"
MCHeaders == { <<>>, <<"da", "-", "DK", ",", " ", "da", ";", "q", "=", "0.8", ",", "en", ";", "q", "=", "0.4">>,
   <<"en", ";", "q", "=", "0.4", ",", "da">>, <<"en", ",", "da">>, <<"en", ";", "q", "=", "0.8", ";", "q", "=", "0.4", ",", "da", ";", "q", "=", "0.8", ",">>,
   <<"en", ";", "q", "=", "x", ",", "da", ";", "p">>, <<"en", ";", "q", "=">>,<<"en", ",", ",", "da", ";", "q">>,
   <<"en", ";", "q", "=", "0.4", ",", ",">>, <<"en", ",", "en", ",", "en", ",", "en", ",", "en", ",", "en", ",", "en", ",", "en", ",", "en">> }
MCTranslations == SUBSET {<<>>, <<"en">>, <<"da">>, <<"da", "-", "DK">>}
MCWeights == "0.4" :> 4 @@ "0.8" :> 8
MCRank == "-" :> 0 @@ "DK" :> 1 @@ "da" :> 2 @@ "en" :> 3

-----------------------------------------------------------------------------
\* .desktop files: a good one and its neighbours.

Line(key, value) == key \o <<"=">> \o value
entryFiles ==
  { << <<"[", "Desktop Entry", "]">>, Line(<<"Name">>, <<"n">>), Line(<<"Name", "[", "DA", "]", " ">>, <<"m">>),
       Line(<<"Name">>, <<"o">>), Line(<<"Exec", " ">>, <<" ", "x", "=">>), Line(<<"Actions">>, <<"a", ";", "b", ";", "c">>),
       <<"#", "=">>, <<"[", "Desktop Action", " ", "a", "]">>, Line(<<"Exec">>, <<"y">>), Line(<<"Name", "[", "DA", "]">>, <<"k">>),
       <<" ", "[", "Desktop Action", " ", "b", "]">>, Line(<<"Exec">>, <<"z">>) >>,
    << <<" ">>, <<"[", "Desktop Entry", "]">>, Line(<<"MimeType">>, <<"t", ";", "u", ";">>), Line(<<"Keywords", "[", "DA", "]">>, <<"v", ";">>),
       Line(<<"Terminal">>, <<"true">>), Line(<<"MimeType">>, <<"w", ";", "v">>), Line(<<"Comment">>, <<>>), Line(<<"Icon">>, <<"i">>),
       <<"[", "X", "]">>, Line(<<"Name">>, <<"n">>), Line(<<"Exec">>, <<"q">>) >> }
Without1Line(f) == {RemoveAt(f, i) : i \in DOMAIN f}
Swapped(f) == {[f EXCEPT ![i] = f[i + 1], ![i + 1] = f[i]] : i \in 1 .. Len(f) - 1}
Without1Word(f) == UNION {{[f EXCEPT ![i] = RemoveAt(f[i], j)] : j \in DOMAIN f[i]} : i \in DOMAIN f}
MCFiles == {<< <<" ">> >>} \cup UNION {{f} \cup Without1Line(f) \cup Swapped(f) \cup Without1Word(f) : f \in entryFiles}

Desktop == INSTANCE DesktopEntries WITH Files <- MCFiles, Lower <- "DA" :> "da",
                                        line <- entryLine, AppId <- <<"app", ".desktop">>

-----------------------------------------------------------------------------
httpVars == <<sent, bufferEnd, torn, currentPos, pc, cuts, path, parameters, headers, line, body, returned>>
desktopVars == <<file, at, entryLine, group, json, outcome>>

MCInit ==
    /\ part \in {"json", "http", "desktop"}
    /\ IF part = "json" THEN TextInit ELSE stray = Nul /\ Begin([kind |-> "read", body |-> <<"1">>])
    /\ IF part = "http" THEN Init ELSE sent = requestStart \o requestEnd \o crlf /\ Init
    /\ IF part = "desktop" THEN Desktop!EntryInit ELSE file = << <<" ">> >> /\ Desktop!EntryInit

ReadRequest == part = "http" /\ Next /\ UNCHANGED <<part, textVars, desktopVars>>

MCNext ==
    \/ ReadRequest
    \/ part = "json" /\ TextNext /\ UNCHANGED <<part, httpVars, desktopVars>>
    \/ part = "desktop" /\ Desktop!EntryNext /\ UNCHANGED <<part, textVars, httpVars>>

\* As in HttpMessageReader: the worker runs.
MCSpec == MCInit /\ [][MCNext]_<<part, textVars, httpVars, desktopVars>> /\ WF_httpVars(ReadRequest)

-----------------------------------------------------------------------------
\* httpmessagereader.cpp: a worker is not held for ever by its client.
RequestReturns == part = "http" => ReadReturns

\* desktopentryreader.cpp: the application that is published says what the file says,
\* and a file that breaks the rules is refused.
EntrySaysWhatTheFileSays == Desktop!EntrySaysWhatTheFileSays

\* buildActions: an application whose file has not changed equals the one published
\* before, just when the entry and each of its actions have a command.
UnchangedUnlessNoCommand == Desktop!UnchangedUnlessNoCommand

=============================================================================
