--------------------------- MODULE StreamsProofs ----------------------------
(***************************************************************************)
(* Theorems about NotificationStream and JsonResource.  The first: the      *)
(* variables keep their types, and a client has got every notification since *)
(* it was registered, once and in order, for any clients, sizes of their    *)
(* buffers and notifications.  The second: the variables keep their types,  *)
(* and every client gets the whole text for its own locales, for any workers *)
(* and locales.  What makes it so is the mutex: whoever is between two places *)
(* of doGET holds it as those places say, and nobody looks for or sends a   *)
(* text while another inserts.                                              *)
(***************************************************************************)
EXTENDS NotificationStream, JsonResource, SequenceTheorems, TLAPS

-----------------------------------------------------------------------------
\* NotificationStream.

\* A client is in the vector once, and only when it is registered; before that it has
\* got nothing, or the header.
Phases ==
    /\ \A i, j \in DOMAIN mClientSockets : mClientSockets[i] = mClientSockets[j] => i = j
    /\ \A i \in DOMAIN mClientSockets : phase[mClientSockets[i]] = "registered"
    /\ \A s \in Subscribers :
          /\ phase[s] = "new" => sent[s] = <<>> /\ unread[s] = 0
          /\ phase[s] = "headerSent" => Len(sent[s]) = 1
          /\ phase[s] = "registered" => Len(sent[s]) >= 1

\* How much a client of the vector has got.
Lengths ==
    \A i \in DOMAIN mClientSockets :
        Len(sent[mClientSockets[i]]) = 1 + LastDue(i) - joined[mClientSockets[i]]

\* And what.
Contents ==
    \A s \in Subscribers : \A n \in DOMAIN sent[s] :
        sent[s][n] = IF n = 1 THEN Header ELSE joined[s] + n - 1

StreamInv == TypeOK /\ Phases /\ Lengths /\ Contents

\* Without the element at i, those after it have moved up.
LEMMA WithoutElement ==
    ASSUME NEW S, NEW q \in Seq(S), NEW i \in DOMAIN q
    PROVE  /\ Without(q, i) \in Seq(S)
           /\ Len(Without(q, i)) = Len(q) - 1
           /\ \A k \in 1 .. Len(q) - 1 : Without(q, i)[k] = IF k < i THEN q[k] ELSE q[k + 1]
<1> DEFINE a == SubSeq(q, 1, i - 1)
           b == SubSeq(q, i + 1, Len(q))
<1>1. i \in 1 .. Len(q) /\ Len(q) \in Nat
  OBVIOUS
<1>2. a \in Seq(S) /\ Len(a) = i - 1 /\ \A k \in 1 .. i - 1 : a[k] = q[k]
  BY <1>1, SubSeqProperties
<1>3. b \in Seq(S) /\ Len(b) = Len(q) - i /\ \A k \in 1 .. Len(q) - i : b[k] = q[i + k]
  BY <1>1, SubSeqProperties
<1> HIDE DEF a, b
<1>4. /\ a \o b \in Seq(S) /\ Len(a \o b) = Len(a) + Len(b)
      /\ \A k \in 1 .. Len(a) + Len(b) : (a \o b)[k] = IF k <= Len(a) THEN a[k] ELSE b[k - Len(a)]
  BY <1>2, <1>3, ConcatProperties
<1>5. Without(q, i) = a \o b
  BY DEF Without, a, b
<1>6. Len(a) + Len(b) = Len(q) - 1
  BY <1>1, <1>2, <1>3
<1>7. ASSUME NEW k \in 1 .. Len(q) - 1 PROVE (a \o b)[k] = IF k < i THEN q[k] ELSE q[k + 1]
  <2>0. k \in 1 .. Len(a) + Len(b) /\ k \in Int /\ i \in Int /\ Len(a) = i - 1
    BY <1>1, <1>2, <1>6
  <2>1. CASE k < i
    <3>1. k <= Len(a) /\ k \in 1 .. i - 1
      BY <2>0, <2>1
    <3>2. QED BY <2>0, <2>1, <3>1, <1>2, <1>4
  <2>2. CASE ~(k < i)
    <3>1. ~(k <= Len(a)) /\ k - Len(a) = k - i + 1 /\ k - i + 1 \in 1 .. Len(q) - i /\ i + (k - i + 1) = k + 1
      BY <2>0, <2>2, <1>1
    <3>2. (a \o b)[k] = b[k - i + 1]
      BY <2>0, <3>1, <1>4
    <3>3. b[k - i + 1] = q[k + 1]
      BY <3>1, <1>3
    <3>4. QED BY <2>2, <3>2, <3>3
  <2>3. QED BY <2>1, <2>2
<1>8. QED BY <1>4, <1>5, <1>6, <1>7

LEMMA StreamInitInv == Init => StreamInv
<1> SUFFICES ASSUME Init PROVE StreamInv
  OBVIOUS
<1> USE NotificationStreamAssumption
<1>1. <<>> \in Seq(0 .. MaxEvents) /\ <<>> \in Seq(Subscribers) /\ Len(<<>>) = 0
  OBVIOUS
<1>2. mClientSockets = <<>> /\ DOMAIN mClientSockets = {}
  BY <1>1 DEF Init
<1>3. TypeOK
  <2>1. hungUp \in [Subscribers -> BOOLEAN]
    BY Zenon DEF Init
  <2>2. sent \in [Subscribers -> Seq(0 .. MaxEvents)]
    BY <1>1 DEF Init
  <2>3. it \in 0 .. Len(mClientSockets) + 1
    BY <1>1, <1>2 DEF Init
  <2>4. mClientSockets \in Seq(Subscribers) /\ ~waiting /\ waiting \in BOOLEAN /\ alive \in BOOLEAN
    BY <1>1, <1>2 DEF Init
  <2>5. /\ event \in 0 .. MaxEvents /\ joined \in [Subscribers -> 0 .. MaxEvents]
        /\ unread \in [Subscribers -> 0 .. BufferSize]
        /\ phase \in [Subscribers -> {"new", "headerSent", "registered", "erased"}]
    BY DEF Init
  <2>6. QED BY <2>1, <2>2, <2>3, <2>4, <2>5 DEF TypeOK
<1>4. \A s \in Subscribers : phase[s] = "new" /\ sent[s] = <<>> /\ unread[s] = 0
  BY DEF Init
<1>5. QED BY <1>1, <1>2, <1>3, <1>4 DEF StreamInv, Phases, Lengths, Contents

\* A step that only moves things that do not matter: unread, waiting, hungUp, alive.
LEMMA QuietInv ==
    ASSUME StreamInv, TypeOK',
           UNCHANGED <<mClientSockets, it, event, phase, joined, sent>>,
           \A s \in Subscribers : unread[s] = 0 => unread'[s] = 0
    PROVE  StreamInv'
  BY DEF StreamInv, TypeOK, Phases, Lengths, Contents, LastDue

LEMMA DieInv == ASSUME StreamInv, Die PROVE StreamInv'
<1>1. TypeOK'
  BY DEF Die, StreamInv, TypeOK, sockets
<1>2. QED BY <1>1, QuietInv DEF Die, sockets

LEMMA AddingInv == ASSUME StreamInv, NEW s \in Subscribers, Adding(s) PROVE StreamInv'
<1> USE NotificationStreamAssumption DEF StreamInv
<1>1. ASSUME WriteHeader(s) PROVE StreamInv'
  <2>1. /\ phase[s] = "new" /\ phase' = [phase EXCEPT ![s] = "headerSent"]
        /\ sent' = [sent EXCEPT ![s] = Append(@, Header)]
        /\ unread' = [unread EXCEPT ![s] = @ + 1]
        /\ UNCHANGED <<mClientSockets, it, waiting, event, joined, hungUp, alive>>
    BY <1>1 DEF WriteHeader, Put
  <2>2. sent[s] = <<>> /\ unread[s] = 0
    BY <2>1 DEF Phases
  <2>3. TypeOK'
    BY <2>1, <2>2 DEF TypeOK, Header
  <2>4. /\ phase'[s] = "headerSent" /\ sent'[s] = <<Header>>
        /\ \A t \in Subscribers \ {s} : phase'[t] = phase[t] /\ sent'[t] = sent[t] /\ unread'[t] = unread[t]
    BY <2>1, <2>2 DEF TypeOK
  <2>5. \A i \in DOMAIN mClientSockets : mClientSockets[i] \in Subscribers \ {s}
    BY <2>1 DEF Phases, TypeOK
  <2>6. Phases'
    <3>1. Len(<<Header>>) = 1
      OBVIOUS
    <3>2. \A t \in Subscribers : /\ phase'[t] = "new" => sent'[t] = <<>> /\ unread'[t] = 0
                                 /\ phase'[t] = "headerSent" => Len(sent'[t]) = 1
                                 /\ phase'[t] = "registered" => Len(sent'[t]) >= 1
      BY <2>4, <3>1 DEF Phases
    <3>3. \A i \in DOMAIN mClientSockets : phase'[mClientSockets[i]] = "registered"
      BY <2>4, <2>5 DEF Phases
    <3>4. QED BY <2>1, <3>2, <3>3 DEF Phases
  <2>7. Lengths'
    BY <2>1, <2>4, <2>5 DEF Lengths, LastDue
  <2>8. Contents'
    BY <2>1, <2>4 DEF Contents
  <2>9. QED BY <2>3, <2>6, <2>7, <2>8
<1>2. ASSUME WriteHeaderToNobody(s) PROVE StreamInv'
  BY <1>2, DieInv DEF WriteHeaderToNobody
<1>3. ASSUME PushBack(s) PROVE StreamInv'
  <2>1. /\ phase[s] = "headerSent" /\ it = 0
        /\ mClientSockets' = Append(mClientSockets, s)
        /\ phase' = [phase EXCEPT ![s] = "registered"]
        /\ joined' = [joined EXCEPT ![s] = event]
        /\ UNCHANGED <<it, waiting, event, sent, unread, hungUp, alive>>
    BY <1>3 DEF PushBack, sockets
  <2>2. TypeOK'
    BY <2>1 DEF TypeOK
  <2>3. /\ phase'[s] = "registered" /\ joined'[s] = event
        /\ \A t \in Subscribers \ {s} : phase'[t] = phase[t] /\ joined'[t] = joined[t]
    BY <2>1 DEF TypeOK
  <2>4. \A i \in DOMAIN mClientSockets : mClientSockets[i] \in Subscribers \ {s}
    BY <2>1 DEF Phases, TypeOK
  <2>5. /\ DOMAIN mClientSockets' = DOMAIN mClientSockets \cup {Len(mClientSockets) + 1}
        /\ mClientSockets'[Len(mClientSockets) + 1] = s
        /\ \A i \in DOMAIN mClientSockets : mClientSockets'[i] = mClientSockets[i]
        /\ Len(mClientSockets) + 1 \notin DOMAIN mClientSockets
    <3>1. mClientSockets \in Seq(Subscribers)
      BY DEF TypeOK
    <3>2. QED BY <2>1, <3>1
  <2>6. Len(sent[s]) = 1
    BY <2>1 DEF Phases
  <2>7. Phases'
    <3>1. \A i, j \in DOMAIN mClientSockets' : mClientSockets'[i] = mClientSockets'[j] => i = j
      BY <2>4, <2>5 DEF Phases
    <3>2. \A i \in DOMAIN mClientSockets' : phase'[mClientSockets'[i]] = "registered"
      BY <2>3, <2>4, <2>5 DEF Phases
    <3>3. \A t \in Subscribers : /\ phase'[t] = "new" => sent'[t] = <<>> /\ unread'[t] = 0
                                 /\ phase'[t] = "headerSent" => Len(sent'[t]) = 1
                                 /\ phase'[t] = "registered" => Len(sent'[t]) >= 1
      BY <2>1, <2>3, <2>6 DEF Phases
    <3>4. QED BY <3>1, <3>2, <3>3 DEF Phases
  <2>8. Lengths'
    <3>1. event \in Nat
      BY DEF TypeOK
    <3>2. \A i : LastDue(i) = event /\ LastDue(i)' = event
      BY <2>1 DEF LastDue
    <3>3. \A i \in DOMAIN mClientSockets : Len(sent[mClientSockets[i]]) = 1 + event - joined[mClientSockets[i]]
      BY <3>2 DEF Lengths
    <3>4. \A i \in DOMAIN mClientSockets' :
             Len(sent[mClientSockets'[i]]) = 1 + event - joined'[mClientSockets'[i]]
      <4> SUFFICES ASSUME NEW i \in DOMAIN mClientSockets'
                   PROVE  Len(sent[mClientSockets'[i]]) = 1 + event - joined'[mClientSockets'[i]]
        OBVIOUS
      <4>1. CASE i \in DOMAIN mClientSockets
        BY <4>1, <3>3, <2>3, <2>4, <2>5
      <4>2. CASE i = Len(mClientSockets) + 1
        BY <4>2, <3>1, <2>3, <2>5, <2>6
      <4>3. QED BY <4>1, <4>2, <2>5
    <3>5. QED BY <3>2, <3>4, <2>1 DEF Lengths
  <2>9. Contents'
    <3>1. DOMAIN sent[s] = {1}
      BY <2>6 DEF TypeOK
    <3>2. QED BY <3>1, <2>1, <2>3 DEF Contents
  <2>10. QED BY <2>2, <2>7, <2>8, <2>9
<1>4. QED BY <1>1, <1>2, <1>3 DEF Adding

LEMMA NotifyingInv == ASSUME StreamInv, Notifying PROVE StreamInv'
<1> USE NotificationStreamAssumption DEF StreamInv
<1>1. ASSUME Write PROVE StreamInv'
  <2> DEFINE s == mClientSockets[it]
  <2>1. /\ it \in DOMAIN mClientSockets /\ it > 0 /\ it \in Nat /\ s \in Subscribers
        /\ phase[s] = "registered" /\ unread[s] # BufferSize
    BY <1>1 DEF Write, Full, TypeOK, Phases
  <2>2. /\ sent' = [sent EXCEPT ![s] = Append(@, event)]
        /\ unread' = [unread EXCEPT ![s] = @ + 1]
        /\ it' = it + 1 /\ waiting' = FALSE
        /\ UNCHANGED <<mClientSockets, event, phase, joined, hungUp, alive>>
    BY <1>1 DEF Write, Put
  <2>3. /\ event \in Nat /\ joined[s] \in Nat /\ sent[s] \in Seq(0 .. MaxEvents)
        /\ event \in 0 .. MaxEvents /\ unread[s] \in 0 .. BufferSize
    BY <2>1 DEF TypeOK
  <2>4. Len(sent[s]) = event - joined[s] /\ Len(sent[s]) >= 1
    <3>1. LastDue(it) = event - 1 /\ Len(sent[s]) = 1 + LastDue(it) - joined[s]
      BY <2>1 DEF Lengths, LastDue
    <3>2. Len(sent[s]) >= 1
      BY <2>1 DEF Phases
    <3> QED
      BY <2>3, <3>1, <3>2
  <2> HIDE DEF s
  <2>5. TypeOK'
    <3>1. Append(sent[s], event) \in Seq(0 .. MaxEvents)
      BY <2>3
    <3>2. sent' \in [Subscribers -> Seq(0 .. MaxEvents)]
      BY <2>1, <2>2, <3>1 DEF TypeOK, s
    <3>3. unread' \in [Subscribers -> 0 .. BufferSize]
      <4>0. unread \in [Subscribers -> 0 .. BufferSize]
        BY DEF TypeOK
      <4>1. unread[s] + 1 \in 0 .. BufferSize
        <5>1. ASSUME NEW n \in 0 .. BufferSize, n # BufferSize PROVE n + 1 \in 0 .. BufferSize
          BY <5>1
        <5>2. unread[s] # BufferSize /\ unread[s] \in 0 .. BufferSize
          BY <2>1, <2>3
        <5>3. QED BY <5>1, <5>2
      <4>2. ASSUME NEW f \in [Subscribers -> 0 .. BufferSize], NEW t \in Subscribers, NEW n \in 0 .. BufferSize
            PROVE  [f EXCEPT ![t] = n] \in [Subscribers -> 0 .. BufferSize]
        OBVIOUS
      <4>3. unread' = [unread EXCEPT ![s] = unread[s] + 1]
        BY <2>2
      <4>4. QED BY <4>0, <4>1, <4>2, <4>3, <2>1
    <3>4. it' \in 0 .. Len(mClientSockets') + 1
      <4>1. mClientSockets \in Seq(Subscribers)
        BY DEF TypeOK
      <4>2. QED BY <4>1, <2>1, <2>2
    <3>5. QED BY <2>2, <3>2, <3>3, <3>4 DEF TypeOK
  <2>6. /\ sent'[s] = Append(sent[s], event)
        /\ \A t \in Subscribers \ {s} : sent'[t] = sent[t] /\ unread'[t] = unread[t]
    BY <2>1, <2>2 DEF TypeOK
  <2>7. Len(sent'[s]) = 1 + event - joined[s]
    BY <2>3, <2>4, <2>6
  <2>8. \A i \in DOMAIN mClientSockets : i # it => mClientSockets[i] \in Subscribers \ {s}
    BY <2>1 DEF Phases, TypeOK, s
  <2>9. Phases'
    <3>1. /\ \A i, j \in DOMAIN mClientSockets : mClientSockets[i] = mClientSockets[j] => i = j
          /\ \A i \in DOMAIN mClientSockets : phase[mClientSockets[i]] = "registered"
      BY DEF Phases
    <3>2. ASSUME NEW t \in Subscribers
          PROVE  /\ phase[t] = "new" => sent'[t] = <<>> /\ unread'[t] = 0
                 /\ phase[t] = "headerSent" => Len(sent'[t]) = 1
                 /\ phase[t] = "registered" => Len(sent'[t]) >= 1
      <4>1. CASE t = s
        <5>1. Len(sent'[s]) >= 1
          BY <2>3, <2>4, <2>7
        <5>2. QED BY <4>1, <5>1, <2>1
      <4>2. CASE t # s
        <5>1. sent'[t] = sent[t] /\ unread'[t] = unread[t]
          BY <4>2, <2>6
        <5>2. QED BY <5>1 DEF Phases
      <4>3. QED BY <4>1, <4>2
    <3>3. UNCHANGED <<mClientSockets, phase>>
      BY <2>2
    <3>4. QED BY <3>1, <3>2, <3>3 DEF Phases
  <2>10. Lengths'
    <3> SUFFICES ASSUME NEW i \in DOMAIN mClientSockets
                 PROVE  Len(sent'[mClientSockets[i]]) = 1 + LastDue(i)' - joined[mClientSockets[i]]
      BY <2>2 DEF Lengths
    <3>0. i \in Nat
      BY DEF TypeOK
    <3>1. CASE i = it
      BY <3>0, <3>1, <2>1, <2>2, <2>7 DEF LastDue, s
    <3>2. CASE i # it
      <4>1. LastDue(i)' = LastDue(i)
        BY <3>0, <3>2, <2>1, <2>2 DEF LastDue
      <4>2. QED BY <3>2, <4>1, <2>2, <2>6, <2>8 DEF Lengths
    <3>3. QED BY <3>1, <3>2
  <2>11. Contents'
    <3> SUFFICES ASSUME NEW t \in Subscribers, NEW n \in DOMAIN sent'[t]
                 PROVE  sent'[t][n] = IF n = 1 THEN Header ELSE joined[t] + n - 1
      BY <2>2 DEF Contents
    <3>1. CASE t # s
      BY <3>1, <2>6 DEF Contents
    <3>2. CASE t = s /\ n = Len(sent[s]) + 1
      <4>1. sent'[s][n] = event /\ n # 1
        BY <3>2, <2>3, <2>4, <2>6
      <4>2. joined[s] + n - 1 = event
        BY <3>2, <2>3, <2>4
      <4>3. QED BY <3>2, <4>1, <4>2
    <3>3. CASE t = s /\ n # Len(sent[s]) + 1
      <4>1. n \in DOMAIN sent[s] /\ sent'[s][n] = sent[s][n]
        BY <3>3, <2>3, <2>6
      <4>2. QED BY <3>3, <4>1 DEF Contents
    <3>4. QED BY <3>1, <3>2, <3>3
  <2>12. QED BY <2>5, <2>9, <2>10, <2>11
<1>2. ASSUME WriteWaits PROVE StreamInv'
  <2>1. TypeOK'
    BY <1>2 DEF WriteWaits, TypeOK, sockets
  <2>2. QED BY <1>2, <2>1, QuietInv DEF WriteWaits, sockets
<1>3. ASSUME WriteToNobody PROVE StreamInv'
  BY <1>3, DieInv DEF WriteToNobody
<1>4. ASSUME WriteShort PROVE StreamInv'
  <2> DEFINE rest == Without(mClientSockets, it)
  <2>1. /\ it \in DOMAIN mClientSockets /\ it > 0 /\ it \in Nat
        /\ mClientSockets \in Seq(Subscribers)
    BY <1>4 DEF WriteShort, TypeOK
  <2>2. /\ mClientSockets' = rest /\ waiting' = FALSE
        /\ phase' = [phase EXCEPT ![mClientSockets[it]] = "erased"]
        /\ UNCHANGED <<it, event, joined, sent, unread, hungUp, alive>>
    BY <1>4 DEF WriteShort, sockets
  <2>3. /\ rest \in Seq(Subscribers) /\ Len(rest) = Len(mClientSockets) - 1
        /\ \A k \in 1 .. Len(rest) : rest[k] = IF k < it THEN mClientSockets[k] ELSE mClientSockets[k + 1]
    BY <2>1, WithoutElement
  <2> HIDE DEF rest
  <2>4. DOMAIN rest = 1 .. Len(rest) /\ DOMAIN mClientSockets = 1 .. Len(mClientSockets)
        /\ Len(rest) \in Nat /\ Len(mClientSockets) \in Nat
    BY <2>1, <2>3
  <2>5. TypeOK'
    <3>1. it' \in 0 .. Len(mClientSockets') + 1
      BY <2>1, <2>2, <2>3, <2>4
    <3>2. phase' \in [Subscribers -> {"new", "headerSent", "registered", "erased"}]
      BY <2>2 DEF TypeOK
    <3>3. QED BY <2>2, <2>3, <3>1, <3>2 DEF TypeOK
  <2>6. \A k \in DOMAIN rest : \E j \in DOMAIN mClientSockets :
            /\ j # it /\ rest[k] = mClientSockets[j]
            /\ j = IF k < it THEN k ELSE k + 1
    BY <2>1, <2>3, <2>4
  <2>7. Phases'
    <3>1. \A k \in DOMAIN rest : rest[k] \in Subscribers /\ rest[k] # mClientSockets[it]
      BY <2>1, <2>3, <2>6 DEF Phases
    <3>2. \A k, l \in DOMAIN rest : rest[k] = rest[l] => k = l
      <4> SUFFICES ASSUME NEW k \in DOMAIN rest, NEW l \in DOMAIN rest, rest[k] = rest[l]
                   PROVE  k = l
        OBVIOUS
      <4>1. PICK i \in DOMAIN mClientSockets : rest[k] = mClientSockets[i] /\ i = IF k < it THEN k ELSE k + 1
        BY <2>6
      <4>2. PICK j \in DOMAIN mClientSockets : rest[l] = mClientSockets[j] /\ j = IF l < it THEN l ELSE l + 1
        BY <2>6
      <4>3. i = j
        BY <4>1, <4>2 DEF Phases
      <4>4. QED BY <4>1, <4>2, <4>3, <2>1, <2>4
    <3>3. \A k \in DOMAIN rest : phase'[rest[k]] = "registered"
      BY <2>2, <2>6, <3>1 DEF Phases, TypeOK
    <3>4. \A t \in Subscribers : phase'[t] \in {phase[t], "erased"}
      BY <2>2 DEF TypeOK
    <3>5. QED BY <2>2, <3>2, <3>3, <3>4 DEF Phases
  <2>8. Lengths'
    <3> SUFFICES ASSUME NEW k \in DOMAIN rest
                 PROVE  Len(sent[rest[k]]) = 1 + LastDue(k)' - joined[rest[k]]
      BY <2>2 DEF Lengths
    <3>1. PICK j \in DOMAIN mClientSockets :
              /\ j # it /\ rest[k] = mClientSockets[j]
              /\ j = IF k < it THEN k ELSE k + 1
      BY <2>6
    <3>2. LastDue(k)' = LastDue(j)
      BY <2>1, <2>2, <2>4, <3>1 DEF LastDue
    <3>3. QED BY <3>1, <3>2 DEF Lengths
  <2>9. Contents'
    BY <2>2 DEF Contents
  <2>10. QED BY <2>5, <2>7, <2>8, <2>9
<1>5. ASSUME NotifyEnd PROVE StreamInv'
  <2>1. /\ it = Len(mClientSockets) + 1 /\ it' = 0
        /\ UNCHANGED <<mClientSockets, waiting, event, phase, joined, sent, unread, hungUp, alive>>
    BY <1>5 DEF NotifyEnd, sockets
  <2>2. TypeOK'
    BY <2>1 DEF TypeOK
  <2>3. \A i \in DOMAIN mClientSockets : LastDue(i)' = LastDue(i)
    BY <2>1 DEF LastDue, TypeOK
  <2>4. QED BY <2>1, <2>2, <2>3 DEF Phases, Lengths, Contents
<1>6. QED BY <1>1, <1>2, <1>3, <1>4, <1>5 DEF Notifying

LEMMA StreamNextInv == ASSUME StreamInv, Next PROVE StreamInv'
<1> USE NotificationStreamAssumption DEF StreamInv
<1>1. ASSUME NotifyClients PROVE StreamInv'
  <2>1. /\ it = 0 /\ it' = 1 /\ event' = event + 1 /\ event < MaxEvents
        /\ UNCHANGED <<mClientSockets, waiting, phase, joined, sent, unread, hungUp, alive>>
    BY <1>1 DEF NotifyClients, sockets
  <2>2. TypeOK'
    BY <2>1 DEF TypeOK
  <2>3. \A i \in DOMAIN mClientSockets : LastDue(i)' = LastDue(i)
    BY <2>1 DEF LastDue, TypeOK
  <2>4. QED BY <2>1, <2>2, <2>3 DEF Phases, Lengths, Contents
<1>2. ASSUME NEW s \in Subscribers, Read(s) PROVE StreamInv'
  <2>1. TypeOK' /\ \A t \in Subscribers : unread[t] = 0 => unread'[t] = 0
    BY <1>2 DEF Read, TypeOK, server
  <2>2. QED BY <1>2, <2>1, QuietInv DEF Read, server
<1>3. ASSUME NEW s \in Subscribers, HangUp(s) PROVE StreamInv'
  <2>1. TypeOK'
    BY <1>3 DEF HangUp, TypeOK, server, sockets
  <2>2. QED BY <1>3, <2>1, QuietInv DEF HangUp, server, sockets
<1>4. QED BY <1>1, <1>2, <1>3, NotifyingInv, AddingInv DEF Next

LEMMA StreamStutter == ASSUME StreamInv, UNCHANGED vars PROVE StreamInv'
  BY DEF StreamInv, TypeOK, Phases, Lengths, Contents, LastDue, vars, server, sockets

LEMMA StreamInductive == Spec => []StreamInv
<1>1. StreamInv /\ [Next]_vars => StreamInv'
  BY StreamNextInv, StreamStutter
<1>2. QED BY StreamInitInv, <1>1, PTL DEF Spec

\* notifierresource.cpp: the variables keep their types; the iterator never leaves the
\* vector, and no write goes into a full buffer.
THEOREM StreamTypes == Spec => []TypeOK
  BY StreamInductive, PTL DEF StreamInv

\* addClient, notifyClients: every registered client has got every notification since
\* it was registered, once and in order, whoever is added, slow or gone.
THEOREM StreamIsTailAlways == Spec => []StreamIsTail
<1>1. StreamInv => StreamIsTail
  BY DEF StreamInv, Phases, Lengths, Contents, StreamIsTail
<1>2. QED BY StreamInductive, <1>1, PTL

-----------------------------------------------------------------------------
\* JsonResource.

Reading == {"find", "send", "unlock"}
Writing == {"insert", "inserting", "sendBuilt"}

\* The mutex is held at the places where it is held, and excludes.
Mutex ==
    /\ \A w \in Workers : w \in readLocks <=> getPc[w] \in Reading
    /\ \A w \in Workers : w \in writeLocks <=> getPc[w] \in Writing
    /\ writeLocks # {} => readLocks = {}
    /\ \A w, v \in writeLocks : w = v

\* A text of the cache is its own, missing, or being written.
CacheIsWhole ==
    \A l \in Locales :
        \/ localizedCache[l] \in {Content(l), Missing}
        \/ \E w \in Workers : getPc[w] = "inserting" /\ accepted[w] = l

CacheInv == CacheTypeOK /\ Mutex /\ CacheIsWhole /\ AnswersOwnLocales

\* A worker that holds the mutex shared sees what the cache has, and that is whole.
LEMMA ReaderSeesWhole ==
    ASSUME CacheInv, NEW w \in Workers, getPc[w] \in Reading
    PROVE  Text(w) = localizedCache[accepted[w]] /\ Text(w) \in {Content(accepted[w]), Missing}
<1>1. Inserting = {}
  BY DEF CacheInv, Mutex, Inserting, Reading, Writing
<1>2. accepted[w] \in Locales
  BY DEF CacheInv, CacheTypeOK
<1>3. QED BY <1>1, <1>2 DEF CacheInv, CacheIsWhole, Text, Inserting

LEMMA CacheInitInv == CacheInit => CacheInv
  BY DEF CacheInit, CacheInv, CacheTypeOK, Places, Mutex, CacheIsWhole, AnswersOwnLocales, Reading, Writing

\* A step that moves one worker and leaves the cache and the replies alone.
LEMMA MoveInv ==
    ASSUME CacheInv, NEW w \in Workers, NEW from \in Places, NEW to \in Places, Move(w, from, to),
           from # "inserting", to # "inserting",
           UNCHANGED <<localizedCache>>,
           accepted' = accepted, AnswersOwnLocales', reply' \in [Workers -> {Content(l) : l \in Locales} \cup {NoReply, Missing, Torn}],
           readLocks' = IF to \in Reading THEN readLocks \cup {w} ELSE readLocks \ {w},
           writeLocks' = IF to \in Writing THEN writeLocks \cup {w} ELSE writeLocks \ {w},
           (to \in Reading /\ from \notin Reading) => writeLocks = {},
           (to \in Writing /\ from \notin Writing) => writeLocks = {} /\ readLocks = {}
    PROVE  CacheInv'
<1> USE DEF CacheInv
<1>1. /\ getPc' = [getPc EXCEPT ![w] = to] /\ getPc[w] = from
      /\ getPc'[w] = to /\ \A v \in Workers \ {w} : getPc'[v] = getPc[v]
  BY DEF Move, CacheTypeOK
<1>2. CacheTypeOK'
  BY <1>1 DEF CacheTypeOK
<1>3. Mutex'
  <2>1. \A v \in Workers : v \in readLocks' <=> getPc'[v] \in Reading
    BY <1>1 DEF Mutex
  <2>2. \A v \in Workers : v \in writeLocks' <=> getPc'[v] \in Writing
    BY <1>1 DEF Mutex
  <2>3. writeLocks' # {} => readLocks' = {}
    BY <1>1 DEF Mutex, Reading, Writing
  <2>4. \A u, v \in writeLocks' : u = v
    BY <1>1 DEF Mutex, Writing
  <2>5. QED BY <2>1, <2>2, <2>3, <2>4 DEF Mutex
<1>4. CacheIsWhole'
  BY <1>1 DEF CacheIsWhole
<1>5. QED BY <1>2, <1>3, <1>4

LEMMA CacheNextInv == ASSUME CacheInv, CacheNext PROVE CacheInv'
<1> USE DEF CacheInv
<1>0. PICK w \in Workers :
        \/ \E l \in Locales : Get(w, l)
        \/ LockShared(w) \/ Refuse(w) \/ Find(w) \/ Sent(w) \/ Unlock(w)
        \/ LockExclusive(w) \/ BeginInsert(w) \/ EndInsert(w) \/ SentBuilt(w)
  BY DEF CacheNext
<1>p. /\ {"idle", "readLock", "find", "send", "unlock", "writeLock", "insert", "inserting", "sendBuilt"} \subseteq Places
      /\ readLocks \subseteq Workers /\ writeLocks \subseteq Workers
      /\ reply \in [Workers -> {Content(l) : l \in Locales} \cup {NoReply, Missing, Torn}]
      /\ accepted \in [Workers -> Locales] /\ getPc \in [Workers -> Places]
  BY DEF Places, CacheTypeOK
<1>q. (w \in readLocks <=> getPc[w] \in Reading) /\ (w \in writeLocks <=> getPc[w] \in Writing)
  BY DEF Mutex
<1>r. UNCHANGED <<accepted, reply>> => AnswersOwnLocales'
  BY DEF AnswersOwnLocales
<1>1. ASSUME NEW l \in Locales, Get(w, l) PROVE CacheInv'
  <2>1. CacheTypeOK'
    BY <1>1, <1>p DEF Get, Move, CacheTypeOK
  <2>2. /\ getPc[w] = "idle" /\ getPc'[w] = "readLock"
        /\ \A v \in Workers \ {w} : /\ getPc'[v] = getPc[v] /\ accepted'[v] = accepted[v]
                                    /\ reply'[v] = reply[v]
        /\ reply'[w] = NoReply
        /\ UNCHANGED <<readLocks, writeLocks, localizedCache>>
    BY <1>1, <1>p DEF Get, Move
  <2>3. Mutex'
    BY <2>2 DEF Mutex, Reading, Writing
  <2>4. CacheIsWhole'
    BY <2>2 DEF CacheIsWhole
  <2>5. AnswersOwnLocales'
    BY <2>2 DEF AnswersOwnLocales
  <2>6. QED BY <2>1, <2>3, <2>4, <2>5
<1>2. ASSUME LockShared(w) PROVE CacheInv'
  BY <1>2, <1>p, <1>q, <1>r, MoveInv DEF LockShared, Move, Reading, Writing
<1>3. ASSUME Refuse(w) PROVE CacheInv'
  BY <1>3, <1>p, <1>q, <1>r, MoveInv DEF Refuse, Move, Reading, Writing
<1>4. ASSUME Find(w) PROVE CacheInv'
  <2>1. getPc[w] = "find"
    BY <1>4 DEF Find, Move
  <2>2. Text(w) \in {Content(accepted[w]), Missing}
    BY <2>1, ReaderSeesWhole DEF Reading
  <2>3. AnswersOwnLocales'
    BY <1>4, <1>p, <2>2 DEF Find, AnswersOwnLocales
  <2>4. reply' \in [Workers -> {Content(l) : l \in Locales} \cup {NoReply, Missing, Torn}]
    BY <1>4, <1>p, <2>2 DEF Find
  <2>5. /\ UNCHANGED <<accepted, readLocks, writeLocks, localizedCache>>
        /\ Move(w, "find", "send") \/ Move(w, "find", "unlock")
    BY <1>4 DEF Find
  <2>6. w \in readLocks /\ w \notin writeLocks
    BY <2>1, <1>q DEF Reading, Writing
  <2>7. readLocks \cup {w} = readLocks /\ writeLocks \ {w} = writeLocks
    BY <2>6
  <2>8. ASSUME Move(w, "find", "send") PROVE CacheInv'
    BY <2>3, <2>4, <2>5, <2>7, <2>8, <1>p, MoveInv DEF Reading, Writing
  <2>9. ASSUME Move(w, "find", "unlock") PROVE CacheInv'
    BY <2>3, <2>4, <2>5, <2>7, <2>9, <1>p, MoveInv DEF Reading, Writing
  <2>10. QED BY <2>5, <2>8, <2>9
<1>5. ASSUME Sent(w) PROVE CacheInv'
  BY <1>5, <1>p, <1>q, <1>r, MoveInv DEF Sent, Move, Reading, Writing
<1>6. ASSUME Unlock(w) PROVE CacheInv'
  <2>1. /\ Move(w, "unlock", "writeLock") /\ getPc[w] = "unlock"
        /\ readLocks' = readLocks \ {w} /\ UNCHANGED <<accepted, writeLocks, localizedCache, reply>>
    BY <1>6 DEF Unlock, Move
  <2>2. writeLocks \ {w} = writeLocks
    BY <2>1, <1>q DEF Writing
  <2>3. QED BY <2>1, <2>2, <1>p, <1>r, MoveInv DEF Reading, Writing
<1>7. ASSUME LockExclusive(w) PROVE CacheInv'
  BY <1>7, <1>p, <1>q, <1>r, MoveInv DEF LockExclusive, Move, Reading, Writing
<1>8. ASSUME BeginInsert(w) PROVE CacheInv'
  <2>1. /\ getPc[w] = "insert" /\ getPc'[w] = "inserting"
        /\ \A v \in Workers \ {w} : getPc'[v] = getPc[v]
        /\ UNCHANGED <<accepted, readLocks, writeLocks>>
        /\ \A l \in Locales \ {accepted[w]} : localizedCache'[l] = localizedCache[l]
        /\ localizedCache' = [localizedCache EXCEPT ![accepted[w]] = Torn]
    BY <1>8, <1>p DEF BeginInsert, Move, CacheTypeOK
  <2>2. \A v \in Workers \ {w} : getPc[v] \notin Reading \cup Writing
    BY <2>1, <1>q DEF Mutex, Writing
  <2>3. reply' = reply
    BY <1>8, <1>p, <2>2 DEF BeginInsert, Reading, Writing
  <2>4. CacheTypeOK'
    BY <1>8, <1>p, <2>1, <2>3 DEF BeginInsert, Move, CacheTypeOK
  <2>5. Mutex'
    BY <2>1 DEF Mutex, Reading, Writing
  <2>6. CacheIsWhole'
    BY <2>1 DEF CacheIsWhole
  <2>7. QED BY <2>1, <2>3, <2>4, <2>5, <2>6, <1>r
<1>9. ASSUME EndInsert(w) PROVE CacheInv'
  <2>1. /\ getPc[w] = "inserting" /\ getPc'[w] = "sendBuilt"
        /\ \A v \in Workers \ {w} : getPc'[v] = getPc[v]
        /\ UNCHANGED <<accepted, readLocks, writeLocks>>
        /\ \A l \in Locales \ {accepted[w]} : localizedCache'[l] = localizedCache[l]
        /\ localizedCache' = [localizedCache EXCEPT ![accepted[w]] = Content(accepted[w])]
        /\ localizedCache'[accepted[w]] = Content(accepted[w])
    BY <1>9, <1>p DEF EndInsert, Move, CacheTypeOK
  <2>2. Inserting \ {w} = {}
    BY <2>1, <1>q DEF Mutex, Writing, Inserting
  <2>3. reply' = [reply EXCEPT ![w] = Content(accepted[w])]
    BY <1>9, <2>2 DEF EndInsert
  <2>4. CacheTypeOK'
    BY <1>9, <1>p, <2>1, <2>3 DEF EndInsert, Move, CacheTypeOK
  <2>5. Mutex'
    BY <2>1 DEF Mutex, Reading, Writing
  <2>6. CacheIsWhole'
    BY <2>1 DEF CacheIsWhole
  <2>7. AnswersOwnLocales'
    BY <2>1, <2>3, <1>p DEF AnswersOwnLocales
  <2>8. QED BY <2>4, <2>5, <2>6, <2>7
<1>10. ASSUME SentBuilt(w) PROVE CacheInv'
  BY <1>10, <1>p, <1>q, <1>r, MoveInv DEF SentBuilt, Move, Reading, Writing
<1>11. QED BY <1>0, <1>1, <1>2, <1>3, <1>4, <1>5, <1>6, <1>7, <1>8, <1>9, <1>10

LEMMA CacheStutter == ASSUME CacheInv, UNCHANGED cacheVars PROVE CacheInv'
  BY DEF CacheInv, CacheTypeOK, Mutex, CacheIsWhole, AnswersOwnLocales, cacheVars

LEMMA CacheInductive == CacheSpec => []CacheInv
<1>1. CacheInv /\ [CacheNext]_cacheVars => CacheInv'
  BY CacheNextInv, CacheStutter
<1>2. QED BY CacheInitInv, <1>1, PTL DEF CacheSpec

\* jsonresource.cpp: the variables keep their types.
THEOREM CacheTypes == CacheSpec => []CacheTypeOK
  BY CacheInductive, PTL DEF CacheInv

\* doGET: the shared_mutex is never held by a writer together with anyone else.
THEOREM CacheMutex == CacheSpec => []Mutex
  BY CacheInductive, PTL DEF CacheInv

\* doGET: each client gets the whole text for the locales it accepts.
THEOREM CacheAnswersOwnLocales == CacheSpec => []AnswersOwnLocales
  BY CacheInductive, PTL DEF CacheInv
=============================================================================
