------------------------- MODULE SocketQueueProofs -------------------------
(***************************************************************************)
(* Theorems about SocketQueue, for any number of workers and connections    *)
(* and any capacity.                                                        *)
(***************************************************************************)
EXTENDS SocketQueue, FiniteSetTheorems, SequenceTheorems, TLAPS

-----------------------------------------------------------------------------
\* The elements of a sequence are those its indices 1 .. Len name.
LEMMA ElementsOfSeq ==
    ASSUME NEW S, NEW s \in Seq(S)
    PROVE  /\ Elements(s) = {s[i] : i \in 1 .. Len(s)}
           /\ Elements(s) \subseteq S
    BY LenProperties, ElementOfSeq DEF Elements

\* Appending an element that is not there adds it and repeats nothing.
LEMMA AppendElements ==
    ASSUME NEW S, NEW s \in Seq(S), NEW e \in S
    PROVE  /\ Elements(Append(s, e)) = Elements(s) \cup {e}
           /\ NoRepeats(s) /\ e \notin Elements(s) => NoRepeats(Append(s, e))
<1> DEFINE t == Append(s, e)
<1>1. /\ t \in Seq(S) /\ Len(t) = Len(s) + 1 /\ Len(s) \in Nat
      /\ \A i \in 1 .. Len(s) : t[i] = s[i]
      /\ t[Len(s) + 1] = e
    OBVIOUS
<1>2. Elements(t) = {t[i] : i \in 1 .. Len(t)} /\ Elements(s) = {s[i] : i \in 1 .. Len(s)}
    BY <1>1, ElementsOfSeq
<1>3. 1 .. Len(t) = (1 .. Len(s)) \cup {Len(s) + 1}
    BY <1>1
<1>4. DOMAIN t = 1 .. Len(t) /\ DOMAIN s = 1 .. Len(s)
    BY <1>1, LenProperties
<1>5. Elements(t) = Elements(s) \cup {e}
    BY <1>1, <1>2, <1>3
<1>6. ASSUME NoRepeats(s), e \notin Elements(s), NEW i \in DOMAIN t, NEW j \in DOMAIN t, t[i] = t[j]
      PROVE  i = j
    BY <1>1, <1>2, <1>3, <1>4, <1>6 DEF NoRepeats
<1> QED
    BY <1>5, <1>6 DEF NoRepeats

\* Taking the head of a sequence without repetitions leaves the others.
LEMMA TailElements ==
    ASSUME NEW S, NEW s \in Seq(S), s # <<>>
    PROVE  /\ Head(s) \in Elements(s)
           /\ Elements(Tail(s)) \subseteq Elements(s)
           /\ NoRepeats(s) => NoRepeats(Tail(s)) /\ Head(s) \notin Elements(Tail(s))
<1> DEFINE t == Tail(s)
<1>1. /\ t \in Seq(S) /\ Len(s) \in Nat \ {0} /\ Len(t) = Len(s) - 1
      /\ \A i \in 1 .. Len(t) : t[i] = s[i + 1]
      /\ Head(s) = s[1]
    BY HeadTailProperties, EmptySeq
<1>2. Elements(t) = {t[i] : i \in 1 .. Len(t)} /\ Elements(s) = {s[i] : i \in 1 .. Len(s)}
    BY <1>1, ElementsOfSeq
<1>3. DOMAIN t = 1 .. Len(t) /\ DOMAIN s = 1 .. Len(s)
    BY <1>1, LenProperties
<1>4. \A i \in 1 .. Len(t) : i + 1 \in 1 .. Len(s) /\ i + 1 # 1
    BY <1>1
<1>5. Head(s) \in Elements(s)
    BY <1>1, <1>2
<1>6. Elements(t) \subseteq Elements(s)
    BY <1>1, <1>2, <1>4
<1>7. ASSUME NoRepeats(s)
      PROVE  NoRepeats(t)
    <2> SUFFICES ASSUME NEW i \in 1 .. Len(t), NEW j \in 1 .. Len(t), t[i] = t[j]
                 PROVE  i = j
        BY <1>3 DEF NoRepeats
    <2>1. s[i + 1] = s[j + 1] /\ i + 1 \in DOMAIN s /\ j + 1 \in DOMAIN s
        BY <1>1, <1>3, <1>4
    <2>2. i + 1 = j + 1
        BY <1>7, <2>1 DEF NoRepeats
    <2> QED
        BY <2>2
<1>8. ASSUME NoRepeats(s), Head(s) \in Elements(t)
      PROVE  FALSE
    <2>1. PICK i \in 1 .. Len(t) : t[i] = Head(s)
        BY <1>2, <1>8
    <2>2. s[i + 1] = s[1] /\ i + 1 \in DOMAIN s /\ 1 \in DOMAIN s
        BY <1>1, <1>3, <1>4, <2>1
    <2>3. i + 1 = 1
        BY <1>8, <2>2 DEF NoRepeats
    <2> QED
        BY <1>4, <2>3
<1> QED
    BY <1>5, <1>6, <1>7, <1>8

-----------------------------------------------------------------------------
\* Every variable keeps its type: the listener and the workers are where their
\* code can be, and a thread holds a socket exactly while its code does.
THEOREM TypeCorrect == Spec => []TypeOK
<1> USE SocketQueueAssumption DEF Threads
<1>1. Init => TypeOK
    BY DEF Init, TypeOK
<1>2. TypeOK /\ [Next]_vars => TypeOK'
    <2> SUFFICES ASSUME TypeOK, [Next]_vars PROVE TypeOK'
        OBVIOUS
    <2> USE DEF TypeOK
    <2>1. ASSUME NEW c \in Connections, Connect(c) PROVE TypeOK'
        BY <2>1 DEF Connect
    <2>2. CASE Accept
        BY <2>2 DEF Accept
    <2>3. CASE PushWait
        BY <2>3 DEF PushWait
    <2>4. CASE Push
        BY <2>4 DEF Push
    <2>5. CASE PushNotify
        BY <2>5 DEF PushNotify, WakeOne
    <2>6. ASSUME NEW w \in Workers, PopWait(w) PROVE TypeOK'
        BY <2>6 DEF PopWait
    <2>7. ASSUME NEW w \in Workers, Pop(w) PROVE TypeOK'
        BY <2>7 DEF Pop
    <2>8. ASSUME NEW w \in Workers, PopNotify(w) PROVE TypeOK'
        BY <2>8 DEF PopNotify, WakeOne
    <2>9. ASSUME NEW w \in Workers, ReadRequest(w) PROVE TypeOK'
        BY <2>9 DEF ReadRequest
    <2>10. ASSUME NEW t \in Threads, SpuriousWakeup(t) PROVE TypeOK'
        BY <2>10 DEF SpuriousWakeup
    <2>11. CASE UNCHANGED vars
        BY <2>11 DEF vars
    <2> QED
        BY <2>1, <2>2, <2>3, <2>4, <2>5, <2>6, <2>7, <2>8, <2>9, <2>10, <2>11
        DEF Next, Listen, Work, Take
<1> QED
    BY <1>1, <1>2, PTL DEF Spec

-----------------------------------------------------------------------------
\* No connection is ever in two places: in the backlog, in the queue, with the
\* listener or with a worker, and there once.
THEOREM OwnershipCorrect == Spec => []SingleOwner
<1> USE SocketQueueAssumption DEF Threads
<1>1. Init => SingleOwner
    BY DEF Init, SingleOwner, Elements, NoRepeats
<1>2. TypeOK /\ SingleOwner /\ [Next]_vars => SingleOwner'
    <2> SUFFICES ASSUME TypeOK, SingleOwner, [Next]_vars PROVE SingleOwner'
        OBVIOUS
    <2> USE DEF SingleOwner
    <2>0. /\ backlog \in Seq(Connections) /\ sockets \in Seq(Connections)
          /\ socket \in [Threads -> Connections \cup {NoSocket}]
          /\ Elements(backlog) \subseteq Connections /\ Elements(sockets) \subseteq Connections
          /\ \A t \in Threads : (socket[t] # NoSocket) <=> (pc[t] \in {"push", "popped", "serve"})
        BY ElementsOfSeq DEF TypeOK
    <2>1. ASSUME NEW c \in Connections, Connect(c) PROVE SingleOwner'
        <3>1. /\ Elements(backlog') = Elements(backlog) \cup {c}
              /\ NoRepeats(backlog')
            BY <2>0, <2>1, AppendElements DEF Connect, Open
        <3> QED
            BY <2>0, <2>1, <3>1 DEF Connect, Open
    <2>2. CASE Accept
        <3>1. /\ Elements(backlog') \subseteq Elements(backlog)
              /\ NoRepeats(backlog')
              /\ Head(backlog) \in Elements(backlog) \ Elements(backlog')
            BY <2>0, <2>2, TailElements DEF Accept
        <3>2. /\ socket'[Listener] = Head(backlog)
              /\ \A t \in Workers : socket'[t] = socket[t]
            BY <2>0, <2>2 DEF Accept
        <3> QED
            BY <2>0, <2>2, <3>1, <3>2 DEF Accept
    <2>3. CASE Push
        <3>1. socket[Listener] \in Connections
            BY <2>0, <2>3 DEF Push
        <3>2. /\ Elements(sockets') = Elements(sockets) \cup {socket[Listener]}
              /\ NoRepeats(sockets')
            BY <2>0, <2>3, <3>1, AppendElements DEF Push
        <3>3. /\ socket'[Listener] = NoSocket
              /\ \A t \in Workers : socket'[t] = socket[t]
            BY <2>0, <2>3 DEF Push
        <3> QED
            BY <2>0, <2>3, <3>1, <3>2, <3>3 DEF Push
    <2>4. ASSUME NEW w \in Workers, Pop(w) PROVE SingleOwner'
        <3>1. /\ Elements(sockets') \subseteq Elements(sockets)
              /\ NoRepeats(sockets')
              /\ Head(sockets) \in Elements(sockets) \ Elements(sockets')
            BY <2>0, <2>4, TailElements DEF Pop
        <3>2. /\ socket'[w] = Head(sockets)
              /\ \A t \in Threads \ {w} : socket'[t] = socket[t]
            BY <2>0, <2>4 DEF Pop
        <3> QED
            BY <2>0, <2>4, <3>1, <3>2 DEF Pop
    <2>5. ASSUME NEW w \in Workers, ReadRequest(w) PROVE SingleOwner'
        BY <2>0, <2>5 DEF ReadRequest
    <2>6. CASE UNCHANGED <<backlog, sockets, socket>>
        BY <2>6
    <2> QED
        BY <2>1, <2>2, <2>3, <2>4, <2>5, <2>6
        DEF Next, Listen, Work, Take, PushWait, PushNotify, PopWait, PopNotify, SpuriousWakeup, vars
<1> QED
    BY <1>1, <1>2, TypeCorrect, PTL DEF Spec

-----------------------------------------------------------------------------
\* A sleeping worker never leaves queued connections without a thread on the
\* way to each of them: no notification is lost and none announces too little.
THEOREM NoLostWakeup == Spec => []WorkConserving
<1> USE SocketQueueAssumption DEF Threads
<1>1. Init => WorkConserving
    BY DEF Init, WorkConserving
<1>2. TypeOK /\ WorkConserving /\ [Next]_vars => WorkConserving'
    <2> SUFFICES ASSUME TypeOK, WorkConserving, [Next]_vars PROVE WorkConserving'
        OBVIOUS
    <2>0. /\ IsFiniteSet(Popping) /\ IsFiniteSet(Popping')
          /\ Cardinality(Popping) \in Nat /\ Cardinality(Popping') \in Nat
          /\ Len(sockets) \in Nat
        BY FS_Subset, FS_CardinalityType DEF Popping, TypeOK
    <2>1. ASSUME NEW w \in Workers, Popping' = Popping \cup {w}, w \notin Popping
          PROVE  Cardinality(Popping') = Cardinality(Popping) + 1
        BY <2>0, <2>1, FS_AddElement
    <2>2. ASSUME NEW w \in Workers, Popping' = Popping \ {w}, w \in Popping
          PROVE  Cardinality(Popping') = Cardinality(Popping) - 1
        BY <2>0, <2>2, FS_RemoveElement
    <2>3. ASSUME NEW c \in Connections, Connect(c) PROVE WorkConserving'
        <3>1. Popping' = Popping
            BY <2>3 DEF Connect, Popping
        <3> QED
            BY <2>3, <3>1 DEF Connect, WorkConserving
    <2>4. CASE Accept
        <3>1. Popping' = Popping
            BY <2>4 DEF Accept, Popping, TypeOK
        <3> QED
            BY <2>4, <3>1 DEF Accept, WorkConserving, TypeOK
    <2>5. CASE PushWait
        <3>1. Popping' = Popping
            BY <2>5 DEF PushWait, Popping, TypeOK
        <3> QED
            BY <2>5, <3>1 DEF PushWait, WorkConserving, TypeOK
    <2>6. CASE Push
        <3>1. Popping' = Popping
            BY <2>6 DEF Push, Popping, TypeOK
        <3>2. Len(sockets') = Len(sockets) + 1 /\ pc[Listener] = "push" /\ pc'[Listener] = "pushed"
            BY <2>6 DEF Push, TypeOK
        <3> QED
            BY <2>0, <2>6, <3>1, <3>2 DEF Push, WorkConserving
    <2>7. CASE PushNotify
        <3>1. pc[Listener] = "pushed" /\ pc'[Listener] = "poll" /\ sockets' = sockets
            BY <2>7 DEF PushNotify, TypeOK
        <3>2. CASE notEmpty = {}
            BY <2>7, <3>2 DEF PushNotify, WakeOne, WorkConserving
        <3>3. CASE notEmpty # {}
            <4>1. PICK t \in notEmpty : notEmpty' = notEmpty \ {t}
                BY <2>7, <3>3 DEF PushNotify, WakeOne
            <4>2. t \in Workers /\ pc[t] = "pop"
                BY <3>1, <4>1 DEF TypeOK
            <4>3. Popping' = Popping \cup {t} /\ t \notin Popping
                BY <2>7, <4>1, <4>2 DEF PushNotify, Popping, TypeOK
            <4>4. Cardinality(Popping') = Cardinality(Popping) + 1
                BY <2>1, <4>2, <4>3
            <4>5. Len(sockets) <= Cardinality(Popping) + 1
                BY <3>1, <4>1, <4>2 DEF WorkConserving
            <4> QED
                BY <3>1, <4>4, <4>5, <2>0 DEF WorkConserving
        <3> QED
            BY <3>2, <3>3
    <2>8. ASSUME NEW w \in Workers, PopWait(w) PROVE WorkConserving'
        <3>1. Len(sockets') = 0
            BY <2>8 DEF PopWait
        <3> QED
            BY <2>0, <3>1 DEF WorkConserving
    <2>9. ASSUME NEW w \in Workers, Pop(w) PROVE WorkConserving'
        <3>1. Popping' = Popping \ {w} /\ w \in Popping
            BY <2>9 DEF Pop, Popping, TypeOK
        <3>2. Len(sockets') = Len(sockets) - 1 /\ pc'[Listener] = pc[Listener] /\ notEmpty' = notEmpty
            BY <2>9, HeadTailProperties DEF Pop, TypeOK
        <3>3. Cardinality(Popping') = Cardinality(Popping) - 1
            BY <2>2, <3>1
        <3> QED
            BY <2>0, <3>2, <3>3 DEF WorkConserving
    <2>10. ASSUME NEW w \in Workers, PopNotify(w) PROVE WorkConserving'
        <3>1. Popping' = Popping /\ pc'[Listener] = pc[Listener]
            BY <2>10 DEF PopNotify, Popping, TypeOK
        <3> QED
            BY <2>10, <3>1 DEF PopNotify, WorkConserving
    <2>11. ASSUME NEW w \in Workers, ReadRequest(w) PROVE WorkConserving'
        <3>1. Popping' = Popping \cup {w} /\ w \notin Popping
            BY <2>11 DEF ReadRequest, Popping, TypeOK
        <3>2. Cardinality(Popping') = Cardinality(Popping) + 1
            BY <2>1, <3>1
        <3>3. sockets' = sockets /\ notEmpty' = notEmpty /\ pc'[Listener] = pc[Listener]
            BY <2>11 DEF ReadRequest, TypeOK
        <3> QED
            BY <2>0, <3>2, <3>3 DEF WorkConserving
    <2>12. ASSUME NEW t \in Threads, SpuriousWakeup(t) PROVE WorkConserving'
        <3>1. /\ Popping \subseteq Popping'
              /\ sockets' = sockets /\ pc' = pc /\ notEmpty' \subseteq notEmpty
            BY <2>12 DEF SpuriousWakeup, Popping
        <3>2. Cardinality(Popping) <= Cardinality(Popping')
            BY <2>0, <3>1, FS_Subset
        <3> QED
            BY <2>0, <3>1, <3>2 DEF WorkConserving
    <2>13. CASE UNCHANGED vars
        BY <2>13 DEF vars, WorkConserving, Popping
    <2> QED
        BY <2>3, <2>4, <2>5, <2>6, <2>7, <2>8, <2>9, <2>10, <2>11, <2>12, <2>13
        DEF Next, Listen, Work, Take
<1> QED
    BY <1>1, <1>2, TypeCorrect, PTL DEF Spec

-----------------------------------------------------------------------------
\* A head moved from one sequence to the end of the one before it leaves their
\* concatenation alone.
LEMMA MoveHead ==
    ASSUME NEW S, NEW s \in Seq(S), NEW t \in Seq(S), t # <<>>
    PROVE  (s \o <<Head(t)>>) \o Tail(t) = s \o t
<1>1. /\ Head(t) \in S /\ Tail(t) \in Seq(S) /\ <<Head(t)>> \in Seq(S)
      /\ Len(t) \in Nat \ {0} /\ Len(Tail(t)) = Len(t) - 1 /\ Len(<<Head(t)>>) = 1
      /\ Head(t) = t[1] /\ \A i \in 1 .. Len(t) - 1 : Tail(t)[i] = t[i + 1]
    BY HeadTailProperties, EmptySeq
<1>2. <<Head(t)>> \o Tail(t) = t
    <2>1. /\ <<Head(t)>> \o Tail(t) \in Seq(S)
          /\ Len(<<Head(t)>> \o Tail(t)) = Len(t)
          /\ \A i \in 1 .. Len(t) :
                (<<Head(t)>> \o Tail(t))[i] = IF i <= 1 THEN <<Head(t)>>[i] ELSE Tail(t)[i - 1]
        BY <1>1, ConcatProperties
    <2>2. \A i \in 1 .. Len(t) : (<<Head(t)>> \o Tail(t))[i] = t[i]
        BY <1>1, <2>1
    <2> QED
        BY <2>1, <2>2, SeqEqual
<1> QED
    BY <1>1, <1>2, ConcatAssociative

\* What Head and Tail do to a concatenation whose first part is not empty.
LEMMA TakeFirst ==
    ASSUME NEW S, NEW s \in Seq(S), NEW t \in Seq(S), s # <<>>
    PROVE  s \o t # <<>> /\ Head(s \o t) = Head(s) /\ Tail(s \o t) = Tail(s) \o t
<1>1. /\ Len(s) \in Nat \ {0} /\ Len(t) \in Nat
      /\ Tail(s) \in Seq(S) /\ Len(Tail(s)) = Len(s) - 1
      /\ \A i \in 1 .. Len(s) - 1 : Tail(s)[i] = s[i + 1]
      /\ Head(s) = s[1]
    BY HeadTailProperties, EmptySeq, LenProperties
<1>2. /\ s \o t \in Seq(S) /\ Len(s \o t) = Len(s) + Len(t)
      /\ \A i \in 1 .. Len(s) + Len(t) : (s \o t)[i] = IF i <= Len(s) THEN s[i] ELSE t[i - Len(s)]
    BY ConcatProperties
<1>3. s \o t # <<>>
    BY <1>1, <1>2, EmptySeq
<1>4. /\ Tail(s \o t) \in Seq(S) /\ Len(Tail(s \o t)) = Len(s) + Len(t) - 1
      /\ \A i \in 1 .. Len(s) + Len(t) - 1 : Tail(s \o t)[i] = (s \o t)[i + 1]
      /\ Head(s \o t) = (s \o t)[1]
    BY <1>2, <1>3, HeadTailProperties
<1>5. /\ Tail(s) \o t \in Seq(S) /\ Len(Tail(s) \o t) = Len(s) - 1 + Len(t)
      /\ \A i \in 1 .. Len(s) - 1 + Len(t) :
            (Tail(s) \o t)[i] = IF i <= Len(s) - 1 THEN Tail(s)[i] ELSE t[i - (Len(s) - 1)]
    BY <1>1, ConcatProperties
<1>6. Head(s \o t) = Head(s)
    BY <1>1, <1>2, <1>4
<1>7. \A i \in 1 .. Len(s) + Len(t) - 1 : Tail(s \o t)[i] = (Tail(s) \o t)[i]
    <2> SUFFICES ASSUME NEW i \in 1 .. Len(s) + Len(t) - 1
                 PROVE  Tail(s \o t)[i] = (Tail(s) \o t)[i]
        OBVIOUS
    <2>1. i + 1 \in 1 .. Len(s) + Len(t) /\ (i + 1) - Len(s) = i - (Len(s) - 1)
        BY <1>1
    <2>2. CASE i <= Len(s) - 1
        BY <1>1, <1>2, <1>4, <1>5, <2>1, <2>2
    <2>3. CASE ~(i <= Len(s) - 1)
        BY <1>1, <1>2, <1>4, <1>5, <2>1, <2>3
    <2> QED
        BY <2>2, <2>3
<1>8. Tail(s \o t) = Tail(s) \o t
    BY <1>1, <1>4, <1>5, <1>7, SeqEqual
<1> QED
    BY <1>3, <1>6, <1>8

\* The members of a concatenation.
LEMMA ConcatElements ==
    ASSUME NEW S, NEW s \in Seq(S), NEW t \in Seq(S)
    PROVE  Elements(s \o t) = Elements(s) \cup Elements(t)
<1>1. /\ s \o t \in Seq(S) /\ Len(s \o t) = Len(s) + Len(t)
      /\ Len(s) \in Nat /\ Len(t) \in Nat
      /\ \A i \in 1 .. Len(s) + Len(t) : (s \o t)[i] = IF i <= Len(s) THEN s[i] ELSE t[i - Len(s)]
    BY ConcatProperties, LenProperties
<1>2. /\ Elements(s \o t) = {(s \o t)[i] : i \in 1 .. Len(s) + Len(t)}
      /\ Elements(s) = {s[i] : i \in 1 .. Len(s)}
      /\ Elements(t) = {t[i] : i \in 1 .. Len(t)}
    BY <1>1, ElementsOfSeq
<1>3. \A i \in 1 .. Len(s) : i \in 1 .. Len(s) + Len(t) /\ (s \o t)[i] = s[i]
    BY <1>1
<1>4. \A i \in 1 .. Len(t) : /\ i + Len(s) \in 1 .. Len(s) + Len(t)
                             /\ (s \o t)[i + Len(s)] = t[i]
    BY <1>1
<1>5. \A i \in 1 .. Len(s) + Len(t) : \/ i \in 1 .. Len(s) /\ (s \o t)[i] = s[i]
                                      \/ i - Len(s) \in 1 .. Len(t) /\ (s \o t)[i] = t[i - Len(s)]
    BY <1>1
<1> QED
    BY <1>2, <1>3, <1>4, <1>5

-----------------------------------------------------------------------------
\* The service implements ConnectionFifo: connections wait in one line, which a
\* worker always takes from the front.
THEOREM ServiceImplementsFifo == Spec => InArrivalOrder
<1> USE SocketQueueAssumption DEF Threads
<1> DEFINE line    == sockets \o InHand \o backlog
           serving == [w \in Workers |-> socket[w]]
<1>1. Init => Fifo!Init
    <2> SUFFICES ASSUME Init PROVE Fifo!Init
        OBVIOUS
    <2>1. sockets = <<>> /\ InHand = <<>> /\ backlog = <<>>
        BY DEF Init, InHand
    <2>2. <<>> \o <<>> = <<>>
        BY EmptySeq, ConcatEmptySeq
    <2>3. line = <<>>
        BY <2>1, <2>2
    <2>4. serving = [w \in Workers |-> NoSocket]
        BY DEF Init
    <2> QED
        BY <2>3, <2>4 DEF Fifo!Init
<1>2. TypeOK /\ SingleOwner /\ [Next]_vars => [Fifo!Next]_(Fifo!vars)
    <2> SUFFICES ASSUME TypeOK, SingleOwner, [Next]_vars PROVE [Fifo!Next]_(Fifo!vars)
        OBVIOUS
    <2>0. /\ backlog \in Seq(Connections) /\ sockets \in Seq(Connections)
          /\ socket \in [Threads -> Connections \cup {NoSocket}]
          /\ InHand \in Seq(Connections)
          /\ sockets \o InHand \in Seq(Connections)
          /\ \A t \in Threads : (socket[t] # NoSocket) <=> (pc[t] \in {"push", "popped", "serve"})
        <3>1. /\ backlog \in Seq(Connections) /\ sockets \in Seq(Connections)
              /\ socket \in [Threads -> Connections \cup {NoSocket}]
              /\ \A t \in Threads : (socket[t] # NoSocket) <=> (pc[t] \in {"push", "popped", "serve"})
            BY DEF TypeOK
        <3>2. InHand \in Seq(Connections)
            BY <3>1, EmptySeq DEF InHand
        <3> QED
            BY <3>1, <3>2, ConcatProperties
    <2>1. ASSUME UNCHANGED <<line, serving>> PROVE [Fifo!Next]_(Fifo!vars)
        BY <2>1 DEF Fifo!vars
    <2>2. ASSUME NEW c \in Connections, Connect(c) PROVE [Fifo!Next]_(Fifo!vars)
        <3>1. backlog' = backlog \o <<c>> /\ sockets' = sockets /\ InHand' = InHand /\ socket' = socket
            BY <2>0, <2>2 DEF Connect, InHand
        <3>2. line' = (sockets \o InHand) \o (backlog \o <<c>>)
            BY <3>1
        <3>3. line \in Seq(Connections) /\ line' = line \o <<c>>
            BY <2>0, <3>2, ConcatAssociative, ConcatProperties
        <3>4. line' = Append(line, c)
            BY <3>3
        <3>5. c \notin Elements(line)
            <4>1. /\ Elements(line) = Elements(sockets \o InHand) \cup Elements(backlog)
                  /\ Elements(sockets \o InHand) = Elements(sockets) \cup Elements(InHand)
                <5>1. \A s, t \in Seq(Connections) : Elements(s \o t) = Elements(s) \cup Elements(t)
                    BY ConcatElements
                <5> QED
                    BY <2>0, <5>1
            <4>2. c \notin Elements(sockets) \cup Elements(backlog) /\ \A t \in Threads : c # socket[t]
                BY <2>2 DEF Connect, Open
            <4>3. c \notin Elements(InHand)
                <5>1. CASE InHand = <<>>
                    BY <5>1 DEF Elements
                <5>2. CASE InHand = <<socket[Listener]>>
                    BY <5>2, <4>2 DEF Elements
                <5> QED
                    BY <5>1, <5>2 DEF InHand
            <4> QED
                BY <4>1, <4>2, <4>3
        <3>6. c \notin {serving[w] : w \in Workers}
            BY <2>2 DEF Connect, Open
        <3>7. Fifo!Arrive(c)
            BY <3>1, <3>4, <3>5, <3>6 DEF Fifo!Arrive, Fifo!Waiting, Fifo!Served, Elements
        <3> QED
            BY <3>7 DEF Fifo!Next
    <2>3. CASE Accept
        <3>1. socket[Listener] = NoSocket /\ backlog # <<>> /\ Head(backlog) \in Connections
            BY <2>0, <2>3, HeadTailProperties DEF Accept
        <3>2. InHand = <<>> /\ InHand' = <<Head(backlog)>>
            BY <2>0, <2>3, <3>1 DEF Accept, InHand
        <3>3. line' = (sockets \o <<Head(backlog)>>) \o Tail(backlog)
            BY <2>3, <3>2 DEF Accept
        <3>4. line' = sockets \o backlog /\ line = sockets \o backlog
            BY <2>0, <3>1, <3>2, <3>3, MoveHead, ConcatEmptySeq
        <3>5. serving' = serving
            BY <2>0, <2>3 DEF Accept
        <3> QED
            BY <2>1, <3>4, <3>5
    <2>4. CASE Push
        <3>1. socket[Listener] # NoSocket
            BY <2>0, <2>4 DEF Push
        <3>2. InHand = <<socket[Listener]>> /\ InHand' = <<>>
            BY <2>0, <2>4, <3>1 DEF Push, InHand
        <3>3. sockets' = sockets \o InHand
            BY <2>0, <2>4, <3>2 DEF Push
        <3>4. sockets' \o InHand' = sockets \o InHand
            BY <2>0, <3>2, <3>3, ConcatEmptySeq
        <3>5. serving' = serving
            BY <2>0, <2>4 DEF Push
        <3> QED
            BY <2>1, <2>4, <3>4, <3>5 DEF Push
    <2>5. ASSUME NEW w \in Workers, Pop(w) PROVE [Fifo!Next]_(Fifo!vars)
        <3>1. sockets # <<>> /\ InHand' = InHand /\ backlog' = backlog /\ sockets' = Tail(sockets)
            BY <2>0, <2>5 DEF Pop, InHand
        <3>2. InHand \o backlog \in Seq(Connections) /\ Tail(sockets) \in Seq(Connections)
            BY <2>0, <3>1, ConcatProperties, HeadTailProperties
        <3>3. line = sockets \o (InHand \o backlog) /\ line' = Tail(sockets) \o (InHand \o backlog)
            <4>0. sockets \in Seq(Connections) /\ InHand \in Seq(Connections) /\ backlog \in Seq(Connections)
                BY <2>0
            <4>1. \A s, t, u \in Seq(Connections) : (s \o t) \o u = s \o (t \o u)
                BY ConcatAssociative
            <4>2. line' = (Tail(sockets) \o InHand) \o backlog
                BY <3>1
            <4>3. (Tail(sockets) \o InHand) \o backlog = Tail(sockets) \o (InHand \o backlog)
                BY <3>2, <4>0, <4>1, Zenon
            <4>4. (sockets \o InHand) \o backlog = sockets \o (InHand \o backlog)
                BY <4>0, <4>1, Zenon
            <4> QED
                BY <4>2, <4>3, <4>4
        <3>4. line # <<>> /\ Head(line) = Head(sockets) /\ line' = Tail(line)
            <4> DEFINE rest == InHand \o backlog
            <4>1. /\ sockets \o rest # <<>> /\ Head(sockets \o rest) = Head(sockets)
                  /\ Tail(sockets \o rest) = Tail(sockets) \o rest
                <5> HIDE DEF rest
                <5>1. rest \in Seq(Connections)
                    BY <3>2 DEF rest
                <5> QED
                    BY <2>0, <3>1, <5>1, TakeFirst
            <4> QED
                BY <3>3, <4>1
        <3>5. serving[w] = NoSocket /\ serving' = [serving EXCEPT ![w] = Head(sockets)]
            BY <2>0, <2>5 DEF Pop
        <3>6. Fifo!Start(w)
            BY <3>4, <3>5 DEF Fifo!Start
        <3> QED
            BY <3>6 DEF Fifo!Next
    <2>6. ASSUME NEW w \in Workers, ReadRequest(w) PROVE [Fifo!Next]_(Fifo!vars)
        <3>1. line' = line
            BY <2>0, <2>6 DEF ReadRequest, InHand
        <3>2. serving[w] # NoSocket /\ serving' = [serving EXCEPT ![w] = NoSocket]
            BY <2>0, <2>6 DEF ReadRequest
        <3>3. Fifo!Finish(w)
            BY <3>1, <3>2 DEF Fifo!Finish
        <3> QED
            BY <3>3 DEF Fifo!Next
    <2>7. CASE UNCHANGED <<backlog, sockets, socket>>
        BY <2>1, <2>7 DEF InHand
    <2> QED
        BY <2>2, <2>3, <2>4, <2>5, <2>6, <2>7
        DEF Next, Listen, Work, Take, PushWait, PushNotify, PopWait, PopNotify, SpuriousWakeup, vars
<1> QED
    BY <1>1, <1>2, TypeCorrect, OwnershipCorrect, PTL DEF Spec, InArrivalOrder, Fifo!Spec
=============================================================================
