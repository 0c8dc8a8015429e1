--------------------------- MODULE ConnectionFifo ---------------------------
(***************************************************************************)
(* What the accept/dispatch machinery of lib/impl/service.cpp promises: the *)
(* connections of a service form one waiting line, a worker always takes    *)
(* the connection that has waited longest, and nothing else happens to a    *)
(* connection - it is neither lost, nor handed to two workers, nor          *)
(* overtaken.  Threads, locks, condition variables and the bound of the     *)
(* queue are details of SocketQueue, which implements this specification.   *)
(***************************************************************************)
EXTENDS Sequences

CONSTANTS Connections,  \* the sockets a client may open (reused once closed)
          Workers,      \* the worker threads
          NoSocket      \* what an idle worker holds

VARIABLES line,     \* the connections that wait, oldest first
          serving   \* serving[w]: the connection worker w is answering

vars == <<line, serving>>

Waiting == {line[i] : i \in DOMAIN line}
Served  == {serving[w] : w \in Workers} \ {NoSocket}

Init == /\ line = <<>>
        /\ serving = [w \in Workers |-> NoSocket]

Arrive(c) == /\ c \notin Waiting \cup Served
             /\ line' = Append(line, c)
             /\ UNCHANGED serving

Start(w) == /\ serving[w] = NoSocket
            /\ line # <<>>
            /\ serving' = [serving EXCEPT ![w] = Head(line)]
            /\ line' = Tail(line)

Finish(w) == /\ serving[w] # NoSocket
             /\ serving' = [serving EXCEPT ![w] = NoSocket]
             /\ UNCHANGED line

Next == \/ \E c \in Connections : Arrive(c)
        \/ \E w \in Workers : Start(w) \/ Finish(w)

Spec == Init /\ [][Next]_vars
=============================================================================
