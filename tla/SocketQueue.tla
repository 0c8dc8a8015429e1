---------------------------- MODULE SocketQueue ----------------------------
(***************************************************************************)
(* The threads of a refude service (lib/impl/service.cpp) and the bounded   *)
(* queue between them (lib/impl/socketqueue.cpp): one listener accepts      *)
(* connections and pushes the sockets, a pool of workers pops and answers   *)
(* them.  push and pop run under SocketQueue::mutex, so the part of each    *)
(* that holds the lock is one step; waiting on a condition variable, being  *)
(* woken, and the notify_one after the lock is released are other steps.    *)
(*                                                                          *)
(* Every service of the repository calls service::listen once, so there is  *)
(* one listener.  poll failing (which ends the process) and shutDown (which *)
(* nothing calls) are left out; accept4 failing changes nothing.            *)
(***************************************************************************)
EXTENDS Naturals, Sequences, FiniteSets

CONSTANTS Connections,   \* the sockets clients may open (reused once closed)
          Workers,       \* the threads started by service::run
          Listener,      \* the thread started by service::listen
          Capacity,      \* the length of SocketQueue::sockets (32)
          Backlog,       \* connections the kernel holds for accept4 (listen(.., 8))
          NoSocket

ASSUME SocketQueueAssumption ==
    /\ Capacity \in Nat \ {0}
    /\ Backlog \in Nat \ {0}
    /\ IsFiniteSet(Workers)
    /\ Workers # {}
    /\ Listener \notin Workers
    /\ NoSocket \notin Connections

Threads == Workers \cup {Listener}

VARIABLES backlog,    \* connections made and not yet accepted
          sockets,    \* SocketQueue::sockets[0 .. numSockets - 1]
          notEmpty,   \* the threads asleep in notEmpty.wait
          notFull,    \* the threads asleep in notFull.wait
          pc,         \* where each thread is
          socket      \* the descriptor a thread holds: requestSocket of the
                      \* listener, dequeuedSocket of a worker

vars == <<backlog, sockets, notEmpty, notFull, pc, socket>>

Elements(s) == {s[i] : i \in DOMAIN s}

\* The connections that are open on the side of the service.
Open == Elements(backlog) \cup Elements(sockets) \cup {socket[t] : t \in Threads}

TypeOK ==
    /\ backlog \in Seq(Connections) /\ Len(backlog) <= Backlog
    /\ sockets \in Seq(Connections) /\ Len(sockets) <= Capacity
    /\ notEmpty \subseteq Threads
    /\ notFull \subseteq Threads
    /\ pc \in [Threads -> {"poll", "push", "pushed", "pop", "popped", "serve"}]
    /\ \A w \in Workers : pc[w] \in {"pop", "popped", "serve"}
    /\ pc[Listener] \in {"poll", "push", "pushed"}
    /\ socket \in [Threads -> Connections \cup {NoSocket}]
    /\ \A t \in Threads : (socket[t] # NoSocket) <=> (pc[t] \in {"push", "popped", "serve"})
    /\ \A t \in notEmpty : pc[t] \in {"push", "pop"}

Init ==
    /\ backlog = <<>>
    /\ sockets = <<>>
    /\ notEmpty = {}
    /\ notFull = {}
    /\ pc = [t \in Threads |-> IF t = Listener THEN "poll" ELSE "pop"]
    /\ socket = [t \in Threads |-> NoSocket]

-----------------------------------------------------------------------------
\* A client connects; the kernel queues the connection for accept4.
Connect(c) ==
    /\ c \notin Open
    /\ Len(backlog) < Backlog
    /\ backlog' = Append(backlog, c)
    /\ UNCHANGED <<sockets, notEmpty, notFull, pc, socket>>

\* poll returns and accept4 takes the oldest connection.
Accept ==
    /\ pc[Listener] = "poll"
    /\ backlog # <<>>
    /\ backlog' = Tail(backlog)
    /\ socket' = [socket EXCEPT ![Listener] = Head(backlog)]
    /\ pc' = [pc EXCEPT ![Listener] = "push"]
    /\ UNCHANGED <<sockets, notEmpty, notFull>>

-----------------------------------------------------------------------------
\* push, under the lock: the queue is full, the listener goes to sleep - on
\* notEmpty, which is what the code says.
PushWait ==
    /\ pc[Listener] = "push"
    /\ Listener \notin notEmpty
    /\ Len(sockets) = Capacity
    /\ notEmpty' = notEmpty \cup {Listener}
    /\ UNCHANGED <<backlog, sockets, notFull, pc, socket>>

\* push without a bound.
PushOntoFull ==
    /\ pc[Listener] = "push"
    /\ Listener \notin notEmpty
    /\ sockets' = Append(sockets, socket[Listener])
    /\ socket' = [socket EXCEPT ![Listener] = NoSocket]
    /\ pc' = [pc EXCEPT ![Listener] = "pushed"]
    /\ UNCHANGED <<backlog, notEmpty, notFull>>

\* push, under the lock: there is room.
Push ==
    /\ pc[Listener] = "push"
    /\ Listener \notin notEmpty
    /\ Len(sockets) < Capacity
    /\ sockets' = Append(sockets, socket[Listener])
    /\ socket' = [socket EXCEPT ![Listener] = NoSocket]
    /\ pc' = [pc EXCEPT ![Listener] = "pushed"]
    /\ UNCHANGED <<backlog, notEmpty, notFull>>

\* What notify_one leaves of the set of sleepers: one of them is gone.
WakeOne(sleepers) ==
    IF sleepers = {} THEN {{}} ELSE {sleepers \ {t} : t \in sleepers}

\* The notification of a queue that announces only the step from empty to one.
PushNotifyFirstOnly ==
    /\ pc[Listener] = "pushed"
    /\ IF Len(sockets) = 1 THEN notEmpty' \in WakeOne(notEmpty) ELSE UNCHANGED notEmpty
    /\ pc' = [pc EXCEPT ![Listener] = "poll"]
    /\ UNCHANGED <<backlog, sockets, notFull, socket>>

\* The notification given on the other condition variable.
PushNotifyNotFull ==
    /\ pc[Listener] = "pushed"
    /\ notFull' \in WakeOne(notFull)
    /\ pc' = [pc EXCEPT ![Listener] = "poll"]
    /\ UNCHANGED <<backlog, sockets, notEmpty, socket>>

\* notEmpty.notify_one, after the lock is released.
PushNotify ==
    /\ pc[Listener] = "pushed"
    /\ notEmpty' \in WakeOne(notEmpty)
    /\ pc' = [pc EXCEPT ![Listener] = "poll"]
    /\ UNCHANGED <<backlog, sockets, notFull, socket>>

-----------------------------------------------------------------------------
\* pop, under the lock: nothing to take, the worker goes to sleep.
PopWait(w) ==
    /\ pc[w] = "pop"
    /\ w \notin notEmpty
    /\ sockets = <<>>
    /\ notEmpty' = notEmpty \cup {w}
    /\ UNCHANGED <<backlog, sockets, notFull, pc, socket>>

\* pop without the loop that shifts the other sockets down.
PopUnshifted(w) ==
    /\ pc[w] = "pop"
    /\ w \notin notEmpty
    /\ sockets # <<>>
    /\ socket' = [socket EXCEPT ![w] = Head(sockets)]
    /\ sockets' = SubSeq(sockets, 1, Len(sockets) - 1)
    /\ pc' = [pc EXCEPT ![w] = "popped"]
    /\ UNCHANGED <<backlog, notEmpty, notFull>>

\* pop that needs no such loop, because it takes the last socket.
PopNewest(w) ==
    /\ pc[w] = "pop"
    /\ w \notin notEmpty
    /\ sockets # <<>>
    /\ socket' = [socket EXCEPT ![w] = sockets[Len(sockets)]]
    /\ sockets' = SubSeq(sockets, 1, Len(sockets) - 1)
    /\ pc' = [pc EXCEPT ![w] = "popped"]
    /\ UNCHANGED <<backlog, notEmpty, notFull>>

\* pop, under the lock: take sockets[0] and shift the others down.
Pop(w) ==
    /\ pc[w] = "pop"
    /\ w \notin notEmpty
    /\ sockets # <<>>
    /\ socket' = [socket EXCEPT ![w] = Head(sockets)]
    /\ sockets' = Tail(sockets)
    /\ pc' = [pc EXCEPT ![w] = "popped"]
    /\ UNCHANGED <<backlog, notEmpty, notFull>>

\* notFull.notify_one, after the lock is released.
PopNotify(w) ==
    /\ pc[w] = "popped"
    /\ notFull' \in WakeOne(notFull)
    /\ pc' = [pc EXCEPT ![w] = "serve"]
    /\ UNCHANGED <<backlog, sockets, notEmpty, socket>>

\* readRequest answers and the Descriptor closes the socket, or the notifier
\* keeps it: in both cases the worker is rid of it and pops again.
ReadRequest(w) ==
    /\ pc[w] = "serve"
    /\ socket' = [socket EXCEPT ![w] = NoSocket]
    /\ pc' = [pc EXCEPT ![w] = "pop"]
    /\ UNCHANGED <<backlog, sockets, notEmpty, notFull>>

-----------------------------------------------------------------------------
\* A wait may end without a notification; both waits are in a while loop.
SpuriousWakeup(t) ==
    /\ t \in notEmpty
    /\ notEmpty' = notEmpty \ {t}
    /\ UNCHANGED <<backlog, sockets, notFull, pc, socket>>

Listen == Accept \/ PushWait \/ Push \/ PushNotify

\* The part of a worker's loop that asks nothing of a client.
Take(w) == PopWait(w) \/ Pop(w) \/ PopNotify(w)

Work(w) == Take(w) \/ ReadRequest(w)

Next ==
    \/ \E c \in Connections : Connect(c)
    \/ Listen
    \/ \E w \in Workers : Work(w)
    \/ \E t \in Threads : SpuriousWakeup(t)

\* The scheduler runs every thread that can take a step.  Clients need not
\* connect, and nothing may rely on a spurious wakeup.  Answering is not fair: a
\* write has no timeout and waits for a client that does not read
\* (buffer.cpp), a registration waits for the mutex of the streams, and the walk
\* over the themes of the icon service may not end.
Fairness == WF_vars(Listen) /\ \A w \in Workers : WF_vars(Take(w))

Spec == Init /\ [][Next]_vars /\ Fairness

-----------------------------------------------------------------------------
\* The workers that are awake and about to look at the queue.
Popping == {w \in Workers : pc[w] = "pop" /\ w \notin notEmpty}

\* No worker sleeps while a connection waits for which nobody is on the way:
\* the awake poppers and the notification still to be sent cover the queue.
\* (Losing one notification would leave a connection to the next push.)
WorkConserving ==
    (\E w \in Workers : w \in notEmpty) =>
        Len(sockets) <= Cardinality(Popping) + (IF pc[Listener] = "pushed" THEN 1 ELSE 0)

NoRepeats(s) == \A i, j \in DOMAIN s : s[i] = s[j] => i = j

\* A connection is in one place only: a descriptor handed to two workers would
\* be closed under one of them, and then closed a second time.
SingleOwner ==
    /\ NoRepeats(backlog) /\ NoRepeats(sockets)
    /\ Elements(backlog) \cap Elements(sockets) = {}
    /\ \A t \in Threads : socket[t] \notin Elements(backlog) \cup Elements(sockets)
    /\ \A t, u \in Threads : socket[t] = socket[u] /\ socket[t] # NoSocket => t = u

\* The connections on their way to a worker, oldest first.
InHand == IF socket[Listener] = NoSocket THEN <<>> ELSE <<socket[Listener]>>

\* The queue, the thread pool and the condition variables together keep the
\* promise of ConnectionFifo.
Fifo == INSTANCE ConnectionFifo WITH
            line    <- sockets \o InHand \o backlog,
            serving <- [w \in Workers |-> socket[w]]

InArrivalOrder == Fifo!Spec

\* The worker is never stuck for ever in an answer.
KeepsComingBack(w) == []<>(pc[w] # "serve")

\* A queued connection gets a worker as long as one worker keeps coming back
\* from its answers - the others may be blocked for ever - also while the
\* listener sleeps on a full queue.
QueuedIsServed ==
    (\E w \in Workers : KeepsComingBack(w)) =>
        \A c \in Connections :
            c \in Elements(sockets) ~> \E w \in Workers : socket[w] = c

\* push returns while every worker keeps coming back: pop makes room and tells a
\* waiting push of it (notFull).
PushReturns ==
    (\A w \in Workers : KeepsComingBack(w)) =>
        (pc[Listener] = "push" ~> pc[Listener] # "push")
=============================================================================
