------------------------- MODULE NotificationStream -------------------------
(***************************************************************************)
(* The event streams of a service (lib/impl/notifierresource.cpp): workers  *)
(* add clients that asked for /notify, the updater writes one line for each *)
(* change to all of them, and clients read, do not read, or hang up.        *)
(*                                                                          *)
(* The sockets are blocking Unix stream sockets without a send timeout, and *)
(* nothing in the repository handles SIGPIPE.  So a write waits while the   *)
(* client's buffer is full; a write to a client that has gone raises        *)
(* SIGPIPE, which ends the process; and a write that is already waiting     *)
(* when the client goes returns short, the one case the erase is reached.   *)
(* A notification is at most 299 bytes and is written as a whole or not.    *)
(***************************************************************************)
EXTENDS Naturals, Sequences, FiniteSets

CONSTANTS Subscribers,   \* the sockets of the clients of /notify
          BufferSize,    \* messages a socket takes before a write waits
          MaxEvents      \* bound: the number of notifications

ASSUME NotificationStreamAssumption ==
    /\ BufferSize \in Nat \ {0}
    /\ MaxEvents \in Nat

Header == 0       \* the response header; notifications are 1, 2, ...

VARIABLES
    mClientSockets,  \* the vector of registered sockets
    it,              \* the iterator of notifyClients, 0: nobody holds the mutex
    waiting,         \* write(*it, ...) found the buffer full and sleeps
    event,           \* notifications begun so far
    phase,           \* how far addClient is with a socket
    joined,          \* event when the socket was registered
    sent,            \* what has been written to a socket, in order
    unread,          \* how much of it the client has not read
    hungUp,          \* the client has closed its end
    alive            \* the process runs

server == <<mClientSockets, it, waiting, event, phase, joined, alive>>
sockets == <<sent, unread>>
vars == <<server, sockets, hungUp>>

Registered == {mClientSockets[i] : i \in DOMAIN mClientSockets}

TypeOK ==
    /\ mClientSockets \in Seq(Subscribers)
    /\ it \in 0 .. Len(mClientSockets) + 1
    /\ waiting \in BOOLEAN
    /\ waiting => it \in DOMAIN mClientSockets
    /\ event \in 0 .. MaxEvents
    /\ phase \in [Subscribers -> {"new", "headerSent", "registered", "erased"}]
    /\ joined \in [Subscribers -> 0 .. MaxEvents]
    /\ sent \in [Subscribers -> Seq(0 .. MaxEvents)]
    /\ unread \in [Subscribers -> 0 .. BufferSize]
    /\ hungUp \in [Subscribers -> BOOLEAN]
    /\ alive \in BOOLEAN

Init ==
    /\ mClientSockets = <<>>
    /\ it = 0
    /\ waiting = FALSE
    /\ event = 0
    /\ phase = [s \in Subscribers |-> "new"]
    /\ joined = [s \in Subscribers |-> 0]
    /\ sent = [s \in Subscribers |-> <<>>]
    /\ unread = [s \in Subscribers |-> 0]
    /\ hungUp = [s \in Subscribers |-> FALSE]
    /\ alive = TRUE

-----------------------------------------------------------------------------
Full(s) == unread[s] = BufferSize

\* write(2) of one whole message into the socket of s.
Put(s, message) ==
    /\ sent' = [sent EXCEPT ![s] = Append(@, message)]
    /\ unread' = [unread EXCEPT ![s] = @ + 1]

\* SIGPIPE.
Die == alive' = FALSE /\ UNCHANGED <<mClientSockets, it, waiting, event, phase, joined,
                                     sockets, hungUp>>

\* addClient writes the header, before it takes the mutex.
WriteHeader(s) ==
    /\ alive
    /\ phase[s] = "new"
    /\ ~hungUp[s]
    /\ Put(s, Header)
    /\ phase' = [phase EXCEPT ![s] = "headerSent"]
    /\ UNCHANGED <<mClientSockets, it, waiting, event, joined, hungUp, alive>>

WriteHeaderToNobody(s) ==
    /\ alive
    /\ phase[s] = "new"
    /\ hungUp[s]
    /\ Die

\* A registration that does not wait for the mutex.
PushBackUnlocked(s) ==
    /\ alive
    /\ phase[s] = "headerSent"
    /\ mClientSockets' = Append(mClientSockets, s)
    /\ phase' = [phase EXCEPT ![s] = "registered"]
    /\ joined' = [joined EXCEPT ![s] = event]
    /\ UNCHANGED <<it, waiting, event, sockets, hungUp, alive>>

\* addClient registers the socket under the mutex.
PushBack(s) ==
    /\ alive
    /\ phase[s] = "headerSent"
    /\ it = 0
    /\ mClientSockets' = Append(mClientSockets, s)
    /\ phase' = [phase EXCEPT ![s] = "registered"]
    /\ joined' = [joined EXCEPT ![s] = event]
    /\ UNCHANGED <<it, waiting, event, sockets, hungUp, alive>>

-----------------------------------------------------------------------------
\* resourceAdded/Updated/Removed: notifyClients takes the mutex.
NotifyClients ==
    /\ alive
    /\ it = 0
    /\ event < MaxEvents
    /\ event' = event + 1
    /\ it' = 1
    /\ UNCHANGED <<mClientSockets, waiting, phase, joined, sockets, hungUp, alive>>

\* write(*it, ...) to a client that can take it, at once or after waiting.
Write ==
    /\ alive
    /\ it \in DOMAIN mClientSockets
    /\ ~hungUp[mClientSockets[it]]
    /\ ~Full(mClientSockets[it])
    /\ Put(mClientSockets[it], event)
    /\ waiting' = FALSE
    /\ it' = it + 1
    /\ UNCHANGED <<mClientSockets, event, phase, joined, hungUp, alive>>

\* The buffer is full: the write waits.
WriteWaits ==
    /\ alive
    /\ it \in DOMAIN mClientSockets
    /\ ~hungUp[mClientSockets[it]]
    /\ Full(mClientSockets[it])
    /\ ~waiting
    /\ waiting' = TRUE
    /\ UNCHANGED <<mClientSockets, it, event, phase, joined, sockets, hungUp, alive>>

\* The client is gone before the write.
WriteToNobody ==
    /\ alive
    /\ it \in DOMAIN mClientSockets
    /\ hungUp[mClientSockets[it]]
    /\ ~waiting
    /\ Die

Without(s, i) == SubSeq(s, 1, i - 1) \o SubSeq(s, i + 1, Len(s))

\* A write that is tried again until it is complete.
WriteRetried == waiting /\ UNCHANGED vars

\* The client goes while the write waits: it = mClientSockets.erase(it).
WriteShort ==
    /\ alive
    /\ it \in DOMAIN mClientSockets
    /\ hungUp[mClientSockets[it]]
    /\ waiting
    /\ mClientSockets' = Without(mClientSockets, it)
    /\ phase' = [phase EXCEPT ![mClientSockets[it]] = "erased"]
    /\ waiting' = FALSE
    /\ UNCHANGED <<it, event, joined, sockets, hungUp, alive>>

\* The end of the vector: the mutex is released.
NotifyEnd ==
    /\ alive
    /\ it = Len(mClientSockets) + 1
    /\ it' = 0
    /\ UNCHANGED <<mClientSockets, waiting, event, phase, joined, sockets, hungUp, alive>>

-----------------------------------------------------------------------------
\* A client reads some of what there is, or hangs up.
Read(s) ==
    /\ ~hungUp[s]
    /\ \E left \in 0 .. unread[s] - 1 : unread' = [unread EXCEPT ![s] = left]
    /\ UNCHANGED <<server, sent, hungUp>>

HangUp(s) ==
    /\ ~hungUp[s]
    /\ hungUp' = [hungUp EXCEPT ![s] = TRUE]
    /\ UNCHANGED <<server, sockets>>

Notifying == Write \/ WriteWaits \/ WriteToNobody \/ WriteShort \/ NotifyEnd

Adding(s) == WriteHeader(s) \/ WriteHeaderToNobody(s) \/ PushBack(s)

Next ==
    \/ NotifyClients
    \/ Notifying
    \/ \E s \in Subscribers : Adding(s) \/ Read(s) \/ HangUp(s)

\* The updater and the workers run whenever they can; that there are changes to
\* announce, and that clients read or hang up, is not promised.
Fairness == WF_vars(Notifying) /\ \A s \in Subscribers : WF_vars(PushBack(s))

Spec == Init /\ [][Next]_vars /\ Fairness

-----------------------------------------------------------------------------
\* The last notification the socket at position i of the vector must have.
LastDue(i) == IF it = 0 \/ i < it THEN event ELSE event - 1

\* A registered client has got the header and then every notification since it
\* was registered, each once and in order, whoever was added, was slow or went
\* away meanwhile; to a client that was erased nothing is missing before that.
StreamIsTail ==
    /\ \A i \in DOMAIN mClientSockets :
          LET s == mClientSockets[i] IN
          /\ Len(sent[s]) = 1 + LastDue(i) - joined[s]
          /\ phase[s] = "registered"
    /\ \A s \in Subscribers : \A n \in DOMAIN sent[s] :
          sent[s][n] = IF n = 1 THEN Header ELSE joined[s] + n - 1

\* If every client keeps reading, or hangs up, a notification gets through to
\* its end and a new client gets registered (or a SIGPIPE ends the process).
ClientsKeepUp == \A s \in Subscribers : []<>(unread[s] = 0 \/ hungUp[s])

NotifyReturns ==
    ClientsKeepUp => /\ it > 0 ~> it = 0 \/ ~alive
                     /\ \A s \in Subscribers :
                           phase[s] = "headerSent" ~> phase[s] # "headerSent" \/ ~alive

\* "We don't care if the non-full-write is due to an error or buffer full [...]
\* Either way, we disconnect": a client that cannot take a notification is
\* taken out of the vector.
EitherWayDisconnected ==
    \A s \in Subscribers :
        (it \in DOMAIN mClientSockets /\ mClientSockets[it] = s /\ (Full(s) \/ hungUp[s]))
            ~> s \notin Registered
=============================================================================
