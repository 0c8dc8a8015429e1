----------------------------- MODULE Resources -----------------------------
(***************************************************************************)
(* The resources a service publishes (lib/impl/resourcecollection.cpp), the *)
(* updater that replaces them (JsonResourceCollection::updateCollection,    *)
(* called by the X event loop of wm, by the inotify loop of desktop and by  *)
(* the D-Bus thread of connman) and the requests that read them             *)
(* (service::readRequest), with the change notifications clients get.       *)
(*                                                                          *)
(* Every lock on resourceMutex in the code is a shared one, so no step here *)
(* waits for it: the updater works between the steps of the requests.       *)
(* Whatever a request may find there that no longer exists, or is not yet   *)
(* whole, is undefined in C++; the outcomes are that the process dies or    *)
(* that the request is answered from the wrong or the old object.  Dying    *)
(* needs no action: Spec states no fairness, so it may stop at any step.    *)
(*                                                                          *)
(* A client has one request under way at a time, so the worker that serves  *)
(* it goes by the client's name; how sockets get to workers is SocketQueue, *)
(* how notifications get through a socket is NotificationStream.            *)
(***************************************************************************)
EXTENDS Naturals, Sequences, FiniteSets

CONSTANTS Paths,       \* the paths the service may publish, in Map's order
          Jsons,       \* the contents a resource can have
          Incomparable,\* those that hold something undefined, e.g. an application
                       \* whose file has no command
          NoJson,      \* the snapshot has no such path
          Clients,     \* clients, each with a /notify stream and a mirror
          MaxRounds    \* bound: the number of calls of updateCollection

ASSUME ResourcesAssumption ==
    /\ Paths \subseteq Nat \ {0}
    /\ NoJson \notin Jsons
    /\ Incomparable \subseteq Jsons
    /\ MaxRounds \in Nat

\* A JsonResource object, told apart by the path and the round it was made for.
Instance == [path : Paths, round : 1 .. MaxRounds, json : Jsons]
NoResource == [path |-> 0, round |-> 0, json |-> NoJson]
Wild == [path |-> 0, round |-> MaxRounds + 1, json |-> NoJson]  \* not an object at all
Events == [event : {"resource-updated", "resource-removed"}, path : Paths]

VARIABLES
    mappings,       \* ResourceCollection::resourceMappings
    resourcePaths,  \* JsonResourceCollection::resourcePaths
    snapshot,       \* pathsAndResources of the last update
    round,          \* how many updates there have been
    upc,            \* where the updater is in updateCollection/bulkUpdate
    addOrReplace,   \* the paths bulkUpdate has still to assign
    remove,         \* the paths bulkUpdate has still to erase
    accepted,       \* clients that were sent the header of /notify, and whose
                    \* sockets are not in mClientSockets yet
    subscribed,     \* the clients whose sockets are in mClientSockets
    inbox,          \* notifications a client has not looked at yet
    mirror,         \* what a client believes the resources are
    stale,          \* the paths a client wants to fetch (again)
    request,        \* the request of a client: the path, and the handler found
    exposed         \* history: clients whose request met a half-done update, and
                    \* those accepted that an announcement passed by

updater == <<mappings, resourcePaths, snapshot, round, upc, addOrReplace, remove>>
clients == <<accepted, subscribed, inbox, mirror, stale, request, exposed>>
vars == <<updater, clients>>

Idle == [path |-> 0, handler |-> NoResource]    \* a client without a request

TypeOK ==
    /\ mappings \in [Paths -> Instance \cup {NoResource}]
    /\ resourcePaths \subseteq Paths
    /\ snapshot \in [Paths -> Jsons \cup {NoJson}]
    /\ round \in 0 .. MaxRounds
    /\ upc \in {"idle", "adding", "inserting", "replaced", "announced", "erasing"}
    /\ addOrReplace \subseteq Paths
    /\ remove \subseteq Paths
    /\ accepted \subseteq Clients
    /\ subscribed \subseteq Clients
    /\ inbox \in [Clients -> Seq(Events)]
    /\ mirror \in [Clients -> [Paths -> Jsons \cup {NoJson}]]
    /\ stale \in [Clients -> SUBSET Paths]
    /\ request \in [Clients -> [path : Paths \cup {0}, handler : Instance \cup {NoResource, Wild}]]
    /\ exposed \subseteq Clients

Init ==
    /\ mappings = [p \in Paths |-> NoResource]
    /\ resourcePaths = {}
    /\ snapshot = [p \in Paths |-> NoJson]
    /\ round = 0
    /\ upc = "idle"
    /\ addOrReplace = {}
    /\ remove = {}
    /\ accepted = {}
    /\ subscribed = {}
    /\ inbox = [c \in Clients |-> <<>>]
    /\ mirror = [c \in Clients |-> [p \in Paths |-> NoJson]]
    /\ stale = [c \in Clients |-> {}]
    /\ request = [c \in Clients |-> Idle]
    /\ exposed = {}

-----------------------------------------------------------------------------
Present(snap) == {p \in Paths : snap[p] # NoJson}

\* Assigning every path, changed or not.
ToAssignAlways(snap) == Present(snap)

\* Json::operator==: what is undefined does not equal itself, so neither does a
\* content that holds it.
Equal(a, b) == a = b /\ a \notin Incomparable

\* The paths to assign: those not mapped and those whose JSON is not equal.
ToAssign(snap) ==
    {p \in Present(snap) : mappings[p] = NoResource \/ ~Equal(snap[p], mappings[p].json)}

\* What is to be erased, looked for after resourcePaths is filled again.
ToRemoveAfterClear(snap) == {p \in Present(snap) : snap[p] = NoJson}

\* The paths to erase: those of this collection that the snapshot lacks.
ToRemove(snap) == {p \in resourcePaths : snap[p] = NoJson}

\* updateCollection up to its call of bulkUpdate.
UpdateCollection(snap) ==
    /\ upc = "idle"
    /\ round < MaxRounds
    /\ round' = round + 1
    /\ snapshot' = snap
    /\ remove' = ToRemove(snap)
    /\ addOrReplace' = ToAssign(snap)
    /\ resourcePaths' = Present(snap)
    /\ upc' = "adding"
    /\ UNCHANGED <<mappings, clients>>

First(S) == CHOOSE p \in S : \A q \in S : p <= q

\* The instance of this round for path p.
Made(p) == [path |-> p, round |-> round, json |-> snapshot[p]]

\* notifier.resourceUpdated / resourceRemoved: each client stream gets a line.
\* It passes by the clients that have their header and are not registered.
Notify(event, p) ==
    /\ inbox' = [c \in Clients |->
                    IF c \in subscribed THEN Append(inbox[c], [event |-> event, path |-> p])
                    ELSE inbox[c]]
    /\ exposed' = exposed \cup accepted

\* bulkUpdate meets a path that is not mapped: the vector of the map is shifted
\* and grown (until EndInsert), and nobody is told.
BeginInsert ==
    /\ upc = "adding"
    /\ addOrReplace # {}
    /\ mappings[First(addOrReplace)] = NoResource
    /\ upc' = "inserting"
    /\ UNCHANGED <<mappings, resourcePaths, snapshot, round, addOrReplace, remove, clients>>

EndInsert ==
    /\ upc = "inserting"
    /\ mappings' = [mappings EXCEPT ![First(addOrReplace)] = Made(First(addOrReplace))]
    /\ addOrReplace' = addOrReplace \ {First(addOrReplace)}
    /\ upc' = "adding"
    /\ UNCHANGED <<resourcePaths, snapshot, round, remove, clients>>

\* bulkUpdate meets a mapped path: the pointer is assigned, which destroys the
\* resource it replaces...
Replace ==
    /\ upc = "adding"
    /\ addOrReplace # {}
    /\ mappings[First(addOrReplace)] # NoResource
    /\ mappings' = [mappings EXCEPT ![First(addOrReplace)] = Made(First(addOrReplace))]
    /\ upc' = "replaced"
    /\ UNCHANGED <<resourcePaths, snapshot, round, addOrReplace, remove, clients>>

\* A replacement that nobody is told of (as an insertion is).
NotifyUpdatedToNobody ==
    /\ upc = "replaced"
    /\ addOrReplace' = addOrReplace \ {First(addOrReplace)}
    /\ upc' = "adding"
    /\ UNCHANGED <<mappings, resourcePaths, snapshot, round, remove, clients>>

\* ... and then the change is announced.
NotifyUpdated ==
    /\ upc = "replaced"
    /\ Notify("resource-updated", First(addOrReplace))
    /\ addOrReplace' = addOrReplace \ {First(addOrReplace)}
    /\ upc' = "adding"
    /\ UNCHANGED <<mappings, resourcePaths, snapshot, round, remove,
                   accepted, subscribed, mirror, stale, request>>

\* A removal is announced before the resource goes.
NotifyRemoved ==
    /\ upc = "adding"
    /\ addOrReplace = {}
    /\ remove # {}
    /\ Notify("resource-removed", First(remove))
    /\ upc' = "announced"
    /\ UNCHANGED <<mappings, resourcePaths, snapshot, round, addOrReplace, remove,
                   accepted, subscribed, mirror, stale, request>>

BeginErase ==
    /\ upc = "announced"
    /\ upc' = "erasing"
    /\ UNCHANGED <<mappings, resourcePaths, snapshot, round, addOrReplace, remove, clients>>

\* An erasure that leaves the entry, moved from.
EndEraseLeavesHole ==
    /\ upc = "erasing"
    /\ mappings' = [mappings EXCEPT ![First(remove)] = Wild]
    /\ remove' = remove \ {First(remove)}
    /\ upc' = "adding"
    /\ UNCHANGED <<resourcePaths, snapshot, round, addOrReplace, clients>>

EndErase ==
    /\ upc = "erasing"
    /\ mappings' = [mappings EXCEPT ![First(remove)] = NoResource]
    /\ remove' = remove \ {First(remove)}
    /\ upc' = "adding"
    /\ UNCHANGED <<resourcePaths, snapshot, round, addOrReplace, clients>>

\* updateCollection returns and its (shared) lock is released.
UpdateDone ==
    /\ upc = "adding"
    /\ addOrReplace = {}
    /\ remove = {}
    /\ upc' = "idle"
    /\ UNCHANGED <<mappings, resourcePaths, snapshot, round, addOrReplace, remove, clients>>

-----------------------------------------------------------------------------
\* NotificationStream::addClient writes the header; the client, which has its
\* answer, begins to fetch what there is.
Accept(c) ==
    /\ c \notin accepted \cup subscribed
    /\ accepted' = accepted \cup {c}
    /\ stale' = [stale EXCEPT ![c] = {p \in Paths : mappings[p] # NoResource}]
    /\ exposed' = IF upc \in {"inserting", "announced", "erasing"}
                  THEN exposed \cup {c} ELSE exposed
    /\ UNCHANGED <<updater, subscribed, inbox, mirror, request>>

\* addClient, under the mutex of the stream: push_back.
Register(c) ==
    /\ c \in accepted
    /\ accepted' = accepted \ {c}
    /\ subscribed' = subscribed \cup {c}
    /\ UNCHANGED <<updater, inbox, mirror, stale, request, exposed>>

Mapped == {mappings[q] : q \in Paths} \ {NoResource}

\* The handlers getResource can give for path p.  With no entry for p (and no
\* prefix mapping) it returns true and leaves the handler unset: the variable
\* holds nothing useful, or what an earlier request of the worker left there.
\* While an insertion or an erasure moves the entries, any of them may be hit.
Found(p) == IF upc \in {"inserting", "erasing"} \/ mappings[p] = NoResource
            THEN Mapped \cup {Wild}
            ELSE {mappings[p]}

\* readRequest takes the lock, shared, and looks the handler up.
Lookup(c, p) ==
    /\ request[c] = Idle
    /\ p \in stale[c]
    /\ stale' = [stale EXCEPT ![c] = @ \ {p}]
    /\ \E h \in Found(p) :
          request' = [request EXCEPT ![c] = [path |-> p, handler |-> h]]
    /\ exposed' = IF upc \in {"inserting", "erasing"} THEN exposed \cup {c} ELSE exposed
    /\ UNCHANGED <<updater, accepted, subscribed, inbox, mirror>>

\* handler->handleRequest answers, and the shared lock is released.  A handler
\* replaced or erased meanwhile is a destroyed object: the answer is its old
\* content, or there is none.
Respond(c) ==
    /\ request[c] # Idle
    /\ request[c].handler # Wild
    /\ mirror' = [mirror EXCEPT ![c][request[c].path] = request[c].handler.json]
    /\ request' = [request EXCEPT ![c] = Idle]
    /\ UNCHANGED <<updater, accepted, subscribed, inbox, stale, exposed>>

\* A client reads the next notification.
Receive(c) ==
    /\ request[c] = Idle
    /\ inbox[c] # <<>>
    /\ inbox' = [inbox EXCEPT ![c] = Tail(@)]
    /\ LET e == Head(inbox[c]) IN
       IF e.event = "resource-updated"
       THEN /\ stale' = [stale EXCEPT ![c] = @ \cup {e.path}]
            /\ UNCHANGED mirror
       ELSE /\ stale' = [stale EXCEPT ![c] = @ \ {e.path}]
            /\ mirror' = [mirror EXCEPT ![c][e.path] = NoJson]
    /\ UNCHANGED <<updater, accepted, subscribed, request, exposed>>

-----------------------------------------------------------------------------
Update == \/ \E snap \in [Paths -> Jsons \cup {NoJson}] : UpdateCollection(snap)
          \/ BeginInsert \/ EndInsert
          \/ Replace \/ NotifyUpdated
          \/ NotifyRemoved \/ BeginErase \/ EndErase
          \/ UpdateDone

Client(c) == \/ Accept(c)
             \/ Register(c)
             \/ \E p \in Paths : Lookup(c, p)
             \/ Respond(c)
             \/ Receive(c)

Next == Update \/ \E c \in Clients : Client(c)

Spec == Init /\ [][Next]_vars

-----------------------------------------------------------------------------
\* Between updates the published resources are those of the last snapshot, no
\* more and no fewer, whatever the earlier ones were.
PublishedIsSnapshot ==
    upc = "idle" => /\ \A p \in Paths : mappings[p].json = snapshot[p]
                    /\ resourcePaths = Present(snapshot)

\* A resource whose JSON is the same stays (with its cache, and without an
\* event): one is displaced only by a different content - or by the same content
\* again, every time, if something in it is undefined.
OnlyChangesReplace ==
    [][\A p \in Paths : /\ mappings[p] # NoResource
                        /\ mappings'[p] # mappings[p]
                        => \/ mappings'[p].json # mappings[p].json
                           \/ mappings[p].json \in Incomparable]_vars

\* A client that follows the stream - fetch again what was updated, drop what
\* was removed - ends up with the published contents of what it knows, as long
\* as its own requests did not meet a half-done update and nothing was announced
\* between the header it was sent and its registration.
SubscribersConverge ==
    \A c \in subscribed \ exposed :
        /\ upc = "idle"
        /\ inbox[c] = <<>> /\ stale[c] = {} /\ request[c] = Idle
        => \A p \in Paths : mirror[c][p] \in {NoJson, mappings[p].json}

\* The resource a request found stays the resource of its path until the
\* request is answered: what "write lock for these" (bulkUpdate) and "read or
\* write lock for these" (getResource) in resourcecollection.h are for.
HandlerStaysMapped ==
    \A c \in Clients :
        request[c].handler.path = request[c].path /\ request[c] # Idle
            => request[c].handler = mappings[request[c].path]
=============================================================================
