-------------------------- MODULE ResourcesProofs --------------------------
(***************************************************************************)
(* Theorems about Resources, for any sets of paths, contents and clients    *)
(* and any number of updates.                                               *)
(***************************************************************************)
EXTENDS Resources, SequenceTheorems, FiniteSetTheorems, WellFoundedInduction, TLAPS

-----------------------------------------------------------------------------
\* A non-empty set of naturals has a least element.
LEMMA LeastElement ==
    ASSUME NEW T \in SUBSET Nat, T # {}
    PROVE  \E m \in T : \A k \in T : m <= k
<1> DEFINE C == {0 .. m : m \in T}
<1>1. C \subseteq FiniteSubsetsOf(Nat)
  <2>1. \A m \in T : IsFiniteSet(0 .. m)
      BY FS_Interval
  <2> QED
      BY <2>1 DEF FiniteSubsetsOf
<1>2. C # {}
    OBVIOUS
<1>3. PICK x \in C : \A y \in C : ~ (<<y, x>> \in StrictSubsetOrdering(Nat))
    BY <1>1, <1>2, FS_StrictSubsetOrderingWellFounded, WFMin, Zenon
<1>4. PICK m \in T : x = 0 .. m
    OBVIOUS
<1>5. ASSUME NEW k \in T, k < m
      PROVE  FALSE
  <2>1. 0 .. k \subseteq 0 .. m /\ m \in 0 .. m /\ m \notin 0 .. k
      BY <1>5
  <2>2. <<0 .. k, 0 .. m>> \in StrictSubsetOrdering(Nat)
      BY <2>1 DEF StrictSubsetOrdering
  <2> QED
      BY <1>3, <1>4, <2>2
<1> QED
    BY <1>5

\* First picks an element of what is left to do.
LEMMA FirstIn ==
    ASSUME NEW S \in SUBSET Paths, S # {}
    PROVE  First(S) \in S
<1>1. \E p \in S : \A q \in S : p <= q
    BY LeastElement, ResourcesAssumption
<1> QED
    BY <1>1 DEF First

-----------------------------------------------------------------------------
\* How far an update has come: the paths that are not waiting any more have the
\* content of the snapshot, those that wait to be assigned have another one, or
\* one that equals nothing.
Progress ==
    /\ resourcePaths = Present(snapshot)
    /\ addOrReplace \subseteq Present(snapshot)
    /\ remove \cap Present(snapshot) = {}
    /\ \A p \in Paths \ (addOrReplace \cup remove) : mappings[p].json = snapshot[p]
    /\ \A p \in addOrReplace :
          \/ ~Equal(snapshot[p], mappings[p].json)
          \/ upc = "replaced" /\ p = First(addOrReplace)

\* What each place in the code of the updater implies.
AtEach ==
    /\ upc # "idle" => round >= 1
    /\ upc = "idle" => addOrReplace = {} /\ remove = {}
    /\ upc \in {"inserting", "replaced"} => addOrReplace # {}
    /\ upc = "inserting" => mappings[First(addOrReplace)] = NoResource
    /\ upc = "replaced" => mappings[First(addOrReplace)].json = snapshot[First(addOrReplace)]
    /\ upc \in {"announced", "erasing"} => addOrReplace = {} /\ remove # {}

IInv == TypeOK /\ Progress /\ AtEach

-----------------------------------------------------------------------------
\* The instance a round makes for a path still to be assigned is a resource.
LEMMA MadeIsInstance ==
    ASSUME TypeOK, Progress, AtEach, addOrReplace # {}, upc # "idle"
    PROVE  /\ First(addOrReplace) \in addOrReplace
           /\ First(addOrReplace) \in Paths
           /\ Made(First(addOrReplace)) \in Instance
           /\ Made(First(addOrReplace)).json = snapshot[First(addOrReplace)]
<1>1. addOrReplace \in SUBSET Paths
    BY DEF TypeOK
<1>2. First(addOrReplace) \in addOrReplace
    BY <1>1, FirstIn
<1>3. First(addOrReplace) \in Paths /\ snapshot[First(addOrReplace)] \in Jsons
    BY <1>1, <1>2 DEF TypeOK, Progress, Present
<1>4. round \in 1 .. MaxRounds
    BY ResourcesAssumption DEF TypeOK, AtEach
<1> QED
    BY <1>2, <1>3, <1>4 DEF Made, Instance

\* The steps of clients keep the types and touch nothing of the updater.
LEMMA ClientStep ==
    ASSUME TypeOK, NEW c \in Clients, Client(c)
    PROVE  TypeOK' /\ UNCHANGED updater
<1>1. CASE Accept(c)
    BY <1>1 DEF TypeOK, Accept, updater
<1>5. CASE Register(c)
  <2>1. accepted' \subseteq Clients /\ subscribed' \subseteq Clients
      BY <1>5 DEF TypeOK, Register
  <2>2. UNCHANGED <<updater, inbox, mirror, stale, request, exposed>>
      BY <1>5 DEF Register
  <2> QED
      BY <2>1, <2>2 DEF TypeOK, updater
<1>2. ASSUME NEW p \in Paths, Lookup(c, p)
      PROVE  TypeOK' /\ UNCHANGED updater
  <2>1. PICK h \in Found(p) : request' = [request EXCEPT ![c] = [path |-> p, handler |-> h]]
      BY <1>2 DEF Lookup
  <2>2. h \in Instance \cup {NoResource, Wild}
      BY <2>1 DEF Found, Mapped, TypeOK
  <2>3. request' \in [Clients -> [path : Paths \cup {0}, handler : Instance \cup {NoResource, Wild}]]
      BY <2>1, <2>2 DEF TypeOK
  <2>4. stale' \in [Clients -> SUBSET Paths] /\ exposed' \subseteq Clients
      BY <1>2 DEF Lookup, TypeOK
  <2> QED
      BY <1>2, <2>3, <2>4 DEF Lookup, TypeOK, updater
<1>3. CASE Respond(c)
  <2>1. request[c].path \in Paths \cup {0} /\ request[c].handler \in Instance \cup {NoResource, Wild}
      BY DEF TypeOK
  <2>2. request[c].handler.json \in Jsons \cup {NoJson}
      BY <2>1 DEF Instance, NoResource, Wild
  <2>3. mirror' \in [Clients -> [Paths -> Jsons \cup {NoJson}]]
      BY <1>3, <2>2 DEF Respond, TypeOK
  <2>4. request' \in [Clients -> [path : Paths \cup {0}, handler : Instance \cup {NoResource, Wild}]]
      BY <1>3 DEF Respond, TypeOK, Idle
  <2> QED
      BY <1>3, <2>3, <2>4 DEF Respond, TypeOK, updater
<1>4. CASE Receive(c)
  <2>1. inbox[c] \in Seq(Events) /\ inbox[c] # <<>>
      BY <1>4 DEF Receive, TypeOK
  <2>2. Head(inbox[c]) \in Events /\ Tail(inbox[c]) \in Seq(Events)
      BY <2>1
  <2>3. Head(inbox[c]).path \in Paths
      BY <2>2 DEF Events
  <2>4. inbox' \in [Clients -> Seq(Events)]
      BY <1>4, <2>2 DEF Receive, TypeOK
  <2> DEFINE q == Head(inbox[c]).path
  <2>5. /\ stale[c] \cup {q} \in SUBSET Paths /\ stale[c] \ {q} \in SUBSET Paths
        /\ [mirror[c] EXCEPT ![q] = NoJson] \in [Paths -> Jsons \cup {NoJson}]
      BY <2>3 DEF TypeOK
  <2>6. /\ stale' = [stale EXCEPT ![c] = @ \cup {q}] \/ stale' = [stale EXCEPT ![c] = @ \ {q}]
        /\ mirror' = mirror \/ mirror' = [mirror EXCEPT ![c] = [mirror[c] EXCEPT ![q] = NoJson]]
      BY <1>4 DEF Receive
  <2>7. stale' \in [Clients -> SUBSET Paths]
      BY <2>5, <2>6 DEF TypeOK
  <2>8. mirror' \in [Clients -> [Paths -> Jsons \cup {NoJson}]]
    <3> DEFINE T == [Paths -> Jsons \cup {NoJson}]
               n == [mirror[c] EXCEPT ![q] = NoJson]
    <3>1. mirror \in [Clients -> T] /\ n \in T
        BY <2>5 DEF TypeOK
    <3>2. mirror' = mirror \/ mirror' = [mirror EXCEPT ![c] = n]
        BY <2>6
    <3> HIDE DEF T, n
    <3>3. mirror' \in [Clients -> T]
        BY <3>1, <3>2
    <3> QED
        BY <3>3 DEF T
  <2> QED
      BY <1>4, <2>4, <2>7, <2>8 DEF Receive, TypeOK, updater
<1> QED
    BY <1>1, <1>2, <1>3, <1>4, <1>5 DEF Client

\* A notification keeps the types of the streams.
LEMMA NotifyType ==
    ASSUME TypeOK, NEW e \in {"resource-updated", "resource-removed"}, NEW p \in Paths, Notify(e, p)
    PROVE  inbox' \in [Clients -> Seq(Events)] /\ exposed' \subseteq Clients
<1>1. [event |-> e, path |-> p] \in Events
    BY DEF Events
<1>2. \A c \in Clients : Append(inbox[c], [event |-> e, path |-> p]) \in Seq(Events)
    BY <1>1 DEF TypeOK
<1> QED
    BY <1>2 DEF Notify, TypeOK

-----------------------------------------------------------------------------
\* A step of the updater keeps IInv.
LEMMA UpdateCollectionStep ==
    ASSUME IInv, NEW snap \in [Paths -> Jsons \cup {NoJson}], UpdateCollection(snap)
    PROVE  IInv'
<1> USE DEF IInv, UpdateCollection, Present
<1>1. TypeOK'
  <2>1. addOrReplace' \subseteq Paths /\ remove' \subseteq Paths /\ resourcePaths' \subseteq Paths
      BY DEF TypeOK, ToRemove, ToAssign
  <2>2. round' \in 0 .. MaxRounds
      BY ResourcesAssumption DEF TypeOK
  <2>3. upc' = "adding" /\ snapshot' = snap /\ UNCHANGED <<mappings, clients>>
      OBVIOUS
  <2> QED
      BY <2>1, <2>2, <2>3 DEF TypeOK, clients
<1>2. Progress'
  <2>1. \A p \in Paths \ (addOrReplace' \cup remove') : mappings'[p].json = snapshot'[p]
    <3> TAKE p \in Paths \ (addOrReplace' \cup remove')
    <3>1. mappings[p].json = snapshot[p]
        BY DEF Progress, AtEach
    <3>2. CASE snap[p] # NoJson
        BY <3>2 DEF ToAssign, Equal
    <3>3. CASE snap[p] = NoJson
        BY <3>1, <3>3 DEF ToRemove, Progress
    <3> QED
        BY <3>2, <3>3
  <2>2. \A p \in addOrReplace' : ~Equal(snapshot'[p], mappings'[p].json)
      BY DEF ToAssign, NoResource, Equal
  <2>3. /\ resourcePaths' = Present(snapshot') /\ addOrReplace' \subseteq Present(snapshot')
        /\ remove' \cap Present(snapshot') = {}
      BY DEF ToAssign, ToRemove
  <2> QED
      BY <2>1, <2>2, <2>3 DEF Progress, Equal
<1>3. AtEach'
    BY ResourcesAssumption DEF AtEach, TypeOK
<1> QED
    BY <1>1, <1>2, <1>3

LEMMA AssignStep ==
    ASSUME IInv, EndInsert \/ Replace \/ BeginInsert
    PROVE  IInv'
<1> USE DEF IInv
<1> DEFINE p == First(addOrReplace)
<1>1. CASE BeginInsert
    BY <1>1 DEF BeginInsert, TypeOK, Progress, AtEach, clients
<1>2. CASE EndInsert
  <2>1. p \in addOrReplace /\ p \in Paths /\ Made(p) \in Instance /\ Made(p).json = snapshot[p]
      BY <1>2, MadeIsInstance DEF EndInsert, AtEach
  <2> HIDE DEF p
  <2>2. /\ mappings' = [mappings EXCEPT ![p] = Made(p)]
        /\ addOrReplace' = addOrReplace \ {p}
        /\ upc' = "adding"
        /\ UNCHANGED <<resourcePaths, snapshot, round, remove, clients>>
      BY <1>2 DEF EndInsert, p
  <2>3. TypeOK'
      BY <2>1, <2>2 DEF TypeOK, clients
  <2>4. Progress'
      BY <2>1, <2>2, <1>2 DEF Progress, TypeOK, EndInsert, Present
  <2> QED
      BY <2>2, <2>3, <2>4, <1>2 DEF AtEach, EndInsert
<1>3. CASE Replace
  <2>1. p \in addOrReplace /\ p \in Paths /\ Made(p) \in Instance /\ Made(p).json = snapshot[p]
      BY <1>3, MadeIsInstance DEF Replace
  <2>2. /\ mappings' = [mappings EXCEPT ![p] = Made(p)]
        /\ upc' = "replaced"
        /\ UNCHANGED <<resourcePaths, snapshot, round, addOrReplace, remove, clients>>
        /\ First(addOrReplace)' = p
      BY <1>3 DEF Replace, First
  <2> HIDE DEF p
  <2>3. TypeOK'
      BY <2>1, <2>2 DEF TypeOK, clients
  <2>4. Progress'
      BY <2>1, <2>2, <1>3 DEF Progress, TypeOK, Replace, Present
  <2> QED
      BY <2>1, <2>2, <2>3, <2>4, <1>3 DEF AtEach, Replace, TypeOK
<1> QED
    BY <1>1, <1>2, <1>3

LEMMA NotifyUpdatedStep ==
    ASSUME IInv, NotifyUpdated
    PROVE  IInv'
<1> USE DEF IInv
<1> DEFINE p == First(addOrReplace)
<1>1. p \in addOrReplace /\ p \in Paths /\ mappings[p].json = snapshot[p]
    BY MadeIsInstance DEF NotifyUpdated, AtEach
<1>2. inbox' \in [Clients -> Seq(Events)] /\ exposed' \subseteq Clients
    BY <1>1, NotifyType DEF NotifyUpdated
<1> HIDE DEF p
<1>3. /\ addOrReplace' = addOrReplace \ {p}
      /\ upc' = "adding"
      /\ UNCHANGED <<mappings, resourcePaths, snapshot, round, remove,
                     accepted, subscribed, mirror, stale, request>>
    BY DEF NotifyUpdated, p
<1>4. TypeOK'
    BY <1>2, <1>3 DEF TypeOK
<1>5. Progress'
    BY <1>1, <1>3 DEF Progress, Present, p
<1> QED
    BY <1>3, <1>4, <1>5 DEF AtEach, NotifyUpdated

LEMMA EraseStep ==
    ASSUME IInv, NotifyRemoved \/ BeginErase \/ EndErase \/ UpdateDone
    PROVE  IInv'
<1> USE DEF IInv
<1>1. CASE NotifyRemoved
  <2>1. First(remove) \in Paths
      BY <1>1, FirstIn DEF NotifyRemoved, TypeOK
  <2>2. inbox' \in [Clients -> Seq(Events)] /\ exposed' \subseteq Clients
      BY <1>1, <2>1, NotifyType DEF NotifyRemoved
  <2> QED
      BY <1>1, <2>2 DEF NotifyRemoved, TypeOK, Progress, AtEach, Present
<1>2. CASE BeginErase
    BY <1>2 DEF BeginErase, TypeOK, Progress, AtEach, clients, Present
<1>3. CASE EndErase
  <2> DEFINE p == First(remove)
  <2>1. p \in remove /\ p \in Paths
      BY <1>3, FirstIn DEF EndErase, TypeOK, AtEach
  <2>2. snapshot[p] = NoJson
      BY <2>1 DEF Progress, Present
  <2> HIDE DEF p
  <2>3. /\ mappings' = [mappings EXCEPT ![p] = NoResource]
        /\ remove' = remove \ {p}
        /\ upc' = "adding"
        /\ UNCHANGED <<resourcePaths, snapshot, round, addOrReplace, clients>>
      BY <1>3 DEF EndErase, p
  <2>4. TypeOK'
      BY <2>1, <2>3 DEF TypeOK, clients
  <2>5. Progress'
      BY <1>3, <2>1, <2>2, <2>3 DEF Progress, TypeOK, Present, NoResource, EndErase, AtEach
  <2> QED
      BY <1>3, <2>3, <2>4, <2>5 DEF AtEach, EndErase
<1>4. CASE UpdateDone
    BY <1>4 DEF UpdateDone, TypeOK, Progress, AtEach, clients, Present
<1> QED
    BY <1>1, <1>2, <1>3, <1>4

\* IInv does not depend on what clients do.
LEMMA UpdaterOnly ==
    ASSUME IInv, TypeOK', UNCHANGED updater
    PROVE  IInv'
    BY DEF IInv, Progress, AtEach, updater, Present, First

LEMMA NextStep ==
    ASSUME IInv, [Next]_vars
    PROVE  IInv'
<1>1. CASE Update
    BY <1>1, UpdateCollectionStep, AssignStep, NotifyUpdatedStep, EraseStep DEF Update
<1>2. ASSUME NEW c \in Clients, Client(c)
      PROVE  IInv'
    BY <1>2, ClientStep, UpdaterOnly DEF IInv
<1>3. CASE UNCHANGED vars
  <2>1. TypeOK' /\ UNCHANGED updater
      BY <1>3 DEF TypeOK, vars, updater, clients, IInv
  <2> QED
      BY <2>1, UpdaterOnly
<1> QED
    BY <1>1, <1>2, <1>3 DEF Next

LEMMA InitIInv == Init => IInv
<1> SUFFICES ASSUME Init
             PROVE  IInv
    OBVIOUS
<1>1. TypeOK
    BY ResourcesAssumption DEF Init, TypeOK, Idle
<1>2. Progress /\ AtEach
    BY DEF Init, Progress, AtEach, Present, NoResource
<1> QED
    BY <1>1, <1>2 DEF IInv

\* IInv holds throughout.
LEMMA Invariance == Spec => []IInv
    BY InitIInv, NextStep, PTL DEF Spec

-----------------------------------------------------------------------------
\* The variables of the updater, the requests and the clients keep their types;
\* in particular an update never assigns or erases a path that does not exist.
THEOREM TypeCorrect == Spec => []TypeOK
<1>1. IInv => TypeOK
    BY DEF IInv
<1> QED
    BY <1>1, Invariance, PTL

\* Between calls of updateCollection exactly the last snapshot is published,
\* after any number of rounds.
THEOREM PublishedCorrect == Spec => []PublishedIsSnapshot
<1>1. IInv => PublishedIsSnapshot
    BY DEF IInv, Progress, AtEach, PublishedIsSnapshot
<1> QED
    BY <1>1, Invariance, PTL

\* bulkUpdate replaces a resource only by one of a different content, or for
\* something undefined in its content.
THEOREM ReplacementCorrect == Spec => OnlyChangesReplace
<1> DEFINE A == \A p \in Paths : /\ mappings[p] # NoResource
                                 /\ mappings'[p] # mappings[p]
                                 => \/ mappings'[p].json # mappings[p].json
                                    \/ mappings[p].json \in Incomparable
<1>1. ASSUME IInv, Next
      PROVE  A \/ UNCHANGED vars
  <2>1. CASE EndInsert \/ Replace
    <3> DEFINE q == First(addOrReplace)
    <3>1. q \in addOrReplace /\ q \in Paths /\ Made(q).json = snapshot[q]
        BY <1>1, <2>1, MadeIsInstance DEF IInv, EndInsert, Replace, AtEach
    <3>2. upc # "replaced"
        BY <2>1 DEF EndInsert, Replace
    <3> HIDE DEF q
    <3>3. mappings[q].json # snapshot[q] \/ mappings[q].json \in Incomparable
        BY <1>1, <3>1, <3>2 DEF IInv, Progress, Equal
    <3>4. mappings' = [mappings EXCEPT ![q] = Made(q)] /\ mappings \in [Paths -> Instance \cup {NoResource}]
        BY <1>1, <2>1 DEF EndInsert, Replace, q, IInv, TypeOK
    <3> QED
        BY <3>1, <3>3, <3>4
  <2>2. CASE EndErase
    <3>1. \A p \in Paths : mappings[p] # NoResource => mappings[p].json # NoJson
        BY <1>1, ResourcesAssumption DEF IInv, TypeOK, Instance
    <3>2. \A p \in Paths : mappings'[p] = mappings[p] \/ mappings'[p] = NoResource
        BY <1>1, <2>2 DEF EndErase, IInv, TypeOK
    <3> QED
        BY <3>1, <3>2 DEF NoResource
  <2>3. CASE UNCHANGED mappings
      BY <2>3
  <2>4. ASSUME NEW c \in Clients, Client(c)
        PROVE  UNCHANGED mappings
      BY <1>1, <2>4, ClientStep DEF IInv, updater
  <2> QED
      BY <1>1, <2>1, <2>2, <2>3, <2>4 DEF Next, Update, UpdateCollection, BeginInsert, NotifyUpdated,
         NotifyRemoved, BeginErase, UpdateDone
<1>2. IInv /\ [Next]_vars => [A]_vars
    BY <1>1
<1> QED
    BY <1>2, Invariance, PTL DEF Spec, OnlyChangesReplace

-----------------------------------------------------------------------------
\* The notifications of a stream that are about path p.
About(q, p) == {i \in DOMAIN q : q[i].path = p}

\* The last notification about p says that it is removed.
RemovedLast(q, p) == \E i \in About(q, p) : /\ q[i].event = "resource-removed"
                                            /\ \A j \in About(q, p) : j <= i

\* There is no resource at p, or its removal is announced.
Leaving(p) ==
    \/ mappings[p] = NoResource
    \/ upc \in {"announced", "erasing"} /\ p = First(remove)

\* Client c is yet to learn that p is gone, or has dropped it and will not ask.
Gone(c, p) ==
    \/ RemovedLast(inbox[c], p)
    \/ /\ About(inbox[c], p) = {}
       /\ p \notin stale[c]
       /\ request[c].path # p
       /\ mirror[c][p] = NoJson

\* Client c is yet to learn of the resource at p, or to fetch it, or fetches what
\* is published, or has it (or has never known of it).
Current(c, p) ==
    \/ About(inbox[c], p) # {}
    \/ p \in stale[c]
    \/ request[c].path = p /\ request[c].handler = mappings[p]
    \/ request[c].path # p /\ mirror[c][p] \in {NoJson, mappings[p].json}
    \/ upc = "replaced" /\ p = First(addOrReplace)

Follows(c, p) == IF Leaving(p) THEN Gone(c, p) ELSE Current(c, p)

\* The clients that have their header, registered or not.
Followers == accepted \cup subscribed

\* A client that has not subscribed knows nothing and asks nothing.
Stranger(c) ==
    /\ inbox[c] = <<>> /\ stale[c] = {} /\ request[c] = Idle
    /\ \A p \in Paths : mirror[c][p] = NoJson

\* No client that kept out of half-done updates loses track of a path.
FollowInv ==
    /\ \A c \in Clients \ Followers : Stranger(c)
    /\ \A c \in Followers \ exposed : \A p \in Paths : Follows(c, p)

\* What a notification more says of path p.
LEMMA AppendAbout ==
    ASSUME NEW q \in Seq(Events), NEW e \in Events, NEW p \in Paths
    PROVE  LET r == Append(q, e) IN
           /\ e.path = p => About(r, p) # {}
           /\ e.path = p /\ e.event = "resource-removed" => RemovedLast(r, p)
           /\ e.path # p => /\ About(r, p) = About(q, p)
                            /\ RemovedLast(q, p) => RemovedLast(r, p)
<1> DEFINE r == Append(q, e)
           n == Len(q)
<1>1. /\ DOMAIN r = 1 .. n + 1 /\ DOMAIN q = 1 .. n /\ n \in Nat /\ r[n + 1] = e
      /\ \A i \in 1 .. n : r[i] = q[i]
    BY AppendProperties, LenProperties
<1> HIDE DEF r, n
<1>2. n + 1 \in 1 .. n + 1 /\ \A i \in 1 .. n + 1 : i <= n + 1 /\ (i = n + 1 \/ i \in 1 .. n)
    BY <1>1
<1>3. \A i \in 1 .. n : i \in 1 .. n + 1
    BY <1>1
<1>4. e.path = p => n + 1 \in About(r, p)
    BY <1>1, <1>2 DEF About
<1>5. e.path = p /\ e.event = "resource-removed" => RemovedLast(r, p)
    BY <1>1, <1>2, <1>4 DEF RemovedLast, About
<1>6. e.path # p => About(r, p) = About(q, p)
    BY <1>1, <1>2, <1>3 DEF About
<1>7. e.path # p /\ RemovedLast(q, p) => RemovedLast(r, p)
  <2> SUFFICES ASSUME e.path # p, NEW i \in About(q, p), q[i].event = "resource-removed",
                      \A j \in About(q, p) : j <= i
               PROVE  RemovedLast(r, p)
      BY DEF RemovedLast
  <2>1. i \in About(r, p) /\ r[i] = q[i]
      BY <1>1, <1>6 DEF About
  <2> QED
      BY <1>6, <2>1 DEF RemovedLast
<1> QED
    BY <1>4, <1>5, <1>6, <1>7 DEF r

\* What the notifications say of path p once the first of them is read.
LEMMA TailAbout ==
    ASSUME NEW q \in Seq(Events), q # <<>>, NEW p \in Paths
    PROVE  LET r == Tail(q) IN
           /\ Head(q) \in Events
           /\ About(q, p) = {} => About(r, p) = {} /\ Head(q).path # p
           /\ About(q, p) # {} => About(r, p) # {} \/ Head(q).path = p
           /\ RemovedLast(q, p) => \/ RemovedLast(r, p)
                                   \/ /\ Head(q).path = p
                                      /\ Head(q).event = "resource-removed"
                                      /\ About(r, p) = {}
<1> DEFINE r == Tail(q)
           n == Len(q)
<1>1. /\ Len(r) = n - 1 /\ n \in Nat \ {0} /\ Head(q) = q[1] /\ q[1] \in Events
      /\ DOMAIN r = 1 .. n - 1 /\ DOMAIN q = 1 .. n
      /\ \A i \in 1 .. n - 1 : r[i] = q[i + 1]
    BY HeadTailProperties, EmptySeq, LenProperties
<1> HIDE DEF r, n
<1>2. \A i \in 1 .. n - 1 : i + 1 \in 1 .. n /\ r[i] = q[i + 1]
    BY <1>1
<1>3. \A i \in 1 .. n : i # 1 => i - 1 \in 1 .. n - 1 /\ r[i - 1] = q[i]
    BY <1>1
<1>4. 1 \in 1 .. n
    BY <1>1
<1>5. \A i \in About(r, p) : i \in 1 .. n - 1 /\ i + 1 \in About(q, p)
    BY <1>1, <1>2 DEF About
<1>6. \A i \in About(q, p) : i \in 1 .. n /\ (i # 1 => i - 1 \in About(r, p))
    BY <1>1, <1>3 DEF About
<1>7. About(q, p) = {} => About(r, p) = {} /\ q[1].path # p
    BY <1>1, <1>4, <1>5 DEF About
<1>8. About(q, p) # {} => About(r, p) # {} \/ q[1].path = p
    BY <1>1, <1>6 DEF About
<1>9. ASSUME RemovedLast(q, p)
      PROVE  \/ RemovedLast(r, p)
             \/ q[1].path = p /\ q[1].event = "resource-removed" /\ About(r, p) = {}
  <2>1. PICK i \in About(q, p) : q[i].event = "resource-removed" /\ \A j \in About(q, p) : j <= i
      BY <1>9 DEF RemovedLast
  <2>2. i \in 1 .. n
      BY <1>6, <2>1
  <2>3. CASE i = 1
    <3>1. q[1].path = p
        BY <2>1, <2>3 DEF About
    <3>2. ASSUME NEW j \in About(r, p)
          PROVE  FALSE
      <4>1. j \in 1 .. n - 1 /\ j + 1 <= 1
          BY <1>5, <2>1, <2>3
      <4> QED
          BY <1>1, <4>1
    <3> QED
        BY <2>1, <2>3, <3>1, <3>2
  <2>4. CASE i # 1
    <3>1. i - 1 \in About(r, p) /\ r[i - 1] = q[i]
        BY <1>3, <1>6, <2>2, <2>4
    <3>2. \A j \in About(r, p) : j <= i - 1
      <4> TAKE j \in About(r, p)
      <4>1. j \in 1 .. n - 1 /\ j + 1 <= i
          BY <1>5, <2>1
      <4> QED
          BY <1>1, <2>2, <4>1
    <3> QED
        BY <2>1, <3>1, <3>2 DEF RemovedLast
  <2> QED
      BY <2>3, <2>4
<1> QED
    BY <1>1, <1>7, <1>8, <1>9 DEF r

\* A step of the updater that tells clients nothing: what begins to go was
\* announced before, and what is published anew was gone or is about to be told.
LEMMA SilentUpdate ==
    ASSUME FollowInv, UNCHANGED clients,
           \A p \in Paths :
              /\ Leaving(p)' => Leaving(p)
              /\ ~Leaving(p)' => \/ Leaving(p)
                                 \/ /\ mappings'[p] = mappings[p]
                                    /\ ~(upc = "replaced" /\ p = First(addOrReplace))
                                 \/ (upc = "replaced" /\ p = First(addOrReplace))'
    PROVE  FollowInv'
<1> USE DEF clients, Followers
<1>1. \A c \in Clients \ Followers' : Stranger(c)'
    BY DEF FollowInv, Stranger
<1>2. ASSUME NEW c \in Followers \ exposed, NEW p \in Paths
      PROVE  Follows(c, p)'
  <2>1. Follows(c, p)
      BY DEF FollowInv
  <2>2. Gone(c, p)' <=> Gone(c, p)
      BY DEF Gone
  <2>3. Gone(c, p) => Current(c, p)'
      BY DEF Gone, Current, RemovedLast
  <2>4. CASE Leaving(p)
      BY <2>1, <2>2, <2>3, <2>4 DEF Follows
  <2>5. CASE ~Leaving(p)
    <3>1. Current(c, p) /\ ~Leaving(p)'
        BY <2>1, <2>5 DEF Follows
    <3>2. Current(c, p)'
        BY <2>5, <3>1 DEF Current
    <3> QED
        BY <3>1, <3>2 DEF Follows
  <2> QED
      BY <2>4, <2>5
<1> QED
    BY <1>1, <1>2 DEF FollowInv

\* The steps of the updater between notifications.
LEMMA SilentSteps ==
    ASSUME IInv, FollowInv,
           \/ \E snap \in [Paths -> Jsons \cup {NoJson}] : UpdateCollection(snap)
           \/ BeginInsert \/ EndInsert \/ Replace
           \/ BeginErase \/ EndErase \/ UpdateDone
    PROVE  FollowInv'
<1> USE DEF Leaving
<1>1. ASSUME UNCHANGED <<mappings, clients>>, upc # "replaced",
             upc \notin {"announced", "erasing"}, upc' \notin {"announced", "erasing"}
      PROVE  FollowInv'
    BY <1>1, SilentUpdate
<1>2. CASE \/ \E snap \in [Paths -> Jsons \cup {NoJson}] : UpdateCollection(snap)
           \/ BeginInsert \/ UpdateDone
    BY <1>1, <1>2 DEF UpdateCollection, BeginInsert, UpdateDone
<1>3. CASE BeginErase
    BY <1>3, SilentUpdate DEF BeginErase
<1>4. CASE EndErase
  <2>1. First(remove) \in Paths
      BY <1>4, FirstIn DEF EndErase, IInv, TypeOK, AtEach
  <2> QED
      BY <1>4, <2>1, SilentUpdate DEF EndErase, IInv, TypeOK
<1>5. CASE EndInsert \/ Replace
  <2>1. PICK p \in Paths : p = First(addOrReplace) /\ Made(p) \in Instance
      BY <1>5, MadeIsInstance DEF EndInsert, Replace, IInv, AtEach
  <2>2. Made(p) # NoResource
      BY <2>1, ResourcesAssumption DEF Instance, NoResource
  <2>3. mappings' = [mappings EXCEPT ![p] = Made(p)] /\ UNCHANGED clients
      BY <1>5, <2>1 DEF EndInsert, Replace
  <2>4. /\ upc \notin {"announced", "erasing"} /\ upc' \notin {"announced", "erasing"}
        /\ upc # "replaced"
      BY <1>5 DEF EndInsert, Replace
  <2>5. ASSUME NEW q \in Paths, q # p
        PROVE  mappings'[q] = mappings[q]
      BY <2>3, <2>5 DEF IInv, TypeOK
  <2>6. mappings'[p] # NoResource
      BY <2>2, <2>3 DEF IInv, TypeOK
  <2>7. Leaving(p) \/ (upc = "replaced" /\ p = First(addOrReplace))'
      BY <1>5, <2>1 DEF EndInsert, Replace, First, IInv, AtEach
  <2> QED
      BY <2>3, <2>4, <2>5, <2>6, <2>7, SilentUpdate
<1> QED
    BY <1>2, <1>3, <1>4, <1>5

\* A notification about p reaches every client: it is current, or knows p is to go.
LEMMA NotifyingSteps ==
    ASSUME IInv, FollowInv, NotifyUpdated \/ NotifyRemoved
    PROVE  FollowInv'
<1>1. PICK p \in Paths : /\ p = IF upc = "replaced" THEN First(addOrReplace) ELSE First(remove)
                         /\ upc = "replaced" => mappings[p] # NoResource
  <2>1. CASE NotifyUpdated
    <3>1. First(addOrReplace) \in addOrReplace /\ First(addOrReplace) \in Paths
        BY <2>1, MadeIsInstance DEF NotifyUpdated, IInv, AtEach
    <3>2. mappings[First(addOrReplace)].json # NoJson
        BY <2>1, <3>1 DEF NotifyUpdated, IInv, AtEach, Progress, Present
    <3> QED
        BY <2>1, <3>1, <3>2 DEF NotifyUpdated, NoResource
  <2>2. CASE NotifyRemoved
      BY <2>2, FirstIn DEF NotifyRemoved, IInv, TypeOK
  <2> QED
      BY <2>1, <2>2
<1>2. PICK e \in Events :
           e = [event |-> IF upc = "replaced" THEN "resource-updated" ELSE "resource-removed",
                path |-> p]
  <2>1. [event |-> IF upc = "replaced" THEN "resource-updated" ELSE "resource-removed",
         path |-> p] \in Events
      BY DEF Events
  <2> QED
      BY <2>1
<1>3. \A c \in Clients : inbox'[c] = IF c \in subscribed THEN Append(inbox[c], e) ELSE inbox[c]
    BY <1>1, <1>2 DEF NotifyUpdated, NotifyRemoved, Notify
<1>4. /\ UNCHANGED <<mappings, accepted, subscribed, mirror, stale, request>>
      /\ exposed' = exposed \cup accepted
    BY DEF NotifyUpdated, NotifyRemoved, Notify
<1>5. /\ upc \notin {"announced", "erasing"}
      /\ upc = "replaced" => p = First(addOrReplace) /\ upc' = "adding"
      /\ upc # "replaced" => upc' = "announced" /\ p = First(remove)'
    BY <1>1 DEF NotifyUpdated, NotifyRemoved, First
<1>6. \A c \in Clients \ Followers' : Stranger(c)'
    BY <1>3, <1>4 DEF FollowInv, Stranger, Followers
<1>7. ASSUME NEW c \in Followers' \ exposed', NEW q \in Paths
      PROVE  Follows(c, q)'
  <2>1. c \in subscribed /\ Follows(c, q) /\ c \in Clients /\ inbox[c] \in Seq(Events)
      BY <1>4 DEF FollowInv, IInv, TypeOK, Followers
  <2>2. /\ About(inbox[c], q)' = About(Append(inbox[c], e), q)
        /\ RemovedLast(inbox[c], q)' <=> RemovedLast(Append(inbox[c], e), q)
      BY <1>3, <2>1 DEF About, RemovedLast
  <2>3. CASE q = p
    <3>1. /\ About(Append(inbox[c], e), p) # {}
          /\ upc # "replaced" => RemovedLast(Append(inbox[c], e), p)
        BY <1>1, <1>2, <2>1, AppendAbout
    <3>2. upc = "replaced" => ~Leaving(p)'
        BY <1>1, <1>4, <1>5 DEF Leaving
    <3> QED
        BY <2>2, <2>3, <3>1, <3>2 DEF Follows, Gone, Current
  <2>4. CASE q # p
    <3>1. /\ About(Append(inbox[c], e), q) = About(inbox[c], q)
          /\ RemovedLast(inbox[c], q) => RemovedLast(Append(inbox[c], e), q)
        BY <1>2, <2>1, <2>4, AppendAbout
    <3>2. Leaving(q)' <=> Leaving(q)
        BY <1>4, <1>5, <2>4 DEF Leaving
    <3>3. Gone(c, q) => Gone(c, q)'
        BY <1>4, <2>2, <3>1 DEF Gone
    <3>4. Current(c, q) => Current(c, q)'
        BY <1>4, <1>5, <2>2, <2>4, <3>1 DEF Current
    <3> QED
        BY <2>1, <3>2, <3>3, <3>4 DEF Follows
  <2> QED
      BY <2>3, <2>4
<1> QED
    BY <1>4, <1>6, <1>7 DEF FollowInv

\* A step of one client changes nothing for the others.
LEMMA OneClient ==
    ASSUME IInv, FollowInv, NEW c \in Clients, UNCHANGED updater,
           \A d \in Clients \ {c} : /\ inbox'[d] = inbox[d] /\ stale'[d] = stale[d]
                                    /\ request'[d] = request[d] /\ mirror'[d] = mirror[d],
           Followers' = Followers \cup {c}, exposed \subseteq exposed',
           c \notin exposed' => \A p \in Paths : Follows(c, p)'
    PROVE  FollowInv'
<1>1. \A d \in Clients \ Followers' : Stranger(d)'
    BY DEF FollowInv, Stranger
<1>2. ASSUME NEW d \in Followers' \ exposed', d # c, d \in Clients, NEW p \in Paths
      PROVE  Follows(d, p)'
  <2>1. /\ inbox'[d] = inbox[d] /\ stale'[d] = stale[d]
        /\ request'[d] = request[d] /\ mirror'[d] = mirror[d]
        /\ d \in Followers \ exposed
      BY <1>2
  <2>2. Follows(d, p)
      BY <2>1 DEF FollowInv
  <2>3. Leaving(p)' <=> Leaving(p)
      BY DEF Leaving, updater
  <2>4. Gone(d, p)' <=> Gone(d, p)
      BY <2>1 DEF Gone, About, RemovedLast
  <2>5. Current(d, p)' <=> Current(d, p)
      BY <2>1 DEF Current, About, updater
  <2> QED
      BY <2>2, <2>3, <2>4, <2>5 DEF Follows
<1>3. Followers' \subseteq Clients /\ c \in Followers'
    BY DEF IInv, TypeOK, Followers
<1> QED
    BY <1>1, <1>2, <1>3 DEF FollowInv

\* A client that gets its header when nothing is on its way out will fetch all
\* there is.
LEMMA AcceptStep ==
    ASSUME IInv, FollowInv, NEW c \in Clients, Accept(c)
    PROVE  FollowInv'
<1>1. /\ inbox[c] = <<>> /\ request[c] = Idle /\ \A p \in Paths : mirror[c][p] = NoJson
    BY DEF FollowInv, Stranger, Accept, Followers
<1>2. /\ UNCHANGED <<updater, inbox, mirror, request>> /\ Followers' = Followers \cup {c}
      /\ stale' = [stale EXCEPT ![c] = {p \in Paths : mappings[p] # NoResource}]
      /\ exposed \subseteq exposed' /\ exposed' \subseteq exposed \cup {c}
      /\ c \notin exposed' => upc \notin {"announced", "erasing"}
    BY DEF Accept, Followers
<1>3. \A d \in Clients \ {c} : /\ inbox'[d] = inbox[d] /\ stale'[d] = stale[d]
                               /\ request'[d] = request[d] /\ mirror'[d] = mirror[d]
    BY <1>2 DEF IInv, TypeOK
<1>4. stale'[c] = {p \in Paths : mappings[p] # NoResource}
    BY <1>2 DEF IInv, TypeOK
<1>5. ASSUME c \notin exposed', NEW p \in Paths
      PROVE  Follows(c, p)'
  <2>1. Leaving(p)' <=> mappings[p] = NoResource
      BY <1>2, <1>5 DEF Leaving, updater
  <2>2. About(inbox[c], p)' = {}
      BY <1>1, <1>2 DEF About
  <2>3. request'[c].path # p
      BY <1>1, <1>2, ResourcesAssumption DEF Idle
  <2> QED
      BY <1>1, <1>2, <1>4, <2>1, <2>2, <2>3 DEF Follows, Gone, Current, updater
<1> QED
    BY <1>2, <1>3, <1>5, OneClient

\* Registering changes nothing in what the client knows.
LEMMA RegisterStep ==
    ASSUME IInv, FollowInv, NEW c \in Clients, Register(c)
    PROVE  FollowInv'
<1>1. UNCHANGED <<updater, inbox, mirror, stale, request, exposed>> /\ Followers' = Followers
    BY DEF Register, Followers
<1>2. c \in Followers
    BY DEF Register, Followers
<1>3. ASSUME c \notin exposed', NEW p \in Paths
      PROVE  Follows(c, p)'
  <2>1. Follows(c, p)
      BY <1>1, <1>2, <1>3 DEF FollowInv
  <2> QED
      BY <1>1, <2>1 DEF Follows, Leaving, Gone, Current, About, RemovedLast, updater
<1> QED
    BY <1>1, <1>2, <1>3, OneClient

\* A request leaves what is stale with the resource that is published, or for a
\* path whose removal the client is yet to read of.
LEMMA LookupStep ==
    ASSUME IInv, FollowInv, NEW c \in Clients, NEW p \in Paths, Lookup(c, p)
    PROVE  FollowInv'
<1>1. /\ request[c] = Idle /\ p \in stale[c] /\ c \in Followers
    BY DEF FollowInv, Stranger, Lookup
<1>2. PICK h \in Found(p) : request' = [request EXCEPT ![c] = [path |-> p, handler |-> h]]
    BY DEF Lookup
<1>3. /\ UNCHANGED <<updater, accepted, subscribed, inbox, mirror>>
      /\ stale' = [stale EXCEPT ![c] = @ \ {p}]
      /\ exposed' = IF upc \in {"inserting", "erasing"} THEN exposed \cup {c} ELSE exposed
    BY DEF Lookup
<1>4. \A d \in Clients \ {c} : stale'[d] = stale[d] /\ request'[d] = request[d]
    BY <1>2, <1>3 DEF IInv, TypeOK
<1>5. /\ stale'[c] = stale[c] \ {p} /\ request'[c] = [path |-> p, handler |-> h]
    BY <1>2, <1>3 DEF IInv, TypeOK
<1>6. ASSUME c \notin exposed', NEW q \in Paths
      PROVE  Follows(c, q)'
  <2>1. c \notin exposed /\ upc \notin {"inserting", "erasing"}
      BY <1>3, <1>6
  <2>2. Follows(c, q)
      BY <1>1, <2>1 DEF FollowInv
  <2>3. Leaving(q)' <=> Leaving(q)
      BY <1>3 DEF Leaving, updater
  <2>4. /\ About(inbox[c], q)' = About(inbox[c], q)
        /\ RemovedLast(inbox[c], q)' <=> RemovedLast(inbox[c], q)
      BY <1>3 DEF About, RemovedLast
  <2>5. CASE q # p
    <3>1. (q \in stale'[c] <=> q \in stale[c]) /\ request[c].path # q /\ request'[c].path # q
        BY <1>1, <1>5, <2>5, ResourcesAssumption DEF Idle
    <3> QED
        BY <1>3, <2>2, <2>3, <2>4, <3>1 DEF Follows, Gone, Current, updater
  <2>6. CASE q = p /\ Leaving(p)
      BY <1>1, <2>2, <2>3, <2>4, <2>6 DEF Follows, Gone
  <2>7. CASE q = p /\ ~Leaving(p)
    <3>1. h = mappings[p]
        BY <1>2, <2>1, <2>7 DEF Found, Leaving
    <3> QED
        BY <1>3, <1>5, <2>3, <2>7, <3>1 DEF Follows, Current, updater
  <2> QED
      BY <2>5, <2>6, <2>7
<1>7. Followers' = Followers \cup {c} /\ exposed \subseteq exposed'
    BY <1>1, <1>3 DEF Followers
<1> QED
    BY <1>3, <1>4, <1>6, <1>7, OneClient

\* An answer is what is published, or is about a path that there is news of.
LEMMA RespondStep ==
    ASSUME IInv, FollowInv, NEW c \in Clients, Respond(c)
    PROVE  FollowInv'
<1> DEFINE r == request[c]
<1>1. /\ r # Idle /\ c \in Followers /\ r.path \in Paths \cup {0}
    BY DEF FollowInv, Stranger, Respond, IInv, TypeOK
<1>2. /\ UNCHANGED <<updater, accepted, subscribed, inbox, stale, exposed>>
      /\ request' = [request EXCEPT ![c] = Idle]
      /\ mirror' = [mirror EXCEPT ![c][r.path] = r.handler.json]
    BY DEF Respond
<1>3. \A d \in Clients \ {c} : mirror'[d] = mirror[d] /\ request'[d] = request[d]
    BY <1>2 DEF IInv, TypeOK
<1>4. request'[c] = Idle /\ mirror'[c] = [mirror[c] EXCEPT ![r.path] = r.handler.json]
    BY <1>2 DEF IInv, TypeOK
<1>5. ASSUME c \notin exposed', NEW q \in Paths
      PROVE  Follows(c, q)'
  <2>1. Follows(c, q)
      BY <1>1, <1>2, <1>5 DEF FollowInv
  <2>2. Leaving(q)' <=> Leaving(q)
      BY <1>2 DEF Leaving, updater
  <2>3. /\ About(inbox[c], q)' = About(inbox[c], q)
        /\ RemovedLast(inbox[c], q)' <=> RemovedLast(inbox[c], q)
      BY <1>2 DEF About, RemovedLast
  <2>4. request'[c].path # q
      BY <1>4, ResourcesAssumption DEF Idle
  <2>5. CASE q # r.path
    <3>1. mirror'[c][q] = mirror[c][q]
        BY <1>4, <2>5 DEF IInv, TypeOK
    <3> QED
        BY <1>2, <2>1, <2>2, <2>3, <2>4, <2>5, <3>1 DEF Follows, Gone, Current, updater
  <2>6. CASE q = r.path
    <3>1. mirror'[c][q] = r.handler.json
        BY <1>4, <2>6 DEF IInv, TypeOK
    <3>2. Leaving(q) => Follows(c, q)'
        BY <2>1, <2>2, <2>3, <2>6 DEF Follows, Gone
    <3>3. ~Leaving(q) => Current(c, q)'
        BY <1>2, <2>1, <2>3, <2>4, <2>6, <3>1 DEF Follows, Current, updater
    <3> QED
        BY <2>2, <3>2, <3>3 DEF Follows
  <2> QED
      BY <2>5, <2>6
<1>6. Followers' = Followers \cup {c}
    BY <1>1, <1>2 DEF Followers
<1> QED
    BY <1>2, <1>3, <1>5, <1>6, OneClient

\* What a notification takes out of the stream, the client knows.
LEMMA ReceiveStep ==
    ASSUME IInv, FollowInv, NEW c \in Clients, Receive(c)
    PROVE  FollowInv'
<1> DEFINE e == Head(inbox[c])
<1>1. /\ request[c] = Idle /\ inbox[c] # <<>> /\ inbox[c] \in Seq(Events) /\ c \in Followers
    BY DEF FollowInv, Stranger, Receive, IInv, TypeOK
<1>2. /\ UNCHANGED <<updater, accepted, subscribed, request, exposed>>
      /\ inbox' = [inbox EXCEPT ![c] = Tail(@)]
    BY DEF Receive
<1>3. e \in Events /\ e.path \in Paths
  <2>1. e \in Events
      BY <1>1, HeadTailProperties
  <2> QED
      BY <2>1 DEF Events
<1>4. inbox'[c] = Tail(inbox[c]) /\ \A d \in Clients \ {c} : inbox'[d] = inbox[d]
    BY <1>2 DEF IInv, TypeOK
<1>5. /\ \A d \in Clients \ {c} : stale'[d] = stale[d] /\ mirror'[d] = mirror[d]
      /\ IF e.event = "resource-updated"
         THEN stale'[c] = stale[c] \cup {e.path} /\ mirror'[c] = mirror[c]
         ELSE /\ stale'[c] = stale[c] \ {e.path}
              /\ mirror'[c] = [mirror[c] EXCEPT ![e.path] = NoJson]
  <2>1. CASE e.event = "resource-updated"
    <3>1. stale' = [stale EXCEPT ![c] = @ \cup {e.path}] /\ UNCHANGED mirror
        BY <2>1 DEF Receive
    <3> QED
        BY <2>1, <3>1 DEF IInv, TypeOK
  <2>2. CASE e.event # "resource-updated"
    <3>1. /\ stale' = [stale EXCEPT ![c] = @ \ {e.path}]
          /\ mirror' = [mirror EXCEPT ![c] = [mirror[c] EXCEPT ![e.path] = NoJson]]
        BY <2>2 DEF Receive
    <3> QED
        BY <2>2, <3>1 DEF IInv, TypeOK
  <2> QED
      BY <2>1, <2>2
<1>6. ASSUME c \notin exposed', NEW q \in Paths
      PROVE  Follows(c, q)'
  <2>1. Follows(c, q)
      BY <1>1, <1>2, <1>6 DEF FollowInv
  <2>2. Leaving(q)' <=> Leaving(q)
      BY <1>2 DEF Leaving, updater
  <2>3. /\ About(inbox[c], q)' = About(Tail(inbox[c]), q)
        /\ RemovedLast(inbox[c], q)' <=> RemovedLast(Tail(inbox[c]), q)
      BY <1>4 DEF About, RemovedLast
  <2>4. request'[c].path # q /\ request[c].path # q
      BY <1>1, <1>2, ResourcesAssumption DEF Idle
  <2>5. CASE q # e.path
    <3>1. (q \in stale'[c] <=> q \in stale[c]) /\ mirror'[c][q] = mirror[c][q]
        BY <1>3, <1>5, <2>5 DEF IInv, TypeOK
    <3>2. /\ About(inbox[c], q) = {} => About(Tail(inbox[c]), q) = {}
          /\ About(inbox[c], q) # {} => About(Tail(inbox[c]), q) # {}
          /\ RemovedLast(inbox[c], q) => RemovedLast(Tail(inbox[c]), q)
        BY <1>1, <2>5, TailAbout
    <3>3. Gone(c, q) => Gone(c, q)'
        BY <2>3, <2>4, <3>1, <3>2 DEF Gone
    <3>4. Current(c, q) => Current(c, q)'
        BY <1>2, <2>3, <2>4, <3>1, <3>2 DEF Current, updater
    <3> QED
        BY <2>1, <2>2, <3>3, <3>4 DEF Follows
  <2>6. CASE q = e.path
    <3>1. About(inbox[c], q) # {}
        BY <1>1, <2>6, TailAbout
    <3>2. IF e.event = "resource-updated" THEN q \in stale'[c]
                                        ELSE q \notin stale'[c] /\ mirror'[c][q] = NoJson
        BY <1>3, <1>5, <2>6 DEF IInv, TypeOK
    <3>3. RemovedLast(inbox[c], q) => \/ RemovedLast(Tail(inbox[c]), q)
                                      \/ /\ e.event = "resource-removed"
                                         /\ About(Tail(inbox[c]), q) = {}
        BY <1>1, TailAbout
    <3>4. Gone(c, q) => Gone(c, q)'
        BY <2>3, <2>4, <3>1, <3>2, <3>3 DEF Gone
    <3>5. Current(c, q)'
        BY <2>3, <2>4, <3>2 DEF Current
    <3> QED
        BY <2>1, <2>2, <3>4, <3>5 DEF Follows
  <2> QED
      BY <2>5, <2>6
<1>7. Followers' = Followers \cup {c} /\ exposed \subseteq exposed' /\ UNCHANGED <<updater, request>>
    BY <1>1, <1>2 DEF Followers
<1> QED
    BY <1>4, <1>5, <1>6, <1>7, OneClient

\* FollowInv is inductive, relative to IInv.
LEMMA FollowStep ==
    ASSUME IInv, FollowInv, [Next]_vars
    PROVE  FollowInv'
<1>1. CASE Update
    BY <1>1, SilentSteps, NotifyingSteps DEF Update
<1>2. ASSUME NEW c \in Clients, Client(c)
      PROVE  FollowInv'
    BY <1>2, AcceptStep, RegisterStep, LookupStep, RespondStep, ReceiveStep DEF Client
<1>3. CASE UNCHANGED vars
  <2>1. UNCHANGED <<updater, clients>>
      BY <1>3 DEF vars
  <2> QED
      BY <2>1, SilentUpdate DEF Leaving, updater
<1> QED
    BY <1>1, <1>2, <1>3 DEF Next

\* A client that follows the stream, whose requests met no half-done update and
\* that no announcement passed by while it was being registered, has in the end what is published of all that it knows, for any number of
\* clients and updates.
THEOREM SubscribersCorrect == Spec => []SubscribersConverge
<1>1. Init => FollowInv
    BY DEF Init, FollowInv, Stranger, Followers
<1>2. IInv /\ FollowInv /\ [Next]_vars => FollowInv'
    BY FollowStep
<1>3. IInv /\ FollowInv => SubscribersConverge
  <2> SUFFICES ASSUME IInv, FollowInv, NEW c \in subscribed \ exposed,
                      upc = "idle", inbox[c] = <<>>, stale[c] = {}, request[c] = Idle,
                      NEW p \in Paths
               PROVE  mirror[c][p] \in {NoJson, mappings[p].json}
      BY DEF SubscribersConverge
  <2>1. Follows(c, p) /\ request[c].path # p /\ About(inbox[c], p) = {}
      BY ResourcesAssumption DEF FollowInv, Idle, About, Followers
  <2>2. ~RemovedLast(inbox[c], p)
      BY <2>1 DEF RemovedLast
  <2> QED
      BY <2>1, <2>2 DEF Follows, Gone, Current
<1> QED
    BY <1>1, <1>2, <1>3, Invariance, PTL DEF Spec
=============================================================================
