---------------------------- MODULE JsonResource ----------------------------
(***************************************************************************)
(* lib/impl/jsonresource.cpp: workers answer GETs of one resource from a    *)
(* cache of its texts, one for each list of accepted locales, and fill the  *)
(* cache when a text is missing.                                            *)
(*                                                                          *)
(* The cache is a Map (SortedMap): while an entry is inserted the others    *)
(* are moved, so a worker that looks for an entry or sends one sees a torn  *)
(* text if another worker inserts.  setJson is called only before a         *)
(* resource is published; a resource that changes is replaced by another    *)
(* one (Resources).                                                         *)
(***************************************************************************)
EXTENDS Naturals, FiniteSets

CONSTANTS Workers,
          Locales    \* lists of locales that clients accept, one for each signature

\* buildContent: a text of the resource's JSON depends on the locales only.
Content(l) == [text |-> l]
Torn == [text |-> "torn"]
NoReply == [text |-> "none"]
Missing == [text |-> "missing"]

ASSUME JsonResourceAssumption == Locales \cap {"torn", "none", "missing"} = {}

VARIABLES
    getPc,           \* place of a worker in doGET; "idle": not in it
    accepted,        \* locales of its request
    readLocks,       \* workers that hold mutex shared
    writeLocks,      \* workers that hold it exclusively
    localizedCache,  \* locales -> text
    reply            \* what the worker sends, or has sent last

cacheVars == <<getPc, accepted, readLocks, writeLocks, localizedCache, reply>>

Places == {"idle", "readLock", "find", "send", "unlock", "writeLock", "insert", "inserting", "sendBuilt"}

CacheTypeOK ==
    /\ getPc \in [Workers -> Places]
    /\ accepted \in [Workers -> Locales]
    /\ readLocks \subseteq Workers /\ writeLocks \subseteq Workers
    /\ localizedCache \in [Locales -> {Content(l) : l \in Locales} \cup {Missing, Torn}]
    /\ reply \in [Workers -> {Content(l) : l \in Locales} \cup {NoReply, Missing, Torn}]

CacheInit ==
    /\ getPc = [w \in Workers |-> "idle"]
    /\ accepted \in [Workers -> Locales]
    /\ readLocks = {} /\ writeLocks = {}
    /\ localizedCache = [l \in Locales |-> Missing]
    /\ reply = [w \in Workers |-> NoReply]

-----------------------------------------------------------------------------
Move(w, from, to) == getPc[w] = from /\ getPc' = [getPc EXCEPT ![w] = to]

Inserting == {w \in Workers : getPc[w] = "inserting"}
Text(w) == IF Inserting \ {w} = {} THEN localizedCache[accepted[w]] ELSE Torn

\* A GET with an Accept-Language
Get(w, l) ==
    /\ Move(w, "idle", "readLock")
    /\ accepted' = [accepted EXCEPT ![w] = l]
    /\ reply' = [reply EXCEPT ![w] = NoReply]
    /\ UNCHANGED <<readLocks, writeLocks, localizedCache>>

\* readLock(mutex)
LockShared(w) ==
    /\ Move(w, "readLock", "find")
    /\ writeLocks = {}
    /\ readLocks' = readLocks \cup {w}
    /\ UNCHANGED <<accepted, writeLocks, localizedCache, reply>>

\* getAcceptedLocales throws: 400, without the lock.
Refuse(w) ==
    /\ Move(w, "find", "idle")
    /\ readLocks' = readLocks \ {w}
    /\ UNCHANGED <<accepted, writeLocks, localizedCache, reply>>

\* localizedCache.find
Find(w) ==
    /\ \/ Text(w) # Missing /\ Move(w, "find", "send") /\ reply' = [reply EXCEPT ![w] = Text(w)]
       \/ Text(w) = Missing /\ Move(w, "find", "unlock") /\ UNCHANGED reply
    /\ UNCHANGED <<accepted, readLocks, writeLocks, localizedCache>>

\* The client has all of it, however long that took.
Sent(w) ==
    /\ Move(w, "send", "idle")
    /\ readLocks' = readLocks \ {w}
    /\ UNCHANGED <<accepted, writeLocks, localizedCache, reply>>

Unlock(w) ==
    /\ Move(w, "unlock", "writeLock")
    /\ readLocks' = readLocks \ {w}
    /\ UNCHANGED <<accepted, writeLocks, localizedCache, reply>>

\* writeLock(mutex), that looks at writers only
LockExclusiveOfWriters(w) ==
    /\ Move(w, "writeLock", "insert")
    /\ writeLocks = {}
    /\ writeLocks' = writeLocks \cup {w}
    /\ UNCHANGED <<accepted, readLocks, localizedCache, reply>>

\* writeLock(mutex): the cache is not looked at again, though another worker may have
\* filled it since.
LockExclusive(w) ==
    /\ Move(w, "writeLock", "insert")
    /\ readLocks = {} /\ writeLocks = {}
    /\ writeLocks' = writeLocks \cup {w}
    /\ UNCHANGED <<accepted, readLocks, localizedCache, reply>>

\* localizedCache[...] moves entries, also one that is being sent.
BeginInsert(w) ==
    /\ Move(w, "insert", "inserting")
    /\ localizedCache' = [localizedCache EXCEPT ![accepted[w]] = Torn]
    /\ reply' = [v \in Workers |-> IF v # w /\ getPc[v] \in {"send", "sendBuilt"} THEN Torn ELSE reply[v]]
    /\ UNCHANGED <<accepted, readLocks, writeLocks>>

EndInsert(w) ==
    /\ Move(w, "inserting", "sendBuilt")
    /\ localizedCache' = [localizedCache EXCEPT ![accepted[w]] = Content(accepted[w])]
    /\ reply' = [reply EXCEPT ![w] = IF Inserting \ {w} = {} THEN Content(accepted[w]) ELSE Torn]
    /\ UNCHANGED <<accepted, readLocks, writeLocks>>

\* The exclusive lock is held until this client has all of it.
SentBuilt(w) ==
    /\ Move(w, "sendBuilt", "idle")
    /\ writeLocks' = writeLocks \ {w}
    /\ UNCHANGED <<accepted, readLocks, localizedCache, reply>>

CacheNext ==
    \E w \in Workers :
        \/ \E l \in Locales : Get(w, l)
        \/ LockShared(w) \/ Refuse(w) \/ Find(w) \/ Sent(w) \/ Unlock(w)
        \/ LockExclusive(w) \/ BeginInsert(w) \/ EndInsert(w) \/ SentBuilt(w)

CacheSpec == CacheInit /\ [][CacheNext]_cacheVars

-----------------------------------------------------------------------------
\* doGET: each client gets the text for the locales it accepts, whole, whoever else
\* fills the cache in the meantime.
AnswersOwnLocales ==
    \A w \in Workers : reply[w] \in {NoReply, Content(accepted[w])}

=============================================================================
