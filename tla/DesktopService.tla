--------------------------- MODULE DesktopService ---------------------------
(***************************************************************************)
(* desktop-service: the inotify loop that collects and publishes            *)
(* applications and mime types again when files change                      *)
(* (desktopservice.cpp, applicationcollector.cpp), and the requests that    *)
(* change the default applications in the user's mimeapps.list              *)
(* (MimetypeResource::doPATCH, mimeappslistreader.cpp), while anybody else  *)
(* installs, edits and removes files.                                       *)
(*                                                                          *)
(* A directory or a file is read in one step; the collection of all files,  *)
(* the reading, truncation and writing of mimeapps.list by a worker, and    *)
(* each read of the inotify descriptor are steps of their own.  Nobody      *)
(* catches what the collection throws.  The body of a PATCH is one that is  *)
(* accepted.  Removed Associations are left out: the collector looks for an *)
(* application's own name among its mime types, and finds none.             *)
(***************************************************************************)
EXTENDS Naturals, Sequences, FiniteSets

CONSTANTS Apps, Types,
          Known,       \* the types in freedesktop.org.xml
          Sources,     \* what collect() reads, in its order: directories and mimeapps.lists
          Late,        \* the directories that are not there yet when the watches are set
          AppChanges,  \* what others may do to a .desktop file: directory, application, content
          ListChanges, \* and to a mimeapps.list: file, content
          Patches,     \* the default applications of a PATCH
          Exact,       \* remainingPath, for the resource of a mime type: the empty string
          Workers,
          MaxChanges,  \* bound: PATCH requests and changes of files by others
          MaxBatch     \* the events that fit in buf

NoList == [defaults |-> [t \in Types |-> <<>>], added |-> [t \in Types |-> {}], wellformed |-> TRUE]
Malformed == [NoList EXCEPT !.wellformed = FALSE]
AppDirs == {s \in DOMAIN Sources : Sources[s] = "applications"}
ListFiles == DOMAIN Sources \ AppDirs
User == Len(Sources)    \* xdg::config_home() + "/mimeapps.list", read last

NoFile == {"no file"}
Partial == {"half written"}    \* a .desktop file without its first heading
Contents == (SUBSET Types) \cup {NoFile, Partial}

\* The watched directories, and a mimeapps.list.
Watched == AppDirs \ Late
List == [defaults : [Types -> Seq(Apps)], added : [Types -> SUBSET Apps], wellformed : BOOLEAN]

ASSUME DesktopServiceAssumption ==
    /\ Known \subseteq Types /\ "no file" \notin Types /\ Exact \in Types \ Known
    /\ Sources \in Seq({"applications", "mimeapps.list"})
    /\ Len(Sources) > 0 /\ User \in ListFiles /\ Late \subseteq AppDirs
    /\ AppChanges \subseteq [dir : AppDirs, app : Apps, content : Contents]
    /\ \A c \in ListChanges : c.file \in ListFiles /\ c.content \in List
    /\ Patches \subseteq Seq(Apps)
    /\ MaxChanges \in Nat /\ MaxBatch \in Nat \ {0}

VARIABLES
    apps,       \* directory -> application -> what its .desktop file declares
    lists,      \* the mimeapps.list files
    dirs,       \* the directories there are
    changes,    \* how many there have been
    events,     \* what inotify has to report
    pc,         \* of the loop: "collect", "poll", "read", "settle"; "dead": it threw
    somethingChanged,
    next,       \* the next source to collect
    collected,  \* collectedApplications: application -> mime types
    defaults,   \* defaultApplications
    published,  \* what updateCollection has got last, when it has returned
    missed,     \* history: an event that mattered was read behind another one, or there was none
    wpc,        \* of a worker in doPATCH
    patch,      \* the PATCH of a worker
    list,       \* mimeappsList of a worker
    serial,     \* history: the user's list, if who writes it had done so one after the other
    alone       \* history: nobody has written since a worker read the list

files == <<apps, lists, dirs>>
collector == <<next, collected, defaults>>
loop == <<pc, somethingChanged, collector, published, missed>>
workers == <<wpc, patch, list, serial, alone>>
vars == <<files, changes, events, loop, workers>>

NoApps == [a \in Apps |-> NoFile]
NoDefaults == [t \in Types |-> <<>>]
Nothing == [apps |-> NoApps, types |-> [t \in Known |-> [associated |-> {}, defaults |-> <<>>]]]
Events == {"matters", "other"}

TypeOK ==
    /\ apps \in [AppDirs -> [Apps -> Contents]]
    /\ lists \in [ListFiles -> List]
    /\ dirs \subseteq AppDirs
    /\ changes \in 0 .. MaxChanges
    /\ events \in Seq(Events)
    /\ pc \in {"collect", "poll", "read", "settle", "dead"}
    /\ somethingChanged \in BOOLEAN /\ missed \in BOOLEAN
    /\ next \in 1 .. Len(Sources) + 1
    /\ collected \in [Apps -> (SUBSET Types) \cup {NoFile}]
    /\ defaults \in [Types -> Seq(Apps)]
    /\ published.apps \in [Apps -> (SUBSET Types) \cup {NoFile}]
    /\ published.types \in [Known -> [associated : SUBSET Apps, defaults : Seq(Apps)]]
    /\ wpc \in [Workers -> {"idle", "read", "truncate", "write"}]
    /\ patch \in [Workers -> Seq(Apps)]
    /\ list \in [Workers -> List]
    /\ serial \in List
    /\ alone \in [Workers -> BOOLEAN]

\* The watches are set; the first collection is about to begin.
Init ==
    /\ apps = [d \in AppDirs |-> NoApps]
    /\ lists = [f \in ListFiles |-> NoList]
    /\ dirs = Watched
    /\ changes = 0 /\ events = <<>>
    /\ pc = "collect" /\ somethingChanged = FALSE
    /\ next = 1 /\ collected = NoApps /\ defaults = NoDefaults
    /\ published = Nothing /\ missed = FALSE
    /\ wpc = [w \in Workers |-> "idle"]
    /\ patch = [w \in Workers |-> <<>>]
    /\ list = [w \in Workers |-> NoList]
    /\ serial = NoList /\ alone = [w \in Workers |-> TRUE]

Notify(e) == events' = Append(events, e)

-----------------------------------------------------------------------------
\* Others: a file manager, a package manager, an editor.

Alive == pc # "dead"    \* else an exception has left main
Change == Alive /\ changes < MaxChanges /\ changes' = changes + 1

\* A .desktop file is created, written or removed; it may be written in parts.  A
\* directory that was not there at the start has no watch.
ChangeApp(c) ==
    /\ Change
    /\ c.dir \in dirs
    /\ apps' = [apps EXCEPT ![c.dir][c.app] = c.content]
    /\ IF c.dir \in Watched THEN Notify("matters") ELSE UNCHANGED events
    /\ missed' = (missed \/ c.dir \notin Watched)
    /\ UNCHANGED <<lists, dirs, pc, somethingChanged, collector, published, workers>>

\* A directory is created, in one that is watched.
CreateDirectory(d) ==
    /\ Change
    /\ d \in AppDirs \ dirs
    /\ dirs' = dirs \cup {d}
    /\ Notify("matters")
    /\ UNCHANGED <<apps, lists, loop, workers>>

\* Another writer of a mimeapps.list: a PATCH it meets is no longer alone.
ChangeList(c) ==
    /\ Change
    /\ lists' = [lists EXCEPT ![c.file] = c.content]
    /\ alone' = IF c.file = User THEN [w \in Workers |-> FALSE] ELSE alone
    /\ serial' = IF c.file = User THEN c.content ELSE serial
    /\ Notify("matters")
    /\ UNCHANGED <<apps, dirs, loop, wpc, patch, list>>

\* A file of another name, in a watched directory.
ChangeOther ==
    /\ Change
    /\ Notify("other")
    /\ UNCHANGED <<files, loop, workers>>

-----------------------------------------------------------------------------
\* MimetypeResource::doPATCH

Begin(w, p) ==
    /\ wpc[w] = "idle" /\ Change
    /\ patch' = [patch EXCEPT ![w] = p]
    /\ wpc' = [wpc EXCEPT ![w] = "read"]
    /\ UNCHANGED <<files, events, loop, list, serial, alone>>

Writing(w) == wpc[w] \in {"truncate", "write"}

\* The list l with the defaults a PATCH sets: those of remainingPath, whatever the
\* mime type of the resource is.
Patched(l, p) == [l EXCEPT !.defaults[Exact] = p]

\* MimeappsList mimeappsList(...), and the new defaults in it; 500 if it is malformed.
ReadList(w) ==
    /\ wpc[w] = "read" /\ Alive
    /\ \/ /\ lists[User].wellformed
          /\ list' = [list EXCEPT ![w] = Patched(lists[User], patch[w])]
          /\ alone' = [v \in Workers |-> IF v = w THEN \A u \in Workers \ {w} : ~Writing(u) ELSE alone[v] /\ ~Writing(v)]
          /\ wpc' = [wpc EXCEPT ![w] = "truncate"]
       \/ /\ ~lists[User].wellformed
          /\ wpc' = [wpc EXCEPT ![w] = "idle"]
          /\ UNCHANGED <<list, alone>>
    /\ UNCHANGED <<files, changes, events, loop, patch, serial>>

\* write: opening the stream truncates the file.
Truncate(w) ==
    /\ wpc[w] = "truncate" /\ Alive
    /\ lists' = [lists EXCEPT ![User] = NoList]
    /\ Notify("matters")
    /\ wpc' = [wpc EXCEPT ![w] = "write"]
    /\ UNCHANGED <<apps, dirs, changes, loop, patch, list, serial, alone>>

\* A long list gets there in parts; the first one ends in the middle of a line.
WritePart(w) ==
    /\ wpc[w] = "write" /\ Alive
    /\ lists[User] # Malformed
    /\ lists' = [lists EXCEPT ![User] = Malformed]
    /\ Notify("matters")
    /\ UNCHANGED <<apps, dirs, changes, loop, workers>>

\* The stream is closed.  If somebody has written a longer list since, the end of
\* that stays behind this one.  Then 204.
EndWrite(w, l) ==
    /\ wpc[w] = "write" /\ Alive
    /\ lists' = [lists EXCEPT ![User] = l]
    /\ Notify("matters")
    /\ serial' = IF alone[w] THEN Patched(serial, patch[w]) ELSE l
    /\ wpc' = [wpc EXCEPT ![w] = "idle"]
    /\ UNCHANGED <<apps, dirs, changes, loop, patch, list, alone>>

WriteDefaultOnly(w) == EndWrite(w, Patched(NoList, patch[w]))

Write(w) ==
    \/ EndWrite(w, list[w])
    \/ lists[User] \notin {NoList, Malformed} /\ EndWrite(w, Malformed)

-----------------------------------------------------------------------------
\* ApplicationCollector::collect, a source at a time

\* The elements of s that are not in S: the k-th of them has k - 1 of them before it.
Without(s, S) ==
    LET rest == {i \in DOMAIN s : s[i] \notin S}
    IN  [k \in 1 .. Cardinality(rest) |-> s[CHOOSE i \in rest : Cardinality({j \in rest : j < i}) = k - 1]]
Elements(s) == {s[i] : i \in DOMAIN s}

\* readDesktopFiles: a later directory overrides an earlier one.  DesktopEntryReader
\* throws on a file that does not start with its heading.
ReadDesktopFiles ==
    /\ pc = "collect" /\ next \in AppDirs
    /\ \/ /\ \E a \in Apps : apps[next][a] = Partial
          /\ pc' = "dead"
          /\ UNCHANGED <<next, collected>>
       \/ /\ \A a \in Apps : apps[next][a] # Partial
          /\ collected' = [a \in Apps |-> IF apps[next][a] = NoFile THEN collected[a] ELSE apps[next][a]]
          /\ next' = next + 1
          /\ UNCHANGED pc
    /\ UNCHANGED <<files, changes, events, somethingChanged, defaults, published, missed, workers>>

\* It throws, too, when a file is gone that was there when the directory was listed.
FileVanishes(c) ==
    /\ pc = "collect" /\ c.dir = next /\ Change
    /\ apps[next][c.app] # NoFile /\ c.content = NoFile
    /\ apps' = [apps EXCEPT ![next][c.app] = NoFile]
    /\ pc' = "dead"
    /\ UNCHANGED <<lists, dirs, events, somethingChanged, collector, published, missed, workers>>

DefaultsAppended(l) == [t \in Types |-> Without(defaults[t], Elements(l.defaults[t])) \o l.defaults[t]]

\* The defaults of a list, before those of the lists read earlier.
DefaultsOf(l) == [t \in Types |-> l.defaults[t] \o Without(defaults[t], Elements(l.defaults[t]))]

\* readMimeappsListFile: associations are added to the applications collected so far;
\* MimeappsList throws if the list is malformed.
ReadMimeappsListFile ==
    /\ pc = "collect" /\ next \in ListFiles
    /\ \/ /\ ~lists[next].wellformed
          /\ pc' = "dead"
          /\ UNCHANGED collector
       \/ /\ lists[next].wellformed
          /\ collected' = [a \in Apps |-> IF collected[a] = NoFile THEN NoFile
                                          ELSE collected[a] \cup {t \in Types : a \in lists[next].added[t]}]
          /\ defaults' = DefaultsOf(lists[next])
          /\ next' = next + 1
          /\ UNCHANGED pc
    /\ UNCHANGED <<files, changes, events, somethingChanged, published, missed, workers>>

\* MimetypeCollector: a type that is in no file of the MIME database has no resource.
AddAssociations(applications) == [t \in Known |-> {a \in Apps : applications[a] # NoFile /\ t \in applications[a]}]
AddDefaultApplications(defaultApplications) == [t \in Known |-> defaultApplications[t]]

Collected == pc = "collect" /\ next = Len(Sources) + 1

\* The rest of collectApplicationsAndMimetypes, and back to the loop.  updateCollection
\* writes to the clients of /notify, and comes to an end when they all read;
Publish ==
    /\ Collected
    /\ published' = [apps |-> collected,
                     types |-> [t \in Known |-> [associated |-> AddAssociations(collected)[t],
                                                 defaults |-> AddDefaultApplications(defaults)[t]]]]
    /\ pc' = "poll"
    /\ UNCHANGED <<files, changes, events, somethingChanged, collector, missed, workers>>

\* when one has hung up, SIGPIPE ends the service.
NotifyDies ==
    /\ Collected
    /\ pc' = "dead"
    /\ UNCHANGED <<files, changes, events, somethingChanged, collector, published, missed, workers>>

-----------------------------------------------------------------------------
\* watchDesktopFiles

\* The poll without a timeout, with something to report.
Poll ==
    /\ pc = "poll" /\ events # <<>>
    /\ somethingChanged' = FALSE
    /\ pc' = "read"
    /\ UNCHANGED <<files, changes, events, collector, published, missed, workers>>

\* A read returns as many events as there are and fit; the code looks at the
\* first of them.
Read ==
    /\ pc = "read"
    /\ \E n \in 1 .. MaxBatch :
          /\ n <= Len(events)
          /\ events' = SubSeq(events, n + 1, Len(events))
          /\ missed' = (missed \/ \E i \in 2 .. n : events[i] = "matters")
    /\ somethingChanged' = (somethingChanged \/ Head(events) = "matters")
    /\ pc' = "settle"
    /\ UNCHANGED <<files, changes, collector, published, workers>>

\* The poll of 100 ms: more events, or none in that time.
Settle ==
    /\ pc = "settle" /\ events # <<>>
    /\ pc' = "read"
    /\ UNCHANGED <<files, changes, events, somethingChanged, collector, published, missed, workers>>

SettledIgnored ==
    /\ pc = "settle" /\ events = <<>>
    /\ pc' = "poll"
    /\ UNCHANGED <<files, changes, events, somethingChanged, collector, published, missed, workers>>

Settled ==
    /\ pc = "settle" /\ events = <<>>
    /\ \/ /\ somethingChanged
          /\ pc' = "collect"
          /\ next' = 1 /\ collected' = NoApps /\ defaults' = NoDefaults
          /\ missed' = FALSE
       \/ /\ ~somethingChanged
          /\ pc' = "poll"
          /\ UNCHANGED <<collector, missed>>
    /\ UNCHANGED <<files, changes, events, somethingChanged, published, workers>>

Loop == ReadDesktopFiles \/ ReadMimeappsListFile \/ Poll \/ Read \/ Settle \/ Settled
Work(w) == ReadList(w) \/ Truncate(w) \/ Write(w)

Next ==
    \/ \E c \in AppChanges : ChangeApp(c) \/ FileVanishes(c)
    \/ \E d \in Late : CreateDirectory(d)
    \/ \E c \in ListChanges : ChangeList(c)
    \/ ChangeOther
    \/ \E w \in Workers : Work(w) \/ WritePart(w) \/ \E p \in Patches : Begin(w, p)
    \/ Loop \/ Publish \/ NotifyDies

\* Only the clients can let a notification end, so Publish is not fair.
Spec == Init /\ [][Next]_vars /\ WF_vars(Loop) /\ \A w \in Workers : WF_vars(Work(w))

-----------------------------------------------------------------------------
\* What should be published, said of the files.

\* The last directory that has application a; 0: none.
LastDir(a) ==
    LET has == {d \in AppDirs : apps[d][a] # NoFile}
    IN  IF has = {} THEN 0 ELSE CHOOSE d \in has : \A e \in has : e <= d

\* An application has the mime types its last .desktop file declares and those the
\* lists read after it add.
MimetypesOf(a) ==
    IF LastDir(a) = 0 THEN NoFile
    ELSE apps[LastDir(a)][a] \cup {t \in Types : \E f \in ListFiles : f > LastDir(a) /\ a \in lists[f].added[t]}

\* a is a default of type t before b, in the last list that names one of them
\* or, in a list that names both, by their order.
Before(t, a, b) ==
    \E f \in ListFiles :
        LET s == lists[f].defaults[t]
        IN  \E i \in DOMAIN s :
               /\ s[i] = a
               /\ \A j \in 1 .. i : s[j] # b
               /\ \A g \in ListFiles : g > f => {a, b} \cap Elements(lists[g].defaults[t]) = {}

Once(s) == \A i, j \in DOMAIN s : s[i] = s[j] => i = j

\* s has the defaults of type t, each of them in front of those it is before, and
\* none twice but one that a list has twice.
InOrder(s, t) ==
    /\ Elements(s) = UNION {Elements(lists[f].defaults[t]) : f \in ListFiles}
    /\ \A i, j \in DOMAIN s : i < j /\ (\A k \in 1 .. j - 1 : s[k] # s[j]) => Before(t, s[i], s[j])
    /\ (\A f \in ListFiles : Once(lists[f].defaults[t])) => Once(s)

UpToDate ==
    /\ \A a \in Apps : published.apps[a] = MimetypesOf(a)
    /\ \A t \in Known : /\ InOrder(published.types[t].defaults, t)
                        /\ published.types[t].associated = {a \in Apps : MimetypesOf(a) # NoFile /\ t \in MimetypesOf(a)}

\* watchDesktopFiles: when the loop has nothing to do, what is published is what
\* the files say, by the precedence of directories and lists, unless an event
\* was read behind another one, or a file has changed in a directory that was
\* created after the start; so changes during a collection are not lost.
IdleMeansUpToDate == pc = "poll" /\ events = <<>> => UpToDate \/ missed

\* When files stop changing, what is published catches up with them, if the clients of
\* /notify read what they are sent (else updateCollection waits for ever) and nothing
\* ends the service: a file that breaks the rules or is gone, a client that hangs up.
ClientsRead == []<>~Collected
CatchesUp == ClientsRead => <>[](UpToDate \/ missed \/ pc = "dead")

\* doPATCH: PATCHes and other writers that do not overlap leave the list they would one
\* after the other.  A PATCH takes nothing away: the associations stay, and the defaults
\* of every mime type, its own included, which it does not set either (Patched).
PatchesAreSerial ==
    (\A w \in Workers : wpc[w] # "write") => lists[User] = serial

=============================================================================
