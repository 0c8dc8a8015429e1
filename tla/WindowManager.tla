--------------------------- MODULE WindowManager ---------------------------
(***************************************************************************)
(* wm-service: the windows of the X server, published by the X event loop   *)
(* (controller.cpp), and their icons, kept as png files in a cache           *)
(* directory that outlives the process (runningappsicons.cpp).              *)
(*                                                                          *)
(* A round of the loop reads the list of windows, each window, and then     *)
(* writes the images of its icon that no file has, one after the other,     *)
(* before anything is published; the X server, and a worker that answers    *)
(* GET /icons/..., go on in between.  No X error handler is installed, so   *)
(* the process ends when it asks for a window that has closed.              *)
(* Geometry and _NET_WM_STATE are left out.                                 *)
(*                                                                          *)
(* What is read is _NET_CLIENT_LIST_STACKING, which the window manager sets  *)
(* at a time of its own; the ConfigureNotify the loop waits for is sent by   *)
(* the X server when a window is moved or raised.                            *)
(***************************************************************************)
EXTENDS Integers, Sequences, FiniteSets

CONSTANTS Windows,
          Looks,       \* what windows look like: bytes of the title, whether normal, icon
          WindowIcons, \* values of _NET_WM_ICON: names of Images and Hash
          Images,      \* icon -> the sizes of its images, 0 for one that is not square
          Hash,        \* icon -> its name; two icons may have the same
          Wanted,      \* numbers clients give as size
          Half,        \* 2^31: an int is at least -Half and less than Half
          Wrap,        \* 2^64: an unsigned long is less than Wrap
          MaxWindowChanges,    \* bound: changes in the X server
          MaxStarts    \* bound: starts of the service

ASSUME WindowAssumption ==
    /\ IsFiniteSet(Windows)
    /\ Looks # {} /\ Looks \subseteq [title : Nat, normal : BOOLEAN, icon : WindowIcons]
    /\ Images \in [WindowIcons -> Seq(Nat)]
    /\ Wanted \subseteq Int
    /\ Half \in Nat /\ 32 < Half /\ Wrap \in Nat /\ 2 * Half <= Wrap
    /\ \A i \in WindowIcons : \A k \in DOMAIN Images[i] : Images[i][k] < Wrap - Half
    /\ MaxWindowChanges \in Nat /\ MaxStarts \in Nat

VARIABLES
    \* the X server:
    stacking,    \* _NET_CLIENT_LIST_STACKING: its windows, the lowest first
    look,        \* of each window
    xChanges,    \* how many changes there have been
    \* the event loop:
    place,       \* where it is; "down": there is no process
    starts,      \* how many there have been
    selected,    \* XSelectInput is done
    configures,  \* ConfigureNotify events that wait
    toRead,      \* windows that normalWindows has still to read
    infos,       \* what it has read
    added,       \* how many of those have been given to addIcon
    toAdd,       \* images that addIcon has still to look at: <<name, size>>
    windows,     \* published last
    \* the icons:
    files,       \* png files: <<name, size>> -> "part" or "whole"
    iconPaths,   \* name -> sizes, in the order they came
    \* a worker:
    getPlace, asked, sentIcon,
    disturbed,   \* history: iconPaths has changed under it
    stale,       \* history: what is read has changed with no ConfigureNotify after it
    torn         \* history: files that were being written when the process ended

xServer == <<stacking, look, xChanges>>
process == <<place, starts, selected, toRead, infos, added, toAdd, windows>>
worker == <<getPlace, asked, sentIcon>>
wmVars == <<xServer, process, configures, files, iconPaths, worker, disturbed, stale, torn>>

Members(s) == {s[i] : i \in DOMAIN s}
Once(s) == \A j, k \in DOMAIN s : s[j] = s[k] => j = k
IconNames == {Hash[i] : i \in WindowIcons}
Sizes == (UNION {Members(Images[i]) : i \in WindowIcons}) \ {0}
NoLook == CHOOSE l \in Looks : TRUE     \* of a window that is closed
NoGet == [name |-> "none", size |-> 32]
NoIcon == [name |-> "none", size |-> 0]     \* a status is sent
AnyIcon == [name |-> "any", size |-> 0]
Up == place # "down"

Places == {"down", "icons", "list", "read", "add", "write", "push", "notify", "select", "next"}

Infos == [window : Windows, title : Nat, icon : WindowIcons]
Files == IconNames \X Sizes

WindowTypeOK ==
    /\ stacking \in Seq(Windows) /\ look \in [Windows -> Looks] /\ xChanges \in 0 .. MaxWindowChanges
    /\ place \in Places /\ starts \in 0 .. MaxStarts /\ selected \in BOOLEAN /\ configures \in Nat
    /\ ~selected => configures = 0
    /\ toRead \in Seq(Windows) /\ infos \in Seq(Infos) /\ added \in 0 .. Len(infos)
    /\ toAdd \in Seq(IconNames \X (Sizes \cup {0})) /\ windows \in Seq(Infos)
    /\ DOMAIN files \subseteq Files /\ files \in [DOMAIN files -> {"part", "whole"}] /\ torn \subseteq DOMAIN files
    /\ iconPaths \in [IconNames -> Seq(Sizes)]
    /\ getPlace \in {"idle", "choose"} /\ disturbed \in BOOLEAN /\ stale \in BOOLEAN
    /\ asked \in [name : IconNames \cup {"none"}, size : Int]
    /\ sentIcon \in [name : IconNames \cup {"none", "any"}, size : Sizes \cup {0}]

WindowInit ==
    /\ \E some \in SUBSET Windows :
          stacking \in {s \in [1 .. Cardinality(some) -> some] : Members(s) = some}
    /\ look \in [Windows -> Looks] /\ \A w \in Windows \ Members(stacking) : look[w] = NoLook
    /\ xChanges = 0
    /\ place = "down" /\ starts = 0 /\ selected = FALSE /\ configures = 0
    /\ toRead = <<>> /\ infos = <<>> /\ added = 0 /\ toAdd = <<>> /\ windows = <<>>
    /\ files = <<>> /\ iconPaths = [n \in IconNames |-> <<>>]
    /\ getPlace = "idle" /\ asked = NoGet /\ sentIcon = NoIcon
    /\ disturbed = FALSE /\ stale = FALSE /\ torn = {}

-----------------------------------------------------------------------------
\* The X server.  Only ConfigureNotify is acted on; the other events pass.

\* All of them but the k-th.
Without(k) == [i \in 1 .. Len(stacking) - 1 |-> stacking[IF i < k THEN i ELSE i + 1]]

Changes(s, l) ==
    /\ xChanges < MaxWindowChanges /\ xChanges' = xChanges + 1
    /\ stacking' = s /\ look' = l
    /\ UNCHANGED <<process, files, iconPaths, worker, disturbed, torn>>

\* A window opens or closes, or gets another title or icon, or the window manager
\* sets the list in another order: no ConfigureNotify.
XChange ==
    /\ \/ \E w \in Windows \ Members(stacking), l \in Looks :
             Changes(Append(stacking, w), [look EXCEPT ![w] = l])
       \/ \E k \in DOMAIN stacking : Changes(Without(k), [look EXCEPT ![stacking[k]] = NoLook])
       \/ \E w \in Members(stacking), l \in Looks :
             look[w] # l /\ Changes(stacking, [look EXCEPT ![w] = l])
       \/ \E k \in DOMAIN stacking : Changes(Append(Without(k), stacking[k]), look)
    /\ stale' = TRUE
    /\ UNCHANGED configures

\* A window is moved or raised: what is read does not change, until the window
\* manager sets the list (XChange).
Configure(w) ==
    /\ w \in Members(stacking) /\ Changes(stacking, look)
    /\ configures' = IF selected THEN configures + 1 ELSE 0
    /\ stale' = (stale /\ ~selected)

-----------------------------------------------------------------------------
\* The event loop.

Loop(from, to) == place = from /\ place' = to

\* The process ends, whatever its threads are doing.
Exit ==
    /\ place' = "down" /\ selected' = FALSE /\ configures' = 0
    /\ toRead' = <<>> /\ infos' = <<>> /\ added' = 0 /\ toAdd' = <<>> /\ windows' = <<>>
    /\ iconPaths' = [n \in IconNames |-> <<>>]
    /\ getPlace' = "idle" /\ asked' = NoGet /\ sentIcon' = NoIcon
    /\ disturbed' = FALSE
    /\ torn' = IF place = "write" THEN torn \cup {Head(toAdd)} ELSE torn
    /\ UNCHANGED <<xServer, starts, files, stale>>

\* service::run, service::listen
Start ==
    /\ Loop("down", "icons") /\ starts < MaxStarts /\ starts' = starts + 1
    /\ UNCHANGED <<xServer, selected, configures, toRead, infos, added, toAdd, windows, files, iconPaths,
                   worker, disturbed, stale, torn>>

\* RunningAppsIcons: the files there are, size by size, whole or not.
ReadIcons ==
    /\ Loop("icons", "list")
    /\ iconPaths' \in [IconNames -> Seq(Sizes) \cap (UNION {[1 .. k -> Sizes] : k \in 0 .. Cardinality(Sizes)})]
    /\ \A n \in IconNames : /\ Members(iconPaths'[n]) = {s \in Sizes : <<n, s>> \in DOMAIN files}
                            /\ Once(iconPaths'[n])
    /\ UNCHANGED <<xServer, starts, selected, configures, toRead, infos, added, toAdd, windows, files,
                   worker, disturbed, stale, torn>>

\* The icon directory does not exist, and subdirectories throws.
NoIconDirectory ==
    /\ place = "icons" /\ files = <<>> /\ Exit

\* normalWindows: the list of windows, reversed,
ListWindows ==
    /\ Loop("list", "read")
    /\ toRead' = [i \in DOMAIN stacking |-> stacking[Len(stacking) + 1 - i]]
    /\ infos' = <<>>
    /\ stale' = FALSE
    /\ UNCHANGED <<xServer, starts, selected, configures, added, toAdd, windows, files, iconPaths, worker, disturbed, torn>>

\* getProp<char>: what it returns of a property of so many bytes.  It asks for 32
\* words first, and then for the words that the bytes left over make.
GetProp(bytes) ==
    IF bytes <= 4 * 32 THEN bytes ELSE 4 * 32 + 4 * ((bytes - 4 * 32) \div 4)

CalculateIconName(icon) == Hash[icon]

Kept(l) == l.title > 0 /\ l.normal
Info(w) == [window |-> w, title |-> GetProp(look[w].title), icon |-> look[w].icon]

\* and a window of it, kept if it is a normal one with a title.
ReadWindow ==
    /\ place = "read" /\ toRead # <<>> /\ Head(toRead) \in Members(stacking)
    /\ LET w == Head(toRead)
       IN  infos' = IF Kept(look[w]) THEN Append(infos, Info(w)) ELSE infos
    /\ toRead' = Tail(toRead)
    /\ UNCHANGED <<xServer, place, starts, selected, configures, added, toAdd, windows, files, iconPaths,
                   worker, disturbed, stale, torn>>

\* A window that has closed since it was listed: BadWindow.
WindowIsGone ==
    /\ place = "read" /\ toRead # <<>> /\ Head(toRead) \notin Members(stacking)
    /\ Exit

ImagesOf(i) == [k \in DOMAIN Images[i] |-> <<CalculateIconName(i), Images[i][k]>>]

\* update: one window after the other,
ReadAll ==
    /\ toRead = <<>> /\ Loop("read", "add")
    /\ UNCHANGED <<xServer, starts, selected, configures, toRead, infos, added, toAdd, windows, files, iconPaths,
                   worker, disturbed, stale, torn>>

\* whose images are to be added.
NextWindow ==
    /\ place = "add" /\ toAdd = <<>> /\ added < Len(infos)
    /\ added' = added + 1 /\ toAdd' = ImagesOf(infos[added'].icon)
    /\ UNCHANGED <<xServer, place, starts, selected, configures, toRead, infos, windows, files, iconPaths,
                   worker, disturbed, stale, torn>>

SkipImageOfName ==
    /\ place = "add" /\ toAdd # <<>>
    /\ Head(toAdd)[2] = 0 \/ \E f \in DOMAIN files : f[1] = Head(toAdd)[1]
    /\ toAdd' = Tail(toAdd)
    /\ UNCHANGED <<xServer, place, starts, selected, configures, toRead, infos, added, windows, files, iconPaths,
                   worker, disturbed, stale, torn>>

\* addIcon: an image that is not square, or that has a file,
SkipImage ==
    /\ place = "add" /\ toAdd # <<>>
    /\ Head(toAdd)[2] = 0 \/ Head(toAdd) \in DOMAIN files
    /\ toAdd' = Tail(toAdd)
    /\ UNCHANGED <<xServer, place, starts, selected, configures, toRead, infos, added, windows, files, iconPaths,
                   worker, disturbed, stale, torn>>

Put(f, state) == [g \in DOMAIN files \cup {f} |-> IF g = f THEN state ELSE files[g]]

\* or a new one: writePng makes the file,
CreateFile ==
    /\ toAdd # <<>> /\ Head(toAdd)[2] # 0 /\ Head(toAdd) \notin DOMAIN files
    /\ Loop("add", "write")
    /\ files' = Put(Head(toAdd), "part")
    /\ UNCHANGED <<xServer, starts, selected, configures, toRead, infos, added, toAdd, windows, iconPaths,
                   worker, disturbed, stale, torn>>

\* writes it,
WriteFile ==
    /\ Loop("write", "push")
    /\ files' = Put(Head(toAdd), "whole")
    /\ UNCHANGED <<xServer, starts, selected, configures, toRead, infos, added, toAdd, windows, iconPaths,
                   worker, disturbed, stale, torn>>

\* and push_back makes it known; a worker that reads iconPaths is disturbed.
PushBack ==
    /\ Loop("push", "add")
    /\ iconPaths' = [iconPaths EXCEPT ![Head(toAdd)[1]] = Append(@, Head(toAdd)[2])]
    /\ toAdd' = Tail(toAdd)
    /\ disturbed' = (disturbed \/ getPlace # "idle")
    /\ UNCHANGED <<xServer, starts, selected, configures, toRead, infos, added, windows, files, worker, stale, torn>>

PublishThenSync ==
    /\ place = "add" /\ toAdd = <<>> /\ added = Len(infos)
    /\ windows' = infos /\ infos' = <<>> /\ added' = 0
    /\ place' = "notify"
    /\ configures' = 0
    /\ UNCHANGED <<xServer, starts, selected, toRead, toAdd, files, iconPaths,
                   worker, disturbed, stale, torn>>

\* updateCollection
Publish ==
    /\ place = "add" /\ toAdd = <<>> /\ added = Len(infos)
    /\ windows' = infos /\ infos' = <<>> /\ added' = 0
    /\ place' = "notify"
    /\ UNCHANGED <<xServer, starts, selected, configures, toRead, toAdd, files, iconPaths,
                   worker, disturbed, stale, torn>>

\* writes to the clients of /notify, which comes to an end when they all read;
Notified ==
    /\ place = "notify" /\ place' = IF selected THEN "next" ELSE "select"
    /\ UNCHANGED <<xServer, starts, selected, configures, toRead, infos, added, toAdd, windows, files, iconPaths,
                   worker, disturbed, stale, torn>>

\* when one has hung up, SIGPIPE ends the process.
NotifyDies ==
    /\ place = "notify" /\ Exit

\* run: XSelectInput
Select ==
    /\ Loop("select", "next")
    /\ selected' = TRUE
    /\ UNCHANGED <<xServer, starts, configures, toRead, infos, added, toAdd, windows, files, iconPaths,
                   worker, disturbed, stale, torn>>

\* XNextEvent, a tenth of a second, then XSync drops the events that wait.
NextEvent ==
    /\ configures > 0 /\ Loop("next", "list")
    /\ configures' = 0
    /\ UNCHANGED <<xServer, starts, selected, toRead, infos, added, toAdd, windows, files, iconPaths,
                   worker, disturbed, stale, torn>>

EventLoop ==
    \/ ReadIcons \/ ListWindows \/ ReadWindow \/ WindowIsGone \/ ReadAll \/ NextWindow \/ SkipImage
    \/ CreateFile \/ WriteFile \/ PushBack \/ Publish \/ Select \/ NextEvent

-----------------------------------------------------------------------------
\* A worker.

\* POST /window/...: WindowInfo asks for the window first; then the window manager
\* may raise it.
Post ==
    \E i \in DOMAIN windows :
        LET w == windows[i].window
        IN  \/ Configure(w)
            \/ /\ w \notin Members(stacking)
               /\ Exit

\* GET /icons/... as far as the loop over the sizes; a name there is no icon of, or a
\* size that is no number, is answered at once.  For the handler of a prefix
\* getResource sets a matchedLength of its own, so remainingPath is wherever an int
\* that nobody has set leads from the path: the name looked up is any name.
GetIcon(n, size) ==
    /\ Up /\ place # "icons" /\ getPlace = "idle"
    /\ iconPaths[n] # <<>>
    /\ getPlace' = "choose" /\ asked' = [name |-> n, size |-> size] /\ sentIcon' = NoIcon
    /\ UNCHANGED <<xServer, process, configures, files, iconPaths, disturbed, stale, torn>>

\* It may lead out of the memory of the process; before the prefix is mapped, or for
\* another path, the handler is not set either.
GetFaults ==
    /\ Up /\ Exit

\* An unsigned long as an int, and an int as an unsigned long
ToInt(number) == ((number + Half) % (2 * Half)) - Half
ToUnsigned(size) == IF size < 0 THEN size + Wrap ELSE size

SizeDistanceWrapped(size, wanted) == (size - ToUnsigned(wanted)) % Wrap

SizeDistance(size, wanted) ==
    LET w == ToUnsigned(wanted) IN IF size > w THEN size - w ELSE w - size

Closest(sizes, wanted) ==
    sizes[CHOOSE k \in DOMAIN sizes : \A j \in DOMAIN sizes :
             /\ SizeDistance(sizes[k], wanted) <= SizeDistance(sizes[j], wanted)
             /\ j < k => SizeDistance(sizes[k], wanted) < SizeDistance(sizes[j], wanted)]

\* The file of the closest size is sent, if its name leads to it from the directory
\* the process runs in.
ChooseIcon ==
    /\ getPlace = "choose"
    /\ sentIcon' \in { NoIcon, IF disturbed THEN AnyIcon
                               ELSE [name |-> asked.name,
                                     size |-> Closest(iconPaths[asked.name], ToInt(asked.size))] }
    /\ getPlace' = "idle" /\ asked' = NoGet /\ disturbed' = FALSE
    /\ UNCHANGED <<xServer, process, configures, files, iconPaths, stale, torn>>

WindowNext ==
    \/ XChange \/ \E w \in Windows : Configure(w)
    \/ Start \/ NoIconDirectory \/ EventLoop \/ Notified \/ NotifyDies
    \/ Post
    \/ \E n \in IconNames, size \in Wanted \cup {32} : GetIcon(n, size)
    \/ GetFaults \/ ChooseIcon

\* Only the clients can let a notification end, so Notified is not fair.
WindowSpec == WindowInit /\ [][WindowNext]_wmVars /\ WF_wmVars(EventLoop)

-----------------------------------------------------------------------------
\* update, addIcon: when a window is published, every square image of its icon is
\* known, once; and its file is whole, unless an earlier process ended while it wrote
\* that file, which is never written again.
IconsBeforeWindows ==
    \A i \in DOMAIN windows : \A s \in Members(Images[windows[i].icon]) \ {0} :
        LET n == CalculateIconName(windows[i].icon)
        IN  /\ Cardinality({k \in DOMAIN iconPaths[n] : iconPaths[n][k] = s}) = 1
            /\ files[<<n, s>>] = "whole" \/ <<n, s>> \in torn

\* doGET: an icon that is sent, unless addIcon changed the map meanwhile, is one of
\* the name looked up, and none of its sizes is closer to the one asked for; a negative
\* size is taken for one above all.  Of a number that is no int the code keeps 32 bits,
\* and nothing is said.
ClosestIconIsSent ==
    [][sentIcon' \notin {sentIcon, NoIcon, AnyIcon} =>
          LET sizes == Members(iconPaths[asked.name])
              gap(s) == IF s < asked.size THEN asked.size - s ELSE s - asked.size
          IN  /\ sentIcon'.size \in sizes
              /\ asked.size \in 0 .. Half - 1 => \A s \in sizes : gap(sentIcon'.size) <= gap(s)
              /\ asked.size \in -Half .. -1 => \A s \in sizes : s <= sentIcon'.size]_wmVars

\* The windows that should be published, the highest first; a title may lack its
\* last three bytes.
AsTheXServerHasThem ==
    LET shown == SelectSeq([i \in DOMAIN stacking |-> stacking[Len(stacking) + 1 - i]],
                           LAMBDA w : Kept(look[w]))
    IN  /\ [i \in DOMAIN windows |-> windows[i].window] = shown
        /\ \A i \in DOMAIN windows :
              /\ windows[i].icon = look[shown[i]].icon
              /\ look[shown[i]].title - windows[i].title \in 0 .. 3

\* No client of /notify keeps the loop waiting for ever.
ClientsRead == []<>(place # "notify")

\* update, run: if the clients of /notify read, the windows that are published catch up
\* with the list the window manager has set and with the windows on it, once a
\* ConfigureNotify has followed the last change of them, or a round began after it;
\* none is missed between reading the events and reading the windows.
WindowsCatchUp == ClientsRead => ((Up /\ ~stale) ~> (AsTheXServerHasThem \/ stale \/ ~Up))

=============================================================================
