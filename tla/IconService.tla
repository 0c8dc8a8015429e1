---------------------------- MODULE IconService ----------------------------
(***************************************************************************)
(* icon-service.  At start-up IconResourceBuilder visits the subdirectories *)
(* of every icon directory, one theme at a time, with ThemeReader and       *)
(* IconCollector; then four workers answer requests for icons from the maps *)
(* it built (IconResource::doGET), walking from a theme to the theme it     *)
(* inherits from.                                                           *)
(*                                                                          *)
(* The maps are read with operator[], which inserts what it does not find,  *)
(* and the workers share resourceMutex, so an insertion is concurrent with  *)
(* the lookups of the others.  An insertion is two steps, the decision and  *)
(* the insertion; a lookup in between, or through a reference taken before, *)
(* is undefined and has any outcome (Stray).                                *)
(***************************************************************************)
EXTENDS Integers, Sequences, FiniteSets

CONSTANTS Themes,      \* names of theme directories
          Hicolor,     \* the theme every other one inherits from by default
          Missing,     \* names that occur in Inherits and are no directory
          Icons,       \* names of icons
          NDirs,       \* the icon directories of a theme are 1 .. NDirs
          ThemeDirs,   \* what a theme directory on disk can hold
          PixmapSets,  \* which icons /usr/share/pixmaps may hold
          Requests,    \* what clients ask for
          Workers,
          MaxVisits    \* bound: theme directories in all icon directories

ASSUME IconServiceAssumption ==
    /\ Hicolor \in Themes /\ Themes \cap Missing = {} /\ IsFiniteSet(Themes \cup Missing)
    /\ {"none", "wild", "unset"} \cap (Themes \cup Missing) = {}
    /\ NDirs \in Nat /\ MaxVisits \in Nat
    /\ \A d \in ThemeDirs :
          /\ d.theme \in Themes /\ d.inherits \in Themes \cup Missing \cup {"none", "unset"}
          /\ DOMAIN d.declared \subseteq 1 .. NDirs
          /\ \A i \in DOMAIN d.declared : d.declared[i] \in [min : Int, max : Int]
          /\ d.files \in [1 .. NDirs -> SUBSET Icons]
    /\ PixmapSets \subseteq SUBSET Icons
    /\ \A r \in Requests : /\ r.theme \in Themes \cup Missing
                           /\ r.size \in Int /\ r.numeric \in BOOLEAN    \* else stoi throws
                           /\ r.names \in Seq([icon : Icons, ending : BOOLEAN])

None == "none"                  \* the empty string, and "no such key" of the maps
NotSet == "unset"             \* an index.theme without Inherits, or none
Names == Themes \cup Missing
Dirs == 1 .. NDirs
Instance == [min : Int, max : Int]    \* a file, by the sizes it is meant for
NoIcons == [i \in Icons |-> <<>>]
PixmapRange == [min |-> 0, max |-> 0]
Status(code) == [status |-> code]

VARIABLES
    phase,        \* "build", "serve", or "failed": an exception has ended the process
    visits,       \* theme directories visited
    inherits,     \* themeJsonMap: a theme's "Inherits"
    directories,  \* themeJsonMap: a theme's "IconDirectories", with their ranges
    icons,        \* themeIconMap: theme -> icon -> its instances
    pixmaps,      \* usrSharePixmapsIcons
    parent,       \* inheritanceMap
    pc,           \* where a worker is in doGET
    request,      \* what it is asked for
    name,         \* the theme it has got to
    iconMap,      \* the theme its reference iconMap refers to
    answer,       \* what it answers: a status or an instance of an icon
    raced,        \* history: its lookup met an insertion
    corrupt,      \* history: two insertions met
    cutOff        \* history: themes whose last Inherits has no value

built == <<phase, visits, inherits, directories, pixmaps, cutOff>>
maps == <<icons, parent>>
workers == <<pc, request, name, iconMap, answer, raced, corrupt>>
vars == <<built, maps, workers>>

NoRequest == [names |-> <<>>, theme |-> Hicolor, size |-> 0, numeric |-> TRUE]
Answers == {Status(code) : code \in {"none", "no theme", "422", "404"}} \cup [status : {"200"}, icon : Instance]

TypeOK ==
    /\ phase \in {"build", "serve", "failed"} /\ visits \in 0 .. MaxVisits
    /\ DOMAIN inherits \subseteq Themes /\ \A t \in DOMAIN inherits : inherits[t] \in Names \cup {None}
    /\ DOMAIN directories = DOMAIN inherits
    /\ \A t \in DOMAIN directories : /\ DOMAIN directories[t] \subseteq Dirs
                                     /\ \A d \in DOMAIN directories[t] : directories[t][d] \in Instance
    /\ DOMAIN icons \subseteq Names /\ DOMAIN inherits \subseteq DOMAIN icons
    /\ \A t \in DOMAIN icons : icons[t] \in [Icons -> Seq(Instance)]
    /\ DOMAIN parent \subseteq Names /\ \A t \in DOMAIN parent : parent[t] \in Names \cup {None}
    /\ pixmaps \in [Icons -> Seq(Instance)]
    /\ pc \in [Workers -> {"idle", "open", "addTheme", "names", "next", "addParent", "pixmaps", "reply"}]
    /\ request \in [Workers -> Requests \cup {NoRequest}]
    /\ name \in [Workers -> Names \cup {None}]
    /\ iconMap \in [Workers -> Names \cup {None, "wild"}]
    /\ answer \in [Workers -> Answers]
    /\ raced \in [Workers -> BOOLEAN] /\ corrupt \in BOOLEAN /\ cutOff \subseteq Themes
    /\ \A w \in Workers : pc[w] \in {"open", "addTheme", "names", "next", "addParent"} => name[w] # None

Init ==
    /\ phase = "build" /\ visits = 0
    /\ inherits = <<>> /\ directories = <<>> /\ icons = <<>> /\ parent = <<>> /\ pixmaps = NoIcons
    /\ pc = [w \in Workers |-> "idle"]
    /\ request = [w \in Workers |-> NoRequest]
    /\ name = [w \in Workers |-> None]
    /\ iconMap = [w \in Workers |-> None]
    /\ answer = [w \in Workers |-> Status("none")]
    /\ raced = [w \in Workers |-> FALSE]
    /\ corrupt = FALSE /\ cutOff = {}

-----------------------------------------------------------------------------
\* Building the maps.

\* The instances of icon i that IconCollector finds in the directories the theme
\* has declared so far, in their order; files says which icons are in which directory.
Collected(i, dirs, files) ==
    LET here == {d \in DOMAIN dirs : i \in files[d]}
        before(d) == {e \in here : e < d}
    IN  [k \in 1 .. Cardinality(here) |-> dirs[CHOOSE d \in here : Cardinality(before(d)) = k - 1]]

\* The map of the entries of f and those of m for other keys, and one entry.
Over(f, m) == [k \in DOMAIN f \cup DOMAIN m |-> IF k \in DOMAIN f THEN f[k] ELSE m[k]]
Entry(key, value) == [k \in {key} |-> value]

\* What operator[] finds in a map, and what it finds when the key is new.
At(m, t, new) == IF t \in DOMAIN m THEN m[t] ELSE new

\* ThemeReader: what the theme of directory d inherits from once its index.theme
\* is read; the template says hicolor, and "Inherits=" with nothing after it is a
\* value like another: the empty string.
InheritsOfNoDefault(d) == IF d.inherits = NotSet THEN At(inherits, d.theme, None) ELSE d.inherits
InheritsOf(d) == IF d.inherits = NotSet THEN At(inherits, d.theme, Hicolor) ELSE d.inherits

\* And the directories it has declared, here or in an index.theme read before.
DirectoriesOf(d) == Over(d.declared, At(directories, d.theme, <<>>))

\* One theme directory d, in any of the icon directories.  Its index.theme may
\* be missing (ThemeReader returns at once), set Inherits or not, and declare
\* directories; the icons are collected from this directory only, for all
\* directories the theme has declared up to now.  Hicolor gets no parent.
Visit(d) ==
    LET t == d.theme
        old == At(icons, t, NoIcons)
    IN  /\ phase = "build" /\ visits < MaxVisits
        /\ visits' = visits + 1
        /\ inherits' = Over(Entry(t, IF t = Hicolor THEN None ELSE InheritsOf(d)), inherits)
        /\ directories' = Over(Entry(t, DirectoriesOf(d)), directories)
        /\ icons' = Over(Entry(t, [i \in Icons |-> old[i] \o Collected(i, DirectoriesOf(d), d.files)]), icons)
        /\ parent' = IF t = Hicolor THEN parent ELSE Over(Entry(t, InheritsOf(d)), parent)
        /\ cutOff' = CASE d.inherits = None -> cutOff \cup {t}
                       [] d.inherits = NotSet -> cutOff
                       [] OTHER -> cutOff \ {t}
        /\ UNCHANGED <<phase, pixmaps, workers>>

\* /usr/share/pixmaps, then the service listens.
MapResources(found) ==
    /\ phase = "build"
    /\ pixmaps' = [i \in Icons |-> IF i \in found THEN <<PixmapRange>> ELSE <<>>]
    /\ phase' = "serve" /\ visits' = 0
    /\ UNCHANGED <<inherits, directories, cutOff, maps, workers>>

\* An icon directory that does not exist (subdirectories throws), or an
\* index.theme ThemeReader does not accept.
BuildThrows ==
    /\ phase = "build" /\ phase' = "failed"
    /\ UNCHANGED <<visits, inherits, directories, pixmaps, cutOff, maps, workers>>

-----------------------------------------------------------------------------
\* Answering a request.

\* What w is about to read is being changed, or no longer what it was.
Disturbed(w) ==
    LET insertion == IF pc[w] = "next" THEN "addParent" ELSE "addTheme"
    IN  corrupt \/ iconMap[w] = "wild" \/ \E v \in Workers \ {w} : pc[v] = insertion

Distance(i, size) == IF size < i.min THEN i.min - size ELSE IF size > i.max THEN size - i.max ELSE 0

FindPathOfFirst(s, size) == s[1]

\* findPathOfClosest: the first instance nearest to the size.
FindPathOfClosest(s, size) ==
    s[CHOOSE k \in DOMAIN s : \A j \in DOMAIN s :
         /\ Distance(s[k], size) <= Distance(s[j], size)
         /\ j < k => Distance(s[k], size) < Distance(s[j], size)]

SendFile(s, size) == [status |-> "200", icon |-> FindPathOfClosest(s, size)]

\* The names looked up in a theme (as they are) and in pixmaps (without ending).
InTheme(n, t) == ~n.ending /\ Len(At(icons, t, NoIcons)[n.icon]) > 0
InPixmaps(n) == Len(pixmaps[n.icon]) > 0

First(s, P(_)) == CHOOSE k \in DOMAIN s : P(s[k]) /\ \A j \in 1 .. k - 1 : ~P(s[j])
Some(s, P(_)) == \E k \in DOMAIN s : P(s[k])

Answer(w, a) ==
    /\ answer' = [answer EXCEPT ![w] = a]
    /\ pc' = [pc EXCEPT ![w] = "reply"]

\* The head of doGET.  The path branch and the checks of the parameters end
\* in an answer that depends on the request and the file system only.
Begin(w, r) ==
    /\ phase = "serve" /\ pc[w] = "idle"
    /\ request' = [request EXCEPT ![w] = r]
    /\ name' = [name EXCEPT ![w] = r.theme]
    /\ LET known == r.theme \in DOMAIN icons
       IN  \/ /\ Len(r.names) = 0
              /\ Answer(w, Status("422"))
           \/ /\ Len(r.names) > 0 /\ (~known \/ Disturbed(w))
              /\ Answer(w, Status("no theme"))
           \/ /\ Len(r.names) > 0 /\ (known \/ Disturbed(w)) /\ r.numeric
              /\ pc' = [pc EXCEPT ![w] = "open"]
              /\ UNCHANGED answer
    /\ raced' = [raced EXCEPT ![w] = Disturbed(w)]
    /\ UNCHANGED <<built, maps, iconMap, corrupt>>

\* A size that is no number, or too large a one: std::stoi throws what readRequest
\* does not catch, and the process ends.
SizeThrows(w, r) ==
    /\ phase = "serve" /\ pc[w] = "idle"
    /\ Len(r.names) > 0 /\ (r.theme \in DOMAIN icons \/ Disturbed(w)) /\ ~r.numeric
    /\ phase' = "failed"
    /\ UNCHANGED <<visits, inherits, directories, pixmaps, cutOff, maps, workers>>

\* IconMap& iconMap = themeIconMap[name]
Open(w) ==
    /\ pc[w] = "open" /\ ~Disturbed(w)
    /\ \/ /\ name[w] \in DOMAIN icons
          /\ iconMap' = [iconMap EXCEPT ![w] = name[w]]
          /\ pc' = [pc EXCEPT ![w] = "names"]
       \/ /\ name[w] \notin DOMAIN icons
          /\ pc' = [pc EXCEPT ![w] = "addTheme"]
          /\ UNCHANGED iconMap
    /\ UNCHANGED <<built, maps, request, name, answer, raced, corrupt>>

\* A new theme moves the entries of the vector: the references of the others
\* refer to something else, or to nothing.
AddTheme(w) ==
    /\ pc[w] = "addTheme"
    /\ icons' = Over(icons, Entry(name[w], NoIcons))
    /\ iconMap' = [v \in Workers |-> IF v = w THEN name[w]
                                     ELSE IF pc[v] = "names" THEN "wild" ELSE iconMap[v]]
    /\ corrupt' = (corrupt \/ name[w] \in DOMAIN icons \/ \E v \in Workers \ {w} : pc[v] = "addTheme")
    /\ pc' = [pc EXCEPT ![w] = "names"]
    /\ UNCHANGED <<built, parent, request, name, answer, raced>>

\* The names of the request, in their order, in this theme.
LookUp(w) ==
    /\ pc[w] = "names" /\ ~Disturbed(w)
    /\ LET here(n) == InTheme(n, iconMap[w])
           r == request[w]
       IN  \/ /\ Some(r.names, here)
              /\ Answer(w, SendFile(icons[iconMap[w]][r.names[First(r.names, here)].icon], r.size))
           \/ /\ ~Some(r.names, here)
              /\ pc' = [pc EXCEPT ![w] = "next"]
              /\ UNCHANGED answer
    /\ iconMap' = [iconMap EXCEPT ![w] = None]
    /\ UNCHANGED <<built, maps, request, name, raced, corrupt>>

GoOnUntested(w, t) ==
    /\ name' = [name EXCEPT ![w] = t]
    /\ pc' = [pc EXCEPT ![w] = "open"]

\* name = inheritanceMap[name], and the test for the empty string
GoOn(w, t) ==
    /\ name' = [name EXCEPT ![w] = t]
    /\ pc' = [pc EXCEPT ![w] = IF t = None THEN "pixmaps" ELSE "open"]

InheritFromFirst(w) ==
    /\ pc[w] = "next" /\ ~Disturbed(w)
    /\ LET first == request[w].theme
       IN  \/ /\ first \in DOMAIN parent
              /\ GoOn(w, parent[first])
           \/ /\ first \notin DOMAIN parent
              /\ pc' = [pc EXCEPT ![w] = "addParent"]
              /\ UNCHANGED name
    /\ UNCHANGED <<built, maps, request, iconMap, answer, raced, corrupt>>

Inherit(w) ==
    /\ pc[w] = "next" /\ ~Disturbed(w)
    /\ \/ /\ name[w] \in DOMAIN parent
          /\ GoOn(w, parent[name[w]])
       \/ /\ name[w] \notin DOMAIN parent
          /\ pc' = [pc EXCEPT ![w] = "addParent"]
          /\ UNCHANGED name
    /\ UNCHANGED <<built, maps, request, iconMap, answer, raced, corrupt>>

\* A theme without a parent, hicolor or one not installed: operator[] inserts
\* the empty string.
AddParent(w) ==
    /\ pc[w] = "addParent"
    /\ parent' = Over(parent, Entry(name[w], None))
    /\ corrupt' = (corrupt \/ name[w] \in DOMAIN parent \/ \E v \in Workers \ {w} : pc[v] = "addParent")
    /\ GoOn(w, None)
    /\ UNCHANGED <<built, icons, request, iconMap, answer, raced>>

\* Nothing changes the pixmaps, so nothing disturbs this.
Pixmaps(w) ==
    /\ pc[w] = "pixmaps"
    /\ LET r == request[w]
       IN  \/ /\ Some(r.names, InPixmaps)
              /\ Answer(w, SendFile(pixmaps[r.names[First(r.names, InPixmaps)].icon], r.size))
           \/ /\ ~Some(r.names, InPixmaps)
              /\ Answer(w, Status("404"))
    /\ UNCHANGED <<built, maps, request, name, iconMap, raced, corrupt>>

\* The answer is sent; the client may keep the worker for ever.
Done(w) ==
    /\ phase = "serve" /\ pc[w] = "reply"
    /\ pc' = [pc EXCEPT ![w] = "idle"]
    /\ request' = [request EXCEPT ![w] = NoRequest]
    /\ name' = [name EXCEPT ![w] = None]
    /\ iconMap' = [iconMap EXCEPT ![w] = None]
    /\ answer' = [answer EXCEPT ![w] = Status("none")]
    /\ raced' = [raced EXCEPT ![w] = FALSE]
    /\ UNCHANGED <<built, maps, corrupt>>

\* A step that reads a map while another inserts, through a reference that an
\* insertion has outdated, or after two insertions have met: it may find what is
\* there, miss it, or find something else.
StrayTo(p) == CASE p = "open" -> {"names", "addTheme"}
                [] p = "names" -> {"reply", "next"}
                [] p = "next" -> {"open", "pixmaps", "addParent"}

Stray(w) ==
    /\ pc[w] \in {"open", "names", "next"} /\ Disturbed(w)
    /\ raced' = [raced EXCEPT ![w] = TRUE]
    /\ \E p \in StrayTo(pc[w]) :
          /\ pc' = [pc EXCEPT ![w] = p]
          /\ iconMap' = [iconMap EXCEPT ![w] = IF p = "names" THEN "wild" ELSE None]
    /\ UNCHANGED <<built, maps, request, name, answer, corrupt>>

Work(w) ==
    /\ phase = "serve"
    /\ \/ Open(w) \/ AddTheme(w) \/ LookUp(w) \/ Inherit(w) \/ AddParent(w) \/ Pixmaps(w)
       \/ Stray(w)

Next ==
    \/ \E d \in ThemeDirs : Visit(d)
    \/ \E found \in PixmapSets : MapResources(found)
    \/ BuildThrows
    \/ \E w \in Workers : Work(w) \/ Done(w) \/ \E r \in Requests : Begin(w, r) \/ SizeThrows(w, r)

\* Every lock a worker meets is shared, so up to its answer it can always take its
\* next step.
Spec == Init /\ [][Next]_vars /\ \A w \in Workers : WF_vars(Work(w))

-----------------------------------------------------------------------------
\* The theme n steps up from t, by the map m; None beyond the last one.
Walk(m, t) ==
    LET up[n \in 0 .. Cardinality(Names)] ==
            IF n = 0 THEN t ELSE IF up[n - 1] = None THEN None ELSE At(m, up[n - 1], None)
    IN  up

Ancestors(t) == Walk(parent, t)

\* The parents of t do not go in a circle.
Ends(t) == \E n \in DOMAIN Ancestors(t) : Ancestors(t)[n] = None

Nearest(x, s, size) ==
    \E k \in DOMAIN s : x = [status |-> "200", icon |-> s[k]] /\ \A j \in DOMAIN s : Distance(s[k], size) <= Distance(s[j], size)

\* doGET: a lookup that no insertion disturbed answers with an instance of the
\* first name there is, in the first theme that has one of the names, of the
\* nearest size; from the pixmaps only if no theme on the way has any of them;
\* 404 only if the pixmaps have none either, or the theme was never installed.
AnswerIsClosest ==
    \A w \in Workers : pc[w] = "reply" /\ ~raced[w] /\ request[w].names # <<>> =>
        LET r == request[w]
            up == Ancestors(r.theme)
            in(n) == {k \in DOMAIN r.names : InTheme(r.names[k], up[n])}
            inPixmaps == {k \in DOMAIN r.names : InPixmaps(r.names[k])}
            best(s, which) ==
                \E k \in which : /\ \A j \in which : k <= j
                                 /\ Nearest(answer[w], s[r.names[k].icon], r.size)
        IN  \/ answer[w].status = "no theme" /\ r.theme \notin DOMAIN directories
            \/ \E n \in DOMAIN up : /\ \A m \in 0 .. n - 1 : in(m) = {}
                                    /\ best(icons[up[n]], in(n))
            \/ /\ \A n \in DOMAIN up : in(n) = {}
               /\ best(pixmaps, inPixmaps) \/ (answer[w].status = "404" /\ inPixmaps = {})

\* buildResources: from every installed theme the parents lead to hicolor, or
\* to a name that is not installed, or to a theme whose last Inherits has no value,
\* or around in a circle: no theme is cut off from hicolor by the order in which
\* the icon directories are read.
ParentsLeadToHicolor ==
    ~corrupt => \A t \in DOMAIN directories : Ends(t) =>
        \E n \in DOMAIN Ancestors(t) :
            /\ Ancestors(t)[n] \in {Hicolor} \cup (Names \ DOMAIN directories) \cup cutOff
            /\ At(parent, Ancestors(t)[n], None) = None

\* A lookup ends, if the parents of its theme do not go in a circle, no insertion
\* disturbs it, and no request for a size that is no number ends the process.
LookupEnds ==
    \A w \in Workers :
        pc[w] = "open" /\ Ends(request[w].theme) ~>
            pc[w] \in {"reply", "idle"} \/ raced[w] \/ phase = "failed"

\* "Thou shalt not loop forever" (iconresourcebuilder.cpp): every lookup ends, or
\* the process does.
LookupReturns ==
    \A w \in Workers : pc[w] = "open" ~> pc[w] \in {"reply", "idle"} \/ phase = "failed"

=============================================================================
