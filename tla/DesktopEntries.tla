--------------------------- MODULE DesktopEntries ---------------------------
(***************************************************************************)
(* desktop-service: from a .desktop file to the JSON of an application      *)
(* (lib/impl/inireader.cpp, desktopentryreader.cpp, buildActions).          *)
(*                                                                          *)
(* A step reads a line.  A word of a line is one character; the key of a    *)
(* member is a sequence of them.  What is thrown ends the service: nobody   *)
(* catches it.  buildActions promises a value and returns none: its caller  *)
(* destroys what is there by chance, which may crash the service.           *)
(***************************************************************************)
EXTENDS Json, TLC

CONSTANTS Files,    \* .desktop files: sequences of lines
          Lower,    \* tolower, where it is not the identity
          AppId     \* the name of the file

VARIABLES file,
          at,         \* the next line
          line,       \* IniReader: lineType, and what was read last
          group,      \* where readKeyValues puts what it reads
          json,
          outcome     \* "reading", "read", "published", "thrown", "crashed"

entryVars == <<file, at, line, group, json, outcome>>

Nul == ""
AtStart == [lineType |-> "AtStart", heading |-> <<>>, key |-> <<>>, locale |-> <<>>, value |-> <<>>]
NoGroup == << <<"none">> >>

PlainKeys == {<<"Type">>, <<"Version">>, <<"Exec">>, <<"Path">>, <<"StartupWMClass">>, <<"URL">>, <<"Icon">>}
NameKeys == {<<"Name">>, <<"GenericName">>, <<"Comment">>}
SwitchKeys == {<<"NoDisplay">>, <<"DBusActivatable">>, <<"Terminal">>, <<"StartupNotify">>}
ListKeys == {<<"OnlyShowIn">>, <<"NotShowIn">>, <<"MimeType">>, <<"Categories">>, <<"Implements">>}
Actions == <<"Actions">>
OtherGroups == <<"Other_groups">>
Keywords == <<"Keywords">>
Exec == <<"Exec">>
Icon == <<"Icon">>
Default == <<"_default">>
Translated(key) == <<Localized>> \o key

Camelize(key) == IF key = <<"MimeType">> THEN <<"mimetype">> ELSE key

NoEntries == Object(<<>>)
DesktopTemplate ==
    Object([k \in {Translated(n) : n \in NameKeys \cup {Keywords}} |->
                IF k = Translated(<<"Name">>) THEN Object(<<>> :> Boolean(TRUE)) ELSE NoEntries]
           @@ [k \in {Camelize(l) : l \in ListKeys} |-> Array(<<>>)])
ActionTemplate == Object(Translated(<<"Name">>) :> NoEntries)

EntryInit ==
    /\ file \in Files /\ at = 1
    /\ line = AtStart
    /\ group = NoGroup /\ json = DesktopTemplate
    /\ outcome = "reading"

-----------------------------------------------------------------------------
\* IniReader::getNextLine, of line l

Char(l, i) == IF i \in DOMAIN l THEN l[i] ELSE Nul
Find(l, i, S) == Min({j \in i .. Len(l) : l[j] \in S} \cup {Len(l) + 1})
PastBlanks(l, i) == Min({j \in i .. i + Len(l) : Char(l, j) # " "})
Lowered(s) == [i \in DOMAIN s |-> IF s[i] \in DOMAIN Lower THEN Lower[s[i]] ELSE s[i]]

\* getBracketContents, of brackets that open at i: the contents and what is next.
Brackets(l, i) ==
    LET close == Find(l, i + 1, {"]"})
    IN  [closed |-> close <= Len(l), contents |-> SubSeq(l, i + 1, close - 1), next |-> PastBlanks(l, close + 1)]

Start(l) == PastBlanks(l, 1)
Skipped(l) == Char(l, Start(l)) \in {Nul, "#"}
Opens(l) == Char(l, Start(l)) = "["

HeadingRead(l) ==
    LET b == Brackets(l, Start(l))
    IN  IF b.closed /\ b.next > Len(l) THEN {[line EXCEPT !.lineType = "Heading", !.heading = b.contents]} ELSE {}

\* A line that has no locale, with that of the line before it.
LocaleKept(translated, b) == IF translated THEN Lowered(b.contents) ELSE line.locale

LocaleRead(translated, b) == IF translated THEN Lowered(b.contents) ELSE <<>>

\* The value is all that is behind "=", blanks too.  {}: it throws
KeyValueRead(l) ==
    LET end == Find(l, Start(l), {"[", "=", " "})
        b == Brackets(l, end)
        translated == Char(l, end) = "["
        equals == IF translated THEN b.next ELSE PastBlanks(l, end)
    IN  IF Char(l, equals) = "=" /\ (translated => b.closed)
        THEN {[line EXCEPT !.lineType = "KeyValue", !.key = SubSeq(l, Start(l), end - 1),
                           !.locale = LocaleRead(translated, b),
                           !.value = SubSeq(l, equals + 1, Len(l))]}
        ELSE {}

-----------------------------------------------------------------------------
\* DesktopEntryReader

\* toList: what is behind the last semicolon is no element.
ToList(s) ==
    LET ends == SetToSortSeq({i \in DOMAIN s : s[i] = ";"}, <)
    IN  [j \in DOMAIN ends |-> SubSeq(s, (IF j = 1 THEN 0 ELSE ends[j - 1]) + 1, ends[j] - 1)]

Strings(list) == [i \in DOMAIN list |-> String(list[i])]

\* readKeyValue into v: what v is then, in a set; {}: it throws.  operator[] and
\* append throw when there is nothing yet, as in a group that is no [Desktop Entry].
KeyValuePut(v, l) ==
    LET list == ToList(l.value)
        in == CASE l.key \in ListKeys                    -> Camelize(l.key)
                [] l.key \in NameKeys \cup {Keywords}    -> Translated(l.key)
                [] OTHER                                 -> l.key
        old == Entry(v, in)
    IN  CASE l.key \in PlainKeys  -> {With(v, in, String(l.value))}
          [] l.key \in SwitchKeys -> {With(v, in, Boolean(b)) : b \in {c \in BOOLEAN : l.value = <<IF c THEN "true" ELSE "false">>}}
          [] l.key \in ListKeys   -> IF list = <<>> THEN {v}
                                     ELSE {With(v, in, Array(o.elements \o Strings(list))) : o \in {old} \ {Undefined}}
          [] l.key \in NameKeys   -> {With(v, in, With(o, l.locale, String(l.value))) : o \in {old} \ {Undefined}}
          [] l.key = Keywords     -> {With(v, in, With(o, l.locale, Array(Strings(list)))) : o \in {old} \ {Undefined}}
          [] l.key = Actions      -> {With(v, in, Object([a \in ToSet(list) |-> ActionTemplate]))}
          [] OTHER                -> {v}

RECURSIVE Inside(_, _), Put(_, _, _)
Inside(v, path) == IF path = <<>> THEN v ELSE Inside(Entry(v, path[1]), Tail(path))
Put(v, path, w) == IF path = <<>> THEN w ELSE With(v, path[1], Put(Entry(v, path[1]), Tail(path), w))

Reading == outcome = "reading" /\ at <= Len(file)
NextLine == at' = at + 1 /\ UNCHANGED <<file, outcome>>
Throw == outcome' = "thrown" /\ UNCHANGED <<file, at, line, group, json>>

SkipLine == Reading /\ Skipped(file[at]) /\ NextLine /\ UNCHANGED <<line, group, json>>

\* A heading, in read: the first, one of an action that is declared, another one.
ReadHeading ==
    /\ Reading /\ ~Skipped(file[at]) /\ Opens(file[at])
    /\ \/ HeadingRead(file[at]) = {} /\ Throw
       \/ \E l \in HeadingRead(file[at]) :
            LET isAction == l.heading # <<>> /\ l.heading[1] = "Desktop Action"
                action == SubSeq(l.heading, 3, Len(l.heading))
                declared == Entry(json, Actions) # Undefined /\ action \in DOMAIN Entry(json, Actions).entries
                others == IF Entry(json, OtherGroups) = Undefined THEN With(json, OtherGroups, NoEntries) ELSE json
            IN  \/ /\ IF group = NoGroup THEN l.heading # <<"Desktop Entry">>
                      ELSE isAction /\ (Len(l.heading) = 1 \/ ~declared)
                   /\ Throw
                \/ /\ group = NoGroup /\ l.heading = <<"Desktop Entry">>
                   /\ line' = l /\ group' = <<>> /\ NextLine /\ UNCHANGED json
                \/ /\ group # NoGroup /\ isAction /\ Len(l.heading) > 1 /\ declared
                   /\ line' = l /\ group' = <<Actions, action>> /\ NextLine /\ UNCHANGED json
                \/ /\ group # NoGroup /\ ~isAction
                   /\ json' = Put(others, <<OtherGroups, l.heading>>, ActionTemplate)
                   /\ line' = l /\ group' = <<OtherGroups, l.heading>> /\ NextLine

ReadKeyValue ==
    /\ Reading /\ ~Skipped(file[at]) /\ ~Opens(file[at])
    /\ LET results == IF group = NoGroup THEN {}
                      ELSE UNION {{l} \X KeyValuePut(Inside(json, group), l) : l \in KeyValueRead(file[at])}
       IN  \/ results = {} /\ Throw
           \/ /\ \E r \in results : line' = r[1] /\ json' = Put(json, group, r[2])
              /\ NextLine /\ UNCHANGED group

EndOfFile ==
    /\ outcome = "reading" /\ at > Len(file)
    /\ outcome' = IF group = NoGroup THEN "thrown" ELSE "read"
    /\ UNCHANGED <<file, at, line, group, json>>

-----------------------------------------------------------------------------
\* readDesktopFiles gives every application an icon and its name, which has
\* ".desktop" at the end: eight characters in the code, one here.
Collected ==
    With(IF Icon \in DOMAIN json.entries THEN json ELSE With(json, Icon, String(<<Last(AppId)>>)),
         <<"applicationId">>, String(AppId))

\* Each action with the command of the entry.
ActionOfEntry(app, name, comment, exec) ==
    Object(Translated(<<"name">>) :> Copy(name) @@ Translated(<<"comment">>) :> Copy(comment)
           @@ <<"icon">> :> Copy(Entry(app, Icon)) @@ <<"exec">> :> Copy(Entry(app, Exec)))

\* buildActions.  What is not there is copied as undefined, and stays that.
ActionOf(app, name, comment, exec) ==
    Object(Translated(<<"name">>) :> Copy(name) @@ Translated(<<"comment">>) :> Copy(comment)
           @@ <<"icon">> :> Copy(Entry(app, Icon)) @@ <<"exec">> :> Copy(exec))

BuildActions(app) ==
    LET Name(v) == Entry(v, Translated(<<"Name">>))
        default == ActionOf(app, Name(app), Entry(app, Translated(<<"Comment">>)), Entry(app, Exec))
        declared == Entry(app, Actions)
        others == IF declared = Undefined THEN <<>>
                  ELSE [a \in DOMAIN declared.entries |->
                          ActionOf(app, Name(declared.entries[a]), Name(app), Entry(declared.entries[a], Exec))]
        kept == [k \in DOMAIN app.entries \ {Actions} |-> app.entries[k]]
    IN  With(With(Object(kept), Exec, Entry(app, Exec)), <<"_actions">>, Object(others @@ (Default :> default)))

Publish ==
    /\ outcome = "read"
    /\ json' = BuildActions(Collected)
    /\ outcome' = "published"
    /\ UNCHANGED <<file, at, line, group>>

\* The destructor of a Json that has never been made.
Crash ==
    /\ outcome = "read"
    /\ outcome' = "crashed"
    /\ UNCHANGED <<file, at, line, group, json>>

EntryNext == SkipLine \/ ReadHeading \/ ReadKeyValue \/ EndOfFile \/ Publish \/ Crash

-----------------------------------------------------------------------------
\* What a file says, of all its lines.

Ink(l) == LET i == {j \in DOMAIN l : l[j] # " "} IN IF i = {} THEN <<>> ELSE SubSeq(l, Min(i), Max(i))
Without(s, S) == \A j \in DOMAIN s : s[j] \notin S

\* The heading, the key, the locale and the value of a line, in a set.
Headings(l) == {h \in {SubSeq(Ink(l), 2, Len(Ink(l)) - 1)} : Ink(l) = <<"[">> \o h \o <<"]">> /\ Without(h, {"]"})}
KeyValues(l) ==
    {kv \in {LET left == Ink(SubSeq(l, 1, e - 1))
                 open == Find(left, 1, {"["})
             IN  [left |-> left, key |-> SubSeq(left, 1, open - 1),
                  locale |-> Lowered(SubSeq(left, open + 1, Len(left) - 1)), value |-> SubSeq(l, e + 1, Len(l))] :
                e \in {i \in DOMAIN l : l[i] = "="}} :
        /\ Without(kv.key, {"[", "=", " "}) /\ Without(kv.locale, {"]"})
        /\ Len(kv.left) > Len(kv.key) => Last(kv.left) = "]" /\ Len(kv.left) > Len(kv.key) + 1}

Comment(l) == Ink(l) = <<>> \/ Ink(l)[1] = "#"
IsHeading(i) == ~Comment(file[i]) /\ Headings(file[i]) # {}
Heading(i) == CHOOSE h \in Headings(file[i]) : TRUE
KeyValue(i) == CHOOSE kv \in KeyValues(file[i]) : TRUE
Ruled == {i \in DOMAIN file : ~Comment(file[i]) /\ ~IsHeading(i)}
GroupOf(i) == Max({g \in 1 .. i : IsHeading(g)})
Entries == {i \in DOMAIN file : IsHeading(i)}

\* The lines of these groups that give key k, or key k in locale l.
Given(groups, k) == {i \in Ruled : GroupOf(i) \in groups /\ KeyValue(i).key = k}
In(lines, l) == {i \in lines : KeyValue(i).locale = l}
Top == {Min(Entries)}
IsAction(g) == g \notin Top /\ Heading(g) # <<>> /\ Heading(g)[1] = "Desktop Action"
GroupsOf(a) == {g \in Entries : IsAction(g) /\ SubSeq(Heading(g), 3, Len(Heading(g))) = a}

Declared == LET lines == Given(Top, Actions) IN IF lines = {} THEN {} ELSE ToSet(ToList(KeyValue(Max(lines)).value))

Acceptable ==
    /\ Entries # {} /\ \A i \in DOMAIN file : i < Min(Entries) => Comment(file[i])
    /\ Heading(Min(Entries)) = <<"Desktop Entry">>
    /\ \A i \in Ruled : KeyValues(file[i]) # {} /\ Ink(file[i])[1] # "["
    /\ \A i \in Ruled : KeyValue(i).key \in SwitchKeys => KeyValue(i).value \in {<<"true">>, <<"false">>}
    /\ \A g \in Entries : IsAction(g) => Len(Heading(g)) > 1 /\ SubSeq(Heading(g), 3, Len(Heading(g))) \in Declared
    /\ \A i \in Ruled : GroupOf(i) \notin Top =>
          /\ KeyValue(i).key \notin (NameKeys \ {<<"Name">>}) \cup {Keywords}
          /\ KeyValue(i).key \in ListKeys => ToList(KeyValue(i).value) = <<>>

\* What v has at k: what the last of the lines says, or else what it had at first.
LastOf(v, k, lines, first) ==
    Entry(v, k) = IF lines = {} THEN first ELSE String(KeyValue(Max(lines)).value)

\* The application that is published says what the file says: keys of a group, names
\* in each locale, lists over all their lines, the command of each action; and a file
\* that breaks the rules is refused.
EntrySaysWhatTheFileSays ==
    /\ outcome \in {"read", "published", "crashed"} => Acceptable
    /\ outcome = "thrown" => ~Acceptable
    /\ outcome = "published" =>
          /\ \A k \in PlainKeys \ {Icon} : LastOf(json, k, Given(Top, k), Undefined)
          /\ \A k \in NameKeys : \A l \in {<<>>} \cup {KeyValue(i).locale : i \in Ruled} :
                LastOf(json.entries[Translated(k)], l, In(Given(Top, k), l),
                       IF k = <<"Name">> /\ l = <<>> THEN Boolean(TRUE) ELSE Undefined)
          /\ \A k \in ListKeys :
                json.entries[Camelize(k)].elements
                  = FlattenSeq([n \in 1 .. Cardinality(Given(Top, k)) |->
                                  Strings(ToList(KeyValue(SetToSortSeq(Given(Top, k), <)[n]).value))])
          /\ DOMAIN json.entries[<<"_actions">>].entries = Declared \cup {Default}
          /\ \A a \in Declared : LastOf(json.entries[<<"_actions">>].entries[a], <<"exec">>, Given(GroupsOf(a), Exec), Undefined)

\* The updater tells changes with operator==: the same file gives an equal application,
\* and no notification, just when the entry and each of its actions have a command.
UnchangedUnlessNoCommand ==
    outcome = "published" =>
        (Equal(json, json) <=> /\ Given(Top, Exec) # {}
                               /\ \A a \in Declared : Given(GroupsOf(a), Exec) # {})

=============================================================================
