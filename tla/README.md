# A TLA+ model of refude-services

refude-services is a set of small HTTP services on Unix sockets that publish
parts of a Linux desktop as JSON: windows (`wm-service`), applications and mime
types (`desktop-service`), icons (`icon-service`), power (`power-service`) and
network (`connman-service`). All of them are built on one library (`lib/`). This
directory holds TLA+ modules that model it, TLC configurations that check them on
small instances, and proofs, checked by TLAPS, of what holds on every instance.

## The system

### Components, their state and operations

| part | source | state | operations |
|---|---|---|---|
| service threads | `lib/impl/service.cpp` | listen and worker threads | listen, work, readRequest |
| socket queue | `lib/impl/socketqueue.cpp` | array of 32 descriptors, mutex, two condition variables | push, pop |
| resource collection | `lib/impl/resourcecollection.cpp` | path -> resource, prefix -> resource, `resourceMutex` | mapPath, bulkUpdate, getResource |
| updater | `lib/impl/jsonresourcecollection.cpp` | the paths of the last round | updateCollection |
| notification streams | `lib/impl/notifierresource.cpp` | vector of client sockets, mutex | addClient, notifyClients |
| Map | `lib/map.h` | sorted vector, `inserting` flag | search, operator[], take, erase, clear, beginInsert/insert/endInsert |
| JSON resource | `lib/impl/jsonresource.cpp`, `abstractresource.cpp` | one JSON value, cache of its texts by locale, shared mutex | doGET, setJson, getAcceptedLocales |
| HTTP reader | `lib/impl/httpmessagereader.cpp` | buffer of 8190 bytes, position | readRequest and its parts |
| JSON | `lib/impl/json*.cpp`, `buffer.cpp` | values, a text, a growing buffer | copy, compare, read, write |
| wm service | `wm-service/` | windows, icon cache in memory and on disk | X events, update, GET of an icon, POST to a window |
| desktop service | `desktop-service/` | inotify watches, mime type defaults | read a .desktop file, collect, watch, PATCH, POST |
| icon service | `icon-service/` | themes, inheritance, icons | build once, look up |
| connman service | `connman-service/` | services, their order, technologies | D-Bus signals, update |
| power service | `power-service/` | the devices of UPower, the actions of login1 | D-Bus signal, read all devices, POST to an action |

### How they interact

A listener thread accepts connections and **pushes** sockets to the queue; four
workers **pop** them, read a request, look its resource up in the collection and
let it answer, holding `resourceMutex` shared. One updater per service (the X event
loop, the inotify loop, the D-Bus thread) computes a new snapshot of resources
and hands it to `updateCollection`, which compares it with what is published, and
`bulkUpdate` assigns, erases and **notifies**: each change is written to every socket
of the notification stream, by the updater's own thread, under the stream's mutex.
Workers add sockets to that stream, for requests of `/notify`. haproxy joins the
services of a user under one address; to a service it is a client. `connman-service` has
the updater only: its `main` never calls `service::listen`, so nothing that it publishes
can be fetched, and nobody can hold it up.

### What is hard, and what makes each part correct

* *Threads and two condition variables* (service, queue). No connection is lost,
  answered twice or overtaken; no worker sleeps over a connection nobody is
  about to take, also when others are blocked in an answer; the array is never overrun;
  a waiting push wakes up.
* *Readers during updates* (collection). Between updates exactly the last snapshot
  is published; only a changed resource is displaced; a client that follows the
  stream converges; a request uses a resource that still exists.
* *A lock that is given up and taken again* (JSON resource). Each client gets the
  whole text for the locales it accepts, while others fill the cache.
* *Clients that stall or go away* (streams). A stream is a gapless tail of the
  notifications; the updater's loop comes to an end; an unusable client is dropped.
* *Index arithmetic* (Map). The bisection ends at the right place; batches of
  inserts leave a sorted vector, the last value of a key wins.
* *Text in pieces* (HTTP reader). What is read does not depend on where the pieces
  end; every string ends inside the buffer; a silent client is given up. A
  Content-Length that does not fit in an int breaks the first two.
* *Texts of others* (JSON, `.desktop` files, Accept-Language). The value is the one the
  text denotes, or the text is refused; a value survives being written and read, numbers
  to the digits that are written; equal values have one text, and values with one text
  differ in digits that are not written only, since the updater relies on it.
* *Maps shared without a lock* (icon service, wm service). A lookup finds the nearest
  size in the nearest theme unless an insertion by another thread disturbs it; every
  theme leads to hicolor; a walk along the themes ends.
* *A server that changes while it is read* (wm service, power service). A window may
  close between the list and the reading; when the events that matter are handled,
  what is published is what there is.
* *Files that outlive the process* (wm service). Before a window is published all
  images of its icon are known, each once, whatever an earlier process left.
* *Signals that arrive late* (connman service). The order of services names only
  services the map has; when all signals are handled, what is published is what connman
  has, also when old signals are handled after a newer reply or when a reply was an error.
* *Files that change while they are read* (desktop service). When nothing happens any
  more what is published is what the files say; requests that change the list one after
  the other do not take away what others have set.

The full list, with lines, is `hazards` in `PROJECT.json`.

## The modules

| module | models | role |
|---|---|---|
| `ConnectionFifo` | what the service promises of connections | abstract specification |
| `SocketQueue` | `service.cpp` threads and `socketqueue.cpp` | implements `ConnectionFifo` |
| `SocketQueueProofs` | | theorems about `SocketQueue` |
| `Resources` | `resourcecollection.cpp`, `jsonresourcecollection.cpp`, the request path of `service.cpp`, and clients | |
| `ResourcesProofs` | | theorems about `Resources` |
| `NotificationStream` | `notifierresource.cpp` | |
| `JsonResource` | `jsonresource.cpp` | |
| `StreamsProofs` | | theorems about `NotificationStream` and `JsonResource` |
| `Dictionary` | what `Map` promises | abstract specification |
| `SortedMap` | `map.h` | implements `Dictionary` |
| `SortedMapProofs` | | theorems about `SortedMap` |
| `HttpMessageReader` | `httpmessagereader.cpp`, for requests | |
| `HttpMessageReaderProofs` | | theorems about `HttpMessageReader` |
| `Double` | the type double and `pow` (external) | used by `Json` |
| `Json` | `json.cpp`: values, equality, copies | |
| `JsonReader` | `jsonreader.cpp` | |
| `JsonWriter` | `jsonwriter.cpp`, `localizingjsonwriter.cpp`, `buffer.cpp` | |
| `AcceptLanguage` | `AbstractResource::getAcceptedLocales` | |
| `JsonText` | | the three before, composed, and their reference definitions |
| `DesktopEntries` | `inireader.cpp`, `desktopentryreader.cpp`, `buildActions` | uses `Json` |
| `IconService` | `iconresourcebuilder.cpp`, `themereader.cpp`, `iconcollector.cpp`, `iconresource.cpp` | |
| `WindowManager` | `wm-service/` | |
| `IconsProofs` | | theorems about `IconService` and `WindowManager` |
| `DesktopService` | `desktopservice.cpp`, `applicationcollector.cpp`, `mimeappslistreader.cpp`, `MimetypeResource::doPATCH` | |
| `DesktopServiceProofs` | | theorems about `DesktopService` |
| `Connman` | `connman-service/controller.cpp` | |
| `PowerService` | `powerapplication.cpp`, `properties_if.h` | |
| `DaemonsProofs` | | theorems about `Connman` and `PowerService` |
| `MCReaders` | | the readers of texts (HTTP, JSON, `.desktop`) for TLC |
| `MCStreams` | | `NotificationStream` and `JsonResource` for TLC |
| `MCIconService`, `MCIcons` | | values for `IconService`; with `WindowManager` for TLC |
| `MCDaemons` | | `Connman` and `PowerService` for TLC |
| `MCDesktopService` | | the values of structured constants for TLC |

Components that share no state share a run: the MC module has the variables of
all, and the variable `part`, chosen in the initial state, says which of them takes
the steps of a behavior.

### SocketQueue

`backlog` is the kernel's queue of a listening socket, `sockets` the used part of the
array, `notEmpty`/`notFull` the threads asleep on each condition variable, `pc` and
`socket` the place of each thread and the descriptor it holds. What a thread does
under the mutex is one step (`Push`, `Pop`, and going to sleep, `PushWait`, `PopWait`);
the `notify_one` that follows the unlock is a step of its own (`PushNotify`,
`PopNotify`), and so is a spurious wakeup. `PushWait` sleeps on `notEmpty`, as the code
does. `ReadRequest` stands for answering and closing; what happens inside is the
subject of `Resources` and `NotificationStream`. An answer need not come to an end (a
write waits for a client that does not read, without a timeout), so of a worker's loop
only the rest, `Take`, is fair, and `QueuedIsServed` asks for one worker that keeps coming
back (`KeepsComingBack`).

### Resources

`mappings` is `resourceMappings`, with a resource told apart by its path, round and
content; `resourcePaths`, `snapshot`, `addOrReplace` and `remove` are the variables
of `updateCollection` and `bulkUpdate`, `upc` the place in them. `UpdateCollection`
computes both lists in one step (nothing else changes what it reads); after that each
assignment, each erasure and each notification is a step, in the order of the code:
an update is announced after the assignment, a removal before the erasure, an
insertion not at all. Because every lock on `resourceMutex` in the code is a shared
one, the steps of requests (`Lookup`, `Respond`) come in between. While an insertion
or erasure moves the entries of the vector, and when nothing is mapped to a path
(`getResource` then returns true and leaves the handler unset), `Lookup` may find any
resource, or no object (`Wild`). Two contents are compared with `Equal`, the code's
`operator==`: a content with something undefined in it (`Incomparable`) does not equal
itself, and its resource is replaced in each round. A client gets the header of
`/notify` (`Accept`), begins to fetch all it sees, is registered (`Register`, a step later
and under the mutex), and follows its stream: `mirror` is what it believes. Clients whose
requests met a half-done update, and clients an announcement passed by between
header and registration, are remembered in `exposed` and exempt from
`SubscribersConverge`; that the first can happen at all is what `ResourcesLock` shows.

### NotificationStream

`addClient` writes the response header *before* it takes the mutex (`WriteHeader`,
`PushBack`). `notifyClients` holds the mutex from `NotifyClients` to `NotifyEnd` and
visits the vector with the iterator `it`. A write succeeds (`Write`), waits while the
client's buffer is full (`WriteWaits`), returns short if the client goes while it
waits (`WriteShort`, the one case in which the `erase` is reached), or raises
SIGPIPE if the client had gone before (`WriteToNobody`, `WriteHeaderToNobody`).

### JsonResource

`getPc` is the place of a worker in `doGET`: it holds the mutex shared while it looks
for a text and sends it (`LockShared`, `Find`, `Sent`), or gives it up (`Unlock`), takes
it exclusively (`LockExclusive`), inserts and sends (`BeginInsert`, `EndInsert`,
`SentBuilt`) without a second look at the cache. Between `BeginInsert` and `EndInsert`
the entries of the Map are moved, and whoever reads or sends an entry then has a
`Torn` text. How long a client takes to read holds the lock, as in the code.

### SortedMap

One caller. An operation is its call, the rounds of the bisection (`Probe`) and
the use of the position (`Finish`); a batch is `BeginInsert`, `Insert`s, and `EndInsert`
with the rounds of its compaction (`Compact`). Keys are integers: only their order
matters. `ValueOf` is the refinement mapping to `Dictionary`: the last live entry of
a key; slots between the iterators of the compaction have been moved from.

### HttpMessageReader

One worker and one client. A step is what the code does with one character at one
place (`pc`), or a `receive` of any number of bytes, or a `receive` that throws: the
client has closed, sends nothing for 200 ms (`SO_RCVTIMEO`), or the buffer is full.
Strings are start positions and `cuts`, the positions where `'\0'` has been written,
so that a forgotten terminator shows. A method, a protocol or a number with its sign is
one character; `Numerals` gives the number. `ReadBody` does with a Content-Length what
the code does: `strtoul` takes it modulo 2^64 (`Wrap`) or sets errno (`LengthThrows`), an int
keeps it modulo 2^32 (`ToInt`, `Half`), and the zero is written behind the body, or, for a
negative length, before it; where it would be outside the buffer, or the sum is no
int, the request ends in the outcome `wild` (`WriteOutside`). `currentChar` does not receive: after the `currentPos++` of
`readQueryString` it may look at the terminator behind the bytes received and step
over a delimiter that arrives later. `torn` remembers that a piece ended there, and
`ParseMatchesText`, which compares with the parse of the whole text (`Wellformed`,
`Request`), makes that one exception. The specification of the whole text is written
without the positions of the reader, with recursive functions for the pieces of the query
and the header lines (`PiecesTo`, `HeadersFrom`).

### Json, JsonReader, JsonWriter, AcceptLanguage, JsonText

Pure algorithms, as operators: `Equal` and `Copy` (`Json`), `Read` (a recursive descent
over `text`, each function with the position it is called at and the one it returns),
`Write` (a list of pieces, each with the room `ensureCapacity` makes for it; `Written`
puts them into the buffer and loses what does not fit), `GetAcceptedLocales`. `JsonText`
makes steps of them and states what they should be in other terms: `Denotes` is the
value of a whole text, found by cutting it at brackets and commas and not by a
descent; `Wanted` the languages of a header. What the code does, and the modules with
it: the copy of a Boolean is a number; undefined equals nothing, not even itself; the
marker of an invalid hex digit reaches the first entry of the table only, so that
almost any character passes for a digit; a character that is not ASCII is looked up
before the tables and an empty string is read behind its end (`stray` is what is found
there); a weight that is no number makes `stof` throw what nobody catches.

Numbers are doubles (`Double`: a sign and m * 2^e with m of `Bits` bits; every operation is
exact and then rounded to the nearest). `ReadNumber` multiplies the first 16 digits by
`pow(10.0, exp)`, with two roundings, and `exp` is summed up in an int (`InInt`,
`IntLimit`), so 0.3 is read as 3 * 0.1; `NumberText` writes 16 digits (`Decimal`). So the text
of a number need not be read as the number written, and two numbers, 0.3 and 0.1 + 0.2, are
unequal and have one text. `ReadsWhatIsWritten` says of a text that the value is within a
few units of the last place of the double nearest to what it denotes (`Near`), and
`TextIsTheValue` the same of what is written and read; `Displayed` is a value with the
digits that are written. `pow` is taken to be rounded like a product.

### DesktopEntries

One `.desktop` file, a line a step (`SkipLine`, `ReadHeading`, `ReadKeyValue`), then
`Publish`, which adds icon and id and builds the actions. A word is one character.
Everything thrown on the way ends the service, so `outcome = "thrown"` is final.
`buildActions` promises a value and has no return statement; its caller destroys what
it finds, and the outcome `Crash` stands beside `Publish`.

### IconService

Until `phase = "serve"` the main thread builds: `Visit` is the body of the loop over the
theme directories, with the theme reader and the icon collector in it (`ThemeDirs` is
what a directory can hold), `MapResources` the end of it, `BuildThrows` an exception. An index.theme
without `Inherits` (`NotSet`) leaves the template's hicolor; an empty `Inherits` (`None`) is
stored like any other and cuts the theme off (`cutOff`).
Then workers answer: `Begin`, or `SizeThrows` when `std::stoi` ends the process, `Open` (the reference to the icons of a theme), `LookUp`,
`Inherit`, `Pixmaps`, `Done`. The maps are read with `operator[]`, which inserts what it does
not find (`AddTheme`, `AddParent`: the decision is a step of its own before them), and
all workers may do so at once. That is undefined behaviour; `Stray` stands for a
lookup that meets an insertion and goes on anywhere. `raced` and `corrupt` remember it,
and `AnswerIsClosest` and `LookupEnds` speak of the other lookups. The model keeps
`Inherits` as the code does: one string, a list of themes taken for one name.

### WindowManager

`stacking` and `look` are the X server, which changes at any step; `place` is where the
event loop is. A round lists the windows (`ListWindows`), reads them one by one
(`ReadWindow`), takes them again one after the other (`NextWindow`, counted by `added`), adds the
images of the icon of each one by one (`SkipImage`, or `CreateFile`, `WriteFile`, `PushBack`)
and only then publishes. `configures` counts the ConfigureNotify
events that wait; `NextEvent` takes one and drops the rest, as `XSync` does. No X error
handler is installed (`init` has no caller), so a window that has closed ends the
process (`WindowIsGone`, and the second case of `Post`); `files` stays behind, with the
file that was being written half written and never repaired (`torn`), while
`iconPaths` is read again at the next start (`ReadIcons`). `NoIconDirectory` is the
exception `subdirectories` throws when there is no cache directory yet. What is read is
the list the window manager sets, at a time of its own, while ConfigureNotify is the X
server's: `XChange` sets the list, `Configure` sends the event, and neither does the other.
`stale` remembers a change no ConfigureNotify has followed: a new order, windows that
open, close or get a title send none that is acted on, and events before
`XSelectInput` are lost. `Publish` is followed by the writes to the clients of `/notify`, which
return (`Notified`) or raise SIGPIPE (`NotifyDies`).

A worker may be asked for any icon: for a prefix mapping `getResource` sets a
`matchedLength` of its own, so `remainingPath` is indeterminate (`GetIcon` takes any name, and
`GetFaults` is a read outside the process). The size is an unsigned long put into an int
(`ToInt`) and compared with unsigned sizes (`ToUnsigned`): a negative one is taken for one
above all. A worker that
chooses an icon while `PushBack` changes the map (`disturbed`) may send anything; it may
also send nothing, because a file's name is relative to the directory the process
runs in. Two icons with one hash share a name. A title of more than 128 bytes loses
up to three (`GetProp`).

### DesktopService

`apps` and `lists` are the `.desktop` files and the `mimeapps.list`s, in the order
`collect` reads them (`Sources`). Others change them (`ChangeApp`, `ChangeList`,
`ChangeOther`), and create directories (`CreateDirectory`); workers change the user's list
(`Begin`, `ReadList`, `Truncate`, `WritePart`, `Write`). A change in a watched directory appends
an inotify event; one in a directory that was not there at the start (`Late`) does not,
since watches are set once. The loop polls, reads, waits for quiet and
collects, one source a step, so that files change in between. `Read` takes several
events and looks at the first, as the code does; `missed` remembers that one behind it
mattered, or that a change had no event. Whatever the readers throw ends the service
(`pc = "dead"`): a half-written `.desktop` file (`Partial`), one that is gone when it is
opened (`FileVanishes`), a list that is malformed, or cut off because it is being
written (`Malformed`). `Publish` stands for the rest of a collection; it writes to clients, so
it is not fair, and `NotifyDies` is SIGPIPE. `AddAssociations` and
`AddDefaultApplications` are `MimetypeCollector`'s: they drop a type that is not among the
`Known` ones.

A PATCH sets the defaults of `remainingPath`, which is the empty string for a resource
that is mapped exactly (`Exact`), not of the mime type it is sent to (`Patched`). `serial` is the
list as PATCHes and other writers would leave it one after the other; two that overlap
(`alone`) lose one update, or leave the end of the longer list behind the shorter, and then
`serial` is what is there.

### Connman

connman and the controller, with the queue of `signals` between them. The constructor
waits for two replies (`GetTechnologies`, `GetServices`) while signals gather; then the
event loop handles one at a time. `onServicesUpdated` is a step up to its loop, one for
each service of the list (`ListService`: added to the map if it comes with a name, left
out if it is neither named nor known), and `ListEnd` with the `update`. connman announces
services in bulk, some time after they change (`toAnnounce`), and may go down and come
back without a word (`Restart`): what it had not announced is never announced, its
technologies are `lost`, and until it announces services again (`restarted`) nothing takes
the old ones back. A reply may be an error, whose value is the empty list: what was there
then is in `missedTechnologies` and `missedServices`. Nothing listens in this service, so no
client can hold up an update, which is why the whole loop is fair.

### PowerService

UPower and login1 change at any step; the service asks for the devices once
(`EnumerateDevices`), for each action (`AskAction`), then for the properties of each
device, one call a step (`CollectDevice`), publishes all of them (`UpdateDevices`), and
starts over with the next signal. Each call may end in an error, which is taken for a
device without properties, or an empty list. Only the display device has its signal connected:
`silent` holds the devices that have changed, or failed to answer, with no such signal
after it, also those plugged in or out. A device's State stands for its properties.

## The runs

| run | instance | what it shows |
|---|---|---|
| `SocketQueue` | 2 workers, 4 connections, capacity 2, backlog 2 | types and bound of the array, `WorkConserving`, `SingleOwner`, `InArrivalOrder` (refinement of `ConnectionFifo`), `QueuedIsServed` |
| `SocketQueueFull` | the same | violation of `PushReturns`: a full queue puts the listener to sleep for ever |
| `Resources` | 2 paths, 2 contents of which one is undefined in part, 1 client, 3 rounds | `PublishedIsSnapshot`, `OnlyChangesReplace`, `SubscribersConverge` |
| `ResourcesLock` | the same | violation of `HandlerStaysMapped`: the resource of a request is replaced under it |
| `Streams` | 3 clients, room for 2 messages, 3 notifications; 3 workers, 2 lists of locales | `StreamIsTail`, `NotifyReturns`; `AnswersOwnLocales` |
| `NotificationStreamStall` | 2 clients | violation of `EitherWayDisconnected` |
| `SortedMap` | 3 keys, 2 values, up to 4 entries | `Sorted`, `SearchReturns`, `SearchEnds`, `IsDictionary` |
| `Readers` | 23 requests with `Capacity` 32; 10 JSON texts and all neighbours of each, 4 with large exponents, 26 values in pairs, 10 headers with 4 languages; 2 `.desktop` files and their neighbours | types and bounds of the HTTP buffer, `ParseMatchesText`, `StringsEndInBuffer`, `RequestReturns`; `ReadsWhatIsWritten`, `TextIsTheValue`, `BestLanguageIsWritten`; `EntrySaysWhatTheFileSays`, `UnchangedUnlessNoCommand` |
| `Icons` | 3 themes, 2 icons in 2 directories each, `MaxVisits` 3, 2 workers; 2 windows, 2 icons with one hash, `MaxWindowChanges` 3, `MaxStarts` 2, and 4 of both together | `TypeOK`, `AnswerIsClosest`, `ParentsLeadToHicolor`, `LookupEnds`; `IconsBeforeWindows`, `ClosestIconIsSent`, `WindowsCatchUp` |
| `IconServiceLoop` | icon service with two themes that inherit from each other, 1 worker | violation of `LookupReturns` |
| `DesktopService` | 2 applications, 2 known mime types, one that is not and the empty one, 5 sources, one of them a directory created later, `MaxChanges` 3, `MaxBatch` 2, 2 workers | `IdleMeansUpToDate`, `PatchesAreSerial`, `CatchesUp` |
| `Daemons` | 2 technologies, 2 services, `MaxChanges` 4; 2 devices and the display device, 2 states, 1 action, `MaxPowerChanges` 3 | `OrderIsKnown`, `TechnologiesMatch`, `ServicesMatch`, `ConnmanCatchesUp`; `DevicesMatch` |

### Bounds, and why they are enough

* `SocketQueue`: two workers, so that one may take what another was woken for; a
  capacity of two, so that the array is shifted and gets full while the workers, the
  listener and the backlog hold the other connections. The safety properties are
  proved without these bounds.
* `Resources`: three rounds give a path the life add, change, remove and add again;
  two paths make an update that is half done. All three properties are proved for all
  bounds. Clients do not interact, so one is enough for `SubscribersConverge`.
* `Streams`: three sockets have a first, a middle and a last position in the vector;
  the buffer takes the header and one notification before it is full. Three workers
  are one that inserts, one that sends and one that waits. Both safety properties are
  proved without these bounds.
* `SortedMap`: with four entries the bisection has a round that goes right and one
  that goes left, and a batch can repeat a key, before or after another.
* `Readers`: each place of the HTTP reader meets a character it accepts and one
  it refuses in some text; one text is longer than `Capacity` (8190 in the code), so the
  buffer fills in every other place too. TLC tries all ways to cut each text. The bounds,
  the ends of strings and `ParseMatchesText` are proved for all `Texts` and any `Capacity`.
  The JSON texts have each construct in them; the neighbours of a text lack a character or
  have another one in a place, so every way to break off is among them. `MaxDigits` 4 (17 in
  the code), `Precision` 3 (16), `NumberRoom` 10 (25), `FirstCapacity` 4 (128) and `MaxHeader`
  16 (1023) make short texts reach the limits; the buffer doubles several times. A double of
  `Bits` 9 (53), `Lowest` -30 and `Highest` 30 (-1074, 1024) stands to 3 digits as the real one
  to 16: there are two doubles with one text, numbers too large and too small, and
  `IntLimit` 100 (2^31) is an exponent an int does not hold. For Content-Length an int is
  within 128 (`Half`) and an unsigned long below 65536 (`Wrap`): the numerals are one of each
  kind, plain, behind the buffer, in front of it, in the text, wrapped and out of range. The
  neighbours of a `.desktop` file lack a line or a word, or have two lines exchanged.
* `Icons`: three visits make a theme that lives in two icon directories, in
  either order, with hicolor, or without; one of the requests is for a theme that is
  named and not installed, so both kinds of insertion happen with a second
  worker in each place of a lookup. Two starts are a crash and what comes after it;
  two icons with the same hash have three images between them, one that is not square;
  three changes while one process runs, or two and a second process (`MCBound`). Sizes asked
  for are 32, a negative one, and one beyond an int (`Half` 128, `Wrap` 65536). The invariants and
  `ClosestIconIsSent` are proved for any themes, requests, windows, images and numbers of steps.
* `DesktopService`: three changes are enough for two PATCHes with another writer between
  their steps, for a directory and a change in it, and for a change while the loop
  collects, polls or waits; a batch of
  two is enough for an event behind another. Both invariants are proved without the bounds.
* `Daemons`: four changes let a service come, go and come back with another one between,
  before, during or after the replies, or with a restart; three changes of devices are
  one read, one missed and a signal, in any order. `OrderIsKnown`, `TechnologiesMatch`,
  `ServicesMatch` and `DevicesMatch` are proved without the bounds.

`CHECK_DEADLOCK FALSE` stands where the bounds stop the model (rounds, notifications,
changes), the work ends (`Readers`: one text), or the system dies
(streams: SIGPIPE; the icon, wm and desktop services: an exception or an X error).

### Fairness

The operating system runs threads that can run, so each step that waits for nothing but
the processor is weakly fair, and so is a read of a request, which returns within 200 ms
whatever the client does. A write has no timeout and waits for a client that does not
read; none of these is fair, and where a property needs the clients to read, it says so
in a hypothesis, without which it is false:

* `SocketQueue`: the listener and a worker's pop (`Take`) are fair. Answering
  (`ReadRequest`) is not: the write may wait, a registration may wait for the mutex of the
  streams, the walk over the icon themes may not end. `QueuedIsServed` asks that one
  worker keeps coming back (`KeepsComingBack`), `PushReturns` that every one does; it is
  violated even so.
* `NotificationStream`: the loop of `notifyClients` and the registration are fair where the
  buffer has room and the mutex is free. `NotifyReturns` asks that each client reads
  its stream again and again or hangs up (`ClientsKeepUp`).
* `WindowManager`, `DesktopService`: the X event loop and the inotify loop are fair but for
  the notifications in `updateCollection` (`Notified`, `Publish`). `WindowsCatchUp` and
  `CatchesUp` ask that these end (`ClientsRead`). In `DesktopService` reading and writing
  the list is fair; it waits for no client.
* `IconService`: a worker is fair from the request to the answer, as every lock it meets
  is shared; sending the answer (`Done`) is not.
* `Connman`: the event loop is fair, its updates included, for this service never
  listens and has no client that could hold it up; connman sends what it has to announce.
* `HttpMessageReader`, `SortedMap`: reading and the bisection are fair.

Spurious wakeups are not fair, nor are those who connect, subscribe, PATCH or change files,
windows or devices: `CatchesUp` and `WindowsCatchUp` speak of the time after the last change,
and so does `ConnmanCatchesUp`. A start of the wm service is not fair, for nothing in the
repository starts it again: `WindowsCatchUp` asks for nothing when the process is down, nor
`CatchesUp` when the desktop service is. Where components share a run, the fairness of
each is stated for the behaviors in which it is the one at work. `Resources`, `JsonResource`,
`PowerService` and the pure algorithms state none: an access to a destroyed object may end
the process at any step, a client may keep the lock of the cache, and the others have no
liveness to show.

## What is proved

`SocketQueueProofs`, from `SocketQueueAssumption` (a positive capacity and backlog,
finitely many workers, at least one, distinct thread names):

* `TypeCorrect`: `Spec => []TypeOK`. `Len(sockets) <= Capacity` is part of it: no
  overrun of the array. `TypeOK` is inductive by itself.
* `OwnershipCorrect`: `Spec => []SingleOwner`, by induction with `TypeOK`, from the lemmas
  on elements and repetitions of sequences.
* `NoLostWakeup`: `Spec => []WorkConserving`: a count of awake workers and the notification to
  come; the sleeping listener makes no difference because the one thread
  that notifies `notEmpty` is the listener itself.
* `ServiceImplementsFifo`: `Spec => InArrivalOrder`: initial states map to initial
  states, and each step to a step of `ConnectionFifo` or to a stutter.

`ResourcesProofs`, from `ResourcesAssumption`:

* `TypeCorrect`, `PublishedCorrect` (`PublishedIsSnapshot`) and `ReplacementCorrect`
  (`OnlyChangesReplace`). `PublishedIsSnapshot` speaks of idle states only, so it is
  far from inductive: `Progress` says of every state which paths have the content of
  the snapshot (those no longer in `addOrReplace` or `remove`) and that the others
  still differ from it, and `AtEach` what each place in the code implies. That
  `First` picks a path needs the least element of a set of naturals (`LeastElement`).
  `OnlyChangesReplace` speaks of the equality of the code, of which nothing is assumed:
  content that holds something undefined (`Incomparable`) is replaced by itself.
* `SubscribersCorrect` (`SubscribersConverge`). The property speaks of a client with an
  empty inbox, nothing stale and no request under way, which is not `exposed`: no request
  of its own met a half-done update, and nothing was announced between its header and
  its registration, which are two steps. `FollowInv` says of any client
  what its last event about a path means: without one the client never asked for what
  has changed since it subscribed (`Stranger`), with one its mirror, once it has asked
  again, is the content of the last announced round (`Follows`), where an update that is
  erasing counts as having erased (`Gone`) and every other as not begun (`Current`).

`StreamsProofs`, about `NotificationStream`, from `NotificationStreamAssumption` (a buffer has room for something):

* `StreamTypes`: the types; in particular the iterator is in the vector or one behind
  its end, also after an erase. `StreamIsTailAlways` (`StreamIsTail`): the vector has each
  socket once, and what a socket has been sent lacks at most the notification of the
  round that has not come to it.

`StreamsProofs`, about `JsonResource`, from `JsonResourceAssumption` (no list of locales is called like
the marks of the model):

* `CacheTypes`, `CacheMutex` (a writer holds the mutex alone) and
  `CacheAnswersOwnLocales` (`AnswersOwnLocales`). `CacheInv` ties the place of a worker to the
  lock it holds; with `Mutex` nobody is at `find` or `send` while another inserts, so no
  text is torn, and what is in the cache is the text for its key.

`SortedMapProofs`, from `SortedMapAssumption` (keys are integers):

* `TypeCorrect`, `SortedCorrect` (`Sorted`) and `SearchCorrect` (`SearchReturns`). The
  invariant follows the loops: `SearchInv` says that everything below `lo` is smaller
  than the key and everything from `hi` on larger, `FoundInv` what the position found
  then is, and `CompactInv` that in the loop of `endInsert` the kept entries ascend
  strictly and none still to come is smaller than the last one kept. The lemmas
  `InsertAtEntries` and `EraseAtEntries` say what moving the entries does.
* `MapImplementsDictionary` (`IsDictionary`): `Init` maps to the empty dictionary, and each
  step to a step of `Dictionary` or a stutter. What the vector means during a batch is
  the last entry of each key; a lookup and its insertion are one step of the dictionary.

`HttpMessageReaderProofs`, from `CapacityAssumption` (a natural number) and
`NumeralsAssumption` (`int` reaches beyond the buffer, `unsigned long` is a whole number of times
as wide, and the numerals stand for integers of any sign and size), and for `ParseCorrect`
also `TextsAssumption` (a text is a sequence without a `'\0'` of its own, which would end a
string early in the code):

* `StringsCorrect` (`StringsEndInBuffer`). `StringsInv` says of each string handed out
  that it starts at a byte received and that the byte that ended it has become a zero
  before the reader went on: the target and its parameters (`TargetEnds`), the headers
  (`HeadersEnd`); the bytes it cuts at have all been received
  (`CutsReceived`). The body is ended by the zero `receive` has put behind the last byte
  received (`BodyEnds`), also where its Content-Length is negative and the reader's own zero
  falls in front of it. Where that zero falls outside the buffer, or the end of the body is
  a sum that is no `int`, the outcome is "wild", and no request is handed out.
* `TypeCorrect` (`TypeOK`): the reader, its cuts and the starts of its strings stay in the
  buffer. It may be one position behind what has been received, after a byte it
  did not wait for, and then waits before it looks at the next (`InBuffer`).
* `ParseCorrect` (`ParseMatchesText`): what is read is the request of the text if the
  Content-Length is none or one that can be added to a position (`PlainLength`), what is
  answered 400 or 406 is not well-formed, and only a well-formed text with another
  Content-Length ends "wild", in whatever pieces the text comes. The property
  speaks of the end only. `ParseInv` says of each place in the code what the reader has
  found when it is there, as a relation between a position, the cuts and the text:
  of the method that no blank comes before it (`MethodRead`); of the query that the
  parameters say what its pieces so far say (`QueryRead`), or all but the last one while it
  is being read (`ParameterRead`); of the header lines that those read and those that
  `HeadersFrom` still finds here are those of the whole text (`HeadersRead`), and of the line
  under way where its colon and the end of its trimmed value are (`LineRead`). A string is
  known by the first cut behind its start (`FirstCut`), which later cuts, made further on,
  do not change. Where the reader has looked at a byte that is not there yet (`Looked`), the
  byte that comes must be none of the delimiters; that is what `~torn` gives
  (`ReceiveParses`). There is one lemma per action (`ReadPathParses`, `EndHeaderLineParses`...).
  The recursive functions are shown to exist, and so to be what their equations say
  (`PiecesToIs`, `HeadersFromIs`), by the least position that lacks one; the
  induction over the text is then that over the steps of the reader. TLC checked
  `ParseInv` on the texts of `Readers` before.

`IconsProofs`, about `IconService`, from `IconServiceAssumption` (names are finitely many; "wild", "unset"
for a file without Inherits and "none", which is the empty string, are none of them, though
an Inherits may be "none"; the bounds of a directory are any integers):

* `TypeCorrect` (`TypeOK`), by induction with `Quiet` (nobody asks before the maps are built)
  and `Holding` (what a worker has at each place). That `Collected` is a list of instances
  needs `EachPlaceIsTaken`: the k-th of a finite set of numbers exists.
* `HicolorReached` (`ParentsLeadToHicolor`): every installed theme but hicolor has a parent
  and keeps it, unless the Inherits read last for it is empty (`cutOff`, `HicolorInv`), so a
  walk that ends can end only at one that is not installed, at hicolor or at such a theme; the last name before the end is found with `LeastElement`.
* `AnswerCorrect` (`AnswerIsClosest`). `Way` says of a lookup nothing has disturbed that the
  theme it has got to is on the walk from the one asked for and that no theme before it
  has any of the names. The walk of the property has as many places as there are names:
  that a lookup in a circle of parents, however long it goes on, stays on it is the
  pigeonhole principle (`Repeats`, `NextOnWalk`); that insertions by others change no lookup is
  `WayKept`. The recursive function `Walk` is shown to exist and to be a walk
  (`WalkIsWalk`) by the least prefix that lacks one.

`IconsProofs`, about `WindowManager`, from `WindowAssumption` (windows are finitely many, looks and
images are of the shape their names say; the number asked for is any integer, `int` and
`unsigned` have their width, and no image is as large as a negative `int` taken for an
`unsigned`; of the hash nothing is assumed, so any two icons may share a name):

* `WindowTypes` (`WindowTypeOK`), with `AllTyped` and `Asking`: a file that is being written is the
  next image, and a worker that chooses was asked for an icon that has sizes, which
  `addIcon` never takes away.
* `WindowIconsCorrect` (`IconsBeforeWindows`). The property speaks of what is published; `IconInv`
  says what a round has done so far: `Known`, the files but the one still to be pushed,
  is what `iconPaths` names, each once (`PathsKnown`, again after a restart); the
  images of the windows given to `addIcon` have a file or are still to be added
  (`AddedKnown`), and those of the windows published are known (`WindowsKnown`); a file
  that is not whole is being written or was when a process ended (`WholeOrTorn`). The
  invariant was checked by TLC on the instance of `Icons` before.
* `ClosestSent` (`ClosestIconIsSent`): a step that sends an icon chose it, and `Closest` is a
  size of the list whose distance no other is below (`ClosestIs`, from `LeastElement`:
  the least distance, and the first place that has it, exist). The distance is the one of
  the code, between unsigned numbers, so for a negative size it is least at the
  largest icon. The icon is one of the name looked up, which need not be the name asked
  for (`remainingPath` is indeterminate); of a number that is no `int` nothing is said.

`DesktopServiceProofs`, from `DesktopServiceAssumption` (the last of the sources is the user's
list, "no file" is not a type, what others and PATCHes write is of the shape the readers
give it; a list may name an application twice, since nothing in the code prevents it):

* `TypeCorrect` (`TypeOK`), inductive by itself, in the parts an action touches together.
* `PatchesCorrect` (`PatchesAreSerial`). The property compares the file, when nobody is
  writing, with what PATCHes and other writers leave that do not overlap (`serial`; one
  that overlaps another makes it what the file is then). `PatchInv` says that of two
  workers between reading and writing neither is alone (`OneIsAlone`), that the list of
  one that is alone is `serial` with its PATCH (`ListIsSerial`), and that the file it has
  open is still empty or cut off, as nobody else has written to it (`FileIsOpen`).
* `IdleCorrect` (`IdleMeansUpToDate`). The property speaks of an idle loop; `LoopInv` says of a
  collection under way that an event is still to come or that what it has read so far
  is what the files say now (`Fresh`), and that until then what is published is what they
  say, or an event is to come or has been seen. Excepted is what the loop cannot know
  (`missed`): an event read behind another one, and a change in a directory that has been
  created after the start. `Fresh` is `UpToDate` cut off at a
  source: `TypesIn` and `InOrderTo` are `MimetypesOf` and `InOrder` for the sources before it,
  and `TypesOfDir`, `TypesOfList` and `InOrderNext` what one more source makes of them. That
  merging two lists keeps the order of both needs where each element that stays goes
  to (`WithoutIs`, from `RankGrows` and `EachPlaceIsTaken`).

`DaemonsProofs`, about `Connman`, from `ConnmanAssumption` (the bound on changes is a natural number):

* `TypeCorrect`, `OrderCorrect` (`OrderIsKnown`, inductive with the types), and
  `TechnologiesCorrect` (`TechnologiesMatch`). The last speaks of an empty queue only. Its
  invariant says what the queue means: the latest signal about a technology tells
  whether connman has it (`NewsIsTrue`), without one the map does (`NoNewsIsOldNews`); but
  for those connman `lost` when it went down, which it never takes back, and those a
  failed `GetTechnologies` did not list (`missedTechnologies`).
  `AppendAbout` and `TailAbout` say how sending and handling change the latest signal.
* `ServicesCorrect` (`ServicesMatch`): as for technologies, for the services and their
  order. Nothing is said from the time connman goes down to its next announcement
  (`restarted`), nor of services that had no name when they were added (`hidden`) or that
  a failed `GetServices` did not list (`missedServices`). What is published is said by an increasing enumeration of the order rather than by
  `SelectSeq`, of which, being recursive, the prover knows nothing.

`DaemonsProofs`, about `PowerService`, from `PowerAssumption` (the display device is none of the others, states
are integers):

* `PowerTypes` and `DevicesMatchAlways` (`DevicesMatch`). The property speaks of the time
  between readings; `PowerInv` says of a reading under way that each device already
  asked is known as it is, or a signal waits, or it has changed, or failed to answer, and
  no signal has followed (`silent`).

Only model-checked: all liveness (`QueuedIsServed`, `NotifyReturns`, `SearchEnds`,
`RequestReturns`, `LookupEnds`, `WindowsCatchUp`, `CatchesUp`, `ConnmanCatchesUp`), which is out
of the prover's reach with its fairness; and the JSON and `.desktop` readers and the
JSON writer (`ReadsWhatIsWritten`, `TextIsTheValue`, `BestLanguageIsWritten`,
`EntrySaysWhatTheFileSays`, `UnchangedUnlessNoCommand`), whose definitions are recursive
over trees of values (and induction over data is out of reach as well). `WindowTypeOK` is proved and not checked by a run.

## What the violations mean

* `SocketQueueFull`: `push` waits on `notEmpty`, `pop` notifies `notFull`, on which nobody
  waits. It takes 32 waiting connections; haproxy limits itself to 20, clients
  that use the Unix socket directly are not limited.
* `ResourcesLock`: the lock called `writeLock` in `updateCollection` is shared.
* `NotificationStreamStall`: the comment in `notifyClients` says a client that cannot
  take a notification is disconnected; a blocking write without a timeout waits for it
  (holding the mutex addClient needs), and one that has gone raises SIGPIPE. TLC
  reports the second; the first is the other behaviour of the same run.
* `IconServiceLoop`: "Thou shalt not loop forever" (`iconresourcebuilder.cpp:77`) is kept for
  hicolor only. Two themes that inherit from each other hold a worker for ever at
  the first request for an icon neither has; four requests hold all of them.

## What the modules show without a violation

No line of the repository promises otherwise, so these have no run; the properties
name them as exceptions, and a maintainer should know of them:

* Requests: a Content-Length that is negative or does not fit an `int` makes the reader
  write a zero before the body, or outside the buffer (`WriteOutside`). A weight of
  Accept-Language that is no number, or a size that is none in a request for an
  icon (`SizeThrows`), ends the process.
* Prefix mappings: `remainingPath` is the path and an `int` nobody has set, so a request below
  `/icons` of the wm service gets any icon, none, or ends the process (`GetFaults`).
* Notifications: what is announced between the header of a client and its registration
  never reaches it (`exposed`).
* JSON: equality is false for a value with something undefined in it, so an application
  without a command is published and announced anew in each round
  (`UnchangedUnlessNoCommand`, `Incomparable`); copies of Booleans are numbers
  (`TextIsTheValue`). 0.3 and 0.1 + 0.2 have one text and are not equal; a number read is the
  double nearest to its text only if a power of ten and a product are exact, and a long
  exponent leaves the `int` it is summed in.
* icon service: an empty Inherits, which the reader accepts, cuts a theme off from hicolor
  and from all it would inherit (`cutOff`).
* wm service: a window that closes at the wrong time ends the process; windows that open
  or close are noticed with the next window that moves, and the list the window manager
  sets after that is not noticed; half a png stays for ever; icons are found only if
  the process runs in the cache directory; a negative size gets the largest icon.
* `buildActions` returns no value, `getAcceptedLocales` ends without its return; in a
  debug build both happen to go well, or crash.
* desktop service: a PATCH sets the defaults of the type '', whatever resource it is sent to
  (`Patched`). One with an element that is no string is answered 422, and the list is
  written without that element and 204 sent all the same; `Patches` holds what is left.
  A list that cannot be written is answered 204 too. Directories created after the start
  are read and not watched. A malformed list, and a `.desktop` file that is half written
  or gone when it is opened, end the service.
* connman service: an error in place of a list is taken for an empty one; what connman lost
  when it went down stays published, the technologies until they come and go again, the
  services until the next announcement. Nothing of it can be fetched, as the service
  never listens.
* power service: devices other than the display device are as old as its last signal;
  a device that is plugged in later is never published.

## What is not modelled, and why

* Nothing calls them: `shutDown`, listening on a port, the unmap functions, `setJson` on a
  published resource, `find`, `take` and `insertAt` of JSON arrays, `readResponse` (the side of
  a client, which no service is), `lib/queue.h`, `webserver.cpp`.
* Once, at start-up: `mapPath` and `mapPrefix` (though after `listen`, so a request may come
  in between). `find_longest_prefix` returns the predecessor of a path whether or not it
  is a prefix; with the one prefix there is (`/icons`) any unknown path above it goes to
  the icons of the wm service.
* Input and output without decisions that interact: walking directories, environment
  variables, logging, sendfile, descriptors; `findByPath` of the icon service (it answers
  from the file system alone); geometry, `_NET_WM_STATE` and `/display` of the wm service.
* A notification longer than its buffer of 300 bytes throws out of `updateCollection`; nobody
  catches it and the process ends.
* The XML of mime types, read by an external parser; starting an application (`doPOST`
  takes an object for a string and throws for every action); `Removed Associations`,
  which have no effect in the code because an application's own name is looked for among
  its mime types, and `Hidden`, which no reader sets.
* The properties of connman's services, which are published with the next update for
  another reason, its agent, which answers no question yet, and the properties of a power
  device beyond its State.
* Line and column in error messages; the tables of names in `httpprotocol.cpp`; the vendored
  test framework, unit tests, scripts, the configuration of haproxy.
