------------------------------ MODULE Connman ------------------------------
(***************************************************************************)
(* connman-service/controller.cpp: which technologies and services of       *)
(* connman are published, from the replies at start-up and the signals      *)
(* after it.                                                                *)
(*                                                                          *)
(* Signals come in the order connman sends them.  Those that come while the *)
(* constructor waits for a reply are handled after it, so old news follows  *)
(* the newer reply.  A handler is a step with the update() it ends with,    *)
(* but for onServicesUpdated, whose loop over the services is a step for    *)
(* each; how the update gets to the resources is the subject of Resources.  *)
(* The values of properties are left out, but for whether a service has a   *)
(* Name: update() is the only one to publish them, and onPropertyChanged    *)
(* does not call it.                                                        *)
(*                                                                          *)
(* main.cpp starts the event loop and nothing else: connman-service never   *)
(* calls service::listen, so what it publishes cannot be fetched, and no    *)
(* client can hold up its updates.                                          *)
(***************************************************************************)
EXTENDS Naturals, Sequences, FiniteSets

CONSTANTS Technologies, Services,
          MaxChanges    \* bound: changes in connman

ASSUME ConnmanAssumption == MaxChanges \in Nat

VARIABLES
    \* connman:
    technologies,       \* those there are
    services,           \* in connman's order
    hidden,             \* services that had no Name when they were added
    toAnnounce,         \* what the next ServicesChanged has to say
    changes,            \* how many there have been
    signals,            \* sent, and not handled yet
    \* the controller:
    pc,                 \* in the constructor, "exec", or "list": in onServicesUpdated
    listed,             \* the services its loop has still to see
    technologyObjects, serviceObjects,    \* keys of the maps
    servicesOrder,
    published,          \* the devices update() has published last
    \* history:
    lost,               \* technologies connman forgot when it went down
    restarted,          \* it has gone down, and announced no services since
    missedTechnologies, missedServices    \* there when the reply that was to list
                                          \* them was an error

connman == <<technologies, services, hidden, toAnnounce, changes, lost, restarted>>
missed == <<missedTechnologies, missedServices>>
controller == <<listed, technologyObjects, serviceObjects, servicesOrder, published>>
vars == <<connman, missed, signals, pc, controller>>

Elements(s) == {s[i] : i \in DOMAIN s}
NoNews == [due |-> FALSE, added |-> {}, removed |-> {}]

\* A service in a list: connman sends the properties of a new one; "known": none.
Listed == [service : Services, name : {"some", "none", "known"}]

TechnologySignals == [kind : {"added", "removed"}, technology : Technologies]
ServicesSignals == [kind : {"services"}, services : Seq(Listed), removed : SUBSET Services]

TypeOK ==
    /\ technologies \subseteq Technologies /\ lost \subseteq Technologies
    /\ services \in Seq(Services) /\ hidden \subseteq Services
    /\ toAnnounce \in [due : BOOLEAN, added : SUBSET Services, removed : SUBSET Services]
    /\ changes \in 0 .. MaxChanges
    /\ signals \in Seq(TechnologySignals \cup ServicesSignals)
    /\ pc \in {"GetTechnologies", "GetServices", "list", "exec"}
    /\ listed \in Seq(Listed) /\ (pc # "list" => listed = <<>>)
    /\ technologyObjects \subseteq Technologies /\ serviceObjects \subseteq Services
    /\ servicesOrder \in Seq(Services)
    /\ published \in [technologies : SUBSET Technologies, services : Seq(Services)]
    /\ restarted \in BOOLEAN
    /\ missedTechnologies \subseteq Technologies /\ missedServices \subseteq Services

\* connman runs and the signals are connected.
Init ==
    /\ technologies \in SUBSET Technologies /\ lost = {}
    /\ services = <<>> /\ hidden = {} /\ toAnnounce = NoNews
    /\ changes = 0 /\ signals = <<>>
    /\ pc = "GetTechnologies" /\ listed = <<>>
    /\ technologyObjects = {} /\ serviceObjects = {} /\ servicesOrder = <<>>
    /\ published = [technologies |-> {}, services |-> <<>>]
    /\ restarted = FALSE /\ missedTechnologies = {} /\ missedServices = {}

-----------------------------------------------------------------------------
\* connman

Change == changes < MaxChanges /\ changes' = changes + 1
Send(s) == signals' = Append(signals, s)

AddTechnology(t) ==
    /\ Change /\ t \notin technologies
    /\ technologies' = technologies \cup {t}
    /\ missedTechnologies' = missedTechnologies \ {t}
    /\ Send([kind |-> "added", technology |-> t])
    /\ UNCHANGED <<services, hidden, toAnnounce, lost, restarted, missedServices, pc, controller>>

RemoveTechnology(t) ==
    /\ Change /\ t \in technologies
    /\ technologies' = technologies \ {t}
    /\ lost' = lost \ {t}
    /\ Send([kind |-> "removed", technology |-> t])
    /\ UNCHANGED <<services, hidden, toAnnounce, restarted, missed, pc, controller>>

\* A service appears at some place of the order, with a name or without.
AddService(s, named) ==
    /\ Change /\ s \notin Elements(services)
    /\ \E i \in 0 .. Len(services) :
          services' = SubSeq(services, 1, i) \o <<s>> \o SubSeq(services, i + 1, Len(services))
    /\ hidden' = IF named THEN hidden \ {s} ELSE hidden \cup {s}
    /\ toAnnounce' = [due |-> TRUE, added |-> toAnnounce.added \cup {s}, removed |-> toAnnounce.removed \ {s}]
    /\ missedServices' = missedServices \ {s}
    /\ UNCHANGED <<technologies, lost, restarted, missedTechnologies, signals, pc, controller>>

RemoveService(s) ==
    /\ Change /\ s \in Elements(services)
    /\ \E i \in DOMAIN services :
          /\ services[i] = s
          /\ services' = SubSeq(services, 1, i - 1) \o SubSeq(services, i + 1, Len(services))
    /\ toAnnounce' = [due |-> TRUE, added |-> toAnnounce.added \ {s}, removed |-> toAnnounce.removed \cup {s}]
    /\ UNCHANGED <<technologies, hidden, lost, restarted, missed, signals, pc, controller>>

\* ServicesChanged: all services in their order, and those removed.
Announce ==
    /\ toAnnounce.due
    /\ Send([kind |-> "services", removed |-> toAnnounce.removed,
             services |-> [i \in DOMAIN services |->
                 [service |-> services[i],
                  name |-> IF services[i] \notin toAnnounce.added THEN "known"
                           ELSE IF services[i] \in hidden THEN "none" ELSE "some"]]])
    /\ toAnnounce' = NoNews
    /\ restarted' = FALSE
    /\ UNCHANGED <<technologies, services, hidden, lost, missed, changes, pc, controller>>

\* connman goes down without a word and starts from nothing; the controller
\* does not watch for that, and what was still to be announced is not.
Restart ==
    /\ Change
    /\ technologies' = {} /\ lost' = lost \cup technologies
    /\ services' = <<>> /\ hidden' = {} /\ toAnnounce' = NoNews
    /\ restarted' = TRUE
    /\ missedTechnologies' = {} /\ missedServices' = {}
    /\ UNCHANGED <<signals, pc, controller>>

-----------------------------------------------------------------------------
\* Controller

Update(ts) == published' = [technologies |-> ts, services |-> servicesOrder]

OnServicesUpdatedUncleared(list, removed) ==
    /\ serviceObjects' = serviceObjects \ removed
    /\ listed' = list
    /\ pc' = "list"
    /\ UNCHANGED <<servicesOrder, technologyObjects, published>>

\* onServicesUpdated as far as its loop
OnServicesUpdated(list, removed) ==
    /\ serviceObjects' = serviceObjects \ removed
    /\ servicesOrder' = <<>>
    /\ listed' = list
    /\ pc' = "list"
    /\ UNCHANGED <<technologyObjects, published>>

\* The constructor, when the reply to GetTechnologies comes; the value of a reply
\* that is an error is the empty list.
GetTechnologies ==
    /\ pc = "GetTechnologies"
    /\ \/ technologyObjects' = technologies /\ UNCHANGED missedTechnologies
       \/ technologyObjects' = {} /\ missedTechnologies' = technologies
    /\ pc' = "GetServices"
    /\ UNCHANGED <<connman, missedServices, signals, listed, serviceObjects, servicesOrder, published>>

\* The reply to GetServices, with the properties of all;
GetServices ==
    /\ pc = "GetServices"
    /\ OnServicesUpdated([i \in DOMAIN services |->
                             [service |-> services[i], name |-> IF services[i] \in hidden THEN "none" ELSE "some"]], {})
    /\ UNCHANGED <<connman, missed, signals>>

\* and an error in its place.
GetServicesFails ==
    /\ pc = "GetServices"
    /\ OnServicesUpdated(<<>>, {})
    /\ missedServices' = Elements(services)
    /\ UNCHANGED <<connman, missedTechnologies, signals>>

ListServiceAlways ==
    /\ pc = "list" /\ listed # <<>>
    /\ LET s == Head(listed).service
       IN  /\ serviceObjects' = IF Head(listed).name = "some" THEN serviceObjects \cup {s} ELSE serviceObjects
           /\ servicesOrder' = Append(servicesOrder, s)
    /\ listed' = Tail(listed)
    /\ UNCHANGED <<connman, missed, signals, pc, technologyObjects, published>>

ListServiceOrWait ==
    /\ pc = "list" /\ listed # <<>>
    /\ LET s == Head(listed).service
       IN  /\ s \in serviceObjects \/ Head(listed).name = "some"
           /\ serviceObjects' = serviceObjects \cup {s}
           /\ servicesOrder' = Append(servicesOrder, s)
    /\ listed' = Tail(listed)
    /\ UNCHANGED <<connman, missed, signals, pc, technologyObjects, published>>

\* A round of the loop: a service that is not in the map gets there if it comes
\* with a name, and is left out of the order otherwise.
ListService ==
    /\ pc = "list" /\ listed # <<>>
    /\ LET s == Head(listed).service
       IN  \/ /\ s \in serviceObjects \/ Head(listed).name = "some"
              /\ serviceObjects' = serviceObjects \cup {s}
              /\ servicesOrder' = Append(servicesOrder, s)
           \/ /\ s \notin serviceObjects /\ Head(listed).name # "some"
              /\ UNCHANGED <<serviceObjects, servicesOrder>>
    /\ listed' = Tail(listed)
    /\ UNCHANGED <<connman, missed, signals, pc, technologyObjects, published>>

\* The end of onServicesUpdated, and of the constructor the first time.
ListEnd ==
    /\ pc = "list" /\ listed = <<>>
    /\ pc' = "exec"
    /\ Update(technologyObjects)
    /\ UNCHANGED <<connman, missed, signals, listed, technologyObjects, serviceObjects, servicesOrder>>

\* The event loop takes a signal.
Handle(kind) ==
    /\ pc = "exec" /\ signals # <<>> /\ Head(signals).kind = kind
    /\ signals' = Tail(signals)
    /\ UNCHANGED <<connman, missed>>

OnTechnologyAdded ==
    /\ Handle("added")
    /\ technologyObjects' = technologyObjects \cup {Head(signals).technology}
    /\ Update(technologyObjects')
    /\ UNCHANGED <<pc, listed, serviceObjects, servicesOrder>>

OnTechnologyRemovedUnpublished ==
    /\ Handle("removed")
    /\ technologyObjects' = technologyObjects \ {Head(signals).technology}
    /\ UNCHANGED <<pc, listed, serviceObjects, servicesOrder, published>>

OnTechnologyRemoved ==
    /\ Handle("removed")
    /\ technologyObjects' = technologyObjects \ {Head(signals).technology}
    /\ Update(technologyObjects')
    /\ UNCHANGED <<pc, listed, serviceObjects, servicesOrder>>

OnServicesChanged ==
    /\ Handle("services")
    /\ OnServicesUpdated(Head(signals).services, Head(signals).removed)

Controller ==
    \/ GetTechnologies \/ GetServices \/ GetServicesFails \/ ListService \/ ListEnd
    \/ OnTechnologyAdded \/ OnTechnologyRemoved \/ OnServicesChanged

Next ==
    \/ \E t \in Technologies : AddTechnology(t) \/ RemoveTechnology(t)
    \/ \E s \in Services : RemoveService(s) \/ \E named \in BOOLEAN : AddService(s, named)
    \/ Announce \/ Restart
    \/ Controller

\* The event loop runs, and connman announces what has changed.
Spec == Init /\ [][Next]_vars /\ WF_vars(Controller) /\ WF_vars(Announce)

-----------------------------------------------------------------------------
\* update: every service in the order has an object; serviceObjects[serviceId]
\* never makes a null entry to be dereferenced.
OrderIsKnown == Elements(servicesOrder) \subseteq serviceObjects

AllHandled == pc = "exec" /\ signals = <<>>

\* When the last signal is handled, the technologies of connman are published, but
\* for some that GetTechnologies failed to list, and no others but some that connman
\* has lost without saying so, whatever the order in which the reply at start-up and
\* older signals were handled.
TechnologiesMatch ==
    AllHandled => /\ technologies \subseteq published.technologies \cup missedTechnologies
                  /\ published.technologies \subseteq technologies \cup lost

Settled == AllHandled /\ ~toAnnounce.due

\* q is s in its order, without some elements that are in out.
ListsAllBut(q, s, out) ==
    \E f \in [DOMAIN q -> DOMAIN s] :
        /\ \A i, j \in DOMAIN q : i < j => f[i] < f[j]
        /\ \A i \in DOMAIN q : q[i] = s[f[i]]
        /\ \A j \in DOMAIN s : s[j] \in out \/ \E i \in DOMAIN q : f[i] = j

\* Then the services of connman are published in its order, all but some that
\* had no name when they were added or that GetServices failed to list.  A connman
\* that goes down says nothing, and its services stay published; what it announces
\* next puts that right.
ServicesMatch ==
    Settled /\ ~restarted => ListsAllBut(published.services, services, hidden \cup missedServices)

\* The controller catches up with connman once connman stops changing.
CatchesUp == <>[]Settled

=============================================================================
