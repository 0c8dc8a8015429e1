--------------------------- MODULE DaemonsProofs ----------------------------
(***************************************************************************)
(* Theorems about the two services that follow a system daemon over D-Bus,  *)
(* Connman and PowerService, for any technologies, services, devices,       *)
(* actions and any number of changes.                                       *)
(***************************************************************************)
EXTENDS Connman, PowerService, SequenceTheorems, TLAPS

-----------------------------------------------------------------------------
\* Connman.

Signals == TechnologySignals \cup ServicesSignals

\* A signal is of a technology or of the services, as its kind says.
LEMMA KindsOfSignals ==
    ASSUME NEW e \in Signals
    PROVE  /\ e.kind \in {"added", "removed"} => e.technology \in Technologies
           /\ e.kind = "services" => e.services \in Seq(Listed) /\ e.removed \in SUBSET Services
           /\ e.kind \in {"added", "removed", "services"}
    BY DEF Signals, TechnologySignals, ServicesSignals

\* Putting an element at a place of a sequence, or taking one away, leaves a sequence.
LEMMA PartsOfSeq ==
    ASSUME NEW S, NEW q \in Seq(S), NEW i \in 0 .. Len(q)
    PROVE  /\ SubSeq(q, 1, i) \in Seq(S) /\ SubSeq(q, i + 1, Len(q)) \in Seq(S)
           /\ i > 0 => SubSeq(q, 1, i - 1) \in Seq(S)
    BY SubSeqProperties, LenProperties

-----------------------------------------------------------------------------
\* The initial states are well typed.
LEMMA TypeInit ==
    Init => TypeOK
<1> SUFFICES ASSUME Init PROVE TypeOK
    OBVIOUS
<1>1. /\ signals \in Seq(Signals) /\ listed \in Seq(Listed)
      /\ services \in Seq(Services) /\ servicesOrder \in Seq(Services)
    BY EmptySeq DEF Init
<1>2. missedTechnologies \subseteq Technologies /\ missedServices \subseteq Services
    BY DEF Init
<1>5. changes \in 0 .. MaxChanges
    BY ConnmanAssumption DEF Init
<1>6. restarted \in BOOLEAN
    BY DEF Init
<1>4. toAnnounce \in [due : BOOLEAN, added : SUBSET Services, removed : SUBSET Services]
    BY DEF Init, NoNews
<1>3. published \in [technologies : SUBSET Technologies, services : Seq(Services)]
    BY EmptySeq DEF Init
<1> QED
    BY <1>1, <1>2, <1>3, <1>4, <1>5, <1>6 DEF Init, TypeOK, Signals

\* So is every step of connman,
LEMMA ConnmanTypes ==
    ASSUME TypeOK,
           \/ \E t \in Technologies : AddTechnology(t) \/ RemoveTechnology(t)
           \/ \E s \in Services : RemoveService(s) \/ \E named \in BOOLEAN : AddService(s, named)
           \/ Announce \/ Restart
    PROVE  TypeOK'
<1> USE ConnmanAssumption DEF Change
<1>1. ASSUME NEW t \in Technologies, AddTechnology(t) PROVE TypeOK'
  <2>1. [kind |-> "added", technology |-> t] \in TechnologySignals
      BY DEF TechnologySignals
  <2>2. signals' \in Seq(TechnologySignals \cup ServicesSignals)
      BY <1>1, <2>1, AppendProperties DEF AddTechnology, Send, TypeOK
  <2> QED
      BY <1>1, <2>2 DEF AddTechnology, TypeOK, controller
<1>2. ASSUME NEW t \in Technologies, RemoveTechnology(t) PROVE TypeOK'
  <2>1. [kind |-> "removed", technology |-> t] \in TechnologySignals
      BY DEF TechnologySignals
  <2>2. signals' \in Seq(TechnologySignals \cup ServicesSignals)
      BY <1>2, <2>1, AppendProperties DEF RemoveTechnology, Send, TypeOK
  <2> QED
      BY <1>2, <2>2 DEF RemoveTechnology, TypeOK, controller, missed
<1>3. ASSUME NEW s \in Services, NEW named \in BOOLEAN, AddService(s, named) PROVE TypeOK'
  <2>1. services' \in Seq(Services)
    <3>1. PICK i \in 0 .. Len(services) :
              services' = SubSeq(services, 1, i) \o <<s>> \o SubSeq(services, i + 1, Len(services))
        BY <1>3 DEF AddService
    <3>2. services \in Seq(Services) /\ <<s>> \in Seq(Services)
        BY DEF TypeOK
    <3> QED
        BY <3>1, <3>2, PartsOfSeq, ConcatProperties
  <2> QED
      BY <1>3, <2>1 DEF AddService, TypeOK, controller
<1>4. ASSUME NEW s \in Services, RemoveService(s) PROVE TypeOK'
  <2>1. services' \in Seq(Services)
    <3>1. PICK i \in DOMAIN services :
              services' = SubSeq(services, 1, i - 1) \o SubSeq(services, i + 1, Len(services))
        BY <1>4 DEF RemoveService
    <3>2. services \in Seq(Services) /\ i \in 0 .. Len(services) /\ i > 0
      <4>1. services \in Seq(Services)
          BY DEF TypeOK
      <4> QED
          BY <3>1, <4>1, LenProperties
    <3>3. /\ SubSeq(services, 1, i - 1) \in Seq(Services)
          /\ SubSeq(services, i + 1, Len(services)) \in Seq(Services)
        BY <3>2, PartsOfSeq
    <3> QED
        BY <3>1, <3>3, ConcatProperties
  <2>2. /\ toAnnounce' = [due |-> TRUE, added |-> toAnnounce.added \ {s},
                          removed |-> toAnnounce.removed \cup {s}]
        /\ changes < MaxChanges /\ changes' = changes + 1
        /\ UNCHANGED <<technologies, hidden, lost, restarted, missed, signals, pc, controller>>
      BY <1>4 DEF RemoveService
  <2> QED
      BY <2>1, <2>2 DEF TypeOK, controller, missed
<1>5. CASE Announce
  <2> DEFINE list == [i \in DOMAIN services |->
                         [service |-> services[i],
                          name |-> IF services[i] \notin toAnnounce.added THEN "known"
                                   ELSE IF services[i] \in hidden THEN "none" ELSE "some"]]
             e == [kind |-> "services", removed |-> toAnnounce.removed, services |-> list]
  <2>1. services \in Seq(Services) /\ toAnnounce.removed \in SUBSET Services
      BY DEF TypeOK
  <2>2. DOMAIN services = 1 .. Len(services) /\ Len(services) \in Nat
        /\ \A i \in DOMAIN services : services[i] \in Services
      BY <2>1, LenProperties, ElementOfSeq
  <2>3. \A i \in DOMAIN services : list[i] \in Listed
      BY <2>2 DEF Listed
  <2>4. list \in Seq(Listed)
      BY <2>2, <2>3
  <2>5. e \in ServicesSignals
    <3> HIDE DEF list
    <3> QED
        BY <2>1, <2>4 DEF ServicesSignals
  <2>6. signals' = Append(signals, e)
      BY <1>5 DEF Announce, Send
  <2>7. signals' \in Seq(TechnologySignals \cup ServicesSignals)
    <3> HIDE DEF e
    <3> QED
        BY <2>5, <2>6, AppendProperties DEF TypeOK
  <2> QED
      BY <1>5, <2>7 DEF Announce, TypeOK, controller, missed, NoNews
<1>6. CASE Restart
  <2>1. services' \in Seq(Services)
      BY <1>6, EmptySeq DEF Restart
  <2>2. toAnnounce' \in [due : BOOLEAN, added : SUBSET Services, removed : SUBSET Services]
      BY <1>6 DEF Restart, NoNews
  <2>3. technologies' \subseteq Technologies /\ lost' \subseteq Technologies /\ hidden' \subseteq Services
      BY <1>6 DEF Restart, TypeOK
  <2>4. /\ changes' \in 0 .. MaxChanges /\ restarted' \in BOOLEAN
        /\ missedTechnologies' \subseteq Technologies /\ missedServices' \subseteq Services
      BY <1>6 DEF Restart, TypeOK
  <2>5. UNCHANGED <<signals, pc, listed, technologyObjects, serviceObjects, servicesOrder, published>>
      BY <1>6 DEF Restart, controller
  <2> QED
      BY <2>1, <2>2, <2>3, <2>4, <2>5 DEF TypeOK
<1> QED
    BY <1>1, <1>2, <1>3, <1>4, <1>5, <1>6

\* and every step of the controller.
LEMMA ControllerTypes ==
    ASSUME TypeOK, Controller
    PROVE  TypeOK'
<1>1. CASE GetTechnologies
    BY <1>1 DEF GetTechnologies, TypeOK, connman, missed
<1>2. CASE GetServices
  <2> DEFINE list == [i \in DOMAIN services |->
                         [service |-> services[i], name |-> IF services[i] \in hidden THEN "none" ELSE "some"]]
  <2>1. services \in Seq(Services)
      BY DEF TypeOK
  <2>2. DOMAIN services = 1 .. Len(services) /\ Len(services) \in Nat
        /\ \A i \in DOMAIN services : services[i] \in Services
      BY <2>1, LenProperties, ElementOfSeq
  <2>3. \A i \in DOMAIN services : list[i] \in Listed
      BY <2>2 DEF Listed
  <2>4. list \in Seq(Listed)
      BY <2>2, <2>3
  <2>5. listed' = list
      BY <1>2 DEF GetServices, OnServicesUpdated
  <2> HIDE DEF list
  <2> QED
      BY <1>2, <2>4, <2>5, EmptySeq DEF GetServices, OnServicesUpdated, TypeOK, connman, missed
<1>9. CASE GetServicesFails
  <2>1. Elements(services) \subseteq Services
      BY LenProperties, ElementOfSeq DEF Elements, TypeOK
  <2> QED
      BY <1>9, <2>1, EmptySeq DEF GetServicesFails, OnServicesUpdated, TypeOK, connman
<1>3. CASE ListService
  <2>1. listed \in Seq(Listed) /\ listed # <<>>
      BY <1>3 DEF ListService, TypeOK
  <2>2. Head(listed) \in Listed /\ Tail(listed) \in Seq(Listed)
      BY <2>1, HeadTailProperties
  <2>3. Head(listed).service \in Services
      BY <2>2 DEF Listed
  <2>4. servicesOrder' \in Seq(Services)
    <3>1. servicesOrder \in Seq(Services)
        BY DEF TypeOK
    <3>2. servicesOrder' = Append(servicesOrder, Head(listed).service) \/ servicesOrder' = servicesOrder
        BY <1>3 DEF ListService
    <3> QED
        BY <2>3, <3>1, <3>2, AppendProperties
  <2>5. serviceObjects' \subseteq Services
      BY <1>3, <2>3 DEF ListService, TypeOK
  <2> QED
      BY <1>3, <2>2, <2>4, <2>5 DEF ListService, TypeOK, connman, missed
<1>4. CASE ListEnd
    BY <1>4 DEF ListEnd, Update, TypeOK, connman, missed
<1>5. ASSUME signals # <<>>
      PROVE  Head(signals) \in Signals /\ Tail(signals) \in Seq(Signals)
    BY <1>5, HeadTailProperties DEF TypeOK, Signals
<1>6. CASE OnTechnologyAdded
    BY <1>5, <1>6, KindsOfSignals DEF OnTechnologyAdded, Handle, Update, TypeOK, connman, missed, Signals
<1>7. CASE OnTechnologyRemoved
    BY <1>5, <1>7, KindsOfSignals DEF OnTechnologyRemoved, Handle, Update, TypeOK, connman, missed, Signals
<1>8. CASE OnServicesChanged
    BY <1>5, <1>8, KindsOfSignals, EmptySeq DEF OnServicesChanged, OnServicesUpdated, Handle, TypeOK, connman, missed, Signals
<1> QED
    BY <1>1, <1>2, <1>3, <1>4, <1>6, <1>7, <1>8, <1>9 DEF Controller

LEMMA TypeStep ==
    TypeOK /\ [Next]_vars => TypeOK'
<1>1. ASSUME TypeOK, UNCHANGED vars PROVE TypeOK'
    BY <1>1 DEF vars, connman, missed, controller, TypeOK
<1> QED
    BY <1>1, ConnmanTypes, ControllerTypes DEF Next

\* connman and the controller stay well typed: the controller lists, orders and
\* publishes services and technologies only, and its loop is at an end when the
\* event loop runs.
THEOREM TypeCorrect == Spec => []TypeOK
    BY TypeInit, TypeStep, PTL DEF Spec

-----------------------------------------------------------------------------
LEMMA OrderStep ==
    ASSUME TypeOK, OrderIsKnown, [Next]_vars
    PROVE  OrderIsKnown'
<1>1. CASE ListService
  <2>1. servicesOrder \in Seq(Services) /\ Head(listed).service \in Services
    <3>1. listed \in Seq(Listed) /\ listed # <<>>
        BY <1>1 DEF ListService, TypeOK
    <3>2. Head(listed) \in Listed
        BY <3>1, HeadTailProperties
    <3> QED
        BY <3>2 DEF TypeOK, Listed
  <2>2. CASE /\ serviceObjects' = serviceObjects \cup {Head(listed).service}
             /\ servicesOrder' = Append(servicesOrder, Head(listed).service)
    <3>1. DOMAIN servicesOrder' = 1 .. Len(servicesOrder) + 1 /\ DOMAIN servicesOrder = 1 .. Len(servicesOrder)
        BY <2>1, <2>2, AppendProperties, LenProperties
    <3>2. \A i \in DOMAIN servicesOrder' :
              (i \in DOMAIN servicesOrder /\ servicesOrder'[i] = servicesOrder[i])
              \/ servicesOrder'[i] = Head(listed).service
        BY <2>1, <2>2, <3>1, AppendProperties, LenProperties
    <3> QED
        BY <2>2, <3>2 DEF OrderIsKnown, Elements
  <2> QED
      BY <1>1, <2>2 DEF ListService, OrderIsKnown, Elements
<1>2. CASE GetServices \/ GetServicesFails \/ OnServicesChanged
  <2>1. servicesOrder' = <<>> /\ DOMAIN <<>> = {}
      BY <1>2 DEF GetServices, GetServicesFails, OnServicesChanged, OnServicesUpdated
  <2> QED
      BY <2>1 DEF OrderIsKnown, Elements
<1>3. CASE UNCHANGED <<servicesOrder, serviceObjects>>
    BY <1>3 DEF OrderIsKnown, Elements
<1>4. Next => \/ ListService \/ GetServices \/ GetServicesFails \/ OnServicesChanged
              \/ UNCHANGED <<servicesOrder, serviceObjects>>
    BY DEF Next, Controller, AddTechnology, RemoveTechnology, AddService, RemoveService, Announce, Restart,
           GetTechnologies, ListEnd, OnTechnologyAdded, OnTechnologyRemoved, controller
<1> QED
    BY <1>1, <1>2, <1>3, <1>4 DEF vars, controller

\* update never takes a service of the order from the map that is not there,
\* whatever connman sends.
THEOREM OrderCorrect == Spec => []OrderIsKnown
<1>1. Init => OrderIsKnown
    BY DEF Init, OrderIsKnown, Elements
<1> QED
    BY <1>1, TypeCorrect, OrderStep, PTL DEF Spec

-----------------------------------------------------------------------------
\* The signals of q about technology t, and the latest of them.
About(q, t) == {i \in 1 .. Len(q) : q[i].kind \in {"added", "removed"} /\ q[i].technology = t}
Latest(q, t, i) == i \in About(q, t) /\ \A j \in About(q, t) : j <= i

\* The latest signal about a technology says whether it is there; without one the
\* map does; in both cases it may have been lost in a restart.
NewsIsTrue ==
    \A t \in Technologies : \A i \in 1 .. Len(signals) :
        Latest(signals, t, i) => /\ signals[i].kind = "added" => t \in technologies \cup lost
                                 /\ signals[i].kind = "removed" => t \notin technologies
NoNewsIsOldNews ==
    pc # "GetTechnologies" =>
        \A t \in Technologies : About(signals, t) = {} =>
            /\ t \in technologies => t \in technologyObjects \cup missedTechnologies
            /\ t \in technologyObjects => t \in technologies \cup lost
ObjectsArePublished == pc = "exec" => published.technologies = technologyObjects
TechnologiesInv == NewsIsTrue /\ NoNewsIsOldNews /\ ObjectsArePublished

\* A signal more: it is the latest about its technology, and no news of others.
LEMMA AppendAbout ==
    ASSUME NEW q \in Seq(Signals), NEW e \in Signals, NEW t \in Technologies
    PROVE  /\ e.kind \in {"added", "removed"} /\ e.technology = t =>
                 \A i : Latest(Append(q, e), t, i) => i = Len(q) + 1 /\ Append(q, e)[i] = e
           /\ e.kind \in {"added", "removed"} /\ e.technology = t => About(Append(q, e), t) # {}
           /\ ~(e.kind \in {"added", "removed"} /\ e.technology = t) =>
                 /\ About(Append(q, e), t) = About(q, t)
                 /\ \A i : Latest(Append(q, e), t, i) => Latest(q, t, i) /\ Append(q, e)[i] = q[i]
<1> DEFINE r == Append(q, e)
<1>1. /\ Len(r) = Len(q) + 1 /\ Len(q) \in Nat /\ r[Len(q) + 1] = e
      /\ \A i \in 1 .. Len(q) : r[i] = q[i]
    BY AppendProperties, LenProperties
<1> HIDE DEF r
<1>2. CASE e.kind \in {"added", "removed"} /\ e.technology = t
  <2>1. Len(q) + 1 \in About(r, t)
      BY <1>1, <1>2 DEF About
  <2>2. \A i : Latest(r, t, i) => i = Len(q) + 1
      BY <1>1, <2>1 DEF Latest, About
  <2> QED
      BY <1>1, <1>2, <2>1, <2>2 DEF r
<1>3. CASE ~(e.kind \in {"added", "removed"} /\ e.technology = t)
  <2>1. About(r, t) = About(q, t)
      BY <1>1, <1>3 DEF About
  <2>2. \A i : Latest(r, t, i) => Latest(q, t, i) /\ r[i] = q[i]
      BY <1>1, <2>1 DEF Latest, About
  <2> QED
      BY <1>3, <2>1, <2>2 DEF r
<1> QED
    BY <1>2, <1>3

\* The first signal less: the latest about a technology stays the latest, unless
\* it was the first.
LEMMA TailAbout ==
    ASSUME NEW q \in Seq(Signals), q # <<>>, NEW t \in Technologies
    PROVE  /\ \A i \in 1 .. Len(Tail(q)) : Latest(Tail(q), t, i) =>
                  i + 1 \in 1 .. Len(q) /\ Latest(q, t, i + 1) /\ Tail(q)[i] = q[i + 1]
           /\ About(Tail(q), t) = {} => About(q, t) = {} \/ (1 \in 1 .. Len(q) /\ Latest(q, t, 1))
<1> DEFINE r == Tail(q)
<1>1. /\ Len(r) = Len(q) - 1 /\ Len(q) \in Nat \ {0}
      /\ \A i \in 1 .. Len(r) : r[i] = q[i + 1]
    BY HeadTailProperties, EmptySeq
<1> HIDE DEF r
<1>2. \A j \in About(q, t) : j = 1 \/ j - 1 \in About(r, t)
    BY <1>1 DEF About
<1>3. \A i \in About(r, t) : i + 1 \in About(q, t)
    BY <1>1 DEF About
<1>4. About(q, t) \subseteq 1 .. Len(q) /\ About(r, t) \subseteq 1 .. Len(r)
    BY DEF About
<1>5. ASSUME NEW i \in 1 .. Len(r), Latest(r, t, i)
      PROVE  i + 1 \in 1 .. Len(q) /\ Latest(q, t, i + 1) /\ r[i] = q[i + 1]
  <2>1. i + 1 \in About(q, t)
      BY <1>3, <1>5 DEF Latest
  <2>2. \A j \in About(q, t) : j <= i + 1
      BY <1>1, <1>2, <1>4, <1>5 DEF Latest
  <2> QED
      BY <1>1, <2>1, <2>2 DEF Latest
<1>6. ASSUME About(r, t) = {}, About(q, t) # {}
      PROVE  1 \in 1 .. Len(q) /\ Latest(q, t, 1)
  <2>1. About(q, t) = {1}
      BY <1>2, <1>6
  <2> QED
      BY <1>1, <2>1 DEF Latest
<1> QED
    BY <1>5, <1>6 DEF r

LEMMA TechnologiesInit ==
    Init => TechnologiesInv
    BY DEF Init, TechnologiesInv, NewsIsTrue, NoNewsIsOldNews, ObjectsArePublished

\* connman adds or removes a technology and says so.
LEMMA TechnologyChanges ==
    ASSUME TypeOK, TechnologiesInv, NEW u \in Technologies,
           AddTechnology(u) \/ RemoveTechnology(u)
    PROVE  TechnologiesInv'
<1>1. PICK e \in TechnologySignals :
          /\ signals' = Append(signals, e) /\ e.technology = u
          /\ e.kind = "added" => u \in technologies'
          /\ e.kind = "removed" => u \notin technologies'
  <2>1. CASE AddTechnology(u)
    <3>1. [kind |-> "added", technology |-> u] \in TechnologySignals
        BY DEF TechnologySignals
    <3> QED
        BY <2>1, <3>1 DEF AddTechnology, Send
  <2>2. CASE RemoveTechnology(u)
    <3>1. [kind |-> "removed", technology |-> u] \in TechnologySignals
        BY DEF TechnologySignals
    <3> QED
        BY <2>2, <3>1 DEF RemoveTechnology, Send
  <2> QED
      BY <2>1, <2>2
<1>2. signals \in Seq(Signals) /\ e \in Signals /\ e.kind \in {"added", "removed"}
    BY DEF TypeOK, Signals, TechnologySignals
<1>3. \A t \in Technologies :
          t # u => /\ (t \in technologies' <=> t \in technologies) /\ (t \in lost' <=> t \in lost)
                   /\ (t \in missedTechnologies' <=> t \in missedTechnologies)
    BY DEF AddTechnology, RemoveTechnology, missed
<1>4. UNCHANGED <<pc, technologyObjects, published>>
    BY DEF AddTechnology, RemoveTechnology, controller
<1>5. ASSUME NEW t \in Technologies, NEW i \in 1 .. Len(signals'), Latest(signals', t, i)
      PROVE  /\ signals'[i].kind = "added" => t \in technologies' \cup lost'
             /\ signals'[i].kind = "removed" => t \notin technologies'
  <2>1. CASE t = u
    <3>1. signals'[i] = e
        BY <1>1, <1>2, <1>5, <2>1, AppendAbout
    <3> QED
        BY <1>1, <2>1, <3>1
  <2>2. CASE t # u
    <3>1. Latest(signals, t, i) /\ signals'[i] = signals[i]
        BY <1>1, <1>2, <1>5, <2>2, AppendAbout
    <3>2. i \in 1 .. Len(signals)
        BY <3>1 DEF Latest, About
    <3> QED
        BY <1>3, <2>2, <3>1, <3>2 DEF TechnologiesInv, NewsIsTrue
  <2> QED
      BY <2>1, <2>2
<1>6. ASSUME pc' # "GetTechnologies", NEW t \in Technologies, About(signals', t) = {}
      PROVE  /\ t \in technologies' => t \in technologyObjects' \cup missedTechnologies'
             /\ t \in technologyObjects' => t \in technologies' \cup lost'
  <2>1. t # u /\ About(signals, t) = {}
      BY <1>1, <1>2, <1>6, AppendAbout
  <2> QED
      BY <1>3, <1>4, <1>6, <2>1 DEF TechnologiesInv, NoNewsIsOldNews
<1>7. ObjectsArePublished'
    BY <1>4 DEF TechnologiesInv, ObjectsArePublished
<1> QED
    BY <1>5, <1>6, <1>7 DEF TechnologiesInv, NewsIsTrue, NoNewsIsOldNews

\* connman announces services.
LEMMA TechnologyAnnounce ==
    ASSUME TypeOK, TypeOK', TechnologiesInv, Announce
    PROVE  TechnologiesInv'
<1> DEFINE list == [i \in DOMAIN services |->
                       [service |-> services[i],
                        name |-> IF services[i] \notin toAnnounce.added THEN "known"
                                 ELSE IF services[i] \in hidden THEN "none" ELSE "some"]]
           e == [kind |-> "services", removed |-> toAnnounce.removed, services |-> list]
<1>1. signals' = Append(signals, e)
    BY DEF Announce, Send
<1>2. e.kind = "services"
    OBVIOUS
<1> HIDE DEF e
<1>3. signals \in Seq(Signals) /\ signals' \in Seq(Signals)
    BY DEF TypeOK, Signals
<1>4. e \in Signals
  <2>1. Len(signals') = Len(signals) + 1 /\ signals'[Len(signals) + 1] = e /\ Len(signals) \in Nat
      BY <1>1, <1>3
  <2> QED
      BY <1>3, <2>1, ElementOfSeq
<1>5. \A t \in Technologies :
          /\ About(signals', t) = About(signals, t)
          /\ \A i : Latest(signals', t, i) => Latest(signals, t, i) /\ signals'[i] = signals[i]
  <2>1. ~(e.kind \in {"added", "removed"})
      BY <1>2
  <2>2. ASSUME NEW t \in Technologies
        PROVE  /\ About(Append(signals, e), t) = About(signals, t)
               /\ \A i : Latest(Append(signals, e), t, i) => Latest(signals, t, i) /\ Append(signals, e)[i] = signals[i]
      BY <1>3, <1>4, <2>1, AppendAbout
  <2> QED
      BY <1>1, <2>2
<1>6. \A t \in Technologies : \A i : Latest(signals, t, i) => i \in 1 .. Len(signals)
    BY DEF Latest, About
<1>7. UNCHANGED <<technologies, lost, missedTechnologies, pc, technologyObjects, published>>
    BY DEF Announce, controller, missed
<1> QED
    BY <1>5, <1>6, <1>7 DEF TechnologiesInv, NewsIsTrue, NoNewsIsOldNews, ObjectsArePublished

\* The controller handles a signal.
LEMMA TechnologyHandled ==
    ASSUME TypeOK, TechnologiesInv, OnTechnologyAdded \/ OnTechnologyRemoved \/ OnServicesChanged
    PROVE  TechnologiesInv'
<1>1. /\ pc = "exec" /\ signals # <<>> /\ signals' = Tail(signals)
      /\ UNCHANGED <<technologies, lost, missedTechnologies>>
      /\ Head(signals).kind \in {"added", "removed", "services"}
    BY DEF OnTechnologyAdded, OnTechnologyRemoved, OnServicesChanged, Handle, connman, missed
<1>2. signals \in Seq(Signals) /\ Head(signals) = signals[1] /\ Len(signals) \in Nat \ {0}
    BY <1>1, EmptySeq DEF TypeOK, Signals
<1>3. signals[1] \in Signals
    BY <1>2, ElementOfSeq
<1>4. ASSUME NEW t \in Technologies, NEW i \in 1 .. Len(signals'), Latest(signals', t, i)
      PROVE  /\ signals'[i].kind = "added" => t \in technologies' \cup lost'
             /\ signals'[i].kind = "removed" => t \notin technologies'
  <2>1. i + 1 \in 1 .. Len(signals) /\ Latest(signals, t, i + 1) /\ signals'[i] = signals[i + 1]
      BY <1>1, <1>2, <1>4, TailAbout
  <2> QED
      BY <1>1, <2>1 DEF TechnologiesInv, NewsIsTrue
<1>5. ASSUME NEW t \in Technologies, About(signals', t) = {}
      PROVE  /\ t \in technologies => t \in technologyObjects' \cup missedTechnologies
             /\ t \in technologyObjects' => t \in technologies \cup lost
  <2>1. About(signals, t) = {} \/ (1 \in 1 .. Len(signals) /\ Latest(signals, t, 1))
      BY <1>1, <1>2, <1>5, TailAbout
  <2>2. CASE About(signals, t) = {}
    <3>1. ~(signals[1].kind \in {"added", "removed"} /\ signals[1].technology = t)
        BY <1>2, <2>2 DEF About
    <3>2. t \in technologyObjects' <=> t \in technologyObjects
        BY <1>1, <1>2, <3>1
           DEF OnTechnologyAdded, OnTechnologyRemoved, OnServicesChanged, OnServicesUpdated, Handle
    <3> QED
        BY <1>1, <2>2, <3>2 DEF TechnologiesInv, NoNewsIsOldNews
  <2>3. CASE 1 \in 1 .. Len(signals) /\ Latest(signals, t, 1)
    <3>1. /\ signals[1].kind \in {"added", "removed"} /\ signals[1].technology = t
          /\ signals[1].kind = "added" => t \in technologies \cup lost
          /\ signals[1].kind = "removed" => t \notin technologies
        BY <2>3 DEF TechnologiesInv, NewsIsTrue, Latest, About
    <3>2. CASE signals[1].kind = "added"
      <4>1. t \in technologyObjects'
          BY <1>2, <3>1, <3>2 DEF OnTechnologyAdded, OnTechnologyRemoved, OnServicesChanged, Handle
      <4> QED
          BY <3>1, <3>2, <4>1
    <3>3. CASE signals[1].kind = "removed"
      <4>1. t \notin technologyObjects'
          BY <1>2, <3>1, <3>3 DEF OnTechnologyAdded, OnTechnologyRemoved, OnServicesChanged, Handle
      <4> QED
          BY <3>1, <3>3, <4>1
    <3> QED
        BY <3>1, <3>2, <3>3
  <2> QED
      BY <2>1, <2>2, <2>3
<1>6. ObjectsArePublished'
    BY DEF OnTechnologyAdded, OnTechnologyRemoved, OnServicesChanged, OnServicesUpdated, Update,
           ObjectsArePublished
<1> QED
    BY <1>1, <1>4, <1>5, <1>6 DEF TechnologiesInv, NewsIsTrue, NoNewsIsOldNews

LEMMA TechnologiesStep ==
    ASSUME TypeOK, TypeOK', TechnologiesInv, [Next]_vars
    PROVE  TechnologiesInv'
<1> USE DEF TechnologiesInv, NewsIsTrue, NoNewsIsOldNews, ObjectsArePublished
<1>1. CASE Restart
    BY <1>1 DEF Restart, controller
<1>2. CASE GetTechnologies
    BY <1>2 DEF GetTechnologies, connman, TypeOK
<1>3. CASE GetServices \/ GetServicesFails
    BY <1>3 DEF GetServices, GetServicesFails, OnServicesUpdated, connman, missed
<1>4. CASE ListService
    BY <1>4 DEF ListService, connman, missed
<1>5. CASE ListEnd
    BY <1>5 DEF ListEnd, Update, connman, missed
<1>6. CASE \E s \in Services : RemoveService(s) \/ \E named \in BOOLEAN : AddService(s, named)
    BY <1>6 DEF RemoveService, AddService, controller, missed
<1>7. CASE UNCHANGED vars
    BY <1>7 DEF vars, connman, missed, controller
<1> QED
    BY <1>1, <1>2, <1>3, <1>4, <1>5, <1>6, <1>7, TechnologyChanges, TechnologyAnnounce, TechnologyHandled
       DEF Next, Controller

\* When all signals are handled the technologies of connman are published, and no
\* others but some it has lost in a restart, all but some the first reply failed to list, however the reply at start-up and the
\* signals were interleaved.
THEOREM TechnologiesCorrect == Spec => []TechnologiesMatch
<1>1. TypeOK /\ TechnologiesInv => TechnologiesMatch
  <2> SUFFICES ASSUME TypeOK, TechnologiesInv, pc = "exec", signals = <<>>
               PROVE  /\ technologies \subseteq published.technologies \cup missedTechnologies
                      /\ published.technologies \subseteq technologies \cup lost
      BY DEF TechnologiesMatch, AllHandled
  <2>1. \A t \in Technologies : About(signals, t) = {}
      BY DEF About
  <2> QED
      BY <2>1 DEF TechnologiesInv, NoNewsIsOldNews, ObjectsArePublished, TypeOK
<1> QED
    BY <1>1, TypeCorrect, TechnologiesInit, TechnologiesStep, PTL DEF Spec

-----------------------------------------------------------------------------
\* A list of services that brings the properties of s with a name.
Adds(list, s) == \E i \in 1 .. Len(list) : list[i].service = s /\ list[i].name = "some"

\* A signal of q brings s with a name, and none after it takes s away;
AddedIn(q, s) ==
    \E k \in 1 .. Len(q) : /\ q[k].kind = "services" /\ Adds(q[k].services, s)
                           /\ \A j \in k + 1 .. Len(q) : q[j].kind = "services" => s \notin q[j].removed

\* none takes s away; none is of services at all.
KeptIn(q, s) == \A j \in 1 .. Len(q) : q[j].kind = "services" => s \notin q[j].removed
Silent(q) == \A j \in 1 .. Len(q) : q[j].kind # "services"

\* The list has what s has after its first n elements.
Lists(list, s, n) == Len(list) = Len(s) - n /\ \A i \in 1 .. Len(list) : list[i].service = s[n + i]

\* The latest signal of services in q lists s.
NewestLists(q, s) ==
    \E k \in 1 .. Len(q) : /\ q[k].kind = "services" /\ Lists(q[k].services, s, 0)
                           /\ \A j \in k + 1 .. Len(q) : q[j].kind # "services"

\* What one more signal does to that.
LEMMA AppendNews ==
    ASSUME NEW q \in Seq(Signals), NEW e \in Signals
    PROVE  LET r == Append(q, e) IN
           /\ e.kind = "services" =>
                 \A s : /\ Adds(e.services, s) => AddedIn(r, s)
                        /\ s \notin e.removed => (AddedIn(q, s) => AddedIn(r, s)) /\ (KeptIn(q, s) => KeptIn(r, s))
           /\ e.kind = "services" => \A v : Lists(e.services, v, 0) => NewestLists(r, v)
           /\ e.kind # "services" =>
                 /\ \A s : (AddedIn(q, s) => AddedIn(r, s)) /\ (KeptIn(q, s) => KeptIn(r, s))
                 /\ \A v : NewestLists(q, v) => NewestLists(r, v)
                 /\ Silent(q) => Silent(r)
<1> DEFINE r == Append(q, e)
           n == Len(q)
<1>1. /\ Len(r) = n + 1 /\ n \in Nat /\ r[n + 1] = e
      /\ \A i \in 1 .. n : r[i] = q[i]
    BY AppendProperties, LenProperties
<1> HIDE DEF r, n
<1>2. ASSUME NEW s, e.kind = "services", Adds(e.services, s)
      PROVE  AddedIn(r, s)
  <2>1. n + 1 \in 1 .. Len(r) /\ (n + 1) + 1 .. Len(r) = {}
      BY <1>1
  <2> QED
      BY <1>1, <1>2, <2>1 DEF AddedIn
<1>3. ASSUME NEW s, e.kind # "services" \/ s \notin e.removed, AddedIn(q, s)
      PROVE  AddedIn(r, s)
  <2>1. PICK k \in 1 .. n : /\ q[k].kind = "services" /\ Adds(q[k].services, s)
                            /\ \A j \in k + 1 .. n : q[j].kind = "services" => s \notin q[j].removed
      BY <1>3 DEF AddedIn, n
  <2>2. k \in 1 .. Len(r) /\ r[k] = q[k]
      BY <1>1
  <2>3. \A j \in k + 1 .. Len(r) : (j \in k + 1 .. n /\ r[j] = q[j]) \/ r[j] = e
      BY <1>1
  <2>4. \A j \in k + 1 .. Len(r) : r[j].kind = "services" => s \notin r[j].removed
      BY <1>3, <2>1, <2>3
  <2> QED
      BY <2>1, <2>2, <2>4 DEF AddedIn
<1>4. \A j \in 1 .. Len(r) : (j \in 1 .. n /\ r[j] = q[j]) \/ r[j] = e
    BY <1>1
<1>5. ASSUME NEW s, e.kind # "services" \/ s \notin e.removed, KeptIn(q, s)
      PROVE  KeptIn(r, s)
    BY <1>4, <1>5 DEF KeptIn, n
<1>6. ASSUME NEW v, e.kind = "services", Lists(e.services, v, 0)
      PROVE  NewestLists(r, v)
  <2>1. n + 1 \in 1 .. Len(r) /\ (n + 1) + 1 .. Len(r) = {}
      BY <1>1
  <2> QED
      BY <1>1, <1>6, <2>1 DEF NewestLists
<1>7. ASSUME NEW v, e.kind # "services", NewestLists(q, v)
      PROVE  NewestLists(r, v)
  <2>1. PICK k \in 1 .. n : /\ q[k].kind = "services" /\ Lists(q[k].services, v, 0)
                            /\ \A j \in k + 1 .. n : q[j].kind # "services"
      BY <1>7 DEF NewestLists, n
  <2>2. k \in 1 .. Len(r) /\ r[k] = q[k]
      BY <1>1
  <2>3. \A j \in k + 1 .. Len(r) : (j \in k + 1 .. n /\ r[j] = q[j]) \/ r[j] = e
      BY <1>1
  <2>4. \A j \in k + 1 .. Len(r) : r[j].kind # "services"
      BY <1>7, <2>1, <2>3
  <2> QED
      BY <2>1, <2>2, <2>4 DEF NewestLists
<1>8. e.kind # "services" /\ Silent(q) => Silent(r)
    BY <1>4 DEF Silent, n
<1> QED
    BY <1>2, <1>3, <1>5, <1>6, <1>7, <1>8 DEF r

\* What one signal less does to it: q's first one is handled, or bears on nothing.
LEMMA TailNews ==
    ASSUME NEW q \in Seq(Signals), q # <<>>
    PROVE  LET r == Tail(q) IN
           /\ q[1].kind = "services" =>
                 /\ \A s : /\ AddedIn(q, s) => AddedIn(r, s) \/ (Adds(q[1].services, s) /\ KeptIn(r, s))
                           /\ KeptIn(q, s) => s \notin q[1].removed /\ KeptIn(r, s)
                 /\ \A v : NewestLists(q, v) => NewestLists(r, v) \/ (Lists(q[1].services, v, 0) /\ Silent(r))
                 /\ ~Silent(q)
           /\ q[1].kind # "services" =>
                 /\ \A s : (AddedIn(q, s) => AddedIn(r, s)) /\ (KeptIn(q, s) => KeptIn(r, s))
                 /\ \A v : NewestLists(q, v) => NewestLists(r, v)
                 /\ Silent(q) => Silent(r)
<1> DEFINE r == Tail(q)
           n == Len(q)
<1>1. /\ Len(r) = n - 1 /\ n \in Nat \ {0}
      /\ \A i \in 1 .. n - 1 : r[i] = q[i + 1]
    BY HeadTailProperties, EmptySeq
<1> HIDE DEF r, n
<1>2. \A i \in 1 .. Len(r) : r[i] = q[i + 1] /\ i + 1 \in 1 .. n
    BY <1>1
<1>3. \A k \in 1 .. n : k # 1 => k - 1 \in 1 .. Len(r) /\ r[k - 1] = q[k] /\ (k - 1) + 1 = k
    BY <1>1
<1>4. \A k \in 1 .. n : \A i \in k .. Len(r) : i \in 1 .. Len(r) /\ i + 1 \in k + 1 .. n
    BY <1>1
<1>5. ASSUME NEW s, AddedIn(q, s)
      PROVE  AddedIn(r, s) \/ (q[1].kind = "services" /\ Adds(q[1].services, s) /\ KeptIn(r, s))
  <2>1. PICK k \in 1 .. n : /\ q[k].kind = "services" /\ Adds(q[k].services, s)
                            /\ \A j \in k + 1 .. n : q[j].kind = "services" => s \notin q[j].removed
      BY <1>5 DEF AddedIn, n
  <2>2. \A i \in k .. Len(r) : r[i].kind = "services" => s \notin r[i].removed
      BY <1>2, <1>4, <2>1
  <2>3. CASE k = 1
      BY <2>1, <2>2, <2>3 DEF KeptIn
  <2>4. CASE k # 1
    <3> DEFINE m == k - 1
    <3>1. m \in 1 .. Len(r) /\ r[m] = q[k] /\ m + 1 = k
        BY <1>3, <2>4
    <3> HIDE DEF m
    <3> QED
        BY <2>1, <2>2, <3>1 DEF AddedIn
  <2> QED
      BY <2>3, <2>4
<1>6. ASSUME NEW s, KeptIn(q, s)
      PROVE  KeptIn(r, s) /\ (q[1].kind = "services" => s \notin q[1].removed)
    BY <1>1, <1>2, <1>6 DEF KeptIn, n
<1>7. ASSUME NEW v, NewestLists(q, v)
      PROVE  NewestLists(r, v) \/ (q[1].kind = "services" /\ Lists(q[1].services, v, 0) /\ Silent(r))
  <2>1. PICK k \in 1 .. n : /\ q[k].kind = "services" /\ Lists(q[k].services, v, 0)
                            /\ \A j \in k + 1 .. n : q[j].kind # "services"
      BY <1>7 DEF NewestLists, n
  <2>2. \A i \in k .. Len(r) : r[i].kind # "services"
      BY <1>2, <1>4, <2>1
  <2>3. CASE k = 1
      BY <2>1, <2>2, <2>3 DEF Silent
  <2>4. CASE k # 1
    <3> DEFINE m == k - 1
    <3>1. m \in 1 .. Len(r) /\ r[m] = q[k] /\ m + 1 = k
        BY <1>3, <2>4
    <3> HIDE DEF m
    <3> QED
        BY <2>1, <2>2, <3>1 DEF NewestLists
  <2> QED
      BY <2>3, <2>4
<1>8. Silent(q) => Silent(r) /\ q[1].kind # "services"
    BY <1>1, <1>2 DEF Silent, n
<1> QED
    BY <1>5, <1>6, <1>7, <1>8 DEF r

\* No element is there twice.
Unrepeated(q) == \A i, j \in 1 .. Len(q) : q[i] = q[j] => i = j

\* A service that appears at some place leaves the others in their order.
LEMMA Inserted ==
    ASSUME NEW S, NEW q \in Seq(S), NEW i \in 0 .. Len(q), NEW e \in S,
           Unrepeated(q), e \notin Elements(q)
    PROVE  LET r == SubSeq(q, 1, i) \o <<e>> \o SubSeq(q, i + 1, Len(q)) IN
           Elements(r) = Elements(q) \cup {e} /\ Unrepeated(r)
<1> DEFINE a == SubSeq(q, 1, i)
           b == <<e>>
           c == SubSeq(q, i + 1, Len(q))
           ab == a \o b
           r == ab \o c
           n == Len(q)
<1>1. n \in Nat /\ DOMAIN q = 1 .. n /\ i \in Int /\ 0 <= i /\ i <= n /\ \A j \in 1 .. n : q[j] \in S
    BY LenProperties, ElementOfSeq
<1>2. a \in Seq(S) /\ Len(a) = i /\ \A j \in 1 .. i : a[j] = q[j]
    BY <1>1, SubSeqProperties
<1>3. c \in Seq(S) /\ Len(c) = n - i /\ \A j \in 1 .. n - i : c[j] = q[i + j]
  <2>1. i + 1 \in Int /\ n \in Int /\ \A j \in i + 1 .. n : q[j] \in S
      BY <1>1
  <2>2. /\ c \in Seq(S)
        /\ Len(c) = IF i + 1 <= n THEN n - (i + 1) + 1 ELSE 0
        /\ \A j \in 1 .. n - (i + 1) + 1 : c[j] = q[(i + 1) + j - 1]
      BY <2>1, SubSeqProperties
  <2> HIDE DEF c, n
  <2>3. n - (i + 1) + 1 = n - i /\ \A j \in 1 .. n - i : (i + 1) + j - 1 = i + j
      BY <1>1
  <2>4. Len(c) = n - i
      BY <1>1, <2>2
  <2>5. \A j \in 1 .. n - i : c[j] = q[i + j]
      BY <2>2, <2>3
  <2> QED
      BY <2>2, <2>4, <2>5
<1>4. b \in Seq(S) /\ Len(b) = 1 /\ b[1] = e
    OBVIOUS
<1> HIDE DEF a, b, c
<1>5. /\ ab \in Seq(S) /\ Len(ab) = i + 1
      /\ \A j \in 1 .. i + 1 : ab[j] = IF j <= i THEN a[j] ELSE b[j - i]
  <2>1. a \in Seq(S) /\ b \in Seq(S)
      BY <1>2, <1>4
  <2>2. /\ ab \in Seq(S) /\ Len(ab) = Len(a) + Len(b)
        /\ \A j \in 1 .. Len(a) + Len(b) : ab[j] = IF j <= Len(a) THEN a[j] ELSE b[j - Len(a)]
      BY <2>1, ConcatProperties
  <2> HIDE DEF ab
  <2> QED
      BY <1>2, <1>4, <2>2
<1> HIDE DEF ab
<1>6. /\ r \in Seq(S) /\ Len(r) = n + 1
      /\ \A j \in 1 .. n + 1 : r[j] = IF j <= i + 1 THEN ab[j] ELSE c[j - (i + 1)]
  <2>1. /\ r \in Seq(S) /\ Len(r) = Len(ab) + Len(c)
        /\ \A j \in 1 .. Len(ab) + Len(c) : r[j] = IF j <= Len(ab) THEN ab[j] ELSE c[j - Len(ab)]
    <3>1. ab \in Seq(S) /\ c \in Seq(S)
        BY <1>3, <1>5
    <3> QED
        BY <3>1, ConcatProperties
  <2>2. Len(ab) = i + 1 /\ Len(ab) + Len(c) = n + 1
      BY <1>1, <1>3, <1>5
  <2> HIDE DEF r, n
  <2> QED
      BY <2>1, <2>2
<1>7. DOMAIN r = 1 .. n + 1
    BY <1>1, <1>6, LenProperties
<1> HIDE DEF r, n
<1>8. \A j \in 1 .. n + 1 : j <= i => r[j] = q[j] /\ j \in 1 .. n
    BY <1>1, <1>2, <1>5, <1>6
<1>9. r[i + 1] = e /\ i + 1 \in 1 .. n + 1
  <2>1. i + 1 \in 1 .. n + 1 /\ i + 1 \in 1 .. i + 1 /\ ~(i + 1 <= i) /\ (i + 1) - i = 1 /\ i + 1 <= i + 1
      BY <1>1
  <2> QED
      BY <1>4, <1>5, <1>6, <2>1
<1>10. \A j \in 1 .. n + 1 : j > i + 1 => r[j] = q[j - 1] /\ j - 1 \in 1 .. n
  <2> SUFFICES ASSUME NEW j \in 1 .. n + 1, j > i + 1
               PROVE  r[j] = q[j - 1] /\ j - 1 \in 1 .. n
      OBVIOUS
  <2> DEFINE m == j - (i + 1)
  <2>1. ~(j <= i + 1) /\ m \in 1 .. n - i /\ i + m = j - 1 /\ j - 1 \in 1 .. n
      BY <1>1
  <2>2. r[j] = c[m]
      BY <1>6, <2>1
  <2>3. c[m] = q[i + m]
      BY <1>3, <2>1
  <2> QED
      BY <2>1, <2>2, <2>3
<1>11. \A j \in 1 .. n + 1 : j <= i \/ j = i + 1 \/ j > i + 1
    BY <1>1
<1>12. Elements(r) = Elements(q) \cup {e}
  <2>1. ASSUME NEW x \in Elements(r)
        PROVE  x \in Elements(q) \cup {e}
    <3>1. PICK j \in 1 .. n + 1 : x = r[j]
        BY <1>7, <2>1 DEF Elements
    <3> QED
        BY <1>1, <1>8, <1>9, <1>10, <1>11, <3>1 DEF Elements
  <2>2. ASSUME NEW j \in 1 .. n
        PROVE  q[j] \in Elements(r)
    <3>1. CASE j <= i
      <4>1. j \in 1 .. n + 1
          BY <1>1
      <4> QED
          BY <1>7, <1>8, <3>1, <4>1 DEF Elements
    <3>2. CASE j > i
      <4>1. j + 1 \in 1 .. n + 1 /\ j + 1 > i + 1 /\ (j + 1) - 1 = j
          BY <1>1, <3>2
      <4> QED
          BY <1>7, <1>10, <4>1 DEF Elements
    <3> QED
        BY <1>1, <3>1, <3>2
  <2>3. e \in Elements(r)
      BY <1>7, <1>9 DEF Elements
  <2> QED
      BY <1>1, <2>1, <2>2, <2>3 DEF Elements
<1>13. Unrepeated(r)
  <2> SUFFICES ASSUME NEW j \in 1 .. n + 1, NEW k \in 1 .. n + 1, r[j] = r[k], j < k
               PROVE  FALSE
    <3>1. \A j, k \in 1 .. n + 1 : j = k \/ j < k \/ k < j
        BY <1>1
    <3> QED
        BY <1>6, <3>1 DEF Unrepeated, r
  <2>1. \A x \in 1 .. n : q[x] # e
      BY <1>1 DEF Elements
  <2>2. \A x, y \in 1 .. n : q[x] = q[y] => x = y
      BY DEF Unrepeated, n
  <2>3. CASE k <= i
      BY <1>1, <1>8, <2>2, <2>3
  <2>4. CASE k = i + 1
    <3>1. j <= i
        BY <1>1, <2>4
    <3> QED
        BY <1>8, <1>9, <2>1, <2>4, <3>1
  <2>5. CASE k > i + 1
    <3>1. CASE j <= i
      <4>1. j = k - 1
          BY <1>8, <1>10, <2>2, <2>5, <3>1
      <4> QED
          BY <1>1, <2>5, <3>1, <4>1
    <3>2. CASE j = i + 1
        BY <1>9, <1>10, <2>1, <2>5, <3>2
    <3>3. CASE j > i + 1
      <4>1. j - 1 = k - 1
          BY <1>10, <2>2, <2>5, <3>3
      <4> QED
          BY <1>1, <4>1
    <3> QED
        BY <1>11, <3>1, <3>2, <3>3
  <2> QED
      BY <1>11, <2>3, <2>4, <2>5
<1> QED
    BY <1>12, <1>13, Zenon DEF r, ab, a, b, c

\* So does one that goes.
LEMMA Removed ==
    ASSUME NEW S, NEW q \in Seq(S), NEW i \in 1 .. Len(q), Unrepeated(q)
    PROVE  LET r == SubSeq(q, 1, i - 1) \o SubSeq(q, i + 1, Len(q)) IN
           Elements(r) \subseteq Elements(q) \ {q[i]} /\ Unrepeated(r)
<1> DEFINE a == SubSeq(q, 1, i - 1)
           c == SubSeq(q, i + 1, Len(q))
           r == a \o c
           n == Len(q)
<1>1. n \in Nat /\ DOMAIN q = 1 .. n /\ i \in Int /\ 1 <= i /\ i <= n /\ \A j \in 1 .. n : q[j] \in S
    BY LenProperties, ElementOfSeq
<1>2. a \in Seq(S) /\ Len(a) = i - 1 /\ \A j \in 1 .. i - 1 : a[j] = q[j]
    BY <1>1, SubSeqProperties
<1>3. c \in Seq(S) /\ Len(c) = n - i /\ \A j \in 1 .. n - i : c[j] = q[i + j]
  <2>1. i + 1 \in Int /\ n \in Int /\ \A j \in i + 1 .. n : q[j] \in S
      BY <1>1
  <2>2. /\ c \in Seq(S)
        /\ Len(c) = IF i + 1 <= n THEN n - (i + 1) + 1 ELSE 0
        /\ \A j \in 1 .. n - (i + 1) + 1 : c[j] = q[(i + 1) + j - 1]
      BY <2>1, SubSeqProperties
  <2> HIDE DEF c, n
  <2>3. n - (i + 1) + 1 = n - i /\ \A j \in 1 .. n - i : (i + 1) + j - 1 = i + j
      BY <1>1
  <2>4. Len(c) = n - i
      BY <1>1, <2>2
  <2>5. \A j \in 1 .. n - i : c[j] = q[i + j]
      BY <2>2, <2>3
  <2> QED
      BY <2>2, <2>4, <2>5
<1> HIDE DEF a, c
<1>4. /\ r \in Seq(S) /\ Len(r) = n - 1
      /\ \A j \in 1 .. n - 1 : r[j] = IF j <= i - 1 THEN a[j] ELSE c[j - (i - 1)]
  <2>1. /\ r \in Seq(S) /\ Len(r) = Len(a) + Len(c)
        /\ \A j \in 1 .. Len(a) + Len(c) : r[j] = IF j <= Len(a) THEN a[j] ELSE c[j - Len(a)]
      BY <1>2, <1>3, ConcatProperties
  <2>2. Len(a) = i - 1 /\ Len(a) + Len(c) = n - 1
      BY <1>1, <1>2, <1>3
  <2> HIDE DEF r, n
  <2> QED
      BY <2>1, <2>2
<1>5. DOMAIN r = 1 .. n - 1
    BY <1>1, <1>4, LenProperties
<1> HIDE DEF r, n
<1> DEFINE g(j) == IF j <= i - 1 THEN j ELSE j + 1
<1>6. \A j \in 1 .. n - 1 : r[j] = q[g(j)] /\ g(j) \in 1 .. n /\ g(j) # i
  <2> SUFFICES ASSUME NEW j \in 1 .. n - 1
               PROVE  r[j] = q[g(j)] /\ g(j) \in 1 .. n /\ g(j) # i
      OBVIOUS
  <2>1. CASE j <= i - 1
      BY <1>1, <1>2, <1>4, <2>1
  <2>2. CASE ~(j <= i - 1)
    <3> DEFINE m == j - (i - 1)
    <3>1. m \in 1 .. n - i /\ i + m = j + 1 /\ j + 1 \in 1 .. n /\ j + 1 # i
        BY <1>1, <2>2
    <3>2. r[j] = c[m]
        BY <1>4, <2>2
    <3>3. c[m] = q[i + m]
        BY <1>3, <3>1
    <3> QED
        BY <2>2, <3>1, <3>2, <3>3
  <2> QED
      BY <2>1, <2>2
<1>7. \A j, k \in 1 .. n - 1 : g(j) = g(k) => j = k
    BY <1>1
<1> HIDE DEF g
<1>8. \A x, y \in 1 .. n : q[x] = q[y] => x = y
    BY DEF Unrepeated, n
<1>9. Elements(r) \subseteq Elements(q) \ {q[i]}
    BY <1>1, <1>5, <1>6, <1>8 DEF Elements
<1>10. Unrepeated(r)
    BY <1>4, <1>6, <1>7, <1>8 DEF Unrepeated
<1> QED
    BY <1>9, <1>10, Zenon DEF r, a, c

\* q is the first n elements of s, without some that are in out.
ListsUpTo(q, s, n, out) ==
    \E f \in [1 .. Len(q) -> 1 .. n] :
        /\ \A i, j \in 1 .. Len(q) : i < j => f[i] < f[j]
        /\ \A i \in 1 .. Len(q) : q[i] = s[f[i]]
        /\ \A j \in 1 .. n : s[j] \in out \/ \E i \in 1 .. Len(q) : f[i] = j

\* One element more is listed, or left out.
LEMMA ListsMore ==
    ASSUME NEW S, NEW q \in Seq(S), NEW s, NEW n \in Nat, NEW out, s[n + 1] \in S,
           ListsUpTo(q, s, n, out)
    PROVE  /\ ListsUpTo(Append(q, s[n + 1]), s, n + 1, out)
           /\ s[n + 1] \in out => ListsUpTo(q, s, n + 1, out)
<1> DEFINE m == Len(q)
           x == s[n + 1]
           r == Append(q, x)
<1>1. /\ Len(r) = m + 1 /\ m \in Nat /\ r[m + 1] = x
      /\ \A i \in 1 .. m : r[i] = q[i]
    BY AppendProperties, LenProperties
<1>2. PICK f \in [1 .. m -> 1 .. n] :
          /\ \A i, j \in 1 .. m : i < j => f[i] < f[j]
          /\ \A i \in 1 .. m : q[i] = s[f[i]]
          /\ \A j \in 1 .. n : s[j] \in out \/ \E i \in 1 .. m : f[i] = j
    BY DEF ListsUpTo
<1> HIDE DEF r, m, x
<1>3. x \in out => ListsUpTo(q, s, n + 1, out)
  <2> SUFFICES ASSUME x \in out
               PROVE  ListsUpTo(q, s, n + 1, out)
      OBVIOUS
  <2>1. f \in [1 .. m -> 1 .. n + 1]
      BY <1>2
  <2>2. \A j \in 1 .. n + 1 : s[j] \in out \/ \E i \in 1 .. m : f[i] = j
    <3>1. \A j \in 1 .. n + 1 : j = n + 1 \/ j \in 1 .. n
        OBVIOUS
    <3> QED
        BY <1>2, <3>1 DEF x
  <2> QED
      BY <1>2, <2>1, <2>2 DEF ListsUpTo, m
<1>4. ListsUpTo(r, s, n + 1, out)
  <2> DEFINE g == [i \in 1 .. m + 1 |-> IF i <= m THEN f[i] ELSE n + 1]
  <2>1. /\ \A i \in 1 .. m : g[i] = f[i] /\ i \in 1 .. m + 1 /\ f[i] \in 1 .. n
        /\ g[m + 1] = n + 1 /\ m + 1 \in 1 .. m + 1
        /\ \A i \in 1 .. m + 1 : i \in 1 .. m \/ i = m + 1
      BY <1>1, <1>2
  <2>2. g \in [1 .. m + 1 -> 1 .. n + 1]
      BY <1>1, <1>2
  <2> HIDE DEF g
  <2>3. \A i, j \in 1 .. m + 1 : i < j => g[i] < g[j]
    <3> SUFFICES ASSUME NEW i \in 1 .. m + 1, NEW j \in 1 .. m + 1, i < j
                 PROVE  g[i] < g[j]
        OBVIOUS
    <3>1. i \in 1 .. m
        BY <1>1
    <3>2. CASE j \in 1 .. m
        BY <1>2, <2>1, <3>1, <3>2
    <3>3. CASE j = m + 1
        BY <2>1, <3>1, <3>3
    <3> QED
        BY <2>1, <3>2, <3>3
  <2>4. \A i \in 1 .. m + 1 : r[i] = s[g[i]]
      BY <1>1, <1>2, <2>1 DEF x
  <2>5. \A j \in 1 .. n + 1 : s[j] \in out \/ \E i \in 1 .. m + 1 : g[i] = j
    <3> SUFFICES ASSUME NEW j \in 1 .. n + 1, s[j] \notin out
                 PROVE  \E i \in 1 .. m + 1 : g[i] = j
        OBVIOUS
    <3>1. CASE j = n + 1
        BY <2>1, <3>1
    <3>2. CASE j \in 1 .. n
      <4>1. PICK i \in 1 .. m : f[i] = j
          BY <1>2, <3>2
      <4> QED
          BY <2>1, <4>1
    <3> QED
        BY <3>1, <3>2
  <2>6. \E h \in [1 .. m + 1 -> 1 .. n + 1] :
            /\ \A i, j \in 1 .. m + 1 : i < j => h[i] < h[j]
            /\ \A i \in 1 .. m + 1 : r[i] = s[h[i]]
            /\ \A j \in 1 .. n + 1 : s[j] \in out \/ \E i \in 1 .. m + 1 : h[i] = j
      BY <2>2, <2>3, <2>4, <2>5
  <2>7. Len(r) = m + 1
      BY <1>1
  <2> QED
      BY <2>6, <2>7 DEF ListsUpTo
<1> QED
    BY <1>3, <1>4 DEF r, x

\* Nothing lists what is all left out, and nothing at all.
LEMMA ListsNothing ==
    ASSUME NEW s, NEW out, NEW n \in Nat, \A j \in 1 .. n : s[j] \in out
    PROVE  ListsUpTo(<<>>, s, n, out)
<1>1. Len(<<>>) = 0 /\ 1 .. 0 = {}
    BY EmptySeq
<1>2. [i \in 1 .. 0 |-> i] \in [1 .. 0 -> 1 .. n]
    OBVIOUS
<1> QED
    BY <1>1, <1>2 DEF ListsUpTo

-----------------------------------------------------------------------------
\* What the next announcement takes away is gone; what it brings is not yet said.
NewsIsNew ==
    /\ toAnnounce.removed \cap Elements(services) = {}
    /\ ~toAnnounce.due => toAnnounce.added = {}

\* The services that may be left out.
Nameless == hidden \cup missedServices

\* A service with a name is about to be announced, or a signal brings it and none
\* takes it away, or it is in the map, or in what is read into it.
NamedAreKnown ==
    \A s \in Elements(services) \ Nameless :
        \/ s \in toAnnounce.added
        \/ AddedIn(signals, s)
        \/ /\ KeptIn(signals, s)
           /\ pc \in {"GetTechnologies", "GetServices"} \/ s \in serviceObjects \/ Adds(listed, s)

\* The loop has seen the first n services of connman and has the others to see.
UpTo(n) ==
    /\ Lists(listed, services, n)
    /\ ListsUpTo(servicesOrder, services, n, Nameless)

\* With nothing to announce, in a connman that has announced something since it came
\* up, the latest signal has connman's order, or, without one,
\* what the loop has made of it so far.
OrderIsCurrent ==
    ~toAnnounce.due /\ ~restarted =>
        \/ NewestLists(signals, services)
        \/ /\ Silent(signals)
           /\ pc \in {"list", "exec"} => \E n \in 0 .. Len(services) : UpTo(n)

OrderIsPublished == pc = "exec" => published.services = servicesOrder

ServicesInv ==
    /\ Unrepeated(services) /\ NewsIsNew
    /\ NamedAreKnown
    /\ OrderIsCurrent
    /\ OrderIsPublished

LEMMA ServicesInit ==
    Init => ServicesInv
<1> SUFFICES ASSUME Init
             PROVE  ServicesInv
    OBVIOUS
<1>1. /\ services = <<>> /\ signals = <<>> /\ Len(<<>>) = 0 /\ DOMAIN <<>> = {}
      /\ pc = "GetTechnologies" /\ toAnnounce = NoNews
    BY EmptySeq DEF Init
<1>2. Elements(services) = {} /\ Unrepeated(services) /\ Silent(signals)
    BY <1>1 DEF Elements, Unrepeated, Silent
<1>3. NewsIsNew
    BY <1>1, <1>2 DEF NewsIsNew, NoNews
<1>4. NamedAreKnown
    BY <1>2 DEF NamedAreKnown
<1>5. OrderIsCurrent /\ OrderIsPublished
    BY <1>1, <1>2 DEF OrderIsCurrent, OrderIsPublished
<1> QED
    BY <1>2, <1>3, <1>4, <1>5 DEF ServicesInv

\* A service appears or disappears: connman has something to announce.
LEMMA ServicesChange ==
    ASSUME TypeOK, ServicesInv,
           \E s \in Services : RemoveService(s) \/ \E named \in BOOLEAN : AddService(s, named)
    PROVE  ServicesInv'
<1>1. PICK s \in Services : RemoveService(s) \/ \E named \in BOOLEAN : AddService(s, named)
    OBVIOUS
<1>2. /\ toAnnounce'.due /\ UNCHANGED <<signals, pc, listed, serviceObjects, servicesOrder, published>>
  <2>1. CASE RemoveService(s)
      BY <2>1 DEF RemoveService, controller
  <2>2. ASSUME NEW named \in BOOLEAN, AddService(s, named)
        PROVE  /\ toAnnounce'.due
               /\ UNCHANGED <<signals, pc, listed, serviceObjects, servicesOrder, published>>
      BY <2>2 DEF AddService, controller
  <2> QED
      BY <1>1, <2>1, <2>2
<1>3. services \in Seq(Services) /\ Len(services) \in Nat /\ DOMAIN services = 1 .. Len(services)
    BY LenProperties DEF TypeOK
<1>4. CASE RemoveService(s)
  <2>1. PICK i \in DOMAIN services :
            services[i] = s /\ services' = SubSeq(services, 1, i - 1) \o SubSeq(services, i + 1, Len(services))
      BY <1>4 DEF RemoveService
  <2>2. Elements(services') \subseteq Elements(services) \ {s} /\ Unrepeated(services')
      BY <1>3, <2>1, Removed DEF ServicesInv
  <2>3. /\ toAnnounce'.removed = toAnnounce.removed \cup {s} /\ toAnnounce'.added = toAnnounce.added \ {s}
        /\ UNCHANGED Nameless
      BY <1>4 DEF RemoveService, Nameless, missed
  <2>4. NewsIsNew'
      BY <1>2, <2>2, <2>3 DEF ServicesInv, NewsIsNew
  <2>5. NamedAreKnown'
      BY <1>2, <2>2, <2>3 DEF ServicesInv, NamedAreKnown
  <2> QED
      BY <1>2, <2>2, <2>4, <2>5 DEF ServicesInv, OrderIsCurrent, OrderIsPublished
<1>5. ASSUME NEW named \in BOOLEAN, AddService(s, named)
      PROVE  ServicesInv'
  <2>1. PICK i \in 0 .. Len(services) :
            services' = SubSeq(services, 1, i) \o <<s>> \o SubSeq(services, i + 1, Len(services))
      BY <1>5 DEF AddService
  <2>2. s \notin Elements(services)
      BY <1>5 DEF AddService
  <2>3. Elements(services') = Elements(services) \cup {s} /\ Unrepeated(services')
      BY <1>3, <2>1, <2>2, Inserted DEF ServicesInv
  <2>4. /\ toAnnounce'.removed = toAnnounce.removed \ {s} /\ toAnnounce'.added = toAnnounce.added \cup {s}
        /\ Nameless \subseteq Nameless' \cup {s}
      BY <1>5 DEF AddService, Nameless
  <2>5. NewsIsNew'
      BY <1>2, <2>3, <2>4 DEF ServicesInv, NewsIsNew
  <2>6. NamedAreKnown'
      BY <1>2, <2>3, <2>4 DEF ServicesInv, NamedAreKnown
  <2> QED
      BY <1>2, <2>3, <2>5, <2>6 DEF ServicesInv, OrderIsCurrent, OrderIsPublished
<1> QED
    BY <1>1, <1>4, <1>5

\* connman starts anew, with nothing.
LEMMA ServicesRestart ==
    ASSUME TypeOK, ServicesInv, Restart
    PROVE  ServicesInv'
<1>1. /\ toAnnounce' = NoNews /\ services' = <<>> /\ restarted'
      /\ UNCHANGED <<signals, pc, listed, serviceObjects, servicesOrder, published>>
    BY DEF Restart, controller
<1>2. Elements(services') = {} /\ Unrepeated(services')
    BY <1>1, EmptySeq DEF Elements, Unrepeated
<1>3. toAnnounce'.added = {} /\ toAnnounce'.removed = {}
    BY <1>1 DEF NoNews
<1> QED
    BY <1>1, <1>2, <1>3 DEF ServicesInv, NewsIsNew, NamedAreKnown, OrderIsCurrent, OrderIsPublished

\* connman tells of its services.
LEMMA ServicesAnnounce ==
    ASSUME TypeOK, TypeOK', ServicesInv, Announce
    PROVE  ServicesInv'
<1> DEFINE list == [i \in DOMAIN services |->
                       [service |-> services[i],
                        name |-> IF services[i] \notin toAnnounce.added THEN "known"
                                 ELSE IF services[i] \in hidden THEN "none" ELSE "some"]]
           e == [kind |-> "services", removed |-> toAnnounce.removed, services |-> list]
<1>1. /\ signals' = Append(signals, e)
      /\ toAnnounce' = NoNews
      /\ UNCHANGED <<services, Nameless, pc, listed, serviceObjects, servicesOrder, published>>
    BY DEF Announce, Send, controller, Nameless, missed
<1>2. e.kind = "services" /\ e.removed = toAnnounce.removed /\ e.services = list
    OBVIOUS
<1>3. DOMAIN services = 1 .. Len(services) /\ Len(services) \in Nat
    BY LenProperties DEF TypeOK
<1>4. /\ Len(list) = Len(services)
      /\ \A i \in 1 .. Len(services) :
            /\ list[i].service = services[i]
            /\ services[i] \in toAnnounce.added /\ services[i] \notin hidden => list[i].name = "some"
    BY <1>3
<1> HIDE DEF e, list
<1>5. signals \in Seq(Signals) /\ signals' \in Seq(Signals)
    BY DEF TypeOK, Signals
<1>6. e \in Signals
  <2>1. Len(signals') = Len(signals) + 1 /\ signals'[Len(signals) + 1] = e /\ Len(signals) \in Nat
      BY <1>1, <1>5
  <2> QED
      BY <1>5, <2>1, ElementOfSeq
<1>7. NewestLists(signals', services)
  <2>1. Lists(e.services, services, 0)
      BY <1>2, <1>3, <1>4 DEF Lists
  <2> QED
      BY <1>1, <1>2, <1>5, <1>6, <2>1, AppendNews
<1>8. NewsIsNew'
    BY <1>1 DEF NewsIsNew, NoNews
<1>9. ASSUME NEW s \in Elements(services) \ Nameless
      PROVE  AddedIn(signals', s) \/ (/\ KeptIn(signals', s)
                                      /\ \/ pc \in {"GetTechnologies", "GetServices"}
                                         \/ s \in serviceObjects \/ Adds(listed, s))
  <2>1. s \notin e.removed
      BY <1>2 DEF ServicesInv, NewsIsNew
  <2>2. /\ Adds(e.services, s) => AddedIn(signals', s)
        /\ AddedIn(signals, s) => AddedIn(signals', s)
        /\ KeptIn(signals, s) => KeptIn(signals', s)
      BY <1>1, <1>2, <1>5, <1>6, <2>1, AppendNews
  <2>3. CASE s \in toAnnounce.added
    <3>1. PICK i \in 1 .. Len(services) : services[i] = s
        BY <1>3 DEF Elements
    <3>2. Adds(list, s)
        BY <1>3, <1>4, <1>9, <2>3, <3>1 DEF Adds, Nameless
    <3> QED
        BY <1>2, <2>2, <3>2
  <2> QED
      BY <2>2, <2>3 DEF ServicesInv, NamedAreKnown
<1>10. NamedAreKnown'
    BY <1>1, <1>9 DEF NamedAreKnown
<1> QED
    BY <1>1, <1>7, <1>8, <1>10 DEF ServicesInv, OrderIsCurrent, OrderIsPublished

\* A signal about a technology comes or is handled: nothing new of the services.
LEMMA OtherSignals ==
    ASSUME TypeOK, ServicesInv, NEW q, q = signals',
           UNCHANGED <<services, Nameless, toAnnounce, restarted, pc, listed, serviceObjects, servicesOrder>>,
           \A s : (AddedIn(signals, s) => AddedIn(q, s)) /\ (KeptIn(signals, s) => KeptIn(q, s)),
           \A v : NewestLists(signals, v) => NewestLists(q, v),
           Silent(signals) => Silent(q),
           published'.services = published.services \/ published'.services = servicesOrder
    PROVE  ServicesInv'
<1>1. NamedAreKnown'
    BY DEF ServicesInv, NamedAreKnown
<1>2. \A n : UpTo(n)' <=> UpTo(n)
    BY DEF UpTo
<1>3. OrderIsCurrent'
    BY <1>2 DEF ServicesInv, OrderIsCurrent
<1>4. OrderIsPublished'
    BY DEF ServicesInv, OrderIsPublished
<1>5. NewsIsNew' /\ Unrepeated(services)'
    BY DEF ServicesInv, NewsIsNew
<1> QED
    BY <1>1, <1>3, <1>4, <1>5 DEF ServicesInv

LEMMA ServicesTechnology ==
    ASSUME TypeOK, ServicesInv,
           \/ \E t \in Technologies : AddTechnology(t) \/ RemoveTechnology(t)
           \/ OnTechnologyAdded \/ OnTechnologyRemoved
    PROVE  ServicesInv'
<1>1. signals \in Seq(Signals)
    BY DEF TypeOK, Signals
<1>2. CASE \E t \in Technologies : AddTechnology(t) \/ RemoveTechnology(t)
  <2>1. PICK e \in TechnologySignals : signals' = Append(signals, e)
    <3>1. ASSUME NEW t \in Technologies
          PROVE  /\ [kind |-> "added", technology |-> t] \in TechnologySignals
                 /\ [kind |-> "removed", technology |-> t] \in TechnologySignals
        BY DEF TechnologySignals
    <3> QED
        BY <1>2, <3>1 DEF AddTechnology, RemoveTechnology, Send
  <2>2. e \in Signals /\ e.kind # "services"
      BY DEF TechnologySignals, Signals
  <2>3. UNCHANGED <<services, Nameless, toAnnounce, restarted, pc, listed, serviceObjects, servicesOrder, published>>
      BY <1>2 DEF AddTechnology, RemoveTechnology, controller, Nameless, missed
  <2> DEFINE q == signals'
  <2>4. /\ \A s : (AddedIn(signals, s) => AddedIn(q, s)) /\ (KeptIn(signals, s) => KeptIn(q, s))
        /\ \A v : NewestLists(signals, v) => NewestLists(q, v)
        /\ Silent(signals) => Silent(q)
      BY <1>1, <2>1, <2>2, AppendNews
  <2> QED
      BY <2>3, <2>4, OtherSignals
<1>3. CASE OnTechnologyAdded \/ OnTechnologyRemoved
  <2>1. /\ signals # <<>> /\ signals' = Tail(signals) /\ Head(signals).kind # "services"
        /\ UNCHANGED <<services, Nameless, toAnnounce, restarted, pc, listed, serviceObjects, servicesOrder>>
        /\ published'.services = servicesOrder
      BY <1>3 DEF OnTechnologyAdded, OnTechnologyRemoved, Handle, Update, connman, Nameless, missed
  <2>2. Head(signals) = signals[1]
      BY <1>1, <2>1
  <2> DEFINE q == signals'
  <2>3. /\ \A s : (AddedIn(signals, s) => AddedIn(q, s)) /\ (KeptIn(signals, s) => KeptIn(q, s))
        /\ \A v : NewestLists(signals, v) => NewestLists(q, v)
        /\ Silent(signals) => Silent(q)
      BY <1>1, <2>1, <2>2, TailNews
  <2> QED
      BY <2>1, <2>3, OtherSignals
<1> QED
    BY <1>2, <1>3

\* The controller begins with a list of services: a reply or a signal.
LEMMA ServicesListed ==
    ASSUME TypeOK, ServicesInv, GetServices \/ GetServicesFails \/ OnServicesChanged
    PROVE  ServicesInv'
<1>1. /\ pc' = "list" /\ servicesOrder' = <<>>
      /\ UNCHANGED <<services, hidden, toAnnounce, restarted, published>>
      /\ services \in Seq(Services) /\ signals \in Seq(Signals)
      /\ DOMAIN services = 1 .. Len(services) /\ Len(services) \in Nat
    BY LenProperties
       DEF GetServices, GetServicesFails, OnServicesChanged, OnServicesUpdated, Handle, connman, TypeOK, Signals
<1>2. NewsIsNew' /\ Unrepeated(services)' /\ OrderIsPublished'
    BY <1>1 DEF ServicesInv, NewsIsNew, OrderIsPublished
<1>3. ASSUME Lists(listed', services, 0)
      PROVE  \E n \in 0 .. Len(services) : UpTo(n)'
  <2>1. UpTo(0)'
      BY <1>1, <1>3, ListsNothing DEF UpTo
  <2> QED
      BY <1>1, <2>1
<1>4. CASE GetServices
  <2> DEFINE list == [i \in DOMAIN services |->
                         [service |-> services[i], name |-> IF services[i] \in hidden THEN "none" ELSE "some"]]
  <2>1. /\ listed' = list /\ UNCHANGED <<signals, Nameless>>
        /\ serviceObjects' = serviceObjects /\ pc = "GetServices"
      BY <1>4 DEF GetServices, OnServicesUpdated, connman, missed, Nameless
  <2>2. /\ Len(list) = Len(services)
        /\ \A i \in 1 .. Len(services) :
              list[i].service = services[i] /\ (services[i] \notin hidden => list[i].name = "some")
      BY <1>1
  <2> HIDE DEF list
  <2>3. \A s \in Elements(services) \ Nameless : Adds(listed', s)
      BY <1>1, <2>1, <2>2 DEF Elements, Adds, Nameless
  <2>4. NamedAreKnown'
      BY <1>1, <2>1, <2>3 DEF ServicesInv, NamedAreKnown
  <2>5. Lists(listed', services, 0)
      BY <1>1, <2>1, <2>2 DEF Lists
  <2>6. OrderIsCurrent'
      BY <1>1, <1>3, <2>1, <2>5 DEF ServicesInv, OrderIsCurrent
  <2> QED
      BY <1>2, <2>4, <2>6 DEF ServicesInv
<1>6. CASE GetServicesFails
  <2>1. /\ listed' = <<>> /\ UNCHANGED signals /\ pc = "GetServices"
        /\ Nameless' = hidden \cup Elements(services)
      BY <1>6 DEF GetServicesFails, OnServicesUpdated, connman, Nameless
  <2>2. NamedAreKnown'
      BY <1>1, <2>1 DEF NamedAreKnown
  <2>3. Lists(listed', services, Len(services))
      BY <1>1, <2>1, EmptySeq DEF Lists
  <2>4. ListsUpTo(servicesOrder', services, Len(services), Nameless')
    <3>1. \A j \in 1 .. Len(services) : services[j] \in Nameless'
        BY <1>1, <2>1 DEF Elements
    <3> QED
        BY <1>1, <3>1, ListsNothing
  <2>5. UpTo(Len(services))'
      BY <1>1, <2>3, <2>4 DEF UpTo
  <2>6. Len(services) \in 0 .. Len(services)
      BY <1>1
  <2>7. OrderIsCurrent'
      BY <1>1, <2>1, <2>5, <2>6 DEF ServicesInv, OrderIsCurrent
  <2> QED
      BY <1>2, <2>2, <2>7 DEF ServicesInv
<1>5. CASE OnServicesChanged
  <2>1. /\ pc = "exec" /\ signals # <<>> /\ signals' = Tail(signals) /\ Head(signals).kind = "services"
        /\ serviceObjects' = serviceObjects \ Head(signals).removed
        /\ listed' = Head(signals).services
        /\ listed = <<>> /\ UNCHANGED Nameless
      BY <1>5 DEF OnServicesChanged, OnServicesUpdated, Handle, TypeOK, connman, missed, Nameless
  <2>2. Head(signals) = signals[1]
      BY <1>1, <2>1
  <2>3. \A s : ~Adds(listed, s)
      BY <2>1, EmptySeq DEF Adds
  <2> DEFINE q == signals'
             h == signals[1]
  <2>4. /\ \A s : /\ AddedIn(signals, s) => AddedIn(q, s) \/ (Adds(h.services, s) /\ KeptIn(q, s))
                  /\ KeptIn(signals, s) => s \notin h.removed /\ KeptIn(q, s)
        /\ \A v : NewestLists(signals, v) => NewestLists(q, v) \/ (Lists(h.services, v, 0) /\ Silent(q))
        /\ ~Silent(signals)
      BY <1>1, <2>1, <2>2, TailNews
  <2>5. NamedAreKnown'
      BY <1>1, <2>1, <2>2, <2>3, <2>4 DEF ServicesInv, NamedAreKnown
  <2>6. OrderIsCurrent'
      BY <1>1, <1>3, <2>1, <2>2, <2>4 DEF ServicesInv, OrderIsCurrent
  <2> QED
      BY <1>2, <2>5, <2>6 DEF ServicesInv
<1> QED
    BY <1>4, <1>5, <1>6

\* A round of the loop: the order has one service more, unless it has no name.
LEMMA ServicesLoop ==
    ASSUME TypeOK, ServicesInv, ListService
    PROVE  ServicesInv'
<1> DEFINE h == Head(listed)
           x == h.service
<1>1. /\ pc = "list" /\ pc' = "list" /\ listed # <<>> /\ listed' = Tail(listed)
      /\ UNCHANGED <<services, Nameless, toAnnounce, restarted, signals, published>>
      /\ \/ /\ x \in serviceObjects \/ h.name = "some"
            /\ serviceObjects' = serviceObjects \cup {x}
            /\ servicesOrder' = Append(servicesOrder, x)
         \/ x \notin serviceObjects /\ h.name # "some" /\ UNCHANGED <<serviceObjects, servicesOrder>>
    BY DEF ListService, connman, missed, Nameless
<1>2. /\ services \in Seq(Services) /\ servicesOrder \in Seq(Services) /\ listed \in Seq(Listed)
      /\ Len(services) \in Nat /\ DOMAIN services = 1 .. Len(services)
      /\ \A i \in 1 .. Len(services) : services[i] \in Services
    BY LenProperties, ElementOfSeq DEF TypeOK
<1>3. /\ h = listed[1] /\ Len(listed) \in Nat \ {0}
      /\ Len(listed') = Len(listed) - 1
      /\ \A i \in 1 .. Len(listed') : listed'[i] = listed[i + 1]
    BY <1>1, <1>2, HeadTailProperties, EmptySeq
<1> HIDE DEF h
<1>4. NewsIsNew' /\ Unrepeated(services)' /\ OrderIsPublished'
    BY <1>1 DEF ServicesInv, NewsIsNew, OrderIsPublished
<1>5. ASSUME NEW s, Adds(listed, s)
      PROVE  s \in serviceObjects' \/ Adds(listed', s)
  <2>1. PICK i \in 1 .. Len(listed) : listed[i].service = s /\ listed[i].name = "some"
      BY <1>5 DEF Adds
  <2>2. CASE i = 1
      BY <1>1, <1>3, <2>1, <2>2
  <2>3. CASE i # 1
    <3>1. i - 1 \in 1 .. Len(listed') /\ listed'[i - 1] = listed[i]
        BY <1>3, <2>3
    <3> QED
        BY <2>1, <3>1 DEF Adds
  <2> QED
      BY <2>2, <2>3
<1>6. NamedAreKnown'
    BY <1>1, <1>5 DEF ServicesInv, NamedAreKnown
<1>7. ASSUME NEW n \in 0 .. Len(services), UpTo(n), Silent(signals), ~toAnnounce.due
      PROVE  \E m \in 0 .. Len(services) : UpTo(m)'
  <2>1. /\ Len(listed) = Len(services) - n
        /\ \A i \in 1 .. Len(listed) : listed[i].service = services[n + i]
        /\ ListsUpTo(servicesOrder, services, n, Nameless)
      BY <1>7 DEF UpTo, Lists
  <2>2. /\ n \in Nat /\ n + 1 \in 1 .. Len(services) /\ n + 1 \in 0 .. Len(services)
        /\ 1 \in 1 .. Len(listed)
        /\ Len(listed) - 1 = Len(services) - (n + 1)
        /\ \A i \in 1 .. Len(listed) : n + i \in 1 .. Len(services)
    <3>1. Len(listed) \in Nat \ {0} /\ Len(services) \in Nat /\ Len(listed) = Len(services) - n
        BY <1>2, <1>3, <2>1
    <3> QED
        BY <3>1
  <2>3. x = services[n + 1] /\ services[n + 1] \in Services
    <3>1. listed[1].service = services[n + 1]
        BY <2>1, <2>2
    <3>2. services[n + 1] \in Services
        BY <1>2, <2>2
    <3> QED
        BY <1>3, <3>1, <3>2
  <2>4. Lists(listed', services, n + 1)
    <3>1. Len(listed') = Len(services) - (n + 1)
        BY <1>3, <2>2
    <3>2. ASSUME NEW i \in 1 .. Len(listed')
          PROVE  listed'[i].service = services[n + 1 + i]
      <4>1. i \in 1 .. Len(listed) - 1 /\ Len(listed) \in Nat /\ i \in Int /\ n \in Int
          BY <1>3, <2>2
      <4>2. i + 1 \in 1 .. Len(listed) /\ n + (i + 1) = n + 1 + i
          BY ONLY <4>1
      <4> QED
          BY <1>3, <2>1, <4>2
    <3> QED
        BY <3>1, <3>2 DEF Lists
  <2>5. /\ ListsUpTo(Append(servicesOrder, services[n + 1]), services, n + 1, Nameless)
        /\ services[n + 1] \in Nameless => ListsUpTo(servicesOrder, services, n + 1, Nameless)
      BY <1>2, <2>1, <2>2, <2>3, ListsMore
  <2>6. x \notin serviceObjects /\ h.name # "some" => services[n + 1] \in Nameless
    <3> SUFFICES ASSUME x \notin serviceObjects, h.name # "some", services[n + 1] \notin Nameless
                 PROVE  FALSE
        OBVIOUS
    <3>1. x \in Elements(services) \ Nameless
        BY <1>2, <2>2, <2>3 DEF Elements
    <3>2. x \notin toAnnounce.added
        BY <1>7 DEF ServicesInv, NewsIsNew
    <3>3. ~AddedIn(signals, x)
        BY <1>7 DEF Silent, AddedIn
    <3>4. Adds(listed, x)
        BY <1>1, <3>1, <3>2, <3>3 DEF ServicesInv, NamedAreKnown
    <3>5. PICK i \in 1 .. Len(listed) : listed[i].service = x /\ listed[i].name = "some"
        BY <3>4 DEF Adds
    <3>6. services[n + i] = services[n + 1] /\ n + i \in 1 .. Len(services)
        BY <2>1, <2>2, <2>3, <3>5
    <3>7. n + i = n + 1
        BY <2>2, <3>6 DEF ServicesInv, Unrepeated
    <3>8. i = 1
        BY <2>2, <3>7
    <3> QED
        BY <1>3, <3>5, <3>8
  <2>7. ListsUpTo(servicesOrder', services, n + 1, Nameless)
      BY <1>1, <2>3, <2>5, <2>6
  <2>8. UpTo(n + 1)'
      BY <1>1, <2>4, <2>7 DEF UpTo
  <2> QED
      BY <1>1, <2>2, <2>8
<1>8. OrderIsCurrent'
    BY <1>1, <1>7 DEF ServicesInv, OrderIsCurrent
<1> QED
    BY <1>4, <1>6, <1>8 DEF ServicesInv

LEMMA ServicesStep ==
    ASSUME TypeOK, TypeOK', ServicesInv, [Next]_vars
    PROVE  ServicesInv'
<1>1. CASE GetTechnologies
  <2>1. /\ UNCHANGED <<services, Nameless, toAnnounce, restarted, signals, listed, serviceObjects, servicesOrder, published>>
        /\ pc = "GetTechnologies" /\ pc' = "GetServices"
      BY <1>1 DEF GetTechnologies, connman, missed, Nameless
  <2> QED
      BY <2>1 DEF ServicesInv, NewsIsNew, NamedAreKnown, OrderIsCurrent, OrderIsPublished
<1>2. CASE ListEnd
  <2>1. /\ UNCHANGED <<services, Nameless, toAnnounce, restarted, signals, listed, serviceObjects, servicesOrder>>
        /\ pc = "list" /\ pc' = "exec" /\ published'.services = servicesOrder
      BY <1>2 DEF ListEnd, Update, connman, missed, Nameless
  <2>2. \A n : UpTo(n)' <=> UpTo(n)
      BY <2>1 DEF UpTo
  <2>3. OrderIsCurrent'
      BY <2>1, <2>2 DEF ServicesInv, OrderIsCurrent
  <2> QED
      BY <2>1, <2>3 DEF ServicesInv, NewsIsNew, NamedAreKnown, OrderIsPublished
<1>3. CASE UNCHANGED vars
  <2>1. UNCHANGED <<services, Nameless, toAnnounce, restarted, signals, pc, listed, serviceObjects, servicesOrder, published>>
      BY <1>3 DEF vars, connman, missed, controller, Nameless
  <2>2. \A n : UpTo(n)' <=> UpTo(n)
      BY <2>1 DEF UpTo
  <2>3. OrderIsCurrent'
      BY <2>1, <2>2 DEF ServicesInv, OrderIsCurrent
  <2> QED
      BY <2>1, <2>3 DEF ServicesInv, NewsIsNew, NamedAreKnown, OrderIsPublished
<1>4. CASE Controller
    BY <1>1, <1>2, <1>4, ServicesListed, ServicesLoop, ServicesTechnology DEF Controller
<1> QED
    BY <1>3, <1>4, ServicesChange, ServicesAnnounce, ServicesRestart, ServicesTechnology DEF Next

\* When connman has nothing more to tell, and has told something since it last went
\* down, and all is handled, its services are published in its order, all but some
\* that came without a name or with a reply that was an error.
THEOREM ServicesCorrect == Spec => []ServicesMatch
<1>1. TypeOK /\ ServicesInv => ServicesMatch
  <2> SUFFICES ASSUME TypeOK, ServicesInv, pc = "exec", signals = <<>>, ~toAnnounce.due, ~restarted
               PROVE  ListsAllBut(published.services, services, Nameless)
      BY DEF ServicesMatch, Settled, AllHandled, Nameless
  <2>1. ~NewestLists(signals, services)
      BY EmptySeq DEF NewestLists
  <2>2. PICK n \in 0 .. Len(services) : UpTo(n)
      BY <2>1 DEF ServicesInv, OrderIsCurrent
  <2>3. listed = <<>> /\ services \in Seq(Services) /\ servicesOrder \in Seq(Services)
      BY DEF TypeOK
  <2>4. /\ DOMAIN services = 1 .. Len(services) /\ Len(services) \in Nat
        /\ DOMAIN servicesOrder = 1 .. Len(servicesOrder)
      BY <2>3, LenProperties
  <2>5. n = Len(services)
      BY <2>2, <2>3, <2>4, EmptySeq DEF UpTo, Lists
  <2>6. ListsUpTo(servicesOrder, services, Len(services), Nameless)
      BY <2>2, <2>5 DEF UpTo
  <2>7. ListsAllBut(servicesOrder, services, Nameless)
      BY <2>4, <2>6 DEF ListsUpTo, ListsAllBut
  <2> QED
      BY <2>7 DEF ServicesInv, OrderIsPublished
<1> QED
    BY <1>1, TypeCorrect, ServicesInit, ServicesStep, PTL DEF Spec

-----------------------------------------------------------------------------
\* PowerService.

\* What is inductive: a device that has been asked in this round is known as it is
\* until something changes, and then a signal waits or the change was silent.
Known(d, m) == m[d] = GetAll(d) \/ d \in silent \/ propertiesChanged > 0

PowerInv ==
    /\ PowerTypeOK
    /\ Display \in deviceInterfaces
    /\ powerPc = "collect" => \A d \in deviceInterfaces \ toCollect : Known(d, jsons)
    /\ powerPc = "exec" => \A d \in deviceInterfaces : Known(d, devices)

\* What a device says is the index of one of the seven texts.
LEMMA GetAllType == ASSUME PowerTypeOK, NEW d \in All PROVE GetAll(d) \in 0 .. 6
  BY PowerAssumption DEF PowerTypeOK, GetAll, DeviceState

LEMMA PowerInitInv == PowerInit => PowerInv
  BY PowerAssumption DEF PowerInit, PowerInv, PowerTypeOK, All, Absent, Known

\* The daemons' steps: what is published does not change, and whatever it says that is
\* no longer so is silent or signalled.
LEMMA ChangeInv ==
    ASSUME PowerInv,
           \/ \E d \in Devices : ChangeDevice(d) \/ PlugOrUnplug(d)
           \/ ChangeDisplay
           \/ \E a \in Actions : ChangeAllowed(a)
    PROVE  PowerInv'
<1> USE PowerAssumption DEF PowerInv
<1>1. ASSUME NEW d \in Devices, ChangeDevice(d) PROVE PowerInv'
  <2>1. PowerTypeOK'
    BY <1>1 DEF PowerTypeOK, ChangeDevice, PowerChange, powerService, All
  <2>2. \A e \in All \ {d} : GetAll(e)' = GetAll(e)
    BY <1>1 DEF ChangeDevice, GetAll, PowerTypeOK, DeviceState
  <2>3. /\ silent' = silent \cup {d} /\ UNCHANGED <<powerService, propertiesChanged>>
    BY <1>1 DEF ChangeDevice, PowerChange
  <2>4. QED BY <2>1, <2>2, <2>3 DEF Known, powerService, PowerTypeOK
<1>2. ASSUME NEW d \in Devices, PlugOrUnplug(d) PROVE PowerInv'
  <2>1. PowerTypeOK'
    BY <1>2 DEF PowerTypeOK, PlugOrUnplug, PowerChange, powerService, All
  <2>2. \A e \in All \ {d} : GetAll(e)' = GetAll(e)
    BY <1>2 DEF PlugOrUnplug, GetAll, PowerTypeOK, DeviceState
  <2>3. /\ silent' = silent \cup {d} /\ UNCHANGED <<powerService, propertiesChanged>>
    BY <1>2 DEF PlugOrUnplug, PowerChange
  <2>4. QED BY <2>1, <2>2, <2>3 DEF Known, powerService, PowerTypeOK
<1>3. ASSUME ChangeDisplay PROVE PowerInv'
  <2>1. PowerTypeOK'
    BY <1>3 DEF PowerTypeOK, ChangeDisplay, PowerChange, powerService, All
  <2>2. propertiesChanged' > 0 /\ UNCHANGED powerService
    BY <1>3 DEF PowerTypeOK, ChangeDisplay, PowerChange
  <2>3. QED BY <2>1, <2>2 DEF Known, powerService
<1>4. ASSUME NEW a \in Actions, ChangeAllowed(a) PROVE PowerInv'
  <2>1. PowerTypeOK'
    BY <1>4 DEF PowerTypeOK, ChangeAllowed, PowerChange, powerService
  <2>2. UNCHANGED <<present, state, propertiesChanged, silent, powerService>>
    BY <1>4 DEF ChangeAllowed, PowerChange
  <2>3. QED BY <2>1, <2>2 DEF Known, GetAll, DeviceState, powerService
<1>5. QED BY <1>1, <1>2, <1>3, <1>4

\* The service's steps.
LEMMA ApplicationInv == ASSUME PowerInv, PowerApplication PROVE PowerInv'
<1> USE PowerAssumption DEF PowerInv
<1>1. ASSUME EnumerateDevices PROVE PowerInv'
  BY <1>1 DEF EnumerateDevices, PowerTypeOK, upower, All
<1>2. ASSUME AskedAll PROVE PowerInv'
  BY <1>2 DEF AskedAll, Begin, PowerTypeOK, upower, All, Absent
<1>3. ASSUME OnPropertiesChanged PROVE PowerInv'
  BY <1>3 DEF OnPropertiesChanged, Begin, PowerTypeOK, All, Absent
<1>4. ASSUME UpdateDevices PROVE PowerInv'
  <2>1. PowerTypeOK'
    BY <1>4 DEF UpdateDevices, PowerTypeOK, upower
  <2>2. /\ powerPc = "collect" /\ toCollect = {} /\ devices' = jsons /\ powerPc' = "exec"
        /\ UNCHANGED <<upower, deviceInterfaces, silent>>
    BY <1>4 DEF UpdateDevices
  <2>3. QED BY <2>1, <2>2 DEF Known, GetAll, DeviceState, upower
<1>5. ASSUME NEW a \in Actions, AskAction(a) PROVE PowerInv'
  BY <1>5 DEF AskAction, PowerTypeOK, upower, All
<1>6. ASSUME NEW d \in All, CollectDevice(d) PROVE PowerInv'
  <2>1. GetAll(d) \in 0 .. 6 /\ DeviceState(0) \in 0 .. 6
    BY GetAllType DEF DeviceState
  <2>2. PowerTypeOK'
    BY <1>6, <2>1 DEF CollectDevice, PowerTypeOK, upower
  <2>3. /\ jsons'[d] = GetAll(d) \/ d \in silent'
        /\ \A e \in All \ {d} : jsons'[e] = jsons[e]
    BY <1>6 DEF CollectDevice, PowerTypeOK
  <2>4. /\ powerPc = "collect" /\ powerPc' = "collect"
        /\ toCollect' = toCollect \ {d} /\ silent \ {d} \subseteq silent'
        /\ UNCHANGED <<upower, deviceInterfaces>>
    BY <1>6 DEF CollectDevice
  <2>5. QED BY <2>2, <2>3, <2>4 DEF Known, GetAll, DeviceState, upower, PowerTypeOK
<1>7. QED BY <1>1, <1>2, <1>3, <1>4, <1>5, <1>6 DEF PowerApplication

LEMMA PowerStutter == ASSUME PowerInv, UNCHANGED powerVars PROVE PowerInv'
  BY DEF PowerInv, PowerTypeOK, powerVars, upower, powerService, Known, GetAll, DeviceState

LEMMA PowerInductive == PowerSpec => []PowerInv
<1>1. PowerInit => PowerInv
  BY PowerInitInv
<1>2. PowerInv /\ [PowerNext]_powerVars => PowerInv'
  BY ChangeInv, ApplicationInv, PowerStutter DEF PowerNext
<1>3. QED BY <1>1, <1>2, PTL DEF PowerSpec

\* powerapplication.cpp: the variables keep their types; no device is published with a
\* state that has no text.
THEOREM PowerTypes == PowerSpec => []PowerTypeOK
  BY PowerInductive, PTL DEF PowerInv

\* collectDeviceJsons: when no signal waits every known device is published as it is,
\* or has changed silently, for any devices, states and number of changes.
THEOREM DevicesMatchAlways == PowerSpec => []DevicesMatch
<1>1. PowerInv => DevicesMatch
  BY DEF PowerInv, PowerTypeOK, DevicesMatch, Known
<1>2. QED BY PowerInductive, <1>1, PTL
=============================================================================
