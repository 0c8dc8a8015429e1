----------------------------- MODULE MCStreams -----------------------------
(***************************************************************************)
(* What workers send to clients, for TLC: event streams (NotificationStream) *)
(* and the cached texts of a resource (JsonResource).  The two share no     *)
(* state: in a behavior one of them is at work (part).                      *)
(***************************************************************************)
EXTENDS NotificationStream, JsonResource

VARIABLE part

streamVars == <<mClientSockets, it, waiting, event, phase, joined, alive, sent, unread, hungUp>>

\* What a worker has accepted before its first request does not matter.
MCInit ==
    /\ part \in {"streams", "cache"}
    /\ Init
    /\ accepted = [w \in Workers |-> "da"] /\ CacheInit

MCNext ==
    \/ part = "streams" /\ Next /\ UNCHANGED <<part, cacheVars>>
    \/ part = "cache" /\ CacheNext /\ UNCHANGED <<part, streamVars>>

\* The fairness of NotificationStream
MCFairness == /\ WF_streamVars(part = "streams" /\ Notifying)
              /\ \A s \in Subscribers : WF_streamVars(part = "streams" /\ PushBack(s))

MCSpec == MCInit /\ [][MCNext]_<<part, streamVars, cacheVars>> /\ MCFairness

=============================================================================
