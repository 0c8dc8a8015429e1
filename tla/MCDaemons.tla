----------------------------- MODULE MCDaemons -----------------------------
(***************************************************************************)
(* The two services that follow a system daemon over D-Bus, for TLC:        *)
(* connman-service (Connman) and power-service (PowerService).  They share  *)
(* no state: in a behavior one of them runs (part).                         *)
(***************************************************************************)
EXTENDS Connman, PowerService

VARIABLE part

MCInit ==
    /\ part \in {"connman", "power"}
    /\ Init /\ PowerInit
    /\ part = "connman" => /\ present = {Display} /\ allowed = {}
                           /\ state = [d \in All |-> CHOOSE s \in States : TRUE]
    /\ part = "power" => technologies = {}

MCNext ==
    \/ part = "connman" /\ Next /\ UNCHANGED <<part, powerVars>>
    \/ part = "power" /\ PowerNext /\ UNCHANGED <<part, vars>>

\* The fairness of Connman
MCFairness ==
    /\ WF_vars(part = "connman" /\ Controller) /\ WF_vars(part = "connman" /\ Announce)

MCSpec == MCInit /\ [][MCNext]_<<part, vars, powerVars>> /\ MCFairness

-----------------------------------------------------------------------------
\* connman-service: the controller catches up with connman once connman stops changing.
ConnmanCatchesUp == part = "connman" => CatchesUp

=============================================================================
