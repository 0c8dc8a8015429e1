------------------------------ MODULE MCIcons ------------------------------
(***************************************************************************)
(* The two services that answer with icons, for TLC: icon-service (module   *)
(* IconService, instance MCIconService) and wm-service (WindowManager).     *)
(* They share no state: in a behavior one of them runs (part).              *)
(***************************************************************************)
EXTENDS MCIconService, WindowManager

VARIABLE part

\* A long title, a short one, none.  One icon has an image that is not square and
\* two that are, the other one image, and both have the same hash.
MCLooks == { [title |-> 131, normal |-> TRUE, icon |-> "gimp"],
             [title |-> 5, normal |-> TRUE, icon |-> "vim"],
             [title |-> 0, normal |-> TRUE, icon |-> "gimp"] }
MCImages == [i \in WindowIcons |-> IF i = "gimp" THEN <<0, 16, 48>> ELSE <<24>>]
MCHash == [i \in WindowIcons |-> "5f3a"]
MCWanted == {-5, 300}

\* At first there are two windows with the same icon, or none.
MCInit ==
    /\ part \in {"themes", "windows"}
    /\ Init
    /\ WindowInit /\ stacking \in {<<>>, <<1, 2>>}
    /\ stacking # <<>> => \A w \in Windows : look[w].title = 131
    /\ part = "themes" => stacking = <<>>

\* Three changes while one process runs, or two and another process.
MCBound == starts + xChanges <= 4

MCNext ==
    \/ part = "themes" /\ Next /\ UNCHANGED <<part, wmVars>>
    \/ part = "windows" /\ WindowNext /\ MCBound' /\ UNCHANGED <<part, vars>>

\* The fairness of the two.
MCFairness ==
    /\ \A w \in Workers : WF_vars(part = "themes" /\ Work(w))
    /\ WF_wmVars(part = "windows" /\ EventLoop)

MCSpec == MCInit /\ [][MCNext]_<<part, vars, wmVars>> /\ MCFairness

=============================================================================
