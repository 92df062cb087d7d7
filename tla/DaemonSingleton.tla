--------------------------- MODULE DaemonSingleton ---------------------------
(***************************************************************************)
(* What daemon.lock promises (docs/code/runtime.md, "elect exactly one     *)
(* daemon candidate"): candidates are elected one at a time, only the      *)
(* elected one accepts connections, and a process serves at most one term. *)
(* DaemonLifetime implements it.                                           *)
(***************************************************************************)
CONSTANT Daemons

VARIABLES
    elected,    \* the processes in office, at most one
    accepting,  \* the processes whose endpoint takes connections
    retired     \* the processes that lost the election or left office

singletonVars == <<elected, accepting, retired>>

Init ==
    /\ elected = {}
    /\ accepting = {}
    /\ retired = {}

Elect(d) ==
    /\ elected = {}
    /\ d \notin retired
    /\ elected' = {d}
    /\ UNCHANGED <<accepting, retired>>

Lose(d) ==
    /\ d \notin elected \cup retired
    /\ retired' = retired \cup {d}
    /\ UNCHANGED <<elected, accepting>>

Accept(d) ==
    /\ d \in elected
    /\ accepting' = accepting \cup {d}
    /\ UNCHANGED <<elected, retired>>

\* A retiring process stops accepting no later than it leaves office.
Retire(d) ==
    /\ d \in elected
    /\ elected' = elected \ {d}
    /\ accepting' = accepting \ {d}
    /\ retired' = retired \cup {d}

Next == \E d \in Daemons : Elect(d) \/ Lose(d) \/ Accept(d) \/ Retire(d)

Spec == Init /\ [][Next]_singletonVars
=============================================================================
