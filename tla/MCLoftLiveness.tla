--------------------------- MODULE MCLoftLiveness ---------------------------
(***************************************************************************)
(* The handlers of a loft for TLC, with fairness.  A behaviour is one of   *)
(* two scenes, chosen at the start.                                        *)
(***************************************************************************)
EXTENDS MCLoftHandlers

VARIABLE scene

\* Two requests race two changes of the policy, which takes a publish around its
\* retry loop and to the end of it.  All are sent before the clock moves and
\* nobody reads, so what is stored expires, some of it before it is stored.  The
\* loft does not restart: that would answer every request at once.
Publishing ==
    /\ scene = "publishing"
    /\ \A r \in Request : pub'[r].phase # "idle" => pub'[r].start = 0
    /\ UNCHANGED <<readers, record, rotation, crashes>>

\* One request at a time, a reader that keeps polling, the strict policy alone,
\* and every other handler.
Polling ==
    /\ scene = "polling"
    /\ pub'[r2] = Idle
    /\ \A a \in Agent : policy'[a].seq # 1

MCInit == Init /\ scene \in {"publishing", "polling"}

MCNext == Next /\ (Publishing \/ Polling) /\ UNCHANGED scene

MCFairness ==
    /\ ServiceFairness
    /\ \A a \in Agent :
         /\ SF_vars(scene = "polling" /\ Fetch(a))
         /\ SF_vars(Deliver(a))

MCSpec == MCInit /\ [][MCNext]_<<vars, scene>> /\ MCFairness

=============================================================================
