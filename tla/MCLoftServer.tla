---------------------------- MODULE MCLoftServer ----------------------------
(***************************************************************************)
(* The service of a loft for TLC.  A behaviour is that of the handlers     *)
(* (LoftServer) or that of what surrounds them (LoftLimits), chosen at the *)
(* start.                                                                  *)
(***************************************************************************)
EXTENDS MCLoftHandlers, LoftLimits

CONSTANTS v1, v2, s1, s2

VARIABLE part

\* Two requests fill everyone's window, and one that of a source.
MCGlobalLimits == [requests |-> 2, bytes |-> 2]
MCSourceLimits == [requests |-> 1, bytes |-> 0]
MCOwnerLimits == [requests |-> 0, bytes |-> 1]

MCInit ==
    /\ part \in {"handlers", "limits"}
    /\ Init /\ LimitsInit

MCNext ==
    /\ \/ part = "handlers" /\ Next /\ UNCHANGED limitVars
       \/ part = "limits" /\ LimitsNext /\ UNCHANGED vars
    /\ UNCHANGED part

all == <<part, vars, limitVars>>

MCSpec == MCInit /\ [][MCNext]_all

Interchangeable ==
    Permutations({r1, r2}) \cup Permutations(Visit) \cup Permutations(Source)
=============================================================================
