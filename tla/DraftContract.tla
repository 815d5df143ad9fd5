--------------------------- MODULE DraftContract ---------------------------
(***************************************************************************)
(* What the owner is promised about one recommendation ("find"), whatever  *)
(* queues, workflows, leases and retries deliver it:                       *)
(*                                                                         *)
(*   - a draft is shown only for an approval that still stands;            *)
(*   - drafts come one at a time, in order, and never more than she asked  *)
(*     for;                                                                *)
(*   - a revision can be asked for only once the previous draft is shown;  *)
(*   - returning the recommendation to For You takes the draft off the     *)
(*     board in the same instant and opens the next decision cycle.        *)
(*                                                                         *)
(* MakerTask.tla is shown to implement it.                                 *)
(***************************************************************************)
EXTENDS Naturals

CONSTANTS Finds,        \* recommendations
          MaxCycle,     \* bound on decision cycles
          RevisionCap   \* bound on the drafts asked for in one cycle

VARIABLES status,   \* the owner's decision on each find
          cycle,    \* its decision cycle, from 1
          wanted,   \* drafts asked for in this cycle (0: not approved)
          shown     \* number of the draft on the board (0: none)

dcVars == <<status, cycle, wanted, shown>>

Init ==
    /\ status = [f \in Finds |-> "proposed"]
    /\ cycle  = [f \in Finds |-> 1]
    /\ wanted = [f \in Finds |-> 0]
    /\ shown  = [f \in Finds |-> 0]

Accept(f) ==
    /\ status[f] \in {"proposed", "rejected"}
    /\ status' = [status EXCEPT ![f] = "accepted"]
    /\ wanted' = [wanted EXCEPT ![f] = 1]
    /\ UNCHANGED <<cycle, shown>>

Pass(f) ==
    /\ status[f] = "proposed"
    /\ status' = [status EXCEPT ![f] = "rejected"]
    /\ UNCHANGED <<cycle, wanted, shown>>

\* The draft shown is always the last one asked for when another is asked for.
AskRevision(f) ==
    /\ status[f] = "accepted"
    /\ shown[f] = wanted[f]
    /\ wanted[f] < RevisionCap
    /\ wanted' = [wanted EXCEPT ![f] = @ + 1]
    /\ UNCHANGED <<status, cycle, shown>>

\* A draft replaces the one before it: never skipped, never repeated.
Deliver(f) ==
    /\ status[f] = "accepted"
    /\ shown[f] + 1 = wanted[f]
    /\ shown' = [shown EXCEPT ![f] = @ + 1]
    /\ UNCHANGED <<status, cycle, wanted>>

Reopen(f) ==
    /\ status[f] = "accepted"
    /\ cycle[f] < MaxCycle
    /\ status' = [status EXCEPT ![f] = "proposed"]
    /\ cycle'  = [cycle EXCEPT ![f] = @ + 1]
    /\ wanted' = [wanted EXCEPT ![f] = 0]
    /\ shown'  = [shown EXCEPT ![f] = 0]

Next == \E f \in Finds :
            \/ Accept(f) \/ Pass(f) \/ AskRevision(f) \/ Deliver(f) \/ Reopen(f)

Spec == Init /\ [][Next]_dcVars
=============================================================================
