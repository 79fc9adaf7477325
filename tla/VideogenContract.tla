-------------------------- MODULE VideogenContract --------------------------
(***************************************************************************)
(* What app/videogen promises the mobile app, without loops, leases or     *)
(* retries: a generation is pending until it is closed once and for all,   *)
(* and it closes as complete only after its post is visible.  A post may   *)
(* still appear for a generation that was given up on.                     *)
(***************************************************************************)
CONSTANT Videos
VARIABLES
    status,   \* what the Drafts spinner and its closing are drawn from
    visible   \* the videos whose post the app can show

Init ==
    /\ status = [v \in Videos |-> "absent"]
    /\ visible = {}

Request(v) ==
    /\ status[v] = "absent"
    /\ status' = [status EXCEPT ![v] = "pending"]
    /\ UNCHANGED visible

Show(v) ==
    /\ status[v] # "absent" /\ v \notin visible
    /\ visible' = visible \cup {v}
    /\ UNCHANGED status

Complete(v) ==
    /\ status[v] = "pending" /\ v \in visible
    /\ status' = [status EXCEPT ![v] = "complete"]
    /\ UNCHANGED visible

\* The stale sweep gives up on several generations at once.
Abandon(S) ==
    /\ S # {} /\ \A v \in S: status[v] = "pending"
    /\ status' = [v \in Videos |-> IF v \in S THEN "failed" ELSE status[v]]
    /\ UNCHANGED visible

Next ==
    \/ \E v \in Videos: Request(v) \/ Show(v) \/ Complete(v)
    \/ \E S \in SUBSET Videos: Abandon(S)

Spec == Init /\ [][Next]_<<status, visible>>
=============================================================================
