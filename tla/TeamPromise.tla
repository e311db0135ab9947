---------------------------- MODULE TeamPromise ----------------------------
(***************************************************************************)
(* What wait-all team mode promises, without files, locks or processes,    *)
(* when a report may be delivered more than once: the team is settled on   *)
(* the report of the lead and of every member since it last was, which     *)
(* consumes the reports; hooks that decided on the same reports may settle *)
(* a round again, and no round ends unsettled.                             *)
(***************************************************************************)
CONSTANT
    Actor  \* the lead and the members

VARIABLES
    reported,   \* who has reported since the team was last settled
    settled     \* whether the current round was announced, or ended by the user's filters

vars == <<reported, settled>>

Init == reported = {} /\ settled = FALSE

Report(a) == reported' = reported \cup {a} /\ UNCHANGED settled

Settle == (reported = Actor \/ settled) /\ reported' = {} /\ settled' = TRUE

NewRound == settled /\ settled' = FALSE /\ UNCHANGED reported

Next == Settle \/ NewRound \/ \E a \in Actor : Report(a)

Spec == Init /\ [][Next]_vars
=============================================================================
