--------------------------- MODULE SpacedContact ----------------------------
(***************************************************************************)
(* What a standing nudge promises its customers, whoever runs it and       *)
(* however often: "Never nudge the same customer more often than this,     *)
(* regardless of pattern" (backend/app/automations/nudge.py:74). Between   *)
(* two messages that are on record for a customer at least `Gap` days      *)
(* pass, unless the system has forgotten when the last one was sent.       *)
(***************************************************************************)
EXTENDS Integers

CONSTANTS Customer, Gap

VARIABLES
    since,      \* days since a message was last recorded, no more than Gap
    forgotten   \* customers whose last message the system does not remember

contacts == <<since, forgotten>>

Init == since = [c \in Customer |-> Gap] /\ forgotten = {}

\* A run reaches some customers.
Reach(reached) ==
    /\ \A c \in reached : since[c] = Gap \/ c \in forgotten
    /\ since' = [c \in Customer |-> IF c \in reached THEN 0 ELSE since[c]]
    /\ UNCHANGED forgotten

\* The system forgets about some customers, or learns about some again.
Forget ==
    /\ forgotten' \in {forgotten \cup lost : lost \in SUBSET Customer}
    /\ UNCHANGED since

Remember ==
    /\ forgotten' \in SUBSET forgotten
    /\ UNCHANGED since

DayPasses ==
    /\ since' = [c \in Customer |-> IF since[c] < Gap THEN since[c] + 1 ELSE Gap]
    /\ UNCHANGED forgotten

Next ==
    \/ \E reached \in SUBSET Customer : Reach(reached)
    \/ Forget \/ Remember
    \/ DayPasses

Spec == Init /\ [][Next]_contacts
=============================================================================
