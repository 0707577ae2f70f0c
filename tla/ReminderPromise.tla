-------------------------- MODULE ReminderPromise --------------------------
(***************************************************************************)
(* What the sending of reminders promises of each row of                   *)
(* scheduled_notifications, whatever the processes that send them: it is   *)
(* called sent only once its recipient was reached, and once it is settled *)
(* nobody is reached again and it stays as it is.                          *)
(***************************************************************************)
CONSTANT Notifications

VARIABLES status,  \* scheduled_notifications.status, "deleted" for a row that is gone
          told     \* the notifications whose recipient was reached

vars == <<status, told>>

TypeOK == /\ status \in [Notifications -> {"pending", "sent", "failed", "deleted"}]
          /\ told \subseteq Notifications

Init == status = [n \in Notifications |-> "pending"] /\ told = {}

Settle(n, s) == /\ status[n] = "pending" /\ status' = [status EXCEPT ![n] = s]
                /\ UNCHANGED told

\* A row deleted while it is being sent may still reach its recipient.
Reach(n) == /\ status[n] \in {"pending", "deleted"}
            /\ told' = told \cup {n} /\ UNCHANGED status
MarkSent(n) == n \in told /\ Settle(n, "sent")
GiveUp(n) == Settle(n, "failed")
Delete(n) == status' = [status EXCEPT ![n] = "deleted"] /\ UNCHANGED told

Next == \E n \in Notifications : Reach(n) \/ MarkSent(n) \/ GiveUp(n) \/ Delete(n)

Spec == Init /\ [][Next]_vars
=============================================================================
