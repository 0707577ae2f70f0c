--------------------------- MODULE MCNotifications ---------------------------
(* PushDevices and ReminderSend for TLC. A behaviour exercises one of the    *)
(* two and leaves the other as it starts. Kinds, users and processes are     *)
(* interchangeable: the tasks are numbered as the processes, and each user   *)
(* is told of a reminder.                                                    *)
EXTENDS PushDevices, ReminderSend, TLC

CONSTANTS e1, e2

\* No device, while reminders are sent; their deletion beside a pass is in MCProgress.
Still == [tasks |-> 0, pushes |-> 0, endpoints |-> {}, registers |-> FALSE]

NoneDeleted == \A n \in Notifications : status[n] # "deleted"

MCInit == Init /\ SendInit
MCSpec ==
    /\ MCInit
    /\ [][\/ beside # Still /\ Next /\ UNCHANGED sendVars
          \/ beside = Still /\ SendNext /\ NoneDeleted' /\ UNCHANGED vars]_<<vars, sendVars>>

\* Three pushes to one device, two at once; a push and a registration at once;
\* two pushes and registrations one after the other; two registrations at once.
MCMixes ==
    {[tasks |-> 2, pushes |-> 3, endpoints |-> {e1}, registers |-> FALSE],
     [tasks |-> 2, pushes |-> 1, endpoints |-> {e1}, registers |-> TRUE],
     [tasks |-> 1, pushes |-> 2, endpoints |-> {e1}, registers |-> TRUE],
     [tasks |-> 2, pushes |-> 0, endpoints |-> {e1, e2}, registers |-> TRUE],
     Still}

MCSymmetry == Permutations(Tasks) \cup Permutations(Kinds) \cup Permutations(Users)
=============================================================================
