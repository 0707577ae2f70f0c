----------------------------- MODULE MCProgress -----------------------------
(* What must end, for TLC: the reminders of ReminderSend, the attempts of    *)
(* LoginThrottle and the orphans of StoredObjects. A behaviour exercises one *)
(* of the three and leaves the others as they start; its fairness is the     *)
(* fairness of that one. Of the reminders, some behaviours meet faults and   *)
(* refusals, others fill the channel between the two sides of a pass.        *)
EXTENDS ReminderSend

CONSTANTS Addresses, Emails, Attempts, NoPair, MaxFailures, Window, Lockout, MaxTracked,
          MaxPairsPerIp, Horizon,
          Keys, Events, Users, Transfers, Nil, Sweeps, Abandoned, Wholesale, MinAge,
          Spare,  \* reminders that are there to fill the channel
          Parts   \* what a behaviour may exercise

VARIABLES now, pairs, att, tries,
          events, attachments, avatar, purged, stored, age, named, transfer, reconciliation,
          condemned, wholesale,
          part

loginVars == <<now, pairs, att, tries>>
Login == INSTANCE LoginThrottle WITH rows <- pairs

objectVars == <<events, attachments, avatar, purged, stored, age, named, transfer,
                reconciliation, condemned>>
Objects == INSTANCE StoredObjects WITH rows <- attachments, pass <- reconciliation

\* A group of one event, deleted as a whole or left by its last member.
WholeGroup == {Events}

\* Those reminders are not due.
SpareIdle == \A n \in Spare : n \notin due /\ status[n] = "pending"
\* Every service answers: a pass is what its two sides make of each other.
Answered == \A r \in Runners : \A x \in pass[r] : ~Refused(x)
Pass == \E r \in Runners : PassStep(r)

MCInit ==
    /\ SendInit /\ Login!Init /\ Objects!ObjectsInit /\ part \in Parts
    /\ part # "objects" => ~wholesale
MCNext ==
    /\ \/ part = "reminders" /\ SendNext /\ SpareIdle' /\ UNCHANGED <<loginVars, objectVars>>
       \/ /\ part = "channel" /\ UNCHANGED <<loginVars, objectVars>>
          /\ Pass \/ \E n \in Notifications : FallDue(n)
          /\ Answered'
       \/ part = "login" /\ Login!Next /\ UNCHANGED <<sendVars, objectVars>>
       \/ part = "objects" /\ Objects!ObjectsNext /\ UNCHANGED <<sendVars, loginVars>>
    /\ UNCHANGED <<wholesale, part>>

\* The fairness of ReminderSend, that of LoginThrottle and that of StoredObjects.
MCSpec ==
    /\ MCInit /\ [][MCNext]_<<sendVars, loginVars, objectVars, wholesale, part>>
    /\ WF_sendVars(part = "reminders" /\ DropDeadSession)
    /\ \A r \in Runners : WF_sendVars(part \in {"reminders", "channel"} /\ PassStep(r))
    /\ \A p \in Attempts : SF_loginVars(part = "login" /\ Login!Step(p))
    /\ WF_objectVars(part = "objects" /\ Objects!GrowOld)
    /\ WF_objectVars(part = "objects" /\ Objects!List)
    /\ SF_objectVars(part = "objects" /\ Objects!ReadKnown)
    /\ SF_objectVars(part = "objects" /\ Objects!DeleteOrphans)
    /\ \A p \in Transfers :
          WF_objectVars(part = "objects" /\ (Objects!CommitUpload(p) \/ Objects!CommitPhoto(p)))

AttemptsEnd == Login!AttemptsEnd
OrphansGo == Objects!OrphansGo
=============================================================================
