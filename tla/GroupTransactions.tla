------------------------- MODULE GroupTransactions -------------------------
(***************************************************************************)
(* The membership of the groups under concurrent requests: groups/mod.rs,  *)
(* groups/succession.rs, the purge of one account (jobs/account_purge.rs)  *)
(* and the superadmin's account actions (user_admin/admin.rs), on one      *)
(* Postgres database at its default isolation, READ COMMITTED.             *)
(*                                                                         *)
(* A request is a transaction.  Every plain SELECT it decides on is a step *)
(* of its own, over what is committed at that moment, and locks nothing.   *)
(* The writes that end a request read nothing but the rows they lock, so   *)
(* they and the COMMIT are one step, which waits for rows another          *)
(* transaction has locked.  The transactions that read after they have     *)
(* written (the purge, a reactivation, a designation) take their locks in  *)
(* `rows` and apply their writes at COMMIT.                                *)
(***************************************************************************)
EXTENDS Naturals, FiniteSets

CONSTANTS Users, Groups, Tokens,
          Requests,         \* the requests in flight at once
          Nobody,           \* no user
          NoGroup,          \* no group
          MaxGroupsPerUser, \* MAX_GROUPS_PER_USER
          Mixes             \* the sets of endpoints a behaviour may exercise

ASSUME CapAssumption == MaxGroupsPerUser \in Nat

VARIABLES member,       \* group_members: the role of each user in each group
          groups,       \* the rows of `groups`
          invited,      \* invitations: per token, the group and who sent it
          deactivated, pending, purged,  \* users: deactivated_at, deletion_requested_at, deleted_at
          req,          \* the requests in flight
          handlers      \* the endpoints this behaviour exercises

accounts == <<deactivated, pending, purged>>
groupVars == <<member, groups, invited, deactivated, pending, purged, req, handlers>>

Roles == {"owner", "admin", "standard"}
NoInvitation == [g |-> NoGroup, by |-> Nobody]

NoRequest == [op |-> "none", at |-> "end", by |-> Nobody, g |-> NoGroup, on |-> Nobody,
         arg |-> "none", todo |-> {}, left |-> {}, seen |-> {}, out |-> {}, last |-> {},
         heirs |-> {}, rows |-> {}]

GroupTypeOK ==
    /\ member \in [Groups -> [Users -> Roles \cup {"none"}]]
    /\ groups \subseteq Groups
    /\ invited \in [Tokens -> [g : Groups \cup {NoGroup}, by : Users \cup {Nobody}]]
    /\ deactivated \subseteq Users /\ pending \subseteq Users /\ purged \subseteq Users
    /\ \A p \in Requests :
          /\ req[p].by \in Users \cup {Nobody} /\ req[p].g \in Groups \cup {NoGroup}
          /\ req[p].rows \subseteq Groups \X Users /\ req[p].heirs \subseteq req[p].rows
    /\ \A g \in Groups \ groups, u \in Users : member[g][u] = "none"
    /\ \A t \in Tokens : invited[t].g \in groups \cup {NoGroup}
    /\ handlers \in Mixes

Members(g) == {u \in Users : member[g][u] # "none"}
GroupsOf(u) == {g \in Groups : member[g][u] # "none"}
Owners(m) == {u \in Users : m[u] = "owner"}

\* Any groups that exist have one owner; nobody has left yet.
GroupInit ==
    /\ groups \in SUBSET Groups
    /\ member \in [Groups -> [Users -> Roles \cup {"none"}]]
    /\ \A g \in Groups : IF g \in groups THEN Cardinality(Owners(member[g])) = 1
                         ELSE Members(g) = {}
    /\ \A u \in Users : Cardinality(GroupsOf(u)) <= MaxGroupsPerUser
    /\ invited = [t \in Tokens |-> NoInvitation]
    /\ deactivated = {} /\ pending = {} /\ purged = {}
    /\ req = [p \in Requests |-> NoRequest]
    /\ handlers \in Mixes

\* A session is full only for an account neither deactivated nor purged.
Live(u) == u \notin deactivated \cup purged

-----------------------------------------------------------------------------
(* Locks. *)

RowsFree(p, R) == \A q \in Requests \ {p} : req[q].rows \cap R = {}
Row(g, u) == {<<g, u>>}

\* The transactions that hold the row of a user: the purge (FOR UPDATE) and a
\* reactivation (UPDATE).  A foreign key (FOR KEY SHARE) waits for the first only.
Holding(p, ops, u) == \E q \in Requests \ {p} : req[q].op \in ops /\ req[q].by = u
UserFree(p, u) == ~Holding(p, {"purge_account", "reactivate_user"}, u)
UserReferable(p, u) == ~Holding(p, {"purge_account"}, u)

\* one_owner_per_group: a second owner row waits for whoever is writing the
\* first, and fails if it stays.
OwnerSlotFree(p, g) ==
    \A q \in Requests \ {p} : \A u \in Users :
        <<g, u>> \in req[q].rows => member[g][u] # "owner" /\ <<g, u>> \notin req[q].heirs
one_owner_per_group(m) == Cardinality(Owners(m)) <= 1

-----------------------------------------------------------------------------
(* How a request begins, goes on and ends. *)

Begin(p, op, r) == /\ op \in handlers /\ req[p] = NoRequest
                   /\ req' = [req EXCEPT ![p] = r]
Request(op, at, u, g, v, arg) ==
    [NoRequest EXCEPT !.op = op, !.at = at, !.by = u, !.g = g, !.on = v, !.arg = arg]
At(p, op, at) == req[p].op = op /\ req[p].at = at
Go(p, at) == req' = [req EXCEPT ![p].at = at]
End(p) == req' = [req EXCEPT ![p] = NoRequest]
OnlyReq == UNCHANGED <<member, groups, invited, accounts>>
Refuse(p) == End(p) /\ OnlyReq

\* The next role of a group, if the index lets it: otherwise an error, rolled back.
WriteRoles(g, m) ==
    IF one_owner_per_group(m) THEN member' = [member EXCEPT ![g] = m]
    ELSE UNCHANGED member

-----------------------------------------------------------------------------
(* groups/mod.rs *)

\* create_group: the caller's memberships are counted...
CreateCount(p, u, g) ==
    /\ Live(u) /\ g \notin groups /\ \A q \in Requests : req[q].g # g
    /\ Cardinality(GroupsOf(u)) < MaxGroupsPerUser
    /\ Begin(p, "create_group", Request("create_group", "write", u, g, Nobody, "none"))
    /\ OnlyReq
\* ...then the group and its owner's row are inserted.
CreateInsert(p) ==
    LET u == req[p].by  g == req[p].g IN
    /\ At(p, "create_group", "write") /\ UserReferable(p, u)
    /\ groups' = groups \cup {g}
    /\ member' = [member EXCEPT ![g][u] = "owner"]
    /\ End(p) /\ UNCHANGED <<invited, accounts>>

\* create_invitation: the caller's role is read, then the invitation inserted
\* (an error if the group is gone: its foreign key).
InviteReadRole(p, u, g) ==
    /\ Live(u) /\ member[g][u] \in {"owner", "admin"}
    /\ Begin(p, "create_invitation", Request("create_invitation", "write", u, g, Nobody, "none"))
    /\ OnlyReq
InviteInsert(p, t) ==
    /\ At(p, "create_invitation", "write") /\ invited[t] = NoInvitation
    /\ UserReferable(p, req[p].by)
    /\ IF req[p].g \in groups
       THEN invited' = [invited EXCEPT ![t] = [g |-> req[p].g, by |-> req[p].by]]
       ELSE UNCHANGED invited
    /\ End(p) /\ UNCHANGED <<member, groups, accounts>>

\* accept_invitation: the group is looked up by the token...
AcceptLookup(p, u, t) ==
    /\ Live(u) /\ invited[t] # NoInvitation
    /\ Begin(p, "accept_invitation",
             Request("accept_invitation", t, u, invited[t].g, Nobody, "none"))
    /\ OnlyReq
\* Mutant: the invitation found by the lookup is not looked at again; only the
\* foreign key of the membership is left.
StillInvitedAsRead(t, g) == g \in groups /\ t \in Tokens
StillInvited(t, g) == invited[t].g = g
\* ...then the invitation is locked, deleted and the row inserted; an invitation
\* accepted or deleted meanwhile is a 404.
AcceptJoin(p, t) ==
    LET u == req[p].by  g == req[p].g IN
    /\ At(p, "accept_invitation", t)
    /\ UserReferable(p, u) /\ RowsFree(p, Row(g, u))
    /\ IF StillInvited(t, g)
       THEN /\ invited' = [invited EXCEPT ![t] = NoInvitation]
            /\ member' = [member EXCEPT ![g][u] = IF @ = "none" THEN "standard" ELSE @]
       ELSE UNCHANGED <<invited, member>>
    /\ End(p) /\ UNCHANGED <<groups, accounts>>

\* Mutant: the owner is like any other target.
MayActOnAnyone(actor_role, target_role) ==
    actor_role = "owner" \/ (actor_role = "admin" /\ target_role # "admin")

actor_can_act_on(actor_role, target_role) ==
    /\ target_role # "owner"
    /\ (actor_role = "owner" \/ (actor_role = "admin" /\ target_role # "admin"))

\* change_role and remove_member: the caller's role is read, then the target's;
\* what they allow is then done to the target's row as it has become.
ActorReadRole(p, op, u, g, v, to) ==
    /\ Live(u) /\ member[g][u] # "none"
    /\ Begin(p, op, [Request(op, "target", u, g, v, to) EXCEPT !.seen = {member[g][u]}])
    /\ OnlyReq
TargetReadRole(p) ==
    LET r == req[p] IN
    /\ r.op \in {"change_role", "remove_member"} /\ r.at = "target"
    /\ IF /\ member[r.g][r.on] # "none"
          /\ \A role \in r.seen : actor_can_act_on(role, member[r.g][r.on])
       THEN Go(p, "write") ELSE End(p)
    /\ OnlyReq
ChangeRoleWrite(p) ==
    LET r == req[p] IN
    /\ At(p, "change_role", "write") /\ RowsFree(p, Row(r.g, r.on))
    /\ member' = [member EXCEPT ![r.g][r.on] = IF @ = "none" THEN @ ELSE r.arg]
    /\ End(p) /\ UNCHANGED <<groups, invited, accounts>>
RemoveMemberWrite(p) ==
    LET r == req[p] IN
    /\ At(p, "remove_member", "write") /\ RowsFree(p, Row(r.g, r.on))
    /\ member' = [member EXCEPT ![r.g][r.on] = "none"]
    /\ End(p) /\ UNCHANGED <<groups, invited, accounts>>

\* perform_ownership_transfer: two UPDATEs by key, the demotion first; either may
\* find no row.
perform_ownership_transfer(m, u, v) ==
    [m EXCEPT ![u] = IF @ = "none" THEN @ ELSE "admin",
              ![v] = IF @ = "none" THEN @ ELSE "owner"]

\* transfer_ownership: the owner's role, the target's membership, the swap.
TransferReadRole(p, u, g, v) ==
    /\ Live(u) /\ member[g][u] = "owner" /\ v # u
    /\ Begin(p, "transfer_ownership", Request("transfer_ownership", "target", u, g, v, "none"))
    /\ OnlyReq
TransferReadTarget(p) ==
    /\ At(p, "transfer_ownership", "target")
    /\ IF member[req[p].g][req[p].on] # "none" THEN Go(p, "write") ELSE End(p)
    /\ OnlyReq
TransferWrite(p) ==
    LET r == req[p] IN
    /\ At(p, "transfer_ownership", "write")
    /\ RowsFree(p, Row(r.g, r.by) \cup Row(r.g, r.on)) /\ OwnerSlotFree(p, r.g)
    /\ WriteRoles(r.g, perform_ownership_transfer(member[r.g], r.by, r.on))
    /\ End(p) /\ UNCHANGED <<groups, invited, accounts>>

\* leave_group: the role, the count, the new owner's membership, the writes.
LeaveReadRole(p, u, g, v) ==
    /\ Live(u) /\ member[g][u] # "none"
    /\ Begin(p, "leave_group", [Request("leave_group", "count", u, g, v, "none")
                                  EXCEPT !.seen = {member[g][u]}])
    /\ OnlyReq
LeaveCount(p) ==
    LET r == req[p] IN
    /\ At(p, "leave_group", "count")
    /\ CASE Cardinality(Members(r.g)) <= 1 -> End(p)
         [] Cardinality(Members(r.g)) > 1 /\ "owner" \notin r.seen -> Go(p, "write")
         [] OTHER -> IF r.on \in {Nobody, r.by} THEN End(p) ELSE Go(p, "target")
    /\ OnlyReq
LeaveReadNewOwner(p) ==
    /\ At(p, "leave_group", "target")
    /\ IF member[req[p].g][req[p].on] # "none" THEN Go(p, "write") ELSE End(p)
    /\ OnlyReq
LeaveWrite(p) ==
    LET r == req[p]
        handsOver == "owner" \in r.seen
        m == IF handsOver THEN perform_ownership_transfer(member[r.g], r.by, r.on)
             ELSE member[r.g]
    IN  /\ At(p, "leave_group", "write")
        /\ RowsFree(p, Row(r.g, r.by))
        /\ handsOver => RowsFree(p, Row(r.g, r.on)) /\ OwnerSlotFree(p, r.g)
        /\ IF one_owner_per_group(m)
           THEN member' = [member EXCEPT ![r.g] = [m EXCEPT ![r.by] = "none"]]
           ELSE UNCHANGED member
        /\ End(p) /\ UNCHANGED <<groups, invited, accounts>>

\* DELETE FROM groups: its members and invitations go with it.
Cascade(D) ==
    /\ groups' = groups \ D
    /\ invited' = [t \in Tokens |-> IF invited[t].g \in D THEN NoInvitation ELSE invited[t]]
DeleteReadRole(p, u, g) ==
    /\ Live(u) /\ member[g][u] = "owner"
    /\ Begin(p, "delete_group", Request("delete_group", "write", u, g, Nobody, "none"))
    /\ OnlyReq
DeleteWrite(p) ==
    LET g == req[p].g IN
    /\ At(p, "delete_group", "write") /\ RowsFree(p, {g} \X Users)
    /\ Cascade({g})
    /\ member' = [member EXCEPT ![g] = [u \in Users |-> "none"]]
    /\ End(p) /\ UNCHANGED accounts

-----------------------------------------------------------------------------
(* The accounts: auth/mod.rs, user_admin/admin.rs *)

\* delete_account: refused to an owner, then written.
DeletionReadGroups(p, u) ==
    /\ Live(u) /\ \A g \in Groups : member[g][u] # "owner"
    /\ Begin(p, "delete_account", Request("delete_account", "write", u, NoGroup, Nobody, "none"))
    /\ OnlyReq
DeletionWrite(p) ==
    /\ At(p, "delete_account", "write") /\ UserFree(p, req[p].by)
    /\ pending' = pending \cup {req[p].by}
    /\ End(p) /\ UNCHANGED <<member, groups, invited, deactivated, purged>>

cancel_delete_account(u) ==
    /\ "cancel_delete_account" \in handlers
    /\ Live(u) /\ u \in pending /\ \A p \in Requests : UserFree(p, u)
    /\ pending' = pending \ {u}
    /\ UNCHANGED <<member, groups, invited, deactivated, purged, req>>

deactivate_user(u) ==
    /\ "deactivate_user" \in handlers
    /\ Live(u) /\ \A p \in Requests : UserFree(p, u)
    /\ deactivated' = deactivated \cup {u}
    /\ UNCHANGED <<member, groups, invited, pending, purged, req>>

-----------------------------------------------------------------------------
(* Succession: groups/succession.rs, under the transactions that run it. *)

\* The membership as the transaction of p sees it: a purge has deleted its own rows.
Visible(p, g) == {u \in Members(g) : req[p].op = "purge_account" => u # req[p].by}

\* Mutant: nobody awaiting deletion inherits.
ActiveHeirs(S, out, last, m) ==
    LET eligible == S \ (out \cup last)
    IN  {u \in eligible : m[u] = "admin" \/ \A v \in eligible : m[v] # "admin"}

\* successor: active admins, active members, admins awaiting deletion, members
\* awaiting deletion; the seniority that decides within a class is left open.
Heirs(S, out, last, m) ==
    LET eligible == S \ out
        rank(u) == (IF u \in last THEN 2 ELSE 0) + (IF m[u] = "admin" THEN 0 ELSE 1)
    IN  {u \in eligible : \A v \in eligible : rank(u) <= rank(v)}

\* reactivate_user: the row is updated, then the ownerless groups are read.
ReactivateUpdate(p, u) ==
    /\ u \in deactivated \ purged /\ UserFree(p, u)
    /\ Begin(p, "reactivate_user", Request("reactivate_user", "find", u, NoGroup, Nobody, "none"))
    /\ OnlyReq
ReactivateFind(p) ==
    /\ At(p, "reactivate_user", "find")
    /\ req' = [req EXCEPT ![p].at = "hand",
                  ![p].todo = {g \in GroupsOf(req[p].by) : Owners(member[g]) = {}}]
    /\ OnlyReq

\* purge_account: the row is locked and found due (AccountLifecycle says when),
\* and the account's memberships deleted.
PurgeDeleteMemberships(p, u) ==
    LET gone == {<<g, u>> : g \in GroupsOf(u)} IN
    /\ u \in (pending \cup deactivated) \ purged
    /\ UserFree(p, u) /\ RowsFree(p, gone)
    /\ Begin(p, "purge_account",
             [Request("purge_account", "hand", u, NoGroup, Nobody, "none")
                EXCEPT !.left = GroupsOf(u), !.rows = gone,
                       !.todo = {g \in Groups : member[g][u] = "owner"}])
    /\ OnlyReq

\* designate_owner
DesignateBegin(p, g, v) ==
    /\ g \in groups
    /\ Begin(p, "designate_owner",
             [Request("designate_owner", "hand", Nobody, NoGroup, v, "none") EXCEPT !.todo = {g}])
    /\ OnlyReq

\* lock_members, its snapshot: the members and what `users` says of them.
LockMembersStart(p, g) ==
    LET r == req[p] IN
    /\ r.at = "hand" /\ g \in r.todo
    /\ req' = [req EXCEPT ![p].at = "lock", ![p].g = g, ![p].todo = @ \ {g},
                  ![p].seen = Visible(p, g),
                  ![p].out = IF r.op = "reactivate_user" THEN deactivated \ {r.by} ELSE deactivated,
                  ![p].last = pending]
    /\ OnlyReq

\* Mutant: the members are read without FOR UPDATE.
ReadWithoutLock(p) == req[p].at = "lock"

\* lock_members, its locks: it waits for whoever holds a row.
MembersLockable(p) == /\ req[p].at = "lock"
                      /\ RowsFree(p, {<<req[p].g, u>> : u \in req[p].seen})

\* assign_heir, or check_designation and stamp_inheritance, over the rows as
\* they are once locked; `users` is not read again.  The heir's UPDATE fails on
\* the index if the group has got an owner these rows do not show.
AssignHeir(p) ==
    LET r == req[p]
        m == member[r.g]
        now == r.seen \cap Visible(p, r.g)
        may == CASE Owners(m) \cap now # {} -> {}
                 [] Owners(m) \cap now = {} /\ r.op = "designate_owner" ->
                        {r.on} \cap (now \ (r.out \cup r.last))
                 [] OTHER -> Heirs(now, r.out, r.last, m)
        next == [r EXCEPT !.at = "hand", !.rows = @ \cup {<<r.g, u>> : u \in now}]
    IN  /\ MembersLockable(p)
        /\ IF may = {} THEN req' = [req EXCEPT ![p] = next]
           ELSE \E heir \in may : OwnerSlotFree(p, r.g) /\
                req' = [req EXCEPT ![p] =
                   IF \E o \in Visible(p, r.g) : m[o] = "owner"
                   THEN [next EXCEPT !.at = "unique_violation"]
                   ELSE [next EXCEPT !.heirs = @ \cup {<<r.g, heir>>}]]
        /\ OnlyReq

\* delete_if_abandoned: is anybody left?
PurgeFindAbandoned(p) ==
    /\ At(p, "purge_account", "hand") /\ req[p].todo = {}
    /\ req' = [req EXCEPT ![p].at = "delete",
                  ![p].left = {g \in @ \cap groups : Visible(p, g) = {}}]
    /\ OnlyReq

\* COMMIT of the heirs.
WithHeirs(H) == [g \in Groups |-> [u \in Users |->
                    IF <<g, u>> \in H THEN "owner" ELSE member[g][u]]]

\* The abandoned groups are deleted, what has joined them since included, and the
\* row is anonymised.
PurgeCommit(p) ==
    LET r == req[p]  m == WithHeirs(r.heirs) IN
    /\ At(p, "purge_account", "delete") /\ RowsFree(p, r.left \X Users)
    /\ member' = [g \in Groups |-> [u \in Users |->
                    IF (<<g, u>> \in r.rows /\ u = r.by) \/ g \in r.left THEN "none"
                    ELSE m[g][u]]]
    /\ groups' = groups \ r.left
    /\ invited' = [t \in Tokens |-> IF invited[t].g \in r.left \/ invited[t].by = r.by
                                    THEN NoInvitation ELSE invited[t]]
    /\ purged' = purged \cup {r.by}
    /\ End(p) /\ UNCHANGED <<deactivated, pending>>
ReactivateCommit(p) ==
    /\ At(p, "reactivate_user", "hand") /\ req[p].todo = {}
    /\ member' = WithHeirs(req[p].heirs)
    /\ deactivated' = deactivated \ {req[p].by}
    /\ End(p) /\ UNCHANGED <<groups, invited, pending, purged>>
DesignateCommit(p) ==
    /\ At(p, "designate_owner", "hand") /\ req[p].todo = {}
    /\ member' = WithHeirs(req[p].heirs)
    /\ End(p) /\ UNCHANGED <<groups, invited, accounts>>

\* A request may fail anywhere: its connection lost, its caller gone, itself
\* chosen by Postgres to end a deadlock.  Nothing it wrote stays.
RequestFails(p) == req[p] # NoRequest /\ Refuse(p)

-----------------------------------------------------------------------------
Starts(p) ==
    \E u \in Users :
        \/ DeletionReadGroups(p, u) \/ ReactivateUpdate(p, u) \/ PurgeDeleteMemberships(p, u)
        \/ \E t \in Tokens : AcceptLookup(p, u, t)
        \/ \E g \in Groups :
              \/ CreateCount(p, u, g) \/ InviteReadRole(p, u, g) \/ DeleteReadRole(p, u, g)
              \/ DesignateBegin(p, g, u)
              \/ \E v \in Users : TransferReadRole(p, u, g, v)
                                  \/ ActorReadRole(p, "remove_member", u, g, v, "none")
              \/ \E v \in Users, to \in {"admin", "standard"} :
                    ActorReadRole(p, "change_role", u, g, v, to)
              \/ \E v \in Users \cup {Nobody} : LeaveReadRole(p, u, g, v)

Reads(p) == TargetReadRole(p) \/ TransferReadTarget(p) \/ LeaveCount(p) \/ LeaveReadNewOwner(p)

Writes(p) ==
    \/ CreateInsert(p) \/ ChangeRoleWrite(p) \/ RemoveMemberWrite(p) \/ TransferWrite(p)
    \/ LeaveWrite(p) \/ DeleteWrite(p) \/ DeletionWrite(p)
    \/ \E t \in Tokens : InviteInsert(p, t) \/ AcceptJoin(p, t)

Succession(p) ==
    \/ ReactivateFind(p) \/ AssignHeir(p) \/ PurgeFindAbandoned(p)
    \/ PurgeCommit(p) \/ ReactivateCommit(p) \/ DesignateCommit(p)
    \/ \E g \in Groups : LockMembersStart(p, g)

GroupNext ==
    /\ \/ \E p \in Requests : Starts(p) \/ Reads(p) \/ Writes(p) \/ Succession(p) \/ RequestFails(p)
       \/ \E u \in Users : deactivate_user(u) \/ cancel_delete_account(u)
    /\ UNCHANGED handlers

GroupSpec == GroupInit /\ [][GroupNext]_groupVars

-----------------------------------------------------------------------------
(* Properties. *)

\* accept_invitation locks the invitation: one token lets in one account, and
\* nobody joins on a token already used.
InvitationAdmitsOne ==
    [][\A p \in Requests, g \in Groups :
          (/\ req[p].op = "accept_invitation" /\ req'[p] = NoRequest
           /\ member[g] # member'[g])
          => \E t \in Tokens : invited[t].g = g /\ invited'[t] = NoInvitation]_groupVars

\* lock_members: two reactivations, a reactivation and a designation, or the purge
\* and either, never both hand out a group; the later one waits and finds the owner.
\* It finds those who were members when it began to wait: one who has joined since,
\* and is the owner already, is not among them.
SuccessionNeverCollides ==
    "accept_invitation" \notin handlers => \A p \in Requests : req[p].at # "unique_violation"

\* Members invited, promoted, demoted and removed at the same time never cost a
\* group its owner, as long as nobody hands the ownership over meanwhile (a
\* hand-over reads its target's membership before it writes).
HandOvers == {"transfer_ownership", "leave_group", "purge_account"}
GroupsAreOwned ==
    handlers \cap HandOvers = {} => \A g \in groups : Owners(member[g]) # {}

\* A group the purge leaves without an owner has no active member, and none that
\* merely awaits deletion: every account support has not deactivated inherits.
\* That is about the purge beside designations, deletion requests, creations and
\* deletions of groups; a reactivation beside it, a hand-over, a member who joins,
\* or a role read before it and written after, may leave a group without an owner.
Disturbs == {"reactivate_user", "transfer_ownership", "leave_group",
             "accept_invitation", "change_role", "remove_member"}
OwnerlessIsDormant ==
    handlers \cap Disturbs = {}
    => \A g \in groups : Owners(member[g]) = {} => Members(g) \subseteq deactivated

-----------------------------------------------------------------------------
(* What the code says of itself, and a run refutes. *)

\* remove_member: "Nobody removes the owner via this endpoint".
NobodyRemovesTheOwner ==
    [][\A p \in Requests, g \in Groups :
          (req[p].op = "remove_member" /\ req'[p] = NoRequest)
          => \A u \in Owners(member[g]) : member'[g][u] # "none"]_groupVars
=============================================================================
