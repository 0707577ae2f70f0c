--------------------------- MODULE StoredObjects ---------------------------
(***************************************************************************)
(* The bytes in the bucket and the rows that name them: the attachments of *)
(* events (agenda/attachments.rs) and the profile photos (avatar.rs).  A   *)
(* row and its object are never written in one step.  Uploads write the    *)
(* row, put the object and commit; deletions take the object, then the     *)
(* row; the purge of an account takes the rows, then the objects; and a    *)
(* daily pass (attachment_reconcile.rs) deletes the old objects no row     *)
(* names.                                                                  *)
(*                                                                         *)
(* Keys are fresh UUIDs, so no key is used twice.  Events are those of one *)
(* group.  Who may do what is not in it.                                   *)
(***************************************************************************)
EXTENDS Naturals, FiniteSets

CONSTANTS Keys, Events, Users,
          Transfers, \* what is in flight at once, the account purge included
          Nil,
          Sweeps,    \* the sets of events a group, or an import, is deleted with
          Abandoned, \* those of the groups a purge leaves without a member
          Wholesale, \* whether events may be deleted with their group or import
          MinAge     \* DEFAULT_MIN_AGE_HOURS

ObjectsAssumption ==
    /\ Nil \notin Keys \cup Events \cup Users
    /\ Sweeps \subseteq SUBSET Events /\ Abandoned \subseteq SUBSET Events
    /\ MinAge \in Nat \ {0} /\ Wholesale \subseteq BOOLEAN

VARIABLES events,    \* the events that are there
          rows,      \* event_attachments: the event of each key, once committed
          avatar,    \* users.avatar_key
          purged,    \* users.deleted_at IS NOT NULL
          stored,    \* the objects in the bucket
          age,       \* how long ago each was put, up to MinAge + 1
          named,     \* the keys drawn so far
          transfer,  \* the requests in flight
          pass,      \* the reconciliation pass
          condemned, \* history: the keys a member's deletion sent to the storage
          wholesale  \* whether events are, in this behaviour

objectVars ==
    <<events, rows, avatar, purged, stored, age, named, transfer, pass, condemned>>
allObjectVars == <<objectVars, wholesale>>

NoTransfer ==
    [op |-> "none", at |-> "idle", scope |-> {}, user |-> Nil, key |-> Nil, keys |-> {}]
Resting == [at |-> "idle", keys |-> {}]

ObjectsTypeOK ==
    /\ events \subseteq Events /\ purged \subseteq Users
    /\ rows \in [Keys -> Events \cup {Nil}] /\ avatar \in [Users -> Keys \cup {Nil}]
    /\ stored \subseteq named /\ named \subseteq Keys /\ condemned \subseteq named
    /\ age \in [Keys -> 0..(MinAge + 1)]
    /\ transfer \in [Transfers ->
          [op : {"none", "upload", "photo", "attachment", "event", "sweep", "no_photo", "purge"},
           at : {"idle", "body", "put", "commit", "objects", "rows", "after"},
           scope : SUBSET Events, user : Users \cup {Nil},
           key : Keys \cup {Nil}, keys : SUBSET Keys]]
    /\ pass \in [at : {"idle", "known", "objects"}, keys : SUBSET Keys]
    /\ wholesale \in Wholesale
    /\ \A k \in Keys : rows[k] # Nil => rows[k] \in events /\ k \in named

ObjectsInit ==
    /\ events = Events /\ purged = {}
    /\ rows = [k \in Keys |-> Nil] /\ avatar = [u \in Users |-> Nil]
    /\ stored = {} /\ age = [k \in Keys |-> 0] /\ named = {}
    /\ transfer = [p \in Transfers |-> NoTransfer] /\ pass = Resting /\ condemned = {}
    /\ wholesale \in Wholesale

Set(p, r) == transfer' = [transfer EXCEPT ![p] = r]
To(p, at) == Set(p, [transfer[p] EXCEPT !.at = at])

-----------------------------------------------------------------------------
(* Row locks, held to the end of the transaction. *)

\* FOR KEY SHARE on the event of an upload; FOR UPDATE on an event being deleted.
Sharing(p, e) ==
    transfer[p].op = "upload" /\ transfer[p].at \in {"put", "commit"} /\ e \in transfer[p].scope
Deleting(p, e) ==
    transfer[p].op = "event" /\ transfer[p].at \in {"objects", "rows"} /\ e \in transfer[p].scope
\* Mutant: the event is read without a lock.
EventAnyhow(p, e) == p \in Transfers /\ e \in Events
EventShareable(p, e) == \A q \in Transfers \ {p} : ~Deleting(q, e)
EventFree(p, e) == \A q \in Transfers \ {p} : ~Deleting(q, e) /\ ~Sharing(q, e)

\* FOR UPDATE on the row of a user.
UserFree(p, u) ==
    \A q \in Transfers \ {p} : transfer[q].user = u => transfer[q].at \in {"idle", "after"}

-----------------------------------------------------------------------------
(* upload_attachment *)

StartUpload(p, e) ==
    /\ transfer[p] = NoTransfer /\ e \in events
    /\ Set(p, [NoTransfer EXCEPT !.op = "upload", !.at = "body", !.scope = {e}])
    /\ UNCHANGED <<events, rows, avatar, purged, stored, age, named, pass, condemned>>

\* The body is read; the event is locked and the row inserted, not committed.
InsertRow(p) ==
    /\ transfer[p].at = "body" /\ transfer[p].scope \subseteq events
    /\ \A e \in transfer[p].scope : EventShareable(p, e)
    /\ \E k \in Keys \ named :
          Set(p, [transfer[p] EXCEPT !.at = "put", !.key = k]) /\ named' = named \cup {k}
    /\ UNCHANGED <<events, rows, avatar, purged, stored, age, pass, condemned>>

EventGone(p) ==
    /\ transfer[p].at = "body" /\ ~(transfer[p].scope \subseteq events) /\ Set(p, NoTransfer)
    /\ UNCHANGED <<events, rows, avatar, purged, stored, age, named, pass, condemned>>

Put(p) ==
    /\ transfer[p].at = "put" /\ To(p, "commit")
    /\ stored' = stored \cup {transfer[p].key} /\ age' = [age EXCEPT ![transfer[p].key] = 0]
    /\ UNCHANGED <<events, rows, avatar, purged, named, pass, condemned>>

\* A timeout does not say whether the object was stored.
PutFailed(p) ==
    /\ transfer[p].at = "put" /\ Set(p, NoTransfer)
    /\ stored' \in {stored, stored \cup {transfer[p].key}} /\ age' = [age EXCEPT ![transfer[p].key] = 0]
    /\ UNCHANGED <<events, rows, avatar, purged, named, pass, condemned>>

CommitUpload(p) ==
    /\ transfer[p].op = "upload" /\ transfer[p].at = "commit" /\ Set(p, NoTransfer)
    /\ \E e \in transfer[p].scope : rows' = [rows EXCEPT ![transfer[p].key] = e]
    /\ UNCHANGED <<events, avatar, purged, stored, age, named, pass, condemned>>

-----------------------------------------------------------------------------
(* The deletions of a member: what is read, then the objects, then the rows. *)

KeysOf(S) == {k \in Keys : rows[k] \in S}

ReadAttachment(p, k) ==
    /\ transfer[p] = NoTransfer /\ rows[k] # Nil
    /\ Set(p, [NoTransfer EXCEPT !.op = "attachment", !.at = "objects", !.keys = {k}])
    /\ UNCHANGED <<events, rows, avatar, purged, stored, age, named, pass, condemned>>

LockEvent(p, e) ==
    /\ transfer[p] = NoTransfer /\ e \in events /\ EventFree(p, e)
    /\ Set(p, [NoTransfer EXCEPT !.op = "event", !.at = "objects", !.scope = {e},
                                 !.keys = KeysOf({e})])
    /\ UNCHANGED <<events, rows, avatar, purged, stored, age, named, pass, condemned>>

\* delete_group, and the deletion of an import with its events: nothing is locked.
ReadSweep(p, S) ==
    /\ wholesale /\ transfer[p] = NoTransfer /\ S \cap events # {}
    /\ Set(p, [NoTransfer EXCEPT !.op = "sweep", !.at = "objects", !.scope = S,
                                 !.keys = KeysOf(S)])
    /\ UNCHANGED <<events, rows, avatar, purged, stored, age, named, pass, condemned>>

\* delete_avatar
LockPhoto(p, u) ==
    /\ transfer[p] = NoTransfer /\ avatar[u] # Nil /\ UserFree(p, u)
    /\ Set(p, [NoTransfer EXCEPT !.op = "no_photo", !.at = "objects", !.user = u,
                                 !.keys = {avatar[u]}])
    /\ UNCHANGED <<events, rows, avatar, purged, stored, age, named, pass, condemned>>

DeleteObjects(p) ==
    /\ transfer[p].at = "objects" /\ To(p, "rows")
    /\ stored' = stored \ transfer[p].keys /\ condemned' = condemned \cup transfer[p].keys
    /\ UNCHANGED <<events, rows, avatar, purged, age, named, pass>>

\* Refused for some of the keys, or no answer: the transaction is rolled back.
DeleteObjectsFailed(p) ==
    /\ transfer[p].at = "objects" /\ Set(p, NoTransfer)
    /\ \E gone \in SUBSET transfer[p].keys : stored' = stored \ gone
    /\ condemned' = condemned \cup transfer[p].keys
    /\ UNCHANGED <<events, rows, avatar, purged, age, named, pass>>

\* The rows and the COMMIT; those of an event go with it, read or not.
DeleteRows(p) ==
    LET gone == IF transfer[p].op = "attachment" THEN transfer[p].keys
                ELSE KeysOf(transfer[p].scope)
    IN  /\ transfer[p].at = "rows" /\ transfer[p].op # "purge" /\ Set(p, NoTransfer)
        /\ \A e \in transfer[p].scope \cap events : EventFree(p, e)
        /\ events' = events \ transfer[p].scope
        /\ rows' = [k \in Keys |-> IF k \in gone THEN Nil ELSE rows[k]]
        /\ avatar' = IF transfer[p].op = "no_photo"
                     THEN [avatar EXCEPT ![transfer[p].user] = Nil] ELSE avatar
        /\ UNCHANGED <<purged, stored, age, named, pass, condemned>>

-----------------------------------------------------------------------------
(* put_avatar, and the purge of an account: rows first. *)

MayHavePhoto(u) == u \notin purged

\* The user is locked, the new key written, not committed.
WritePhoto(p, u) ==
    /\ transfer[p] = NoTransfer /\ MayHavePhoto(u) /\ UserFree(p, u)
    /\ \E k \in Keys \ named :
          /\ named' = named \cup {k}
          /\ Set(p, [NoTransfer EXCEPT !.op = "photo", !.at = "put", !.user = u, !.key = k,
                                       !.keys = {avatar[u]} \ {Nil}])
    /\ UNCHANGED <<events, rows, avatar, purged, stored, age, pass, condemned>>

CommitPhoto(p) ==
    /\ transfer[p].op = "photo" /\ transfer[p].at = "commit" /\ To(p, "after")
    /\ avatar' = [avatar EXCEPT ![transfer[p].user] = transfer[p].key]
    /\ UNCHANGED <<events, rows, purged, stored, age, named, pass, condemned>>

\* purge_account: S are the events of the groups left without a member.
LockPurge(p, u, S) ==
    /\ transfer[p] = NoTransfer /\ u \notin purged /\ UserFree(p, u) /\ (S # {} => wholesale)
    /\ Set(p, [NoTransfer EXCEPT !.op = "purge", !.at = "rows", !.user = u, !.scope = S,
                                 !.keys = KeysOf(S) \cup ({avatar[u]} \ {Nil})])
    /\ UNCHANGED <<events, rows, avatar, purged, stored, age, named, pass, condemned>>

CommitPurge(p) ==
    /\ transfer[p].op = "purge" /\ transfer[p].at = "rows" /\ To(p, "after")
    /\ \A e \in transfer[p].scope \cap events : EventFree(p, e)
    /\ events' = events \ transfer[p].scope
    /\ rows' = [k \in Keys |-> IF rows[k] \in transfer[p].scope THEN Nil ELSE rows[k]]
    /\ avatar' = [avatar EXCEPT ![transfer[p].user] = Nil] /\ purged' = purged \cup {transfer[p].user}
    /\ UNCHANGED <<stored, age, named, pass, condemned>>

\* What the committed transaction left behind; a failure is only logged.
DeleteLeftBehind(p) ==
    /\ transfer[p].at = "after" /\ Set(p, NoTransfer)
    /\ \E gone \in SUBSET transfer[p].keys : stored' = stored \ gone
    /\ UNCHANGED <<events, rows, avatar, purged, age, named, pass, condemned>>

\* The client leaves, the process dies, or a query fails: the transaction is
\* rolled back, what the storage did stays done.
Die(p) ==
    /\ transfer[p] # NoTransfer /\ Set(p, NoTransfer)
    /\ UNCHANGED <<events, rows, avatar, purged, stored, age, named, pass, condemned>>

-----------------------------------------------------------------------------
(* attachment_reconcile: the bucket is listed, then the rows are read. *)

\* classify's cutoff.
Eligible(k) == age[k] > MinAge

\* known_storage_keys
\* Mutant: the photos are forgotten.
KnownAttachments == {k \in Keys : rows[k] # Nil}
Known == {k \in Keys : rows[k] # Nil} \cup {avatar[u] : u \in Users}

List ==
    /\ pass.at = "idle" /\ {k \in stored : Eligible(k)} # {}
    /\ pass' = [at |-> "known", keys |-> {k \in stored : Eligible(k)}]
    /\ UNCHANGED <<events, rows, avatar, purged, stored, age, named, transfer, condemned>>

ReadKnown ==
    /\ pass.at = "known" /\ pass' = [at |-> "objects", keys |-> pass.keys \ Known]
    /\ UNCHANGED <<events, rows, avatar, purged, stored, age, named, transfer, condemned>>

\* scheduled_options: the pass deletes.
\* Mutant: a dry run.
DryRun(keys) == keys \cap {}
Deleted(keys) == keys

DeleteOrphans ==
    /\ pass.at = "objects" /\ pass' = Resting /\ stored' = stored \ Deleted(pass.keys)
    /\ UNCHANGED <<events, rows, avatar, purged, age, named, transfer, condemned>>

PassFails ==
    /\ pass.at # "idle" /\ pass' = Resting
    /\ \E gone \in SUBSET (IF pass.at = "objects" THEN pass.keys ELSE {}) : stored' = stored \ gone
    /\ UNCHANGED <<events, rows, avatar, purged, age, named, transfer, condemned>>

\* Time: what puts an object commits, or fails, well within the window.
GrowOld ==
    /\ \E k \in stored : age[k] <= MinAge
    /\ \A p \in Transfers : transfer[p].at = "commit" => age[transfer[p].key] < MinAge
    /\ age' = [k \in Keys |-> IF k \in stored /\ age[k] <= MinAge THEN age[k] + 1 ELSE age[k]]
    /\ UNCHANGED <<events, rows, avatar, purged, stored, named, transfer, pass, condemned>>

-----------------------------------------------------------------------------
Upload(p) == \/ \E e \in Events : StartUpload(p, e)
             \/ InsertRow(p) \/ EventGone(p) \/ Put(p) \/ PutFailed(p) \/ CommitUpload(p)
Deletion(p) == \/ \E k \in Keys : ReadAttachment(p, k)
               \/ \E e \in Events : LockEvent(p, e)
               \/ \E S \in Sweeps : ReadSweep(p, S)
               \/ \E u \in Users : LockPhoto(p, u)
               \/ DeleteObjects(p) \/ DeleteObjectsFailed(p) \/ DeleteRows(p)
Photo(p) == (\E u \in Users : WritePhoto(p, u)) \/ CommitPhoto(p)
AccountPurge(p) == (\E u \in Users, S \in Abandoned \cup {{}} : LockPurge(p, u, S)) \/ CommitPurge(p)
Reconcile == List \/ ReadKnown \/ DeleteOrphans \/ PassFails

ObjectsNext ==
    /\ \/ \E p \in Transfers :
             \/ Upload(p) \/ Deletion(p) \/ Photo(p)
             \/ AccountPurge(p) \/ DeleteLeftBehind(p) \/ Die(p)
       \/ Reconcile \/ GrowOld
    /\ UNCHANGED wholesale

ObjectsSpec == ObjectsInit /\ [][ObjectsNext]_allObjectVars

\* A commit ends; the daily pass runs; neither its query nor the storage
\* fails for ever.
FairObjectsSpec ==
    /\ ObjectsSpec /\ WF_objectVars(GrowOld) /\ WF_objectVars(List)
    /\ SF_objectVars(ReadKnown) /\ SF_objectVars(DeleteOrphans)
    /\ \A p \in Transfers : WF_objectVars(CommitUpload(p) \/ CommitPhoto(p))

-----------------------------------------------------------------------------
(* Properties. *)

Referenced(k) == rows[k] # Nil \/ \E u \in Users : avatar[u] = k

\* A row whose bytes are gone is one a member asked to delete (and may delete
\* again): neither the reconciliation, nor a replaced photo, nor the purge, takes the
\* bytes of a row that stays.
NoBytesLost == \A k \in Keys : Referenced(k) => k \in stored \cup condemned

\* An attachment's row goes after its object, or by the purge, which has its key.
LosesRow(k) == rows[k] # Nil /\ rows'[k] = Nil
AfterItsObject(k) ==
    k \notin stored \/ \E p \in Transfers : transfer'[p].at = "after" /\ k \in transfer'[p].keys

\* delete_event locks the event against uploads: deleted one by one, attachments and
\* events leave no bytes without a row, whatever is uploaded meanwhile.  Deleted
\* with their group they may: its keys are read without a lock (see OrphansGo).
ObjectsGoFirst ==
    [][~wholesale => \A k \in Keys : LosesRow(k) => AfterItsObject(k)]_objectVars

\* The bytes no row names are deleted in the end.
Orphan(k) == k \in stored /\ ~Referenced(k) /\ \A p \in Transfers : transfer[p].key # k
OrphansGo == \A k \in Keys : Orphan(k) ~> k \notin stored
=============================================================================
