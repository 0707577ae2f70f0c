------------------------------ MODULE JobLock ------------------------------
(***************************************************************************)
(* `exclusively` (jobs/single_runner.rs): one pass of a background job at  *)
(* a time over all api processes, under a Postgres session advisory lock   *)
(* held on a connection of its own.  The lock belongs to the session, not  *)
(* to the pass: the server may drop the session while the pass goes on,    *)
(* and a killed process may leave a session the server has not yet found   *)
(* dead.                                                                   *)
(***************************************************************************)
CONSTANTS Runners,   \* the api processes, each running the loop of the job
          NoRunner,  \* nobody holds the lock
          DeadRunner \* the session of a killed process holds it still

ASSUME RunnersAssumption == NoRunner \notin Runners /\ DeadRunner \notin Runners

VARIABLES lock,      \* the session that holds pg_try_advisory_lock(job.lock_key())
          running    \* the processes inside their pass

jobVars == <<lock, running>>

JobTypeOK == /\ lock \in Runners \cup {NoRunner, DeadRunner}
             /\ running \subseteq Runners

JobInit == lock = NoRunner /\ running = {}

\* pg_try_advisory_lock answers true: the pass starts.  (When it answers
\* false the tick is skipped and nothing changes.)
Acquire(r) == /\ r \notin running /\ lock = NoRunner
              /\ lock' = r /\ running' = running \cup {r}

\* The pass is over: closing the session releases the lock, if it still had it.
Release(r) == /\ r \in running
              /\ running' = running \ {r}
              /\ lock' = IF lock = r THEN NoRunner ELSE lock

\* The lock's connection is lost: the server drops the session, the pass goes on.
ConnectionCut(r) == /\ r \in running /\ lock = r
                    /\ lock' = NoRunner /\ UNCHANGED running

\* The process is killed, or the pass's future dropped.  The server sees the
\* connection close at once, or only at the keepalive bound.
Killed(r) == /\ r \in running
             /\ running' = running \ {r}
             /\ IF lock = r THEN lock' \in {NoRunner, DeadRunner} ELSE UNCHANGED lock

\* Mutant: the server's default settings, which keep a dead session for hours.
DeadSessionKept == lock = DeadRunner /\ UNCHANGED jobVars

\* tcp_keepalives_* / tcp_user_timeout: the dead session is dropped.
DeadSessionDropped == /\ lock = DeadRunner
                      /\ lock' = NoRunner /\ UNCHANGED running
=============================================================================
