----------------------------- MODULE MessageBoard -----------------------------
(***************************************************************************)
(* The message board of a group and the pages that follow it. A change is  *)
(* announced to every replica of the server by the transaction that makes  *)
(* it; a replica reads the message back and pushes an event to its sockets *)
(* of the group; a page that gets an event, or whose socket closes, loads  *)
(* the thread again. Nothing is replayed: what a replica did not hear, and *)
(* what a page did not see, is made good by loading the thread, or lost.   *)
(*                                                                         *)
(* The content of the thread is the number of changes made to it. A page   *)
(* that is writing an edit, which keeps its own row, is left out, and so   *)
(* are the groups besides the one followed: each has its own channel.      *)
(***************************************************************************)
EXTENDS Integers, Sequences, FiniteSets, SequencesExt

CONSTANTS
    Pages,        \* the pages that follow the thread
    Replicas,
    Messages,
    Capacity,     \* HUB_CHANNEL_CAPACITY
    Fetches,      \* the loads a page has under way at once, at most
    MaxAttempts,  \* connections a page tries in a row before it gives up
    Mixes,        \* pages and replicas at work, changes made and faults met, at most
    None          \* no load, nothing handled, not read yet

ASSUME BoardAssumption ==
    /\ {Capacity, MaxAttempts} \subseteq Nat /\ Capacity > 0
    /\ None \notin Nat

VARIABLES
    version,      \* number of changes committed
    present,      \* the messages of the thread
    listener,     \* of each replica: up, down, or back with its sockets not closed yet
    inbox,        \* the notifications a replica has to handle
    handling,     \* the one it is at
    channel,      \* whether the hub of a replica has a channel for the group
    process,      \* serving, or stopping
    socket,       \* the connection of each page, its server side included
    page,         \* the thread a page shows and what it is doing
    access,       \* what the person behind a page may do
    faults,       \* connections lost, reads failed, stops and revocations so far
    missed,       \* history: the last change a page may miss without an event
    cut,          \* history: the pages whose socket ended with its process
    beside        \* what is at work together

server == <<listener, inbox, handling, channel, process>>
vars == <<version, present, server, socket, page, access, faults, missed, cut, beside>>

NoSocket == [at |-> "none", replica |-> None, queued |-> 0, closed |-> FALSE]
NewPage == [shown |-> 0, timer |-> FALSE, loads |-> [f \in Fetches |-> None],
            attempts |-> 0, again |-> FALSE, stopped |-> FALSE]

Init ==
    /\ beside \in Mixes
    /\ version = 0 /\ present = {}
    /\ listener = [r \in Replicas |-> "up"] /\ inbox = [r \in Replicas |-> <<>>]
    /\ handling = [r \in Replicas |-> None] /\ channel = [r \in Replicas |-> FALSE]
    /\ process = [r \in Replicas |-> "serving"]
    /\ socket = [c \in Pages |-> NoSocket] /\ page = [c \in Pages |-> NewPage]
    /\ access = [c \in Pages |-> "full"]
    /\ faults = 0 /\ missed = [c \in Pages |-> 0] /\ cut = {}

Fault == faults < beside.faults /\ faults' = faults + 1

\* The sockets that hold a receiver of the channel of a replica.
On(r) == {c \in Pages : socket[c].at = "open" /\ socket[c].replica = r}
Receivers(r) == {c \in On(r) : ~socket[c].closed}

Later(a, b) == IF a > b THEN a ELSE b

-----------------------------------------------------------------------------
(* Changes, and the replicas that hear of them.                            *)

\* notify: whoever listens when the transaction commits gets it.
Announce(message, change) ==
    /\ version < beside.changes /\ version' = version + 1
    /\ inbox' = [r \in Replicas |-> IF listener[r] = "down" \/ r \notin beside.replicas THEN inbox[r]
                     ELSE Append(inbox[r], [n |-> version', message |-> message, change |-> change])]
    /\ UNCHANGED <<listener, handling, channel, process, socket, page, access, faults, missed, cut>>

CreateMessage(m) == m \notin present /\ present' = present \cup {m} /\ Announce(m, "created")
UpdateMessage(m) == m \in present /\ UNCHANGED present /\ Announce(m, "updated")
DeleteMessage(m) == m \in present /\ present' = present \ {m} /\ Announce(m, "deleted")

\* The connection drops: some of what was sent on it still arrives.
LoseListener(r) ==
    /\ listener[r] = "up" /\ Fault
    /\ listener' = [listener EXCEPT ![r] = "down"]
    /\ \E heard \in 0..Len(inbox[r]) : inbox' = [inbox EXCEPT ![r] = SubSeq(@, 1, heard)]
    /\ UNCHANGED <<version, present, handling, channel, process, socket, page, access, missed, cut>>

\* handle: nothing to read back when nobody follows the group here.
Handle(r) ==
    /\ listener[r] # "back" /\ handling[r] = None /\ inbox[r] # <<>>
    /\ inbox' = [inbox EXCEPT ![r] = Tail(@)]
    /\ handling' = [handling EXCEPT ![r] =
            IF channel[r] THEN [event |-> Head(inbox[r]), read |-> Head(inbox[r]).change = "deleted"]
            ELSE None]
    /\ UNCHANGED <<version, present, listener, channel, process, socket, page, access, faults, missed, cut>>

\* A message deleted since has its own notification; a read that fails is
\* logged, and its change is pushed to no one.
ReadBack(r) ==
    /\ handling[r] # None /\ ~handling[r].read
    /\ \/ handling[r].event.message \in present /\ handling' = [handling EXCEPT ![r].read = TRUE]
          /\ UNCHANGED <<faults, missed>>
       \/ handling[r].event.message \notin present /\ handling' = [handling EXCEPT ![r] = None]
          /\ UNCHANGED <<faults, missed>>
       \/ /\ Fault /\ handling' = [handling EXCEPT ![r] = None]
          /\ missed' = [c \in Pages |-> IF c \in On(r) THEN Later(missed[c], handling[r].event.n) ELSE missed[c]]
    /\ UNCHANGED <<version, present, listener, inbox, channel, process, socket, page, access, cut>>

\* A receiver that lags loses its oldest events, never the newest.
Dispatch(r) ==
    /\ handling[r] # None /\ handling[r].read
    /\ handling' = [handling EXCEPT ![r] = None]
    /\ socket' = [c \in Pages |-> IF c \notin Receivers(r) \/ socket[c].queued = Capacity THEN socket[c]
                                  ELSE [socket[c] EXCEPT !.queued = @ + 1]]
    /\ UNCHANGED <<version, present, listener, inbox, channel, process, page, access, faults, missed, cut>>

\* The listener is connected again, once what it still had is handled.
Relisten(r) ==
    /\ listener[r] = "down" /\ inbox[r] = <<>> /\ handling[r] = None
    /\ listener' = [listener EXCEPT ![r] = "back"]
    /\ UNCHANGED <<version, present, inbox, handling, channel, process, socket, page, access, faults, missed, cut>>

\* Mutant: the sockets stay when the listener is back.
KeepAll(r) == {}
\* Dropping the sender of the group closes its receivers.
ClosedBy(r) == Receivers(r)

CloseAll(r) ==
    /\ listener[r] = "back"
    /\ listener' = [listener EXCEPT ![r] = "up"]
    /\ channel' = [channel EXCEPT ![r] = FALSE]
    /\ socket' = [c \in Pages |-> IF c \in ClosedBy(r) THEN [socket[c] EXCEPT !.closed = TRUE] ELSE socket[c]]
    /\ UNCHANGED <<version, present, inbox, handling, process, page, access, faults, missed, cut>>

-----------------------------------------------------------------------------
(* message_ws and handle_socket.                                           *)

SetSocket(c, s) == socket' = [socket EXCEPT ![c] = s]

\* Mutant: the end of the session is not read again.
StillMember(c) == access[c] # "removed"
\* is_full_session and is_still_member.
MayFollow(c) == access[c] = "full"

\* The member is checked and the process held before the upgrade.
Upgrade(c) ==
    /\ socket[c].at = "asked"
    /\ SetSocket(c, IF access[c] = "full" THEN [socket[c] EXCEPT !.at = "upgraded"]
                    ELSE [NoSocket EXCEPT !.at = "ended"])
    /\ UNCHANGED <<version, present, server, page, access, faults, missed, cut>>

\* What was committed before has no event for this socket.
Subscribe(c) ==
    /\ socket[c].at = "upgraded"
    /\ SetSocket(c, [socket[c] EXCEPT !.at = "open"])
    /\ channel' = [channel EXCEPT ![socket[c].replica] = TRUE]
    /\ page' = [page EXCEPT ![c].attempts = 0]
    /\ missed' = [missed EXCEPT ![c] = version]
    /\ UNCHANGED <<version, present, listener, inbox, handling, process, access, faults, cut>>

\* The socket is done with: its receiver is dropped, and the channel with it
\* when it was the last (cleanup_if_empty).
Leave(c) ==
    LET r == socket[c].replica IN
    /\ socket[c].at = "open"
    /\ SetSocket(c, [NoSocket EXCEPT !.at = "ended"])
    /\ channel' = [channel EXCEPT ![r] = @ /\ Receivers(r) # {c} /\ Receivers(r) # {}]
    /\ UNCHANGED <<version, present, listener, inbox, handling, process, page, access, missed, cut>>

\* Every recheck interval: the session, then the membership.
Recheck(c) == ~MayFollow(c) /\ Leave(c) /\ UNCHANGED faults
EndClosed(c) == socket[c].closed /\ socket[c].queued = 0 /\ Leave(c) /\ UNCHANGED faults
EndStopping(c) ==
    socket[c].at = "open" /\ process[socket[c].replica] = "stopping" /\ Leave(c) /\ UNCHANGED faults
\* The page closes the socket, or the connection is lost.
Hangup(c) == Leave(c) /\ IF page[c].stopped THEN UNCHANGED faults ELSE Fault

\* An event reaches the page, which loads the thread again in a moment.
Frame(c) ==
    /\ socket[c].at = "open" /\ socket[c].queued > 0
    /\ SetSocket(c, [socket[c] EXCEPT !.queued = @ - 1])
    /\ page' = [page EXCEPT ![c].timer = ~page[c].stopped]
    /\ UNCHANGED <<version, present, server, access, faults, missed, cut>>

-----------------------------------------------------------------------------
(* The stop of a replica, and its start again (Shutdown::drain).           *)

\* Mutant: the process is held from the first poll of the socket.
HeldLate(r) == On(r)
\* The sockets that hold the process.
Held(r) == {c \in Pages : socket[c].at \in {"upgraded", "open"} /\ socket[c].replica = r}
HttpRequests(r) == {c \in Pages : socket[c].at = "asked" /\ socket[c].replica = r}

Trigger(r) ==
    /\ process[r] = "serving" /\ Fault
    /\ process' = [process EXCEPT ![r] = "stopping"]
    /\ UNCHANGED <<version, present, listener, inbox, handling, channel, socket, page, access, missed, cut>>

\* The process exits; the next one listens before it serves.
Exit(r) ==
    /\ process[r] = "stopping"
    /\ process' = [process EXCEPT ![r] = "serving"]
    /\ listener' = [listener EXCEPT ![r] = "up"] /\ inbox' = [inbox EXCEPT ![r] = <<>>]
    /\ handling' = [handling EXCEPT ![r] = None] /\ channel' = [channel EXCEPT ![r] = FALSE]
    /\ socket' = [c \in Pages |-> IF socket[c].replica = r THEN [NoSocket EXCEPT !.at = "ended"] ELSE socket[c]]
    /\ UNCHANGED <<version, present, page, access, faults, missed>>

\* The requests in flight and the holds have ended.
Drained(r) ==
    /\ HttpRequests(r) = {} /\ Held(r) = {} /\ Exit(r)
    /\ cut' = cut \cup {c \in Pages : socket[c].replica = r}

GraceOver(r) == Exit(r) /\ UNCHANGED cut

-----------------------------------------------------------------------------
(* The page (LIVE_SCRIPT).                                                 *)

SetPage(c, p) == page' = [page EXCEPT ![c] = p]

\* connect: on any replica that accepts connections.
Connect(c) ==
    /\ c \in beside.pages /\ socket[c].at = "none" /\ ~page[c].stopped
    /\ \E r \in beside.replicas :
        process[r] = "serving" /\ SetSocket(c, [NoSocket EXCEPT !.at = "asked", !.replica = r])
    /\ UNCHANGED <<version, present, server, page, access, faults, missed, cut>>

\* refresh: a load sent; "then" when a new connection follows it.
Refresh(c, then) ==
    \E f \in Fetches :
        /\ page[c].loads[f] = None
        /\ SetPage(c, [page[c] EXCEPT !.timer = IF then THEN @ ELSE FALSE,
                                      !.loads[f] = [got |-> None, n |-> 0, then |-> then]])

Rerender(c) ==
    /\ page[c].timer /\ Refresh(c, FALSE)
    /\ UNCHANGED <<version, present, server, socket, access, faults, missed, cut>>

\* onclose: nothing more when the page has stopped.
OnClose(c) ==
    /\ socket[c].at = "ended"
    /\ SetSocket(c, [NoSocket EXCEPT !.at = "probing"])
    /\ IF page[c].stopped THEN UNCHANGED page ELSE Refresh(c, TRUE)
    /\ UNCHANGED <<version, present, server, access, faults, missed, cut>>

\* The thread is read for the page, which may fail to get it: a load that an
\* event asked for is not tried again, and an error that is answered has no
\* thread either, which the page takes for an access lost.
Load(c, f) ==
    /\ page[c].loads[f] # None /\ page[c].loads[f].got = None
    /\ \/ /\ SetPage(c, [page[c] EXCEPT !.loads[f].n = version,
                                     !.loads[f].got = IF access[c] = "full" THEN "thread" ELSE "lost"])
          /\ UNCHANGED <<faults, missed>>
       \/ /\ Fault
          /\ \E got \in {"failed", "lost"} : SetPage(c, [page[c] EXCEPT !.loads[f].got = got])
          /\ missed' = [missed EXCEPT ![c] = version]
    /\ UNCHANGED <<version, present, server, socket, access, cut>>

\* What was read is shown, even when a later load was shown before it: then
\* the page may miss what it had shown.
Show(c, f) ==
    LET p == page[c]
        load == p.loads[f]
        ended == [p EXCEPT !.loads[f] = None]
        next == IF load.then THEN [ended EXCEPT !.attempts = @ + 1, !.again = TRUE,
                                                !.stopped = @ \/ p.attempts + 1 > MaxAttempts]
                ELSE ended
    IN
    /\ load # None /\ load.got # None
    /\ \/ load.got = "thread" /\ SetPage(c, [next EXCEPT !.shown = load.n])
          /\ missed' = [missed EXCEPT ![c] = IF p.shown > load.n THEN Later(@, p.shown) ELSE @]
       \/ load.got = "failed" /\ SetPage(c, next) /\ UNCHANGED missed
       \/ load.got = "lost" /\ SetPage(c, [ended EXCEPT !.stopped = TRUE]) /\ UNCHANGED missed
    /\ IF load.then /\ load.got # "lost" THEN SetSocket(c, NoSocket) ELSE UNCHANGED socket
    /\ UNCHANGED <<version, present, server, access, faults, cut>>

\* A session ends, a member is removed.
Revoke(c) ==
    /\ access[c] = "full" /\ Fault
    /\ \E lost \in {"ended", "removed"} : access' = [access EXCEPT ![c] = lost]
    /\ UNCHANGED <<version, present, server, socket, page, missed, cut>>

Next ==
    /\ \/ \E m \in Messages : CreateMessage(m) \/ UpdateMessage(m) \/ DeleteMessage(m)
       \/ \E r \in beside.replicas :
            \/ LoseListener(r) \/ Handle(r) \/ ReadBack(r) \/ Dispatch(r) \/ Relisten(r) \/ CloseAll(r)
            \/ Trigger(r) \/ Drained(r) \/ GraceOver(r)
       \/ \E c \in beside.pages :
            \/ Upgrade(c) \/ Subscribe(c) \/ Frame(c) \/ Recheck(c) \/ EndClosed(c) \/ EndStopping(c) \/ Hangup(c)
            \/ Connect(c) \/ Rerender(c) \/ OnClose(c) \/ Revoke(c)
            \/ \E f \in Fetches : Load(c, f) \/ Show(c, f)
    /\ UNCHANGED beside

\* The ticks of an open socket go on.
Spec == Init /\ [][Next]_vars /\ \A c \in Pages : WF_vars(Recheck(c) /\ UNCHANGED beside)

-----------------------------------------------------------------------------
(* Properties. *)

\* Nothing is on its way to the page, and nothing keeps it from being told.
Settled(c) ==
    LET r == socket[c].replica IN
    /\ socket[c].at = "open" /\ ~socket[c].closed /\ socket[c].queued = 0
    /\ listener[r] = "up" /\ inbox[r] = <<>> /\ handling[r] = None
    /\ ~page[c].timer /\ ~page[c].stopped /\ \A f \in Fetches : page[c].loads[f] = None

TypeOK ==
    /\ version \in 0..beside.changes /\ present \subseteq Messages /\ faults \in 0..beside.faults
    /\ \A r \in Replicas : listener[r] \in {"up", "down", "back"} /\ process[r] \in {"serving", "stopping"}
    /\ \A c \in Pages :
        /\ socket[c].at \in {"none", "asked", "upgraded", "open", "ended", "probing"}
        /\ socket[c].queued \in 0..Capacity /\ page[c].shown \in 0..version

\* A page that follows the thread and waits for nothing shows every change,
\* whatever connection, listener or process was lost meanwhile, but for four
\* gaps of the code, at the last change they concern: committed before the
\* socket subscribed and after the page was loaded, read back in vain, loaded
\* in vain, or covered by an older load shown late (handle, LIVE_SCRIPT).
CaughtUp == \A c \in Pages : Settled(c) => page[c].shown = version \/ missed[c] = version

\* A process that ends before its grace period cuts no socket: each gets its
\* close frame first, one just upgraded included (hold before on_upgrade).
NoSocketCut == cut = {}

\* A socket whose session or membership ended is closed for good, one that
\* was let in just before included (the recheck of handle_socket).
AccessEnds == \A c \in Pages : access[c] # "full" ~> [](socket[c].at # "open")

-----------------------------------------------------------------------------
\* What dispatch says of a missed event: the clients load the thread again on
\* reconnect, so a page that has reconnected shows every change.
CaughtUpOnReconnect == \A c \in Pages : page[c].again /\ Settled(c) => page[c].shown = version
=============================================================================
