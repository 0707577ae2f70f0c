------------------------- MODULE MessageBoard_proofs -------------------------
(* That a page which waits for nothing shows every change, or one of the      *)
(* four gaps of the code is behind it, and that no process ends on an open    *)
(* socket, in MessageBoard, for every set of pages, replicas and messages.    *)
EXTENDS MessageBoard, SequenceTheorems, TLAPS

-----------------------------------------------------------------------------
(* What the state is made of.                                                 *)

Event == [n : Nat, message : Messages, change : {"created", "updated", "deleted"}]
Handling == [event : Event, read : BOOLEAN]
Fetched == [got : {None, "thread", "failed", "lost"}, n : Nat, then : BOOLEAN]
Socket == [at : {"none", "asked", "upgraded", "open", "ended", "probing"}, replica : Replicas \cup {None},
           queued : Nat, closed : BOOLEAN]
Page == [shown : Nat, timer : BOOLEAN, loads : [Fetches -> {None} \cup Fetched],
         attempts : Nat, again : BOOLEAN, stopped : BOOLEAN]

\* None is none of what it stands for the absence of; the mixes are of the pages and the
\* replicas there are.
InstanceAssumption ==
    /\ None \notin Handling \cup Fetched \cup Replicas
    /\ \A mix \in Mixes : mix.pages \subseteq Pages /\ mix.replicas \subseteq Replicas

Shape ==
    /\ version \in Nat /\ present \subseteq Messages /\ beside \in Mixes
    /\ listener \in [Replicas -> {"up", "down", "back"}]
    /\ inbox \in [Replicas -> Seq(Event)] /\ handling \in [Replicas -> {None} \cup Handling]
    /\ channel \in [Replicas -> BOOLEAN]
    /\ socket \in [Pages -> Socket] /\ page \in [Pages -> Page] /\ missed \in [Pages -> Nat]

\* An event is of a change made, and the message of the last change is there unless it was
\* the deletion.
Genuine(e) == e.n <= version /\ (e.n = version /\ e.change # "deleted" => e.message \in present)
Announced(r) ==
    /\ \A k \in DOMAIN inbox[r] : Genuine(inbox[r][k])
    /\ handling[r] # None =>
          /\ handling[r].event.n <= version
          /\ ~handling[r].read => handling[r].event.change # "deleted" /\ Genuine(handling[r].event)

\* Nothing shown, read or missed is ahead of the changes made.
NotAhead(g, m) == g.shown <= version /\ m <= version /\ \A f \in Fetches : g.loads[f] # None => g.loads[f].n <= version

\* A socket is of a replica at work as long as it holds its process, and of none after.
Placed(s) == IF s.at \in {"asked", "upgraded", "open"} THEN s.replica \in beside.replicas ELSE s.replica = None

\* What the replica has heard and not pushed yet, or will be made to close its sockets for.
Hears(r) ==
    \/ listener[r] # "up"
    \/ \E k \in DOMAIN inbox[r] : inbox[r][k].n = version
    \/ handling[r] # None /\ handling[r].event.n = version
\* What brings the last change to the page, once it has loaded or been told.
Loading(load) == load # None /\ (load.got \in {None, "lost"} \/ (load.got = "thread" /\ load.n = version))
PageComes(g, m) == g.shown = version \/ m = version \/ g.timer \/ g.stopped \/ \E f \in Fetches : Loading(g.loads[f])
SocketComes(s) == s.closed \/ s.queued > 0 \/ Hears(s.replica)

PageSound(c) ==
    /\ NotAhead(page[c], missed[c]) /\ Placed(socket[c])
    /\ socket[c].at = "open" /\ ~socket[c].closed => channel[socket[c].replica]
    /\ socket[c].at = "open" => PageComes(page[c], missed[c]) \/ SocketComes(socket[c])

IInv == Shape /\ (\A r \in Replicas : Announced(r)) /\ (\A c \in Pages : PageSound(c)) /\ NoSocketCut

-----------------------------------------------------------------------------
(* Frames.                                                                    *)

LEMMA AtWork == ASSUME InstanceAssumption, IInv PROVE beside.replicas \subseteq Replicas /\ beside.pages \subseteq Pages
BY DEF InstanceAssumption, IInv, Shape

\* A step of one page and of its socket.
LEMMA PageStep ==
    ASSUME InstanceAssumption, IInv, NEW c \in Pages, NEW s \in Socket, NEW g \in Page, NEW m \in Nat,
           UNCHANGED <<version, present, listener, inbox, handling, beside, cut>>,
           socket' = [socket EXCEPT ![c] = s], page' = [page EXCEPT ![c] = g], missed' = [missed EXCEPT ![c] = m],
           channel' \in [Replicas -> BOOLEAN],
           \A q \in Pages \ {c} : socket[q].at = "open" /\ ~socket[q].closed /\ channel[socket[q].replica]
                                 => channel'[socket[q].replica],
           NotAhead(g, m), Placed(s), s.at = "open" /\ ~s.closed => channel'[s.replica],
           s.at = "open" => PageComes(g, m) \/ SocketComes(s)
    PROVE  IInv'
<1>1. Shape'
  BY DEF IInv, Shape
<1>2. /\ socket'[c] = s /\ page'[c] = g /\ missed'[c] = m
      /\ \A q \in Pages \ {c} : socket'[q] = socket[q] /\ page'[q] = page[q] /\ missed'[q] = missed[q]
  BY DEF IInv, Shape
<1>3. ASSUME NEW r \in Replicas PROVE Announced(r)'
  BY DEF IInv, Announced, Genuine
<1>4. PageSound(c)'
  <2>1. NotAhead(page[c], missed[c])' /\ Placed(socket[c])'
    BY <1>2 DEF NotAhead, Placed
  <2>2. s.at = "open" => PageComes(page[c], missed[c])' \/ SocketComes(socket[c])'
    BY <1>2 DEF PageComes, Loading, SocketComes, Hears
  <2> QED
    BY <1>2, <2>1, <2>2 DEF PageSound
<1>5. ASSUME NEW q \in Pages \ {c} PROVE PageSound(q)'
  <2>1. PageSound(q) /\ socket'[q] = socket[q] /\ page'[q] = page[q] /\ missed'[q] = missed[q]
    BY <1>2 DEF IInv
  <2>2. NotAhead(page[q], missed[q])' /\ Placed(socket[q])'
    BY <2>1 DEF NotAhead, Placed, PageSound
  <2>3. socket[q].at = "open" => PageComes(page[q], missed[q])' \/ SocketComes(socket[q])'
    BY <2>1 DEF PageComes, Loading, SocketComes, Hears, PageSound
  <2> QED
    BY <2>1, <2>2, <2>3 DEF PageSound
<1> QED
  BY <1>1, <1>3, <1>4, <1>5 DEF IInv, NoSocketCut

\* A step of one replica: the pages on it stay sound.
LEMMA ReplicaStep ==
    ASSUME InstanceAssumption, IInv, NEW r \in Replicas, UNCHANGED <<version, present, page, beside, cut>>,
           Shape', Announced(r)',
           \A q \in Replicas \ {r} : /\ listener'[q] = listener[q] /\ inbox'[q] = inbox[q]
                                     /\ handling'[q] = handling[q] /\ channel'[q] = channel[q],
           \A c \in Pages : socket[c].replica # r => socket'[c] = socket[c] /\ missed'[c] = missed[c],
           \A c \in Pages : socket[c].replica = r => PageSound(c)'
    PROVE  IInv'
<1>1. ASSUME NEW q \in Replicas PROVE Announced(q)'
  <2>1. CASE q = r
    BY <2>1
  <2>2. CASE q # r
    <3>1. Announced(q) /\ inbox'[q] = inbox[q] /\ handling'[q] = handling[q] /\ version' = version /\ present' = present
      BY <2>2 DEF IInv
    <3> QED
      BY <3>1 DEF Announced, Genuine
  <2> QED
    BY <2>1, <2>2
<1>2. ASSUME NEW c \in Pages, socket[c].replica # r PROVE PageSound(c)'
  <2>1. /\ PageSound(c) /\ socket'[c] = socket[c] /\ missed'[c] = missed[c] /\ page'[c] = page[c]
        /\ version' = version /\ beside' = beside
    BY <1>2 DEF IInv
  <2>2. NotAhead(page[c], missed[c])' /\ Placed(socket[c])'
    BY <2>1 DEF NotAhead, Placed, PageSound
  <2>3. ASSUME socket[c].at = "open"
        PROVE  /\ PageComes(page[c], missed[c])' \/ SocketComes(socket[c])'
               /\ ~socket[c].closed => channel'[socket[c].replica]
    <3> DEFINE q == socket[c].replica
    <3>1. q \in Replicas \ {r}
      BY <1>2, <2>1, <2>3, AtWork DEF PageSound, Placed
    <3>2. listener'[q] = listener[q] /\ inbox'[q] = inbox[q] /\ handling'[q] = handling[q] /\ channel'[q] = channel[q]
      BY <3>1
    <3>3. Hears(q)' <=> Hears(q)
      BY <2>1, <3>2 DEF Hears
    <3> QED
      BY <2>1, <2>3, <3>2, <3>3 DEF PageComes, Loading, SocketComes, PageSound
  <2> QED
    BY <2>1, <2>2, <2>3 DEF PageSound
<1> QED
  BY <1>1, <1>2 DEF IInv, NoSocketCut

-----------------------------------------------------------------------------
(* Notifications.                                                             *)

LEMMA TailFacts ==
    ASSUME NEW s \in Seq(Event), s # <<>>
    PROVE  /\ Head(s) \in Event /\ Tail(s) \in Seq(Event) /\ 1 \in DOMAIN s /\ Head(s) = s[1]
           /\ \A k \in DOMAIN Tail(s) : k + 1 \in DOMAIN s /\ Tail(s)[k] = s[k + 1]
           /\ \A k \in DOMAIN s : k = 1 \/ (k - 1 \in DOMAIN Tail(s) /\ Tail(s)[k - 1] = s[k])
<1>1. /\ Head(s) \in Event /\ Tail(s) \in Seq(Event) /\ Len(Tail(s)) = Len(s) - 1
      /\ \A i \in 1..Len(Tail(s)) : Tail(s)[i] = s[i + 1]
  BY HeadTailProperties
<1>2. Len(s) \in Nat /\ DOMAIN s = 1..Len(s) /\ Len(Tail(s)) \in Nat /\ DOMAIN Tail(s) = 1..Len(Tail(s))
  BY <1>1, LenProperties
<1>3. Head(s) = s[1]
  OBVIOUS
<1>4. ASSUME NEW k \in DOMAIN s PROVE k = 1 \/ (k - 1 \in DOMAIN Tail(s) /\ Tail(s)[k - 1] = s[k])
  <2>1. CASE k # 1
    <3>1. k - 1 \in 1..Len(Tail(s)) /\ (k - 1) + 1 = k
      BY <1>1, <1>2, <2>1
    <3> QED
      BY <1>1, <1>2, <3>1
  <2> QED
    BY <2>1
<1> QED
  BY <1>1, <1>2, <1>3, <1>4

LEMMA AppendFacts ==
    ASSUME NEW s \in Seq(Event), NEW e \in Event
    PROVE  /\ Append(s, e) \in Seq(Event)
           /\ \A k \in DOMAIN Append(s, e) : Append(s, e)[k] = e \/ (k \in DOMAIN s /\ Append(s, e)[k] = s[k])
           /\ \E k \in DOMAIN Append(s, e) : Append(s, e)[k] = e
<1>1. /\ Append(s, e) \in Seq(Event) /\ Len(Append(s, e)) = Len(s) + 1
      /\ \A i \in 1..Len(s) : Append(s, e)[i] = s[i]
      /\ Append(s, e)[Len(s) + 1] = e
  BY AppendProperties
<1>2. Len(s) \in Nat /\ DOMAIN s = 1..Len(s) /\ DOMAIN Append(s, e) = 1..(Len(s) + 1)
  BY <1>1, LenProperties
<1> QED
  BY <1>1, <1>2

LEMMA PrefixFacts ==
    ASSUME NEW s \in Seq(Event), NEW h \in 0..Len(s)
    PROVE  /\ SubSeq(s, 1, h) \in Seq(Event)
           /\ \A k \in DOMAIN SubSeq(s, 1, h) : k \in DOMAIN s /\ SubSeq(s, 1, h)[k] = s[k]
<1>1. Len(s) \in Nat /\ DOMAIN s = 1..Len(s) /\ \A i \in 1..Len(s) : s[i] \in Event
  BY LenProperties, ElementOfSeq
<1>2. h \in Int /\ 1 \in Int /\ \A i \in 1..h : s[i] \in Event
  BY <1>1
<1>3. /\ SubSeq(s, 1, h) \in Seq(Event) /\ Len(SubSeq(s, 1, h)) = IF 1 <= h THEN h - 1 + 1 ELSE 0
      /\ \A i \in 1..(h - 1 + 1) : SubSeq(s, 1, h)[i] = s[1 + i - 1]
  BY <1>2, SubSeqProperties
<1>4. DOMAIN SubSeq(s, 1, h) = 1..Len(SubSeq(s, 1, h))
  BY <1>3, LenProperties
<1>5. Len(SubSeq(s, 1, h)) = h /\ \A i \in 1..h : SubSeq(s, 1, h)[i] = s[i]
  BY <1>1, <1>3
<1> QED
  BY <1>1, <1>3, <1>4, <1>5

LEMMA LoseListenerStep ==
    ASSUME InstanceAssumption, IInv, NEW r \in Replicas, LoseListener(r), UNCHANGED beside PROVE IInv'
<1>1. PICK h \in 0..Len(inbox[r]) : inbox' = [inbox EXCEPT ![r] = SubSeq(@, 1, h)]
  BY DEF LoseListener
<1>2. /\ listener' = [listener EXCEPT ![r] = "down"]
      /\ UNCHANGED <<version, present, handling, channel, process, socket, page, access, missed, cut, beside>>
  BY DEF LoseListener
<1>3. Shape /\ Announced(r) /\ inbox[r] \in Seq(Event)
  BY DEF IInv, Shape
<1>4. /\ inbox'[r] \in Seq(Event) /\ \A k \in DOMAIN inbox'[r] : k \in DOMAIN inbox[r] /\ inbox'[r][k] = inbox[r][k]
      /\ inbox' \in [Replicas -> Seq(Event)]
  BY <1>1, <1>3, PrefixFacts DEF Shape
<1>5. Shape' /\ Announced(r)' /\ listener'[r] = "down"
  BY <1>2, <1>3, <1>4 DEF Shape, Announced, Genuine
<1>6. ASSUME NEW c \in Pages, socket[c].replica = r PROVE PageSound(c)'
  <2>1. PageSound(c) /\ socket'[c] = socket[c] /\ page'[c] = page[c] /\ missed'[c] = missed[c]
    BY <1>2 DEF IInv
  <2>2. Hears(r)'
    BY <1>5 DEF Hears
  <2> QED
    BY <1>2, <1>6, <2>1, <2>2 DEF PageSound, NotAhead, Placed, SocketComes
<1>7. \A q \in Replicas \ {r} : /\ listener'[q] = listener[q] /\ inbox'[q] = inbox[q]
                                /\ handling'[q] = handling[q] /\ channel'[q] = channel[q]
  BY <1>1, <1>2, <1>3 DEF Shape
<1> QED
  BY <1>2, <1>5, <1>6, <1>7, ReplicaStep

LEMMA HandleStep ==
    ASSUME InstanceAssumption, IInv, NEW r \in Replicas, Handle(r), UNCHANGED beside PROVE IInv'
<1> DEFINE e == Head(inbox[r])
           h == IF channel[r] THEN [event |-> e, read |-> e.change = "deleted"] ELSE None
<1>1. /\ inbox[r] # <<>> /\ inbox' = [inbox EXCEPT ![r] = Tail(@)] /\ handling' = [handling EXCEPT ![r] = h]
      /\ handling[r] = None
      /\ UNCHANGED <<version, present, listener, channel, process, socket, page, access, faults, missed, cut, beside>>
  BY DEF Handle
<1>2. Shape /\ Announced(r) /\ inbox[r] \in Seq(Event)
  BY DEF IInv, Shape
<1>3. /\ e \in Event /\ Tail(inbox[r]) \in Seq(Event) /\ 1 \in DOMAIN inbox[r] /\ e = inbox[r][1]
      /\ \A k \in DOMAIN Tail(inbox[r]) : k + 1 \in DOMAIN inbox[r] /\ Tail(inbox[r])[k] = inbox[r][k + 1]
      /\ \A k \in DOMAIN inbox[r] : k = 1 \/ (k - 1 \in DOMAIN Tail(inbox[r]) /\ Tail(inbox[r])[k - 1] = inbox[r][k])
  BY <1>1, <1>2, TailFacts
<1> HIDE DEF e
<1>4. inbox'[r] = Tail(inbox[r]) /\ handling'[r] = h
  BY <1>1, <1>2 DEF Shape
<1>5. /\ h \in {None} \cup Handling
      /\ channel[r] => h # None /\ h.event = e /\ (~h.read => e.change # "deleted")
      /\ ~channel[r] => h = None
  <2> DEFINE deleted == e.change = "deleted"
             handled == [event |-> e, read |-> deleted]
  <2>1. deleted \in BOOLEAN
    OBVIOUS
  <2>2. ~deleted => e.change # "deleted"
    OBVIOUS
  <2> HIDE DEF deleted
  <2>3. handled \in Handling /\ handled.event = e /\ handled.read = deleted
    BY <1>3, <2>1 DEF Handling
  <2>4. h = IF channel[r] THEN handled ELSE None
    BY DEF deleted
  <2> HIDE DEF handled, h
  <2>5. handled # None
    BY <2>3 DEF InstanceAssumption
  <2>6. ~handled.read => e.change # "deleted"
    BY <2>2, <2>3
  <2> QED
    BY <2>3, <2>4, <2>5, <2>6
<1> HIDE DEF h
<1>6. Shape'
  BY <1>1, <1>2, <1>3, <1>4, <1>5 DEF Shape
<1>7. Announced(r)'
  <2>1. \A k \in DOMAIN inbox[r] : Genuine(inbox[r][k])
    BY <1>2 DEF Announced
  <2>2. \A k \in DOMAIN inbox'[r] : Genuine(inbox'[r][k])
    BY <1>3, <1>4, <2>1
  <2>3. Genuine(e)
    BY <1>3, <2>1
  <2> QED
    BY <1>1, <1>4, <1>5, <2>2, <2>3 DEF Announced, Genuine
<1>8. channel[r] /\ Hears(r) => Hears(r)'
  <2> SUFFICES ASSUME channel[r], Hears(r) PROVE Hears(r)'
    OBVIOUS
  <2>1. CASE listener[r] # "up"
    BY <1>1, <2>1 DEF Hears
  <2>2. ASSUME NEW k \in DOMAIN inbox[r], inbox[r][k].n = version PROVE Hears(r)'
    <3>1. CASE k = 1
      <4>1. handling'[r] # None /\ handling'[r].event.n = version'
        BY <1>1, <1>3, <1>4, <1>5, <2>2, <3>1
      <4> QED
        BY <4>1 DEF Hears
    <3>2. CASE k # 1
      <4>1. k - 1 \in DOMAIN inbox'[r] /\ inbox'[r][k - 1].n = version'
        BY <1>1, <1>3, <1>4, <2>2, <3>2
      <4> QED
        BY <4>1 DEF Hears
    <3> QED
      BY <3>1, <3>2
  <2> QED
    BY <1>1, <2>1, <2>2 DEF Hears
<1>9. ASSUME NEW c \in Pages, socket[c].replica = r PROVE PageSound(c)'
  <2>1. PageSound(c) /\ socket'[c] = socket[c] /\ page'[c] = page[c] /\ missed'[c] = missed[c]
    BY <1>1 DEF IInv
  <2>2. socket[c].at = "open" => PageComes(page[c], missed[c])' \/ SocketComes(socket[c])'
    <3>1. CASE channel[r]
      BY <1>1, <1>8, <1>9, <2>1, <3>1 DEF PageSound, PageComes, Loading, SocketComes
    <3>2. CASE ~channel[r]
      BY <1>9, <2>1, <3>2 DEF PageSound, SocketComes
    <3> QED
      BY <3>1, <3>2
  <2> QED
    BY <1>1, <2>1, <2>2 DEF PageSound, NotAhead, Placed
<1>10. \A q \in Replicas \ {r} : /\ listener'[q] = listener[q] /\ inbox'[q] = inbox[q]
                                 /\ handling'[q] = handling[q] /\ channel'[q] = channel[q]
  BY <1>1, <1>2 DEF Shape
<1> QED
  BY <1>1, <1>6, <1>7, <1>9, <1>10, ReplicaStep

LEMMA ReadBackStep ==
    ASSUME InstanceAssumption, IInv, NEW r \in Replicas, ReadBack(r), UNCHANGED beside PROVE IInv'
<1> DEFINE h == handling[r]
<1>1. /\ h # None /\ ~h.read
      /\ UNCHANGED <<version, present, listener, inbox, channel, process, socket, page, access, cut, beside>>
  BY DEF ReadBack
<1>2. Shape /\ Announced(r) /\ h \in Handling
  BY <1>1 DEF IInv, Shape
<1>3. h.event.change # "deleted" /\ Genuine(h.event) /\ h.event.n <= version /\ h.event.n \in Nat
      /\ h.event.message \in Messages /\ version \in Nat
  BY <1>1, <1>2 DEF Announced, Handling, Event, Shape
\* Read again and found.
<1>4. CASE handling' = [handling EXCEPT ![r].read = TRUE] /\ missed' = missed
  <2> DEFINE g == [h EXCEPT !.read = TRUE]
  <2>1. g \in Handling /\ g.event = h.event /\ g.read = TRUE
    BY <1>2 DEF Handling
  <2>2. handling' = [handling EXCEPT ![r] = g]
    BY <1>2, <1>4 DEF Shape
  <2> HIDE DEF g, h
  <2>3. handling'[r] = g /\ handling' \in [Replicas -> {None} \cup Handling]
    BY <1>2, <2>1, <2>2 DEF Shape
  <2>4. Shape'
    BY <1>1, <1>2, <1>4, <2>3 DEF Shape
  <2>5. Announced(r)' /\ (Hears(r) => Hears(r)')
    <3>1. Announced(r)'
      BY <1>1, <1>2, <1>3, <2>1, <2>3 DEF Announced, Genuine
    <3>2. g # None
      BY <2>1 DEF InstanceAssumption
    <3>3. Hears(r) => Hears(r)'
      BY <1>1, <2>1, <2>3, <3>2 DEF Hears, h
    <3> QED
      BY <3>1, <3>3
  <2>6. ASSUME NEW c \in Pages, socket[c].replica = r PROVE PageSound(c)'
    <3>1. PageSound(c) /\ socket'[c] = socket[c] /\ page'[c] = page[c] /\ missed'[c] = missed[c]
      BY <1>1, <1>4 DEF IInv
    <3>2. socket[c].at = "open" => PageComes(page[c], missed[c])' \/ SocketComes(socket[c])'
      BY <1>1, <2>5, <2>6, <3>1 DEF PageSound, PageComes, Loading, SocketComes
    <3> QED
      BY <1>1, <3>1, <3>2 DEF PageSound, NotAhead, Placed
  <2>7. \A q \in Replicas \ {r} : /\ listener'[q] = listener[q] /\ inbox'[q] = inbox[q]
                                  /\ handling'[q] = handling[q] /\ channel'[q] = channel[q]
    BY <1>1, <1>2, <2>2 DEF Shape
  <2> QED
    BY <1>1, <1>4, <2>4, <2>5, <2>6, <2>7, ReplicaStep
\* Given up: the change is not the last, or the pages on the replica may miss it.
<1>5. ASSUME handling' = [handling EXCEPT ![r] = None],
             \/ h.event.message \notin present /\ missed' = missed
             \/ missed' = [c \in Pages |-> IF c \in On(r) THEN Later(missed[c], h.event.n) ELSE missed[c]]
      PROVE  IInv'
  <2>1. handling'[r] = None /\ handling' \in [Replicas -> {None} \cup Handling]
    BY <1>2, <1>5 DEF Shape
  <2>2. ASSUME NEW c \in Pages
        PROVE  /\ missed'[c] \in Nat /\ missed'[c] <= version /\ (missed[c] = version => missed'[c] = version)
               /\ c \in On(r) /\ h.event.n = version => missed'[c] = version
               /\ c \notin On(r) => missed'[c] = missed[c]
    <3>1. missed[c] \in Nat /\ missed[c] <= version
      BY <1>2 DEF IInv, PageSound, NotAhead, Shape
    <3>2. CASE h.event.message \notin present /\ missed' = missed
      <4>1. h.event.n # version
        BY <1>3, <3>2 DEF Genuine
      <4> QED
        BY <3>1, <3>2, <4>1
    <3>3. CASE missed' = [d \in Pages |-> IF d \in On(r) THEN Later(missed[d], h.event.n) ELSE missed[d]]
      <4>1. missed'[c] = IF c \in On(r) THEN Later(missed[c], h.event.n) ELSE missed[c]
        BY <3>3
      <4> HIDE DEF h
      <4> QED
        BY <1>3, <3>1, <4>1 DEF Later
    <3> QED
      BY <1>5, <3>2, <3>3
  <2>3. missed' \in [Pages -> Nat]
    <3>1. missed' = [c \in Pages |-> missed'[c]]
      BY <1>2, <1>5 DEF Shape
    <3> QED
      BY <2>2, <3>1
  <2>4. Shape' /\ Announced(r)'
    BY <1>1, <1>2, <2>1, <2>3 DEF Shape, Announced, Genuine
  <2>5. ASSUME NEW c \in Pages, socket[c].replica = r PROVE PageSound(c)'
    <3>1. PageSound(c) /\ socket'[c] = socket[c] /\ page'[c] = page[c]
      BY <1>1 DEF IInv
    <3>2. ASSUME socket[c].at = "open" PROVE PageComes(page[c], missed[c])' \/ SocketComes(socket[c])'
      <4>1. c \in On(r)
        BY <2>5, <3>2 DEF On
      <4>2. CASE h.event.n = version
        BY <1>1, <2>2, <4>1, <4>2 DEF PageComes
      <4>3. CASE h.event.n # version
        <5>1. Hears(r) => Hears(r)'
          BY <1>1, <4>3 DEF Hears
        <5>2. PageComes(page[c], missed[c]) => PageComes(page[c], missed[c])'
          BY <1>1, <2>2, <3>1 DEF PageComes, Loading
        <5> QED
          BY <2>5, <3>1, <3>2, <5>1, <5>2 DEF PageSound, SocketComes
      <4> QED
        BY <4>2, <4>3
    <3> QED
      BY <1>1, <2>2, <3>1, <3>2 DEF PageSound, NotAhead, Placed
  <2>6. \A q \in Replicas \ {r} : /\ listener'[q] = listener[q] /\ inbox'[q] = inbox[q]
                                  /\ handling'[q] = handling[q] /\ channel'[q] = channel[q]
    BY <1>1, <1>2, <1>5 DEF Shape
  <2>7. \A c \in Pages : socket[c].replica # r => socket'[c] = socket[c] /\ missed'[c] = missed[c]
    BY <1>1, <2>2 DEF On
  <2> QED
    BY <1>1, <2>4, <2>5, <2>6, <2>7, ReplicaStep
<1> QED
  BY <1>4, <1>5 DEF ReadBack

LEMMA DispatchStep ==
    ASSUME BoardAssumption, InstanceAssumption, IInv, NEW r \in Replicas, Dispatch(r), UNCHANGED beside PROVE IInv'
<1>1. /\ handling[r] # None /\ handling' = [handling EXCEPT ![r] = None]
      /\ socket' = [c \in Pages |-> IF c \notin Receivers(r) \/ socket[c].queued = Capacity THEN socket[c]
                                    ELSE [socket[c] EXCEPT !.queued = @ + 1]]
      /\ UNCHANGED <<version, present, listener, inbox, channel, process, page, access, faults, missed, cut, beside>>
  BY DEF Dispatch
<1>2. Shape /\ Announced(r) /\ Capacity \in Nat /\ Capacity > 0
  BY DEF IInv, BoardAssumption
<1>3. handling'[r] = None /\ handling' \in [Replicas -> {None} \cup Handling]
  BY <1>1, <1>2 DEF Shape
<1>4. ASSUME NEW c \in Pages
      PROVE  /\ socket'[c] \in Socket /\ socket'[c].at = socket[c].at /\ socket'[c].replica = socket[c].replica
             /\ socket'[c].closed = socket[c].closed
             /\ c \in Receivers(r) => socket'[c].queued > 0
             /\ c \notin Receivers(r) => socket'[c] = socket[c]
  <2>1. socket[c] \in Socket
    BY <1>2 DEF Shape
  <2>2. CASE c \notin Receivers(r) \/ socket[c].queued = Capacity
    BY <1>1, <1>2, <2>1, <2>2
  <2>3. CASE ~(c \notin Receivers(r) \/ socket[c].queued = Capacity)
    <3> DEFINE s == socket[c]
               t == [s EXCEPT !.queued = @ + 1]
    <3>1. socket'[c] = t
      BY <1>1, <2>3
    <3> HIDE DEF s
    <3>2. /\ t \in Socket /\ t.at = s.at /\ t.replica = s.replica /\ t.closed = s.closed /\ t.queued > 0
      BY <2>1 DEF Socket, s
    <3> QED
      BY <2>3, <3>1, <3>2 DEF s
  <2> QED
    BY <2>2, <2>3
<1>5. Shape'
  <2>1. socket' \in [Pages -> Socket]
    <3>1. socket' = [c \in Pages |-> socket'[c]]
      BY <1>1
    <3> QED
      BY <1>4, <3>1
  <2> QED
    BY <1>1, <1>2, <1>3, <2>1 DEF Shape
<1>6. Announced(r)'
  BY <1>1, <1>2, <1>3 DEF Announced, Genuine
<1>7. ASSUME NEW c \in Pages, socket[c].replica = r PROVE PageSound(c)'
  <2>1. PageSound(c) /\ page'[c] = page[c] /\ missed'[c] = missed[c]
    BY <1>1 DEF IInv
  <2>2. socket[c].at = "open" => socket'[c].closed \/ socket'[c].queued > 0
    BY <1>4, <1>7 DEF Receivers, On
  <2>3. Placed(socket[c])'
    BY <1>1, <1>4, <2>1 DEF PageSound, Placed
  <2> QED
    BY <1>1, <1>4, <2>1, <2>2, <2>3 DEF PageSound, NotAhead, SocketComes
<1>8. \A q \in Replicas \ {r} : /\ listener'[q] = listener[q] /\ inbox'[q] = inbox[q]
                                /\ handling'[q] = handling[q] /\ channel'[q] = channel[q]
  BY <1>1, <1>2 DEF Shape
<1>9. \A c \in Pages : socket[c].replica # r => socket'[c] = socket[c] /\ missed'[c] = missed[c]
  BY <1>1, <1>4 DEF Receivers, On
<1> QED
  BY <1>1, <1>5, <1>6, <1>7, <1>8, <1>9, ReplicaStep

LEMMA RelistenStep ==
    ASSUME InstanceAssumption, IInv, NEW r \in Replicas, Relisten(r), UNCHANGED beside PROVE IInv'
<1>1. /\ listener' = [listener EXCEPT ![r] = "back"]
      /\ UNCHANGED <<version, present, inbox, handling, channel, process, socket, page, access, faults, missed, cut, beside>>
  BY DEF Relisten
<1>2. Shape /\ Announced(r)
  BY DEF IInv
<1>3. listener'[r] = "back" /\ Shape'
  BY <1>1, <1>2 DEF Shape
<1>4. Announced(r)' /\ Hears(r)'
  BY <1>1, <1>2, <1>3 DEF Announced, Genuine, Hears
<1>5. ASSUME NEW c \in Pages, socket[c].replica = r PROVE PageSound(c)'
  <2>1. PageSound(c) /\ socket'[c] = socket[c] /\ page'[c] = page[c] /\ missed'[c] = missed[c]
    BY <1>1 DEF IInv
  <2> QED
    BY <1>1, <1>4, <1>5, <2>1 DEF PageSound, NotAhead, Placed, SocketComes
<1>6. \A q \in Replicas \ {r} : /\ listener'[q] = listener[q] /\ inbox'[q] = inbox[q]
                                /\ handling'[q] = handling[q] /\ channel'[q] = channel[q]
  BY <1>1, <1>2 DEF Shape
<1> QED
  BY <1>1, <1>3, <1>4, <1>5, <1>6, ReplicaStep

LEMMA CloseAllStep ==
    ASSUME InstanceAssumption, IInv, NEW r \in Replicas, CloseAll(r), UNCHANGED beside PROVE IInv'
<1>1. /\ listener' = [listener EXCEPT ![r] = "up"] /\ channel' = [channel EXCEPT ![r] = FALSE]
      /\ socket' = [c \in Pages |-> IF c \in ClosedBy(r) THEN [socket[c] EXCEPT !.closed = TRUE] ELSE socket[c]]
      /\ UNCHANGED <<version, present, inbox, handling, process, page, access, faults, missed, cut, beside>>
  BY DEF CloseAll
<1>2. Shape /\ Announced(r)
  BY DEF IInv
<1>3. ASSUME NEW c \in Pages
      PROVE  /\ socket'[c] \in Socket /\ socket'[c].at = socket[c].at /\ socket'[c].replica = socket[c].replica
             /\ socket[c].at = "open" /\ socket[c].replica = r => socket'[c].closed
             /\ socket[c].replica # r => socket'[c] = socket[c]
  <2> DEFINE s == socket[c]
             t == [s EXCEPT !.closed = TRUE]
  <2>1. s \in Socket
    BY <1>2 DEF Shape
  <2>2. c \in ClosedBy(r) <=> s.at = "open" /\ s.replica = r /\ ~s.closed
    BY DEF ClosedBy, Receivers, On
  <2>3. socket'[c] = IF c \in ClosedBy(r) THEN t ELSE s
    BY <1>1
  <2> HIDE DEF s
  <2>4. t \in Socket /\ t.at = s.at /\ t.replica = s.replica /\ t.closed = TRUE
    BY <2>1 DEF Socket
  <2> HIDE DEF t
  <2> QED
    BY <2>1, <2>2, <2>3, <2>4 DEF s
<1>4. Shape' /\ Announced(r)'
  <2>1. socket' \in [Pages -> Socket]
    <3>1. socket' = [c \in Pages |-> socket'[c]]
      BY <1>1
    <3> QED
      BY <1>3, <3>1
  <2> QED
    BY <1>1, <1>2, <2>1 DEF Shape, Announced, Genuine
<1>5. ASSUME NEW c \in Pages, socket[c].replica = r PROVE PageSound(c)'
  <2>1. PageSound(c) /\ page'[c] = page[c] /\ missed'[c] = missed[c]
    BY <1>1 DEF IInv
  <2>2. Placed(socket[c])'
    BY <1>1, <1>3, <2>1 DEF PageSound, Placed
  <2> QED
    BY <1>1, <1>3, <1>5, <2>1, <2>2 DEF PageSound, NotAhead, SocketComes
<1>6. \A q \in Replicas \ {r} : /\ listener'[q] = listener[q] /\ inbox'[q] = inbox[q]
                                /\ handling'[q] = handling[q] /\ channel'[q] = channel[q]
  BY <1>1, <1>2 DEF Shape
<1> QED
  BY <1>1, <1>3, <1>4, <1>5, <1>6, ReplicaStep

LEMMA TriggerStep ==
    ASSUME InstanceAssumption, IInv, NEW r \in Replicas, Trigger(r), UNCHANGED beside PROVE IInv'
<1>1. UNCHANGED <<version, present, listener, inbox, handling, channel, socket, page, missed, cut, beside>>
  BY DEF Trigger
<1>2. Shape' /\ Announced(r)'
  BY <1>1 DEF IInv, Shape, Announced, Genuine
<1>3. ASSUME NEW c \in Pages PROVE PageSound(c)'
  BY <1>1 DEF IInv, PageSound, NotAhead, Placed, PageComes, Loading, SocketComes, Hears
<1> QED
  BY <1>1, <1>2, <1>3, ReplicaStep

LEMMA ExitStep ==
    ASSUME InstanceAssumption, IInv, NEW r \in Replicas, Exit(r), UNCHANGED <<cut, beside>> PROVE IInv'
<1> DEFINE s == [NoSocket EXCEPT !.at = "ended"]
<1>1. /\ listener' = [listener EXCEPT ![r] = "up"] /\ inbox' = [inbox EXCEPT ![r] = <<>>]
      /\ handling' = [handling EXCEPT ![r] = None] /\ channel' = [channel EXCEPT ![r] = FALSE]
      /\ socket' = [c \in Pages |-> IF socket[c].replica = r THEN s ELSE socket[c]]
      /\ UNCHANGED <<version, present, page, access, faults, missed>>
  BY DEF Exit
<1>2. Shape
  BY DEF IInv
<1>3. s \in Socket /\ s.at = "ended" /\ s.replica = None
  BY DEF NoSocket, Socket
<1> HIDE DEF s
<1>4. /\ inbox'[r] = <<>> /\ handling'[r] = None /\ <<>> \in Seq(Event) /\ DOMAIN <<>> = {}
      /\ \A c \in Pages : socket[c].replica = r => socket'[c] = s
  BY <1>1, <1>2 DEF Shape
<1>5. Shape'
  <2>1. socket' \in [Pages -> Socket]
    BY <1>1, <1>2, <1>3 DEF Shape
  <2>2. inbox' \in [Replicas -> Seq(Event)]
    BY <1>1, <1>2, <1>4 DEF Shape
  <2> QED
    BY <1>1, <1>2, <2>1, <2>2 DEF Shape
<1>6. Announced(r)'
  BY <1>4 DEF Announced
<1>7. ASSUME NEW c \in Pages, socket[c].replica = r PROVE PageSound(c)'
  <2>1. PageSound(c) /\ page'[c] = page[c] /\ missed'[c] = missed[c] /\ socket'[c] = s
    BY <1>1, <1>4, <1>7 DEF IInv
  <2> QED
    BY <1>1, <1>3, <2>1 DEF PageSound, NotAhead, Placed
<1>8. \A q \in Replicas \ {r} : /\ listener'[q] = listener[q] /\ inbox'[q] = inbox[q]
                                /\ handling'[q] = handling[q] /\ channel'[q] = channel[q]
  BY <1>1, <1>2 DEF Shape
<1>9. \A c \in Pages : socket[c].replica # r => socket'[c] = socket[c] /\ missed'[c] = missed[c]
  BY <1>1
<1> QED
  BY <1>1, <1>5, <1>6, <1>7, <1>8, <1>9, ReplicaStep

\* A process that has drained ends on no socket: one that is asked for is a request, one that is
\* upgraded or open holds the process.
LEMMA DrainedStep ==
    ASSUME InstanceAssumption, IInv, NEW r \in Replicas, Drained(r), UNCHANGED beside PROVE IInv'
<1>1. HttpRequests(r) = {} /\ Held(r) = {} /\ Exit(r) /\ cut' = cut \cup {c \in Pages : socket[c].replica = r}
  BY DEF Drained
<1>2. ASSUME NEW c \in Pages, socket[c].replica = r PROVE FALSE
  <2>1. Placed(socket[c]) /\ r # None
    BY DEF IInv, PageSound, InstanceAssumption
  <2>2. socket[c].at \in {"asked", "upgraded", "open"}
    BY <1>2, <2>1 DEF Placed
  <2> QED
    BY <1>1, <1>2, <2>2 DEF HttpRequests, Held
<1>3. cut' = cut
  BY <1>1, <1>2
<1> QED
  BY <1>1, <1>3, ExitStep

LEMMA AnnounceStep ==
    ASSUME InstanceAssumption, IInv, NEW m \in Messages, NEW change \in {"created", "updated", "deleted"},
           present' \subseteq Messages, change # "deleted" => m \in present', Announce(m, change), UNCHANGED beside
    PROVE  IInv'
<1> DEFINE e == [n |-> version', message |-> m, change |-> change]
           heard(r) == ~(listener[r] = "down" \/ r \notin beside.replicas)
<1>1. /\ version' = version + 1
      /\ inbox' = [r \in Replicas |-> IF listener[r] = "down" \/ r \notin beside.replicas THEN inbox[r]
                                      ELSE Append(inbox[r], e)]
      /\ UNCHANGED <<listener, handling, channel, process, socket, page, access, faults, missed, cut, beside>>
  BY DEF Announce
<1>2. Shape
  BY DEF IInv
<1>3. e \in Event /\ e.n = version' /\ (e.change # "deleted" => e.message \in present') /\ version \in Nat /\ version' \in Nat
  BY <1>1, <1>2 DEF Event, Shape
<1> HIDE DEF e
<1>4. ASSUME NEW r \in Replicas
      PROVE  /\ inbox'[r] \in Seq(Event)
             /\ \A k \in DOMAIN inbox'[r] : inbox'[r][k] = e \/ (k \in DOMAIN inbox[r] /\ inbox'[r][k] = inbox[r][k])
             /\ heard(r) => \E k \in DOMAIN inbox'[r] : inbox'[r][k] = e
  <2>1. inbox[r] \in Seq(Event) /\ inbox'[r] = IF heard(r) THEN Append(inbox[r], e) ELSE inbox[r]
    BY <1>1, <1>2 DEF Shape
  <2> HIDE DEF heard
  <2>2. /\ Append(inbox[r], e) \in Seq(Event)
        /\ \A k \in DOMAIN Append(inbox[r], e) :
               Append(inbox[r], e)[k] = e \/ (k \in DOMAIN inbox[r] /\ Append(inbox[r], e)[k] = inbox[r][k])
        /\ \E k \in DOMAIN Append(inbox[r], e) : Append(inbox[r], e)[k] = e
    BY <1>3, <2>1, AppendFacts
  <2> QED
    BY <2>1, <2>2
<1>5. Shape'
  <2>1. inbox' \in [Replicas -> Seq(Event)]
    <3>1. inbox' = [r \in Replicas |-> inbox'[r]]
      BY <1>1
    <3> QED
      BY <1>4, <3>1
  <2> QED
    BY <1>1, <1>2, <1>3, <2>1 DEF Shape
<1>6. ASSUME NEW r \in Replicas PROVE Announced(r)'
  <2>1. Announced(r) /\ handling'[r] = handling[r] /\ inbox[r] \in Seq(Event)
    BY <1>1, <1>2 DEF IInv, Shape
  <2>2. \A f \in Event : f.n <= version => f.n <= version' /\ f.n # version'
    BY <1>1, <1>3 DEF Event
  <2>3. ASSUME NEW k \in DOMAIN inbox'[r]
        PROVE  /\ inbox'[r][k].n <= version'
               /\ inbox'[r][k].n = version' /\ inbox'[r][k].change # "deleted" => inbox'[r][k].message \in present'
    <3>1. CASE inbox'[r][k] = e
      BY <1>3, <3>1
    <3>2. CASE k \in DOMAIN inbox[r] /\ inbox'[r][k] = inbox[r][k]
      <4>1. inbox[r][k] \in Event /\ inbox[r][k].n <= version
        BY <2>1, <3>2, LenProperties, ElementOfSeq DEF Announced, Genuine
      <4>2. inbox[r][k].n <= version' /\ inbox[r][k].n # version'
        BY <2>2, <4>1
      <4> QED
        BY <3>2, <4>2
    <3> QED
      BY <1>4, <3>1, <3>2
  <2>4. ASSUME handling[r] # None
        PROVE  /\ handling[r].event.n <= version' /\ handling[r].event.n # version'
               /\ ~handling[r].read => handling[r].event.change # "deleted"
    <3>1. handling[r].event \in Event /\ handling[r].event.n <= version
      BY <1>2, <2>1, <2>4 DEF Announced, Shape, Handling
    <3> QED
      BY <2>1, <2>2, <2>4, <3>1 DEF Announced
  <2> QED
    BY <2>1, <2>3, <2>4 DEF Announced, Genuine
<1>7. ASSUME NEW c \in Pages PROVE PageSound(c)'
  <2>1. /\ PageSound(c) /\ socket'[c] = socket[c] /\ page'[c] = page[c] /\ missed'[c] = missed[c]
        /\ page[c] \in Page /\ missed[c] \in Nat
    BY <1>1, <1>2 DEF IInv, Shape
  <2>2. NotAhead(page[c], missed[c])'
    <3>1. \A f \in Fetches : page[c].loads[f] # None => page[c].loads[f] \in Fetched
      BY <2>1 DEF Page
    <3>2. \A f \in Fetches : page[c].loads[f] # None => page[c].loads[f].n \in Nat
      BY <3>1 DEF Fetched
    <3>3. page[c].shown \in Nat
      BY <2>1 DEF Page
    <3> QED
      BY <1>1, <1>3, <2>1, <3>2, <3>3 DEF PageSound, NotAhead
  <2>3. Placed(socket[c])'
    BY <1>1, <2>1 DEF PageSound, Placed
  <2>4. ASSUME socket[c].at = "open" PROVE Hears(socket[c].replica)'
    <3> DEFINE r == socket[c].replica
    <3>1. r \in beside.replicas /\ r \in Replicas
      BY <2>1, <2>4, AtWork DEF PageSound, Placed
    <3>2. CASE listener[r] = "down"
      BY <1>1, <3>2 DEF Hears
    <3>3. CASE listener[r] # "down"
      <4>1. PICK k \in DOMAIN inbox'[r] : inbox'[r][k] = e
        BY <1>4, <3>1, <3>3
      <4>2. inbox'[r][k].n = version'
        BY <1>3, <4>1
      <4> QED
        BY <2>1, <4>2 DEF Hears
    <3> QED
      BY <3>2, <3>3
  <2> QED
    BY <1>1, <2>1, <2>2, <2>3, <2>4 DEF PageSound, SocketComes
<1> QED
  BY <1>1, <1>5, <1>6, <1>7 DEF IInv, NoSocketCut

-----------------------------------------------------------------------------
(* A page and its socket.                                                     *)

\* A page as it stands, a step that leaves some of it alone included.
LEMMA Here ==
    ASSUME InstanceAssumption, IInv, NEW c \in Pages
    PROVE  /\ socket[c] \in Socket /\ page[c] \in Page /\ missed[c] \in Nat /\ version \in Nat
           /\ socket = [socket EXCEPT ![c] = socket[c]] /\ page = [page EXCEPT ![c] = page[c]]
           /\ missed = [missed EXCEPT ![c] = missed[c]] /\ channel \in [Replicas -> BOOLEAN]
           /\ NotAhead(page[c], missed[c]) /\ Placed(socket[c])
           /\ socket[c].at = "open" /\ ~socket[c].closed => channel[socket[c].replica]
           /\ socket[c].at = "open" => PageComes(page[c], missed[c]) \/ SocketComes(socket[c])
BY DEF IInv, Shape, PageSound

\* A socket that is not one of a replica has nothing to keep.
LEMMA Gone ==
    ASSUME NEW at \in {"none", "ended", "probing"}
    PROVE  LET s == [NoSocket EXCEPT !.at = at] IN s \in Socket /\ s.at = at /\ s.at # "open" /\ Placed(s)
BY DEF NoSocket, Socket, Placed

LEMMA UpgradeStep ==
    ASSUME InstanceAssumption, IInv, NEW c \in Pages, Upgrade(c), UNCHANGED beside PROVE IInv'
<1> DEFINE old == socket[c]
           up == [old EXCEPT !.at = "upgraded"]
           s == IF access[c] = "full" THEN up ELSE [NoSocket EXCEPT !.at = "ended"]
<1>1. /\ old.at = "asked" /\ socket' = [socket EXCEPT ![c] = s]
      /\ UNCHANGED <<version, present, listener, inbox, handling, channel, page, missed, cut, beside>>
  BY DEF Upgrade, SetSocket, server
<1>2. old \in Socket /\ Placed(old) /\ old.replica \in beside.replicas
  BY <1>1, Here DEF Placed
<1> HIDE DEF old
<1>3. up \in Socket /\ up.at = "upgraded" /\ up.replica = old.replica
  BY <1>2 DEF Socket
<1> HIDE DEF up
<1>4. s \in Socket /\ Placed(s) /\ s.at # "open"
  BY <1>2, <1>3, Gone DEF Placed
<1> HIDE DEF s
<1> QED
  BY <1>1, <1>4, Here, PageStep

LEMMA SubscribeStep ==
    ASSUME InstanceAssumption, IInv, NEW c \in Pages, Subscribe(c), UNCHANGED beside PROVE IInv'
<1> DEFINE old == socket[c]
           s == [old EXCEPT !.at = "open"]
           was == page[c]
           g == [was EXCEPT !.attempts = 0]
<1>1. /\ old.at = "upgraded" /\ socket' = [socket EXCEPT ![c] = s] /\ page' = [page EXCEPT ![c] = g]
      /\ channel' = [channel EXCEPT ![old.replica] = TRUE] /\ missed' = [missed EXCEPT ![c] = version]
      /\ UNCHANGED <<version, present, listener, inbox, handling, cut, beside>>
  BY DEF Subscribe, SetSocket
<1>2. /\ old \in Socket /\ Placed(old) /\ was \in Page /\ NotAhead(was, missed[c]) /\ version \in Nat
      /\ channel \in [Replicas -> BOOLEAN]
  BY Here
<1> HIDE DEF old, was
<1>3. old.replica \in beside.replicas /\ old.replica \in Replicas
  BY <1>1, <1>2, AtWork DEF Placed
<1>4. s \in Socket /\ s.at = "open" /\ s.replica = old.replica
  BY <1>2 DEF Socket
<1>5. g \in Page /\ g.shown = was.shown /\ g.loads = was.loads
  BY <1>2 DEF Page
<1> HIDE DEF s, g
<1>6. Placed(s) /\ NotAhead(g, version) /\ PageComes(g, version)
  BY <1>2, <1>3, <1>4, <1>5 DEF Placed, NotAhead, PageComes
<1>7. channel' \in [Replicas -> BOOLEAN] /\ channel'[s.replica] /\ \A r \in Replicas : channel[r] => channel'[r]
  BY <1>1, <1>2, <1>3, <1>4
<1>8. \A q \in Pages \ {c} : socket[q].at = "open" /\ ~socket[q].closed /\ channel[socket[q].replica]
                            => channel'[socket[q].replica]
  <2>1. ASSUME NEW q \in Pages, socket[q].at = "open" PROVE socket[q].replica \in Replicas
    BY <2>1, Here, AtWork DEF Placed
  <2> QED
    BY <1>7, <2>1
<1> QED
  BY <1>1, <1>2, <1>4, <1>5, <1>6, <1>7, <1>8, PageStep

\* The channel of the group stays as long as another socket holds a receiver of it.
LEMMA LeaveStep ==
    ASSUME InstanceAssumption, IInv, NEW c \in Pages, Leave(c), UNCHANGED beside PROVE IInv'
<1> DEFINE s == [NoSocket EXCEPT !.at = "ended"]
           r == socket[c].replica
           stays == channel[r] /\ Receivers(r) # {c} /\ Receivers(r) # {}
<1>1. /\ socket[c].at = "open" /\ socket' = [socket EXCEPT ![c] = s] /\ channel' = [channel EXCEPT ![r] = stays]
      /\ UNCHANGED <<version, present, listener, inbox, handling, page, missed, cut, beside>>
  BY DEF Leave, SetSocket
<1>2. channel \in [Replicas -> BOOLEAN] /\ r \in Replicas
  BY <1>1, Here, AtWork DEF Placed
<1>3. ASSUME NEW q \in Pages \ {c}, socket[q].at = "open", ~socket[q].closed, channel[socket[q].replica]
      PROVE  channel'[socket[q].replica]
  <2>1. socket[q].replica \in Replicas
    BY <1>3, Here, AtWork DEF Placed
  <2>2. CASE socket[q].replica = r
    <3>1. q \in Receivers(r)
      BY <1>3, <2>2 DEF Receivers, On
    <3> QED
      BY <1>1, <1>2, <1>3, <2>2, <3>1
  <2>3. CASE socket[q].replica # r
    BY <1>1, <1>2, <1>3, <2>1, <2>3
  <2> QED
    BY <2>2, <2>3
<1>4. channel' \in [Replicas -> BOOLEAN]
  <2>1. stays \in BOOLEAN
    OBVIOUS
  <2> HIDE DEF stays
  <2> QED
    BY <1>1, <1>2, <2>1
<1>5. s \in Socket /\ Placed(s) /\ s.at # "open"
  BY Gone
<1> HIDE DEF s, stays
<1> QED
  BY <1>1, <1>3, <1>4, <1>5, Here, PageStep

\* What the event asks for is a load, unless the page has stopped.
LEMMA FrameStep ==
    ASSUME InstanceAssumption, IInv, NEW c \in Pages, Frame(c), UNCHANGED beside PROVE IInv'
<1> DEFINE old == socket[c]
           s == [old EXCEPT !.queued = @ - 1]
           was == page[c]
           waits == ~was.stopped
           g == [was EXCEPT !.timer = waits]
<1>1. /\ old.at = "open" /\ old.queued > 0 /\ socket' = [socket EXCEPT ![c] = s] /\ page' = [page EXCEPT ![c] = g]
      /\ UNCHANGED <<version, present, listener, inbox, handling, channel, missed, cut, beside>>
  BY DEF Frame, SetSocket, server
<1>2. /\ old \in Socket /\ Placed(old) /\ (~old.closed => channel[old.replica]) /\ was \in Page
      /\ NotAhead(was, missed[c])
  BY <1>1, Here
<1>3. waits \in BOOLEAN /\ (waits \/ was.stopped)
  OBVIOUS
<1> HIDE DEF old, was, waits
<1>4. s \in Socket /\ s.at = old.at /\ s.replica = old.replica /\ s.closed = old.closed
  BY <1>1, <1>2 DEF Socket
<1>5. g \in Page /\ g.shown = was.shown /\ g.loads = was.loads /\ g.timer = waits /\ g.stopped = was.stopped
  BY <1>2, <1>3 DEF Page
<1> HIDE DEF s, g
<1>6. Placed(s) /\ NotAhead(g, missed[c]) /\ PageComes(g, missed[c])
  BY <1>2, <1>3, <1>4, <1>5 DEF Placed, NotAhead, PageComes
<1> QED
  BY <1>1, <1>2, <1>4, <1>5, <1>6, Here, PageStep

LEMMA ConnectStep ==
    ASSUME InstanceAssumption, IInv, NEW c \in Pages, Connect(c), UNCHANGED beside PROVE IInv'
<1>1. PICK r \in beside.replicas : socket' = [socket EXCEPT ![c] = [NoSocket EXCEPT !.at = "asked", !.replica = r]]
  BY DEF Connect, SetSocket
<1> DEFINE s == [NoSocket EXCEPT !.at = "asked", !.replica = r]
<1>2. UNCHANGED <<version, present, listener, inbox, handling, channel, page, missed, cut, beside>>
  BY DEF Connect, server
<1>3. r \in Replicas
  BY AtWork
<1>4. s \in Socket /\ s.at = "asked" /\ s.replica = r
  BY <1>3 DEF NoSocket, Socket
<1>5. socket' = [socket EXCEPT ![c] = s]
  BY <1>1
<1> HIDE DEF s
<1>6. Placed(s)
  BY <1>4 DEF Placed
<1> QED
  BY <1>2, <1>4, <1>5, <1>6, Here, PageStep

\* A load that is sent brings the last change.
LEMMA RefreshStep ==
    ASSUME InstanceAssumption, IInv, NEW c \in Pages, NEW then \in BOOLEAN, Refresh(c, then)
    PROVE  \E g \in Page : /\ page' = [page EXCEPT ![c] = g] /\ NotAhead(g, missed[c]) /\ PageComes(g, missed[c])
<1> DEFINE was == page[c]
           load == [got |-> None, n |-> 0, then |-> then]
           timer == IF then THEN was.timer ELSE FALSE
           g(f) == [was EXCEPT !.timer = timer, !.loads[f] = load]
<1>1. PICK f \in Fetches : page' = [page EXCEPT ![c] = g(f)]
  BY DEF Refresh, SetPage
<1>2. was \in Page /\ NotAhead(was, missed[c]) /\ version \in Nat
  BY Here
<1>3. load \in Fetched /\ load.got = None /\ load.n = 0
  BY DEF Fetched
<1>4. load # None
  BY <1>3 DEF InstanceAssumption
<1> HIDE DEF was, load
<1>5. timer \in BOOLEAN
  BY <1>2 DEF Page
<1> HIDE DEF timer
<1>6. /\ g(f) \in Page /\ g(f).shown = was.shown /\ g(f).loads = [was.loads EXCEPT ![f] = load]
  BY <1>2, <1>3, <1>5 DEF Page
<1>7. was.loads \in [Fetches -> {None} \cup Fetched]
  BY <1>2 DEF Page
<1>8. g(f).loads[f] = load /\ \A h \in Fetches \ {f} : g(f).loads[h] = was.loads[h]
  BY <1>6, <1>7
<1> HIDE DEF g
<1>9. NotAhead(g(f), missed[c])
  BY <1>2, <1>3, <1>6, <1>8 DEF NotAhead
<1>10. PageComes(g(f), missed[c])
  BY <1>3, <1>4, <1>8 DEF PageComes, Loading
<1> QED
  BY <1>1, <1>6, <1>9, <1>10

LEMMA RerenderStep ==
    ASSUME InstanceAssumption, IInv, NEW c \in Pages, Rerender(c), UNCHANGED beside PROVE IInv'
<1>1. Refresh(c, FALSE) /\ UNCHANGED <<version, present, listener, inbox, handling, channel, socket, missed, cut, beside>>
  BY DEF Rerender, server
<1>2. PICK g \in Page : page' = [page EXCEPT ![c] = g] /\ NotAhead(g, missed[c]) /\ PageComes(g, missed[c])
  BY <1>1, RefreshStep
<1> QED
  BY <1>1, <1>2, Here, PageStep

LEMMA OnCloseStep ==
    ASSUME InstanceAssumption, IInv, NEW c \in Pages, OnClose(c), UNCHANGED beside PROVE IInv'
<1> DEFINE s == [NoSocket EXCEPT !.at = "probing"]
<1>1. /\ socket' = [socket EXCEPT ![c] = s] /\ (UNCHANGED page \/ Refresh(c, TRUE))
      /\ UNCHANGED <<version, present, listener, inbox, handling, channel, missed, cut, beside>>
  BY DEF OnClose, SetSocket, server
<1>2. s \in Socket /\ Placed(s) /\ s.at # "open"
  BY Gone
<1> HIDE DEF s
<1>3. CASE UNCHANGED page
  BY <1>1, <1>2, <1>3, Here, PageStep
<1>4. CASE Refresh(c, TRUE)
  <2>1. PICK g \in Page : page' = [page EXCEPT ![c] = g] /\ NotAhead(g, missed[c])
    BY <1>4, RefreshStep
  <2> QED
    BY <1>1, <1>2, <2>1, Here, PageStep
<1> QED
  BY <1>1, <1>3, <1>4

\* The thread that is read is the whole of it; a load that fails is a gap.
LEMMA LoadStep ==
    ASSUME InstanceAssumption, IInv, NEW c \in Pages, NEW f \in Fetches, Load(c, f), UNCHANGED beside PROVE IInv'
<1> DEFINE was == page[c]
           got == IF access[c] = "full" THEN "thread" ELSE "lost"
           read == [was EXCEPT !.loads[f].n = version, !.loads[f].got = got]
           failing(bad) == [was EXCEPT !.loads[f].got = bad]
<1>1. PICK bad \in {"failed", "lost"} :
      /\ was.loads[f] # None
      /\ \/ page' = [page EXCEPT ![c] = read] /\ missed' = missed
         \/ page' = [page EXCEPT ![c] = failing(bad)] /\ missed' = [missed EXCEPT ![c] = version]
      /\ UNCHANGED <<version, present, listener, inbox, handling, channel, socket, cut, beside>>
  BY DEF Load, SetPage, server
<1> DEFINE failed == [was EXCEPT !.loads[f].got = bad]
<1>2. /\ was \in Page /\ NotAhead(was, missed[c]) /\ version \in Nat
      /\ (socket[c].at = "open" => PageComes(was, missed[c]) \/ SocketComes(socket[c]))
  BY Here
<1>3. got \in {"thread", "lost"}
  OBVIOUS
<1> HIDE DEF was, got
<1>4. was.loads \in [Fetches -> {None} \cup Fetched] /\ was.loads[f] \in Fetched
  BY <1>1, <1>2 DEF Page
<1> DEFINE load == was.loads[f]
           loaded == [load EXCEPT !.n = version, !.got = got]
           lost == [load EXCEPT !.got = bad]
<1>5. /\ loaded \in Fetched /\ loaded.n = version /\ loaded.got = got
      /\ lost \in Fetched /\ lost.n = load.n
  BY <1>1, <1>2, <1>3, <1>4 DEF Fetched
<1>6. /\ read \in Page /\ read.shown = was.shown /\ read.timer = was.timer /\ read.stopped = was.stopped
      /\ read.loads = [was.loads EXCEPT ![f] = loaded]
  <2>1. read = [was EXCEPT !.loads = [was.loads EXCEPT ![f] = loaded]]
    BY <1>2 DEF Page
  <2> HIDE DEF loaded, read
  <2>2. [was.loads EXCEPT ![f] = loaded] \in [Fetches -> {None} \cup Fetched]
    BY <1>4, <1>5
  <2> QED
    BY <1>2, <2>1, <2>2 DEF Page
<1>7. /\ failed \in Page /\ failed.shown = was.shown
      /\ failed.loads = [was.loads EXCEPT ![f] = lost]
  <2>1. failed = [was EXCEPT !.loads = [was.loads EXCEPT ![f] = lost]]
    BY <1>2 DEF Page
  <2> HIDE DEF lost, failed
  <2>2. [was.loads EXCEPT ![f] = lost] \in [Fetches -> {None} \cup Fetched]
    BY <1>4, <1>5
  <2> QED
    BY <1>2, <2>1, <2>2 DEF Page
<1>8. /\ load.n <= version /\ loaded # None
      /\ read.loads[f] = loaded /\ failed.loads[f] = lost
      /\ \A h \in Fetches \ {f} : read.loads[h] = was.loads[h] /\ failed.loads[h] = was.loads[h]
  BY <1>1, <1>2, <1>4, <1>5, <1>6, <1>7 DEF NotAhead, InstanceAssumption
<1> HIDE DEF load, loaded, lost, read, failed
<1>9. CASE page' = [page EXCEPT ![c] = read] /\ missed' = missed
  <2>1. NotAhead(read, missed[c])
    BY <1>2, <1>5, <1>6, <1>8 DEF NotAhead
  <2>2. PageComes(read, missed[c])
    <3>1. Loading(read.loads[f])
      BY <1>3, <1>5, <1>8 DEF Loading
    <3> QED
      BY <3>1 DEF PageComes
  <2> QED
    BY <1>1, <1>6, <1>9, <2>1, <2>2, Here, PageStep
<1>10. CASE page' = [page EXCEPT ![c] = failed] /\ missed' = [missed EXCEPT ![c] = version]
  <2>1. NotAhead(failed, version)
    BY <1>2, <1>5, <1>7, <1>8 DEF NotAhead
  <2>2. PageComes(failed, version)
    BY DEF PageComes
  <2> QED
    BY <1>1, <1>2, <1>7, <1>10, <2>1, <2>2, Here, PageStep
<1> QED
  BY <1>1, <1>9, <1>10 DEF failed

\* An older load shown late is a gap, at the last change the page had shown.
LEMMA ShowStep ==
    ASSUME BoardAssumption, InstanceAssumption, IInv, NEW c \in Pages, NEW f \in Fetches, Show(c, f), UNCHANGED beside
    PROVE  IInv'
<1> DEFINE was == page[c]
           load == was.loads[f]
           loads == [was.loads EXCEPT ![f] = None]
           n == was.attempts + 1
           stop == was.stopped \/ was.attempts + 1 > MaxAttempts
           ended == [was EXCEPT !.loads[f] = None]
           follows == [was EXCEPT !.loads[f] = None, !.attempts = was.attempts + 1, !.again = TRUE, !.stopped = stop]
           next == IF load.then THEN follows ELSE ended
           m == IF was.shown > load.n THEN Later(missed[c], was.shown) ELSE missed[c]
           s == IF load.then /\ load.got # "lost" THEN NoSocket ELSE socket[c]
<1>1. /\ load # None /\ load.got # None
      /\ \/ load.got = "thread" /\ page' = [page EXCEPT ![c] = [next EXCEPT !.shown = load.n]]
            /\ missed' = [missed EXCEPT ![c] = m]
         \/ load.got = "failed" /\ page' = [page EXCEPT ![c] = next] /\ missed' = missed
         \/ load.got = "lost" /\ page' = [page EXCEPT ![c] = [ended EXCEPT !.stopped = TRUE]] /\ missed' = missed
      /\ socket' = [socket EXCEPT ![c] = s]
      /\ UNCHANGED <<version, present, listener, inbox, handling, channel, cut, beside>>
  <2>1. [[was EXCEPT !.loads[f] = None] EXCEPT !.attempts = @ + 1, !.again = TRUE, !.stopped = @ \/ was.attempts + 1 > MaxAttempts]
        = follows
    BY Here DEF Page
  <2>2. missed = [missed EXCEPT ![c] = missed[c]] /\ socket = [socket EXCEPT ![c] = socket[c]]
    BY Here
  <2> QED
    BY <2>1, <2>2 DEF Show, SetPage, SetSocket, server
<1>2. /\ was \in Page /\ NotAhead(was, missed[c]) /\ version \in Nat /\ missed[c] \in Nat
      /\ socket[c] \in Socket /\ Placed(socket[c])
      /\ (socket[c].at = "open" /\ ~socket[c].closed => channel[socket[c].replica])
      /\ (socket[c].at = "open" => PageComes(was, missed[c]) \/ SocketComes(socket[c]))
  BY Here
<1>3. stop \in BOOLEAN /\ (was.stopped => stop = TRUE)
  OBVIOUS
<1> HIDE DEF was, stop
<1>4. /\ n \in Nat /\ was.shown \in Nat /\ load \in Fetched /\ load.n \in Nat
      /\ load.n <= version /\ was.shown <= version /\ missed[c] <= version
      /\ loads \in [Fetches -> {None} \cup Fetched]
      /\ loads[f] = None /\ \A h \in Fetches \ {f} : loads[h] = was.loads[h]
  <2>3. was.loads \in [Fetches -> {None} \cup Fetched]
    BY <1>2 DEF Page
  <2>1. was.attempts \in Nat /\ was.shown \in Nat /\ load \in Fetched
    BY <1>1, <1>2 DEF Page
  <2>2. load.n \in Nat
    BY <2>1 DEF Fetched
  <2> QED
    BY <1>1, <1>2, <2>1, <2>2, <2>3 DEF NotAhead
<1>5. /\ next \in Page /\ next.shown = was.shown /\ next.timer = was.timer /\ (was.stopped => next.stopped)
      /\ next.loads[f] = None /\ \A h \in Fetches \ {f} : next.loads[h] = was.loads[h]
  <2>1. next = [was EXCEPT !.loads = loads] \/ next = [was EXCEPT !.loads = loads, !.attempts = n, !.again = TRUE, !.stopped = stop]
    BY <1>2 DEF Page
  <2> HIDE DEF next, ended, follows, load, loads, n, m, s
  <2>2. /\ next \in Page /\ next.shown = was.shown /\ next.timer = was.timer /\ next.stopped \in {was.stopped, stop}
        /\ next.loads = loads
    BY <1>2, <1>3, <1>4, <2>1 DEF Page
  <2> QED
    BY <1>3, <1>4, <2>2
<1>6. /\ ended \in Page /\ ended.shown = was.shown
      /\ ended.loads[f] = None /\ \A h \in Fetches \ {f} : ended.loads[h] = was.loads[h]
  <2>1. ended = [was EXCEPT !.loads = loads]
    BY <1>2 DEF Page
  <2> HIDE DEF next, ended, follows, load, loads, n, m, s
  <2>2. ended \in Page /\ ended.shown = was.shown /\ ended.loads = loads
    BY <1>2, <1>4, <2>1 DEF Page
  <2> QED
    BY <1>4, <2>2
<1>7. s \in Socket /\ Placed(s) /\ (s.at = "open" => s = socket[c])
  BY <1>2 DEF NoSocket, Socket, Placed
<1>8. m \in Nat /\ m <= version /\ missed[c] <= m /\ (was.shown > load.n => was.shown <= m)
  BY <1>2, <1>4 DEF Later
<1> DEFINE shows == [next EXCEPT !.shown = load.n]
           stops == [ended EXCEPT !.stopped = TRUE]
<1> HIDE DEF load, loads, n, next, ended, follows, s, m
<1>9. /\ shows \in Page /\ shows.shown = load.n /\ shows.timer = next.timer /\ shows.stopped = next.stopped
      /\ shows.loads = next.loads
      /\ stops \in Page /\ stops.shown = ended.shown /\ stops.stopped = TRUE /\ stops.loads = ended.loads
  BY <1>4, <1>5, <1>6 DEF Page
<1>10. /\ s.at = "open" /\ ~s.closed => channel'[s.replica]
       /\ \A q \in Pages \ {c} : socket[q].at = "open" /\ ~socket[q].closed /\ channel[socket[q].replica]
                                => channel'[socket[q].replica]
       /\ channel' \in [Replicas -> BOOLEAN] /\ socket' = [socket EXCEPT ![c] = s]
       /\ UNCHANGED <<version, present, listener, inbox, handling, beside, cut>>
  BY <1>1, <1>2, <1>7, Here
<1>11. page = [page EXCEPT ![c] = was] /\ missed = [missed EXCEPT ![c] = missed[c]]
  BY Here DEF was
<1> HIDE DEF shows, stops
<1>12. CASE load.got = "thread" /\ page' = [page EXCEPT ![c] = shows] /\ missed' = [missed EXCEPT ![c] = m]
  <2>1. NotAhead(shows, m)
    BY <1>2, <1>4, <1>5, <1>8, <1>9 DEF NotAhead
  <2>2. PageComes(was, missed[c]) => PageComes(shows, m)
    <3>1. CASE was.shown = version
      BY <1>2, <1>4, <1>8, <1>9, <3>1 DEF PageComes
    <3>2. CASE missed[c] = version
      BY <1>2, <1>8, <3>2 DEF PageComes
    <3>3. CASE was.timer \/ was.stopped
      BY <1>5, <1>9, <3>3 DEF PageComes
    <3>4. ASSUME NEW h \in Fetches, Loading(was.loads[h]) PROVE PageComes(shows, m)
      <4>1. CASE h = f
        BY <1>1, <1>4, <1>9, <1>12, <3>4, <4>1 DEF PageComes, Loading, load, BoardAssumption
      <4>2. CASE h # f
        BY <1>5, <1>9, <3>4, <4>2 DEF PageComes
      <4> QED
        BY <4>1, <4>2
    <3> QED
      BY <3>1, <3>2, <3>3, <3>4 DEF PageComes
  <2> QED
    BY <1>2, <1>7, <1>8, <1>9, <1>10, <1>12, <2>1, <2>2, PageStep
<1>13. CASE load.got = "failed" /\ page' = [page EXCEPT ![c] = next] /\ missed' = missed
  <2>1. NotAhead(next, missed[c])
    BY <1>2, <1>5 DEF NotAhead
  <2>2. PageComes(was, missed[c]) => PageComes(next, missed[c])
    <3>1. ASSUME NEW h \in Fetches, Loading(was.loads[h]) PROVE Loading(next.loads[h])
      BY <1>1, <1>5, <1>13, <3>1 DEF Loading, load
    <3> QED
      BY <1>5, <3>1 DEF PageComes
  <2> QED
    BY <1>2, <1>5, <1>7, <1>10, <1>11, <1>13, <2>1, <2>2, PageStep
<1>14. CASE load.got = "lost" /\ page' = [page EXCEPT ![c] = stops] /\ missed' = missed
  <2>1. NotAhead(stops, missed[c])
    BY <1>2, <1>6, <1>9 DEF NotAhead
  <2>2. PageComes(stops, missed[c])
    BY <1>9 DEF PageComes
  <2> QED
    BY <1>2, <1>7, <1>9, <1>10, <1>11, <1>14, <2>1, <2>2, PageStep
<1> QED
  BY <1>1, <1>12, <1>13, <1>14 DEF shows, stops

LEMMA RevokeStep ==
    ASSUME InstanceAssumption, IInv, NEW c \in Pages, Revoke(c), UNCHANGED beside PROVE IInv'
<1>1. UNCHANGED <<version, present, listener, inbox, handling, channel, socket, page, missed, cut, beside>>
  BY DEF Revoke, server
<1> QED
  BY <1>1, Here, PageStep

-----------------------------------------------------------------------------
(* The invariant.                                                             *)

LEMMA InitIsSound == ASSUME InstanceAssumption, Init PROVE IInv
<1>1. /\ NewPage \in Page /\ NewPage.shown = 0 /\ \A f \in Fetches : NewPage.loads[f] = None
      /\ NoSocket \in Socket /\ NoSocket.at = "none" /\ NoSocket.replica = None
  BY DEF NewPage, Page, NoSocket, Socket
<1>2. <<>> \in Seq(Event) /\ DOMAIN <<>> = {}
  OBVIOUS
<1>3. Shape
  BY <1>1, <1>2 DEF Init, Shape
<1>4. ASSUME NEW r \in Replicas PROVE Announced(r)
  BY <1>2 DEF Init, Announced
<1>5. ASSUME NEW c \in Pages PROVE PageSound(c)
  <2>1. page[c] = NewPage /\ socket[c] = NoSocket /\ missed[c] = 0 /\ version = 0
    BY DEF Init
  <2> QED
    BY <1>1, <2>1 DEF PageSound, NotAhead, Placed
<1> QED
  BY <1>3, <1>4, <1>5 DEF Init, IInv, NoSocketCut

LEMMA NextIsSound == ASSUME BoardAssumption, InstanceAssumption, IInv, Next PROVE IInv'
<1>1. UNCHANGED beside /\ beside.replicas \subseteq Replicas /\ beside.pages \subseteq Pages
  BY AtWork DEF Next
<1>2. ASSUME NEW m \in Messages, CreateMessage(m) \/ UpdateMessage(m) \/ DeleteMessage(m) PROVE IInv'
  <2>1. present \subseteq Messages
    BY DEF IInv, Shape
  <2>2. CASE CreateMessage(m)
    BY <1>1, <2>1, <2>2, AnnounceStep DEF CreateMessage
  <2>3. CASE UpdateMessage(m)
    BY <1>1, <2>1, <2>3, AnnounceStep DEF UpdateMessage
  <2>4. CASE DeleteMessage(m)
    BY <1>1, <2>1, <2>4, AnnounceStep DEF DeleteMessage
  <2> QED
    BY <1>2, <2>2, <2>3, <2>4
<1>3. ASSUME NEW r \in Replicas,
             \/ LoseListener(r) \/ Handle(r) \/ ReadBack(r) \/ Dispatch(r) \/ Relisten(r) \/ CloseAll(r)
             \/ Trigger(r) \/ Drained(r) \/ GraceOver(r)
      PROVE  IInv'
  <2>1. CASE GraceOver(r)
    BY <1>1, <2>1, ExitStep DEF GraceOver
  <2> QED
    BY <1>1, <1>3, <2>1, LoseListenerStep, HandleStep, ReadBackStep, DispatchStep, RelistenStep, CloseAllStep,
       TriggerStep, DrainedStep
<1>4. ASSUME NEW c \in Pages,
             \/ Upgrade(c) \/ Subscribe(c) \/ Frame(c) \/ Recheck(c) \/ EndClosed(c) \/ EndStopping(c) \/ Hangup(c)
             \/ Connect(c) \/ Rerender(c) \/ OnClose(c) \/ Revoke(c)
      PROVE  IInv'
  <2>1. CASE Recheck(c) \/ EndClosed(c) \/ EndStopping(c) \/ Hangup(c)
    BY <1>1, <2>1, LeaveStep DEF Recheck, EndClosed, EndStopping, Hangup
  <2> QED
    BY <1>1, <1>4, <2>1, UpgradeStep, SubscribeStep, FrameStep, ConnectStep, RerenderStep, OnCloseStep, RevokeStep
<1>5. ASSUME NEW c \in Pages, NEW f \in Fetches, Load(c, f) \/ Show(c, f) PROVE IInv'
  BY <1>1, <1>5, LoadStep, ShowStep
<1> QED
  BY <1>1, <1>2, <1>3, <1>4, <1>5 DEF Next

LEMMA StutterIsSound == ASSUME IInv, UNCHANGED vars PROVE IInv'
<1>1. UNCHANGED <<version, present, listener, inbox, handling, channel, socket, page, missed, cut, beside>>
  BY DEF vars, server
<1>2. Shape' /\ NoSocketCut'
  BY <1>1 DEF IInv, Shape, NoSocketCut
<1>3. \A r \in Replicas : Announced(r)'
  BY <1>1 DEF IInv, Announced, Genuine
<1>4. \A c \in Pages : PageSound(c)'
  BY <1>1 DEF IInv, PageSound, NotAhead, Placed, PageComes, Loading, SocketComes, Hears
<1> QED
  BY <1>2, <1>3, <1>4 DEF IInv

\* The whole of the invariant holds all along, from which the two that follow are read.
THEOREM Invariant == ASSUME InstanceAssumption PROVE Spec => []IInv
<1>1. Init => IInv
  BY InitIsSound
<1>2. IInv /\ [Next]_vars => IInv'
  BY NextIsSound, StutterIsSound, BoardAssumption
<1> QED
  BY <1>1, <1>2, PTL DEF Spec

\* A page that follows the thread and waits for nothing shows every change, or the last change
\* is the one a gap of the code is at (LIVE_SCRIPT, handle, handle_socket): until then a load,
\* an event, a notification or the close of its socket is on its way to it.
THEOREM PagesCatchUp == ASSUME InstanceAssumption PROVE Spec => []CaughtUp
<1>1. ASSUME IInv PROVE CaughtUp
  <2> SUFFICES ASSUME NEW c \in Pages, Settled(c) PROVE page[c].shown = version \/ missed[c] = version
    BY DEF CaughtUp
  <2>1. PageComes(page[c], missed[c]) \/ SocketComes(socket[c])
    BY <1>1 DEF IInv, PageSound, Settled
  <2>2. ~SocketComes(socket[c])
    BY DEF Settled, SocketComes, Hears
  <2>3. \A f \in Fetches : ~Loading(page[c].loads[f])
    BY DEF Settled, Loading
  <2> QED
    BY <2>1, <2>2, <2>3 DEF PageComes, Settled
<1> QED
  BY <1>1, Invariant, PTL

\* A process whose requests and holds have ended leaves no socket behind, one that is between its
\* upgrade and its first poll included (Shutdown::drain, hold before on_upgrade).
THEOREM NoSocketIsCut == ASSUME InstanceAssumption PROVE Spec => []NoSocketCut
<1>1. IInv => NoSocketCut
  BY DEF IInv
<1> QED
  BY <1>1, Invariant, PTL
=============================================================================
