------------------------ MODULE StreamSessionProofs ------------------------
(***************************************************************************)
(* Theorems about StreamSession, for any pairs, any policy, any bound and  *)
(* every venue: what the loop believes of the socket it reads.             *)
(***************************************************************************)
EXTENDS StreamSession, TLAPS

SocketFields == {"state", "subs", "spoke", "queue"}
EntryFields == {"last", "end", "cause", "open"}

Shapes ==
  /\ DOMAIN source = SocketFields /\ DOMAIN replacement = SocketFields
  /\ DOMAIN held = Pairs
  /\ \A p \in Pairs : DOMAIN ledger[p] = EntryFields

(***************************************************************************)
(* The strengthening: when the loop subscribes nothing is held, so it asks *)
(* for all of it, and no gap is left open (Held::connection_lost).         *)
(***************************************************************************)
NothingHeldYet == phase = "subscribing" => \A p \in Pairs : held[p] = "absent"

IInv == Shapes /\ NothingHeldYet /\ AskedClosesEveryGap /\ HeldIsDelivering

-----------------------------------------------------------------------------
LEMMA KnownKeeps ==
  ASSUME NEW pairs, NEW at, Shapes, ledger' = Known(ledger, pairs, at)
  PROVE  \A p \in Pairs : DOMAIN ledger'[p] = EntryFields /\ ledger'[p].open = ledger[p].open
BY DEF Known, Shapes, EntryFields

(* What is asked again has no open gap.                                    *)
LEMMA AskedAgainCloses ==
  ASSUME NEW pairs, NEW at, Shapes, ledger' = AfterAskedAgain(ledger, pairs, at)
  PROVE  \A p \in Pairs : /\ DOMAIN ledger'[p] = EntryFields
                          /\ p \in pairs => ledger'[p].open = FALSE
<1> TAKE p \in Pairs
<1>1. PICK end, open : /\ ledger'[p] = [ledger[p] EXCEPT !.end = end, !.open = open]
                       /\ p \in pairs => open = FALSE
  BY DEF AfterAskedAgain
<1> QED BY <1>1 DEF Shapes, EntryFields

LEMMA GapsKeepShape ==
  ASSUME NEW pairs, NEW to, NEW cause, Shapes, ledger' = AfterGapsFor(ledger, pairs, to, cause)
  PROVE  \A p \in Pairs : DOMAIN ledger'[p] = EntryFields
BY DEF AfterGapsFor, NoteGapped, Shapes, EntryFields

LEMMA SentKeeps ==
  ASSUME NEW socket, NEW p, DOMAIN socket = SocketFields
  PROVE  /\ DOMAIN Sent(socket, p) = SocketFields
         /\ Sent(socket, p).state = socket.state /\ Sent(socket, p).spoke = socket.spoke
BY DEF Sent, SocketFields

LEMMA InvInit ==
  ASSUME Init
  PROVE  IInv
<1>1. Shapes
  BY DEF Init, Shapes, NoSocket, SocketFields, EntryFields
<1> QED
  BY <1>1 DEF Init, IInv, NoSocket, NothingHeldYet, AskedClosesEveryGap, HeldIsDelivering

(* One case for each action of the loop, and for what stops it.            *)
LEMMA InvNext ==
  ASSUME IInv, [Next]_vars
  PROVE  IInv'
<1> USE DEF IInv, NothingHeldYet, AskedClosesEveryGap, HeldIsDelivering
<1>1. CASE Tick
  <2>1. UNCHANGED <<held, ledger>> /\ phase' = IF phase = "reading" THEN "deciding" ELSE phase
    BY <1>1 DEF Tick
  <2>2. /\ DOMAIN source' = SocketFields /\ DOMAIN replacement' = SocketFields
        /\ source'.state = source.state /\ source'.spoke = source.spoke
    BY <1>1, SentKeeps DEF Tick, Shapes, sockets
  <2> QED BY <2>1, <2>2 DEF Shapes
<1>2. CASE VenueCloses
  <2>1. UNCHANGED <<held, ledger, phase>>
    BY <1>2 DEF VenueCloses
  <2>2. /\ DOMAIN source' = SocketFields /\ DOMAIN replacement' = SocketFields
        /\ source'.spoke = source.spoke
        /\ source'.state # "none" => source.state # "none"
    BY <1>2 DEF VenueCloses, Shapes, SocketFields
  <2> QED BY <2>1, <2>2 DEF Shapes
<1>3. CASE Connect
  <2>1. DOMAIN source' = SocketFields
    BY <1>3 DEF Connect, Socket, NoSocket, SocketFields
  <2> QED BY <1>3, <2>1 DEF Connect, Shapes
<1>4. CASE ConnectFails \/ BackOff \/ Nothing \/ KeepAlive \/ StartReplacement
             \/ OpenReplacementFails \/ Idle
  <2>1. UNCHANGED <<source, replacement, held, ledger>> /\ phase' # "subscribing"
    BY <1>4 DEF ConnectFails, BackOff, Nothing, KeepAlive, StartReplacement,
                OpenReplacementFails, Idle, sockets
  <2>2. phase' \in {"deciding", "opening", "reading"}
          => phase \in {"deciding", "opening", "reading"}
    BY <1>4 DEF ConnectFails, BackOff, Nothing, KeepAlive, StartReplacement,
                OpenReplacementFails, Idle
  <2> QED BY <2>1, <2>2 DEF Shapes
<1>5. CASE Subscribe
  <2>1. ToSubscribe = Pairs /\ phase' = "deciding"
    BY <1>5 DEF Subscribe, ToSubscribe
  <2>2. \A p \in Pairs : DOMAIN ledger'[p] = EntryFields /\ ledger'[p].open = FALSE
    BY <1>5, <2>1, AskedAgainCloses DEF Subscribe
  <2>3. /\ DOMAIN source' = SocketFields
        /\ replacement' = replacement
    BY <1>5 DEF Subscribe, Shapes, SocketFields
  <2>4. DOMAIN held' = Pairs /\ \A p \in Pairs : held'[p] # "held"
    BY <1>5, <2>1 DEF Subscribe
  <2> QED BY <2>1, <2>2, <2>3, <2>4 DEF Shapes
<1>6. CASE KeepAliveFails
  <2>1. UNCHANGED <<replacement, held, ledger>> /\ source' = NoSocket
        /\ phase' \in {"dialing", "waiting"}
    BY <1>6 DEF KeepAliveFails, Ended
  <2> QED BY <2>1 DEF Shapes, NoSocket, SocketFields
<1>7. CASE OpenReplacement
  <2>1. DOMAIN replacement' = SocketFields
    BY <1>7 DEF OpenReplacement, Socket, NoSocket, SocketFields
  <2> QED BY <1>7, <2>1 DEF OpenReplacement, Shapes
<1>8. CASE CloseReplaced
  <2>1. \A p \in Pairs : DOMAIN ledger'[p] = EntryFields /\ ledger'[p].open = ledger[p].open
    BY <1>8, KnownKeeps DEF CloseReplaced, HandoverCompleted
  <2>2. DOMAIN source' = SocketFields /\ DOMAIN replacement' = SocketFields
    BY <1>8 DEF CloseReplaced, Shapes, NoSocket, SocketFields
  <2>3. DOMAIN held' = Pairs /\ (\A p \in Pairs : held'[p] # "held")
        /\ phase = "deciding" /\ phase' = "reading"
    BY <1>8 DEF CloseReplaced
  <2> QED BY <2>1, <2>2, <2>3 DEF Shapes
<1>9. CASE TakeFrame
  <2>1. PICK event :
          /\ source' = [source EXCEPT !.queue = Tail(@), !.spoke = @ \cup {event.pair}]
          /\ ledger' = Received(ledger, {event.pair}, now)
          /\ held' = [held EXCEPT ![event.pair] = "held"]
          /\ replacement' = replacement
          /\ phase = "reading" /\ phase' = "deciding"
    BY <1>9 DEF TakeFrame
  <2>2. \A p \in Pairs : DOMAIN ledger'[p] = EntryFields /\ ledger'[p].open = ledger[p].open
    BY <2>1, KnownKeeps DEF Received
  <2>3. /\ DOMAIN source' = SocketFields /\ source'.state = source.state
        /\ source'.spoke = source.spoke \cup {event.pair}
    BY <2>1 DEF Shapes, SocketFields
  <2>4. /\ DOMAIN held' = Pairs
        /\ \A p \in Pairs : held'[p] = "held" => held[p] = "held" \/ p = event.pair
    BY <2>1 DEF Shapes
  <2> QED BY <2>1, <2>2, <2>3, <2>4 DEF Shapes
<1>10. CASE SessionLost
  <2>1. UNCHANGED <<replacement, held>> /\ source' = NoSocket
        /\ phase' \in {"dialing", "waiting"}
    BY <1>10 DEF SessionLost, Ended
  <2>2. \A p \in Pairs : DOMAIN ledger'[p] = EntryFields
    BY <1>10, GapsKeepShape DEF SessionLost
  <2> QED BY <2>1, <2>2 DEF Shapes, NoSocket, SocketFields
<1>11. CASE UNCHANGED vars
  BY <1>11 DEF vars, sockets, Shapes
<1> QED
  BY <1>1, <1>2, <1>3, <1>4, <1>5, <1>6, <1>7, <1>8, <1>9, <1>10, <1>11 DEF Next, Loop

LEMMA InvAlways == Spec => []IInv
<1>1. Init => IInv
  BY InvInit
<1>2. IInv /\ [Next]_vars => IInv'
  BY InvNext
<1> QED
  BY <1>1, <1>2, PTL DEF Spec

(***************************************************************************)
(* Capture::run: while the loop reads a socket it has asked it for every   *)
(* pair, and no pair's gap is still open.                                  *)
(***************************************************************************)
THEOREM GapsAreClosed == Spec => []AskedClosesEveryGap
<1>1. IInv => AskedClosesEveryGap
  BY DEF IInv
<1> QED
  BY <1>1, InvAlways, PTL

(***************************************************************************)
(* Held::connection_lost: a pair is counted as held only if the socket     *)
(* being read has delivered it, through reconnects and handovers.          *)
(***************************************************************************)
THEOREM HeldWasHeard == Spec => []HeldIsDelivering
<1>1. IInv => HeldIsDelivering
  BY DEF IInv
<1> QED
  BY <1>1, InvAlways, PTL

-----------------------------------------------------------------------------
(***************************************************************************)
(* What is dated.  Between sessions everything later than the ledger is    *)
(* still to be dated, and every pair's gap is open (NothingDatedYet).      *)
(* While a socket is read it delivers every event sent, so all that is     *)
(* missed is dated already; or it is dead and drained, which is how a      *)
(* replacement that died before it was read leaves what only the replaced  *)
(* socket was sent, and the gap of the lost session will hold it           *)
(* (MissedWhileReading).                                                   *)
(***************************************************************************)
Between == {"dialing", "waiting", "subscribing"}

Clocks ==
  /\ now \in Nat
  /\ session.opened \in Nat /\ session.keptAlive \in Nat
  /\ DOMAIN session = {"open", "opened", "keptAlive", "rotating"}
  /\ \A p \in Pairs : /\ ledger[p].last \in Nat /\ ledger[p].last <= now
                      /\ ledger[p].end \in Nat /\ ledger[p].end <= now
  /\ unheard \subseteq Event /\ \A e \in unheard : e.at <= now

EndIsDated ==
  \A p \in Pairs : \E g \in gaps :
    g.pair = p /\ g.from \in Nat /\ g.from <= g.to /\ g.to = ledger[p].end

Dead(socket) == socket.state = "dead" /\ socket.queue = <<>>

SocketsNow ==
  /\ source.queue \in Seq(Event) /\ replacement.queue \in Seq(Event)
  /\ phase \in {"dialing", "waiting"} => source = NoSocket
  /\ phase = "subscribing" => source.queue = <<>> /\ source.subs = {}
  /\ phase \in Between => ~session.rotating
  /\ phase \notin {"dialing", "waiting"} => source.state \in {"open", "dead"}
  /\ phase \notin Between => source.subs = Pairs
  /\ Len(source.queue) <= 1

HandoverNow ==
  session.rotating =>
    /\ phase \in {"deciding", "reading"}
    /\ replacement.state \in {"open", "dead"} /\ replacement.subs = Pairs
    /\ phase = "reading" => replacement.queue = <<>>
    /\ phase = "deciding" =>
         \/ source.queue = <<>> /\ replacement.queue = <<>>
         \/ /\ source.queue # <<>> /\ source.queue[1].at = now
            /\ replacement.queue = source.queue \/ Dead(replacement)

InGap(e) == \E g \in gaps : g.pair = e.pair /\ g.from <= e.at /\ e.at <= g.to
StillDue(e) == GapFrom(ledger[e.pair]) <= e.at

NothingDatedYet ==
  phase \in Between =>
    /\ \A p \in Pairs : ledger[p].open /\ ledger[p].last < ledger[p].end
    /\ \A e \in Missed : InGap(e) \/ StillDue(e)

MissedWhileReading ==
  phase \notin Between =>
    \A e \in Missed : InGap(e) \/ (phase = "reading" /\ Dead(source) /\ StillDue(e))

Phases == phase \in Between \cup {"deciding", "opening", "reading"}
DateInv ==
  Phases /\ Clocks /\ EndIsDated /\ SocketsNow /\ HandoverNow
  /\ NothingDatedYet /\ MissedWhileReading

-----------------------------------------------------------------------------
(* What is queued, when a frame is added or taken.                         *)
LEMMA QueuedEmpty ==
  ASSUME NEW socket, socket.queue = <<>>
  PROVE  Queued(socket) = {}
BY DEF Queued

LEMMA QueuedTail ==
  ASSUME NEW socket, NEW other, socket.queue \in Seq(Event), socket.queue # <<>>,
         other.queue = Tail(socket.queue)
  PROVE  /\ Head(socket.queue) \in Event /\ other.queue \in Seq(Event)
         /\ Len(other.queue) = Len(socket.queue) - 1
         /\ Queued(socket) \subseteq {Head(socket.queue)} \cup Queued(other)
<1>1. \A i \in DOMAIN socket.queue :
        i = 1 \/ (i - 1 \in DOMAIN other.queue /\ other.queue[i - 1] = socket.queue[i])
  OBVIOUS
<1>2. Head(socket.queue) = socket.queue[1]
  OBVIOUS
<1>3. Queued(socket) \subseteq {Head(socket.queue)} \cup Queued(other)
  BY <1>1, <1>2 DEF Queued
<1> QED BY <1>3

(* Sent: an open socket that subscribes the pair queues the event.         *)
LEMMA SentQueues ==
  ASSUME NEW socket, NEW p \in Pairs, DOMAIN socket = SocketFields,
         socket.queue \in Seq(Event), now \in Nat,
         NEW e, e = [pair |-> p, at |-> now + 1]
  PROVE  /\ e \in Event
         /\ Sent(socket, p).subs = socket.subs
         /\ Sent(socket, p).queue \in Seq(Event)
         /\ Queued(socket) \subseteq Queued(Sent(socket, p))
         /\ socket.state = "open" /\ p \in socket.subs
              => /\ e \in Queued(Sent(socket, p))
                 /\ socket.queue = <<>> => Sent(socket, p).queue = <<e>>
         /\ socket.state # "open" \/ p \notin socket.subs => Sent(socket, p) = socket
<1>1. e \in Event
  BY DEF Event
<1>2. CASE socket.state = "open" /\ p \in socket.subs
  <2> DEFINE q == Append(socket.queue, e)
  <2>1. Sent(socket, p).queue = q /\ Sent(socket, p).subs = socket.subs
    BY <1>2 DEF Sent, SocketFields
  <2>2. /\ q \in Seq(Event) /\ q[Len(socket.queue) + 1] = e
        /\ Len(socket.queue) + 1 \in DOMAIN q
        /\ \A i \in DOMAIN socket.queue : i \in DOMAIN q /\ q[i] = socket.queue[i]
        /\ socket.queue = <<>> => q = <<e>>
    <3>1. PICK was \in Seq(Event) : was = socket.queue
      OBVIOUS
    <3>2. /\ q \in Seq(Event) /\ Len(q) = Len(was) + 1 /\ q[Len(was) + 1] = e
          /\ \A i \in 1 .. Len(was) : q[i] = was[i]
      BY <1>1, <3>1
    <3>3. was = <<>> => q = <<e>>
      BY <3>1
    <3> QED BY <3>1, <3>2, <3>3
  <2> HIDE DEF q
  <2>3. Queued(socket) \subseteq Queued(Sent(socket, p)) /\ e \in Queued(Sent(socket, p))
    BY <2>1, <2>2 DEF Queued
  <2> QED BY <1>1, <1>2, <2>1, <2>2, <2>3
<1>3. CASE ~(socket.state = "open" /\ p \in socket.subs)
  <2>1. Sent(socket, p) = socket
    BY <1>3 DEF Sent
  <2> QED BY <1>1, <1>3, <2>1
<1> QED BY <1>2, <1>3

LEMMA GapFromIs ==
  ASSUME Clocks, NEW p \in Pairs
  PROVE  /\ GapFrom(ledger[p]) \in Nat /\ GapFrom(ledger[p]) <= now
         /\ GapFrom(ledger[p]) >= ledger[p].last /\ GapFrom(ledger[p]) >= ledger[p].end
         /\ ledger[p].last < ledger[p].end => GapFrom(ledger[p]) = ledger[p].end
BY DEF Clocks, GapFrom, Later

(* Known: a pair received is covered to now, and no other changes.         *)
LEMMA KnownCovers ==
  ASSUME Shapes, Clocks, NEW pairs, now' = now, ledger' = Known(ledger, pairs, now)
  PROVE  \A p \in Pairs :
           /\ ledger'[p].last \in Nat /\ ledger'[p].last <= now /\ ledger'[p].end = ledger[p].end
           /\ p \in pairs => ledger'[p].last = now
           /\ p \notin pairs => ledger'[p] = ledger[p]
BY DEF Shapes, Clocks, Known, EntryFields

LEMMA MissedIs ==
  /\ \A x : x \in Missed <=> (/\ x \in unheard
                             /\ x \notin Queued(source)
                             /\ (session.rotating => x \notin Queued(replacement)))
  /\ \A x : x \in Missed' <=> (/\ x \in unheard'
                              /\ x \notin Queued(source')
                              /\ (session'.rotating => x \notin Queued(replacement')))
BY DEF Missed, Queued

LEMMA ClocksGoOn ==
  ASSUME Clocks, now' = now \/ now' = now + 1, UNCHANGED <<session, ledger>>,
         \A e \in unheard' : e \in unheard \/ (e \in Event /\ e.at = now')
  PROVE  Clocks'
<1>1. now \in Nat /\ now' \in Nat /\ now <= now'
  BY DEF Clocks
<1>2. ASSUME NEW p \in Pairs
      PROVE  /\ ledger'[p].last \in Nat /\ ledger'[p].last <= now'
             /\ ledger'[p].end \in Nat /\ ledger'[p].end <= now'
  BY <1>1 DEF Clocks
<1>3. ASSUME NEW e \in unheard'
      PROVE  e \in Event /\ e.at <= now'
  BY <1>1 DEF Clocks, Event
<1>4. /\ session'.opened \in Nat /\ session'.keptAlive \in Nat
      /\ DOMAIN session' = {"open", "opened", "keptAlive", "rotating"}
  BY DEF Clocks
<1> QED BY <1>1, <1>2, <1>3, <1>4 DEF Clocks

LEMMA DateInit ==
  ASSUME Init
  PROVE  DateInv
<1>1. Queued(NoSocket) = {} /\ NoSocket.queue \in Seq(Event) /\ NoSocket.queue = <<>>
  BY DEF Queued, NoSocket
<1>2. Phases /\ Clocks /\ SocketsNow /\ HandoverNow
  BY <1>1 DEF Init, Phases, Between, Clocks, SocketsNow, HandoverNow, NoSession, Event
<1>3. EndIsDated
  <2> SUFFICES ASSUME NEW p \in Pairs
               PROVE  \E g \in gaps : /\ g.pair = p /\ g.from \in Nat /\ g.from <= g.to
                                      /\ g.to = ledger[p].end
    BY DEF EndIsDated
  <2> DEFINE g == [pair |-> p, from |-> 0, to |-> 1, cause |-> "downtime"]
  <2>1. g \in gaps /\ ledger[p].end = 1
    BY DEF Init
  <2> QED BY <2>1
<1>4. NothingDatedYet
  BY DEF Init, NothingDatedYet, Missed
<1>5. MissedWhileReading
  BY DEF Init, MissedWhileReading, Between
<1> QED BY <1>2, <1>3, <1>4, <1>5 DEF DateInv

(* What a venue that only closes and refuses does not do.                  *)
LEMMA PlainDoes ==
  ASSUME Plain
  PROVE  /\ ~KeepAliveFails /\ ~OpenReplacementFails /\ ~Fault("subscribe_error")
         /\ "silent_death" \notin hazards /\ "slow_replacement" \notin hazards
BY DEF Plain, KeepAliveFails, OpenReplacementFails, Fault

(* Nothing but the phase moves: the dialing, the decisions and the idling. *)
LEMMA DateStepPhase ==
  ASSUME Shapes, DateInv,
         ConnectFails \/ BackOff \/ Nothing \/ StartReplacement \/ Idle
  PROVE  DateInv'
<1>1. /\ UNCHANGED <<now, source, replacement, session, ledger, gaps, unheard>>
      /\ \/ phase \in {"dialing", "waiting"} /\ phase' \in {"dialing", "waiting"}
         \/ phase = "deciding" /\ ~session.rotating /\ phase' \in {"reading", "opening"}
         \/ phase = "reading" /\ phase' = "deciding" /\ source.queue = <<>> /\ source.state = "open"
  BY DEF ConnectFails, BackOff, Nothing, StartReplacement, Idle, sockets, history, RotationDue, Fault
<1>2. Missed' = Missed
  BY <1>1 DEF Missed, Queued
<1>3. \A e : (InGap(e)' <=> InGap(e)) /\ (StillDue(e)' <=> StillDue(e))
  BY <1>1 DEF InGap, StillDue
<1>4. Phases' /\ Clocks' /\ EndIsDated' /\ SocketsNow'
  BY <1>1 DEF DateInv, Phases, Clocks, EndIsDated, SocketsNow, Between
<1>5. HandoverNow'
  BY <1>1 DEF DateInv, HandoverNow, Dead, SocketsNow, Between
<1>6. NothingDatedYet' /\ MissedWhileReading'
  BY <1>1, <1>2, <1>3 DEF DateInv, NothingDatedYet, MissedWhileReading, Between, Dead
<1> QED BY <1>4, <1>5, <1>6 DEF DateInv

LEMMA DateStepKeepAlive ==
  ASSUME Shapes, DateInv, KeepAlive
  PROVE  DateInv'
<1>1. /\ UNCHANGED <<now, source, replacement, ledger, gaps, unheard>>
      /\ phase = "deciding" /\ phase' = "reading"
      /\ session' = [session EXCEPT !.keptAlive = now] /\ ~session.rotating
  BY DEF KeepAlive, KeepaliveDue, sockets, history
<1>2. /\ session'.rotating = session.rotating /\ session'.opened = session.opened
      /\ session'.keptAlive = now /\ DOMAIN session' = DOMAIN session
  BY <1>1 DEF DateInv, Clocks
<1>3. Missed' = Missed
  BY <1>1, <1>2 DEF Missed, Queued
<1>4. \A e : (InGap(e)' <=> InGap(e))
  BY <1>1 DEF InGap
<1>5. Phases' /\ Clocks' /\ EndIsDated' /\ SocketsNow' /\ HandoverNow'
  BY <1>1, <1>2 DEF DateInv, Phases, Clocks, EndIsDated, SocketsNow, HandoverNow, Between
<1>6. NothingDatedYet' /\ MissedWhileReading'
  BY <1>1, <1>3, <1>4 DEF DateInv, NothingDatedYet, MissedWhileReading, Between
<1> QED BY <1>5, <1>6 DEF DateInv

LEMMA DateStepConnect ==
  ASSUME Shapes, DateInv, Connect
  PROVE  DateInv'
<1>1. /\ UNCHANGED <<now, replacement, ledger, gaps, unheard>>
      /\ phase = "dialing" /\ phase' = "subscribing"
      /\ source.queue = <<>> /\ source'.queue = <<>> /\ source'.subs = {}
      /\ ~session.rotating /\ ~session'.rotating
      /\ session'.opened = now /\ session'.keptAlive = now
      /\ DOMAIN session' = {"open", "opened", "keptAlive", "rotating"}
  BY DEF Connect, history, Socket, NoSocket, SessionAt, DateInv, SocketsNow, Between
<1>2. Missed' = Missed
  BY <1>1, QueuedEmpty DEF Missed, Queued
<1>3. \A e : (InGap(e)' <=> InGap(e)) /\ (StillDue(e)' <=> StillDue(e))
  BY <1>1 DEF InGap, StillDue
<1>4. Phases' /\ EndIsDated' /\ HandoverNow'
  BY <1>1 DEF DateInv, Phases, EndIsDated, HandoverNow, Between
<1>5. SocketsNow'
  BY <1>1 DEF DateInv, SocketsNow, Between, Connect, Socket, NoSocket
<1>6. Clocks'
  BY <1>1 DEF DateInv, Clocks
<1>7. NothingDatedYet' /\ MissedWhileReading'
  BY <1>1, <1>2, <1>3 DEF DateInv, NothingDatedYet, MissedWhileReading, Between
<1> QED BY <1>4, <1>5, <1>6, <1>7 DEF DateInv

LEMMA DateStepOpen ==
  ASSUME Shapes, DateInv, OpenReplacement
  PROVE  DateInv'
<1>1. /\ UNCHANGED <<now, source, ledger, gaps, unheard>>
      /\ phase = "opening" /\ phase' = "reading" /\ ~session.rotating
      /\ replacement'.queue = <<>> /\ replacement'.subs = Pairs /\ replacement'.state = "open"
  BY DEF OpenReplacement, history, Socket, NoSocket, DateInv, HandoverNow
<1>2. /\ session'.rotating = TRUE /\ session'.opened = session.opened
      /\ session'.keptAlive = session.keptAlive /\ DOMAIN session' = DOMAIN session
  BY DEF OpenReplacement, DateInv, Clocks
<1>3. Missed' = Missed
  BY <1>1, <1>2, QueuedEmpty DEF Missed, Queued
<1>4. \A e : (InGap(e)' <=> InGap(e))
  BY <1>1 DEF InGap
<1>5. Phases' /\ Clocks' /\ EndIsDated' /\ SocketsNow' /\ HandoverNow'
  BY <1>1, <1>2 DEF DateInv, Phases, Clocks, EndIsDated, SocketsNow, HandoverNow, Between
<1>6. NothingDatedYet' /\ MissedWhileReading'
  BY <1>1, <1>3, <1>4 DEF DateInv, NothingDatedYet, MissedWhileReading, Between
<1> QED BY <1>5, <1>6 DEF DateInv

LEMMA DateStepCloses ==
  ASSUME Shapes, DateInv, Plain, VenueCloses
  PROVE  DateInv'
<1>1. /\ UNCHANGED <<now, phase, session, ledger, gaps, unheard>>
      /\ phase \in Between \cup {"reading"}
  BY PlainDoes DEF VenueCloses, Awaiting, Between
<1>2. /\ source'.queue = source.queue /\ source'.subs = source.subs
      /\ replacement'.queue = replacement.queue /\ replacement'.subs = replacement.subs
      /\ source' = source \/ (source.state = "open" /\ source'.state = "dead")
      /\ replacement' = replacement \/ (replacement.state = "open" /\ replacement'.state = "dead")
  BY DEF VenueCloses, Shapes, SocketFields
<1>3. Missed' = Missed
  BY <1>1, <1>2 DEF Missed, Queued
<1>4. \A e : (InGap(e)' <=> InGap(e)) /\ (StillDue(e)' <=> StillDue(e))
  BY <1>1 DEF InGap, StillDue
<1>5. Phases' /\ Clocks' /\ EndIsDated'
  BY <1>1 DEF DateInv, Phases, Clocks, EndIsDated
<1>6. SocketsNow'
  BY <1>1, <1>2 DEF DateInv, SocketsNow, NoSocket
<1>7. HandoverNow'
  BY <1>1, <1>2 DEF DateInv, HandoverNow, Between
<1>8. NothingDatedYet' /\ MissedWhileReading'
  BY <1>1, <1>2, <1>3, <1>4 DEF DateInv, NothingDatedYet, MissedWhileReading, Dead
<1> QED BY <1>5, <1>6, <1>7, <1>8 DEF DateInv

(* An event is on the socket being read, or the next gap will hold it.     *)
LEMMA DateStepTick ==
  ASSUME Shapes, DateInv, Plain, Tick
  PROVE  DateInv'
<1>1. /\ now' = now + 1 /\ UNCHANGED <<session, ledger, gaps>>
      /\ \/ phase \in Between /\ phase' = phase
         \/ phase = "reading" /\ phase' = "deciding" /\ source.queue = <<>> /\ source.state = "open"
  BY PlainDoes DEF Tick, Awaiting, Between, DateInv, SocketsNow
<1>2. \A e : (InGap(e)' <=> InGap(e)) /\ (StillDue(e)' <=> StillDue(e))
  BY <1>1 DEF InGap, StillDue
<1>3. Phases' /\ EndIsDated'
  BY <1>1 DEF DateInv, Phases, EndIsDated
<1>4. CASE UNCHANGED <<sockets, unheard>>
  <2>1. Missed' = Missed
    BY <1>1, <1>4 DEF Missed, Queued, sockets
  <2>2. Clocks'
    BY <1>1, <1>4, ClocksGoOn DEF DateInv
  <2>3. SocketsNow' /\ HandoverNow'
    BY <1>1, <1>4 DEF DateInv, SocketsNow, HandoverNow, sockets, Between
  <2>4. NothingDatedYet' /\ MissedWhileReading'
    BY <1>1, <1>2, <2>1 DEF DateInv, NothingDatedYet, MissedWhileReading, Dead, Between
  <2> QED BY <1>3, <2>2, <2>3, <2>4 DEF DateInv
<1>5. CASE ~UNCHANGED <<sockets, unheard>>
  <2>1. PICK p \in Pairs : /\ source' = Sent(source, p) /\ replacement' = Sent(replacement, p)
                           /\ unheard' = unheard \cup {[pair |-> p, at |-> now + 1]}
    BY <1>5 DEF Tick
  <2>2. PICK e : e = [pair |-> p, at |-> now + 1]
    OBVIOUS
  <2>3. /\ now \in Nat /\ source.queue \in Seq(Event) /\ replacement.queue \in Seq(Event)
        /\ DOMAIN source = SocketFields /\ DOMAIN replacement = SocketFields
    BY DEF DateInv, Clocks, SocketsNow, Shapes
  <2>4. /\ e \in Event /\ e.at = now' /\ e.pair = p /\ unheard' = unheard \cup {e}
        /\ source'.subs = source.subs /\ source'.queue \in Seq(Event)
        /\ source'.state = source.state
        /\ Queued(source) \subseteq Queued(source')
        /\ source.state = "open" /\ p \in source.subs
             => e \in Queued(source') /\ (source.queue = <<>> => source'.queue = <<e>>)
        /\ source.state # "open" \/ p \notin source.subs => source' = source
    BY <1>1, <2>1, <2>2, <2>3, SentQueues, SentKeeps
  <2>5. /\ replacement'.subs = replacement.subs /\ replacement'.queue \in Seq(Event)
        /\ replacement'.state = replacement.state
        /\ Queued(replacement) \subseteq Queued(replacement')
        /\ replacement.state = "open" /\ p \in replacement.subs /\ replacement.queue = <<>>
             => replacement'.queue = <<e>>
        /\ replacement.state # "open" \/ p \notin replacement.subs => replacement' = replacement
    BY <2>1, <2>2, <2>3, SentQueues, SentKeeps
  <2>6. Clocks'
    BY <1>1, <2>4, ClocksGoOn DEF DateInv
  <2>7. SocketsNow'
    <3>1. phase \in Between => source' = source
      BY <2>4 DEF DateInv, SocketsNow, NoSocket, Between
    <3>2. phase = "reading" => Len(source'.queue) <= 1
      <4>1. phase = "reading" => source.subs = Pairs
        BY DEF DateInv, SocketsNow, Between
      <4>2. Len(<<e>>) <= 1
        OBVIOUS
      <4> QED BY <1>1, <2>4, <4>1, <4>2 DEF Between
    <3>3. phase = "reading" => phase' = "deciding"
      BY <1>1 DEF Between
    <3> QED BY <1>1, <2>4, <2>5, <3>1, <3>2, <3>3 DEF DateInv, SocketsNow, Between
  <2>8. HandoverNow'
    <3> SUFFICES ASSUME session.rotating
                 PROVE  HandoverNow'
      BY <1>1 DEF HandoverNow
    <3>1. /\ phase = "reading" /\ phase' = "deciding" /\ replacement.queue = <<>>
          /\ replacement.state \in {"open", "dead"} /\ replacement.subs = Pairs
          /\ source.subs = Pairs
      BY <1>1 DEF DateInv, HandoverNow, SocketsNow, Between
    <3>2. source'.queue = <<e>> /\ source'.queue # <<>> /\ source'.queue[1].at = now'
      BY <1>1, <2>4, <3>1
    <3>3. replacement'.queue = source'.queue \/ Dead(replacement)'
      BY <2>5, <3>1, <3>2 DEF Dead
    <3> QED BY <2>5, <3>1, <3>2, <3>3 DEF HandoverNow
  <2>9. ASSUME NEW x \in Missed', x # e
        PROVE  x \in Missed
    <3>1. /\ x \in unheard' /\ x \notin Queued(source')
          /\ session'.rotating => x \notin Queued(replacement')
      BY <2>9, MissedIs
    <3>2. /\ x \in unheard /\ x \notin Queued(source)
          /\ session.rotating => x \notin Queued(replacement)
      BY <1>1, <2>4, <2>5, <2>9, <3>1
    <3> QED BY <3>2, MissedIs
  <2>10. NothingDatedYet'
    <3>1. StillDue(e)'
      BY <1>1, <2>4, GapFromIs DEF StillDue, DateInv, Clocks
    <3>2. ASSUME phase \in Between, NEW x \in Missed'
          PROVE  InGap(x)' \/ StillDue(x)'
      BY <1>1, <1>2, <2>9, <3>1, <3>2 DEF DateInv, NothingDatedYet
    <3> QED BY <1>1, <3>2 DEF DateInv, NothingDatedYet, Between
  <2>11. MissedWhileReading'
    <3> SUFFICES ASSUME phase = "reading", NEW x \in Missed'
                 PROVE  InGap(x)
      BY <1>1, <1>2 DEF MissedWhileReading, Between
    <3>1. source.subs = Pairs
      BY DEF DateInv, SocketsNow, Between
    <3>2. e \notin Missed'
      BY <1>1, <2>4, <3>1, MissedIs DEF Between
    <3> QED BY <1>1, <2>9, <3>2 DEF DateInv, MissedWhileReading, Dead, Between
  <2> QED BY <1>3, <2>6, <2>7, <2>8, <2>10, <2>11 DEF DateInv
<1> QED BY <1>4, <1>5

(* asked_again: every pair is asked for, and every open gap ends here.     *)
LEMMA DateStepSubscribe ==
  ASSUME Shapes, NothingHeldYet, DateInv, Plain, Subscribe
  PROVE  DateInv'
<1>1. /\ UNCHANGED <<now, replacement, session, unheard>>
      /\ phase = "subscribing" /\ phase' = "deciding" /\ phase \in Between /\ phase' \notin Between
      /\ gaps' = gaps \cup Tails(ledger, ToSubscribe, now)
      /\ ledger' = AfterAskedAgain(ledger, ToSubscribe, now)
  BY DEF Subscribe, Between
<1>2. ToSubscribe = Pairs
  BY <1>1 DEF ToSubscribe, NothingHeldYet
<1>3. /\ source'.subs = Pairs /\ source'.state = source.state /\ source'.queue = source.queue
      /\ source.queue = <<>>
  BY <1>1, <1>2, PlainDoes DEF Subscribe, Shapes, SocketFields, DateInv, SocketsNow
<1>4. source.state \in {"open", "dead"}
  BY <1>1 DEF DateInv, SocketsNow
<1>5. ASSUME NEW p \in Pairs
      PROVE  /\ ledger'[p].last = ledger[p].last /\ ledger'[p].end = now
             /\ ledger[p].end < now
                  => [pair |-> p, from |-> ledger[p].end, to |-> now, cause |-> ledger[p].cause] \in gaps'
  <2>1. /\ ledger[p].open /\ ledger[p].last < ledger[p].end
        /\ ledger[p].end \in Nat /\ ledger[p].end <= now
    BY <1>1 DEF DateInv, NothingDatedYet, Clocks
  <2> DEFINE tail == [pair |-> p, from |-> ledger[p].end, to |-> now, cause |-> ledger[p].cause]
  <2>2. ledger[p].end < now => tail \in Tails(ledger, Pairs, now)
    BY <2>1 DEF Tails
  <2>3. ASSUME NEW g \in Tails(ledger, Pairs, now), g.pair = p
        PROVE  ledger[p].end < now
    BY <2>3 DEF Tails
  <2>4. p \in {g.pair : g \in Tails(ledger, Pairs, now)} <=> ledger[p].end < now
    <3>1. tail.pair = p
      OBVIOUS
    <3> QED BY <2>2, <2>3, <3>1
  <2>5. /\ ledger'[p].last = ledger[p].last
        /\ ledger'[p].end = IF ledger[p].end < now THEN now ELSE ledger[p].end
    BY <1>1, <1>2, <2>4 DEF AfterAskedAgain, Shapes, EntryFields
  <2>6. now \in Nat
    BY DEF DateInv, Clocks
  <2> QED BY <1>1, <1>2, <2>1, <2>2, <2>5, <2>6
<1>6. Phases' /\ HandoverNow'
  BY <1>1 DEF DateInv, Phases, HandoverNow, SocketsNow
<1>11. Clocks'
  <2>1. Clocks /\ now \in Nat
    BY DEF DateInv, Clocks
  <2>2. ASSUME NEW p \in Pairs
        PROVE  /\ ledger'[p].last \in Nat /\ ledger'[p].last <= now
               /\ ledger'[p].end \in Nat /\ ledger'[p].end <= now
    <3>1. ledger[p].last \in Nat /\ ledger[p].last <= now
      BY <2>1 DEF Clocks
    <3>2. ledger'[p].last = ledger[p].last /\ ledger'[p].end = now
      BY <1>5
    <3> QED BY <2>1, <3>1, <3>2
  <2> QED BY <1>1, <2>1, <2>2 DEF Clocks
<1>7. SocketsNow'
  BY <1>1, <1>3, <1>4 DEF DateInv, SocketsNow, Between
<1>8. EndIsDated'
  <2> SUFFICES ASSUME NEW p \in Pairs
               PROVE  \E g \in gaps' : /\ g.pair = p /\ g.from \in Nat /\ g.from <= g.to
                                       /\ g.to = ledger'[p].end
    BY DEF EndIsDated
  <2>1. ledger'[p].end = now /\ ledger[p].end \in Nat /\ ledger[p].end <= now /\ now \in Nat
    BY <1>5 DEF DateInv, Clocks
  <2>2. CASE ledger[p].end < now
    <3> DEFINE tail == [pair |-> p, from |-> ledger[p].end, to |-> now, cause |-> ledger[p].cause]
    <3>1. tail \in gaps' /\ tail.pair = p /\ tail.from \in Nat /\ tail.from <= tail.to
          /\ tail.to = now
      BY <1>5, <2>1, <2>2
    <3> QED BY <2>1, <3>1
  <2>3. CASE ledger[p].end = now
    BY <1>1, <2>1, <2>3 DEF DateInv, EndIsDated
  <2> QED BY <2>1, <2>2, <2>3
<1>9. Missed' = Missed
  BY <1>1, <1>3 DEF Missed, Queued
<1>10. MissedWhileReading'
  <2> SUFFICES ASSUME NEW e \in Missed
               PROVE  InGap(e)'
    BY <1>9 DEF MissedWhileReading
  <2>1. e \in Event /\ e.at \in Nat /\ e.pair \in Pairs /\ e.at <= now /\ now \in Nat
    BY DEF DateInv, Clocks, Missed, Event
  <2>2. CASE InGap(e)
    BY <1>1, <2>2 DEF InGap
  <2>3. CASE StillDue(e)
    <3>1. ledger[e.pair].end \in Nat /\ ledger[e.pair].end <= e.at
      BY <1>1, <2>1, <2>3, GapFromIs DEF DateInv, NothingDatedYet, StillDue, Clocks
    <3>2. CASE ledger[e.pair].end < now
      <4> DEFINE tail == [pair |-> e.pair, from |-> ledger[e.pair].end, to |-> now,
                          cause |-> ledger[e.pair].cause]
      <4>1. tail \in gaps' /\ tail.pair = e.pair /\ tail.from <= e.at /\ e.at <= tail.to
        BY <1>5, <2>1, <3>1, <3>2
      <4> QED BY <4>1 DEF InGap
    <3>3. CASE ledger[e.pair].end = now
      <4>1. PICK g \in gaps : g.pair = e.pair /\ g.from \in Nat /\ g.from <= g.to /\ g.to = now
        BY <2>1, <3>3 DEF DateInv, EndIsDated
      <4>2. e.at = now
        BY <2>1, <3>1, <3>3
      <4>3. g \in gaps' /\ g.from <= e.at /\ e.at <= g.to
        BY <1>1, <2>1, <4>1, <4>2
      <4> QED BY <4>1, <4>3 DEF InGap
    <3> QED BY <2>1, <3>1, <3>2, <3>3
  <2> QED BY <1>1, <2>2, <2>3 DEF DateInv, NothingDatedYet
<1> QED BY <1>1, <1>6, <1>7, <1>8, <1>10, <1>11 DEF DateInv, NothingDatedYet

(* handover_completed: every pair is covered to now, and what only the     *)
(* replaced socket was sent is as old as now.                              *)
LEMMA DateStepReplaced ==
  ASSUME Shapes, DateInv, CloseReplaced
  PROVE  DateInv'
<1>1. /\ UNCHANGED <<now, gaps, unheard>>
      /\ phase = "deciding" /\ phase' = "reading" /\ session.rotating
      /\ source' = replacement /\ replacement'.queue = <<>>
      /\ ~session'.rotating /\ session'.opened = now /\ session'.keptAlive = now
      /\ DOMAIN session' = {"open", "opened", "keptAlive", "rotating"}
      /\ ledger' = Known(ledger, {p \in Pairs : ledger[p].last # Never}, now)
  BY DEF CloseReplaced, history, NoSocket, SessionAt, HandoverCompleted
<1>2. ASSUME NEW p \in Pairs
      PROVE  /\ ledger'[p].last = now /\ ledger'[p].end = ledger[p].end
             /\ ledger[p].end \in Nat /\ ledger[p].end <= now /\ now \in Nat
  <2>1. ledger[p].last \in Nat /\ ledger[p].end \in Nat /\ ledger[p].end <= now /\ now \in Nat
    BY DEF DateInv, Clocks
  <2>2. ledger[p].last # Never
    BY <2>1 DEF Never
  <2> QED BY <1>1, <2>1, <2>2, KnownCovers DEF DateInv
<1>3. /\ replacement.state \in {"open", "dead"} /\ replacement.subs = Pairs
      /\ replacement.queue \in Seq(Event) /\ source.queue \in Seq(Event) /\ Len(source.queue) <= 1
      /\ \/ source.queue = <<>> /\ replacement.queue = <<>>
         \/ /\ source.queue # <<>> /\ source.queue[1].at = now
            /\ replacement.queue = source.queue \/ Dead(replacement)
  BY <1>1 DEF DateInv, HandoverNow, SocketsNow
<1>4. Phases' /\ HandoverNow'
  BY <1>1 DEF DateInv, Phases, HandoverNow
<1>5. Clocks'
  <2>1. Clocks /\ now \in Nat
    BY DEF DateInv, Clocks
  <2>2. ASSUME NEW p \in Pairs
        PROVE  /\ ledger'[p].last \in Nat /\ ledger'[p].last <= now
               /\ ledger'[p].end \in Nat /\ ledger'[p].end <= now
    BY <1>2
  <2> QED BY <1>1, <2>1, <2>2 DEF Clocks
<1>6. EndIsDated'
  BY <1>1, <1>2 DEF DateInv, EndIsDated
<1>7. SocketsNow'
  <2>1. Len(replacement.queue) <= 1 /\ replacement'.queue \in Seq(Event)
    <3>1. Len(<<>>) <= 1 /\ <<>> \in Seq(Event)
      OBVIOUS
    <3> QED BY <1>1, <1>3, <3>1 DEF Dead
  <2> QED BY <1>1, <1>3, <2>1 DEF SocketsNow, Between
<1>8. MissedWhileReading'
  <2> SUFFICES ASSUME NEW e \in Missed'
               PROVE  InGap(e)' \/ (Dead(source)' /\ StillDue(e)')
    BY <1>1 DEF MissedWhileReading
  <2>1. e \in unheard /\ e \notin Queued(replacement)
    <3>1. Queued(source') = Queued(replacement)
      BY <1>1 DEF Queued
    <3> QED BY <1>1, <3>1, MissedIs
  <2>2. CASE e \notin Queued(source)
    <3>1. e \in Missed
      BY <2>1, <2>2, MissedIs
    <3>2. InGap(e)
      BY <1>1, <3>1 DEF DateInv, MissedWhileReading, Between
    <3> QED BY <1>1, <3>2 DEF InGap
  <2>3. CASE e \in Queued(source)
    <3>1. PICK i \in DOMAIN source.queue : e = source.queue[i]
      BY <2>3 DEF Queued
    <3>2. i = 1
      BY <1>3, <3>1
    <3>3. source.queue # <<>> /\ e.at = now
      BY <1>3, <3>1, <3>2
    <3>4. replacement.queue # source.queue
      BY <2>1, <3>1 DEF Queued
    <3>5. Dead(source)'
      BY <1>1, <1>3, <3>3, <3>4 DEF Dead
    <3>6. e.pair \in Pairs
      BY <2>1 DEF DateInv, Clocks, Event
    <3>7. StillDue(e)'
      BY <1>1, <1>2, <3>3, <3>6 DEF StillDue, GapFrom, Later
    <3> QED BY <3>5, <3>7
  <2> QED BY <2>2, <2>3
<1> QED BY <1>1, <1>4, <1>5, <1>6, <1>7, <1>8 DEF DateInv, NothingDatedYet, Between

LEMMA DateStepTake ==
  ASSUME Shapes, DateInv, TakeFrame
  PROVE  DateInv'
<1>1. PICK event :
        /\ event = Head(source.queue)
        /\ source' = [source EXCEPT !.queue = Tail(@), !.spoke = @ \cup {event.pair}]
        /\ ledger' = Received(ledger, {event.pair}, now)
        /\ unheard' = unheard \ {event}
  BY DEF TakeFrame
<1>2. /\ UNCHANGED <<now, replacement, session, gaps>>
      /\ phase = "reading" /\ phase' = "deciding" /\ source.queue # <<>>
  BY DEF TakeFrame
<1>3. /\ source'.queue = Tail(source.queue) /\ source'.subs = source.subs
      /\ source'.state = source.state
  BY <1>1 DEF Shapes, SocketFields
<1>4. /\ source'.queue \in Seq(Event) /\ Len(source'.queue) = Len(source.queue) - 1
      /\ Queued(source) \subseteq {event} \cup Queued(source')
      /\ Len(source.queue) <= 1
  BY <1>1, <1>2, <1>3, QueuedTail DEF DateInv, SocketsNow
<1>5. source'.queue = <<>>
  BY <1>4
<1>6. \A p \in Pairs :
        /\ ledger'[p].last \in Nat /\ ledger'[p].last <= now /\ ledger'[p].end = ledger[p].end
  BY <1>1, <1>2, KnownCovers DEF DateInv, Received
<1>7. Phases' /\ HandoverNow'
  BY <1>2, <1>5 DEF DateInv, Phases, HandoverNow
<1>8. Clocks'
  BY <1>1, <1>2, <1>6 DEF DateInv, Clocks
<1>9. EndIsDated'
  BY <1>2, <1>6 DEF DateInv, EndIsDated
<1>10. SocketsNow'
  <2>1. Len(source'.queue) <= 1
    BY <1>5
  <2> QED BY <1>2, <1>3, <1>4, <2>1 DEF DateInv, SocketsNow, Between
<1>11. MissedWhileReading'
  <2> SUFFICES ASSUME NEW e \in Missed'
               PROVE  InGap(e)'
    BY DEF MissedWhileReading
  <2>1. /\ e \in unheard' /\ e \notin Queued(source')
        /\ session'.rotating => e \notin Queued(replacement')
    BY MissedIs
  <2>2. e \in unheard /\ e # event
    BY <1>1, <2>1
  <2>3. e \in Missed
    BY <1>2, <1>4, <2>1, <2>2, MissedIs
  <2>4. InGap(e)
    BY <1>2, <2>3 DEF DateInv, MissedWhileReading, Between, Dead
  <2> QED BY <1>2, <2>4 DEF InGap
<1> QED BY <1>2, <1>7, <1>8, <1>9, <1>10, <1>11 DEF DateInv, NothingDatedYet, Between

(* session_lost: a gap of every pair, from where it was covered to now.    *)
LEMMA DateStepLost ==
  ASSUME Shapes, DateInv, SessionLost
  PROVE  DateInv'
<1>1. /\ now' = now + 1 /\ UNCHANGED <<replacement, unheard>>
      /\ phase = "reading" /\ phase' \in {"dialing", "waiting"} /\ phase' \in Between
      /\ source.queue = <<>> /\ source' = NoSocket
      /\ session' = NoSession
      /\ gaps' = gaps \cup GapsFor(ledger, Pairs, now + 1, "session_lost")
      /\ ledger' = AfterGapsFor(ledger, Pairs, now + 1, "session_lost")
  BY DEF SessionLost, Ended, history, GapsForAll, Between
<1>2. NoSocket.queue = <<>> /\ NoSocket.queue \in Seq(Event) /\ Len(NoSocket.queue) <= 1
  BY DEF NoSocket
<1>3. now \in Nat /\ now' \in Nat
  BY <1>1 DEF DateInv, Clocks
<1> DEFINE gap(p) == [pair |-> p, from |-> GapFrom(ledger[p]), to |-> now', cause |-> "session_lost"]
<1>4. ASSUME NEW p \in Pairs
      PROVE  /\ gap(p) \in gaps' /\ GapFrom(ledger[p]) \in Nat /\ GapFrom(ledger[p]) <= now
             /\ ledger'[p].end = now' /\ ledger'[p].open
             /\ ledger'[p].last = ledger[p].last /\ ledger[p].last \in Nat /\ ledger[p].last <= now
  <2>1. /\ GapFrom(ledger[p]) \in Nat /\ GapFrom(ledger[p]) <= now
        /\ ledger[p].last \in Nat /\ ledger[p].last <= now
    BY GapFromIs DEF DateInv, Clocks
  <2>2. GapFrom(ledger[p]) < now + 1 /\ ledger[p].last # Never
    BY <1>3, <2>1 DEF Never
  <2>3. gap(p) \in GapsFor(ledger, Pairs, now + 1, "session_lost")
    BY <1>1, <2>2 DEF GapsFor
  <2>4. p \in {g.pair : g \in GapsFor(ledger, Pairs, now + 1, "session_lost")}
    <3>1. gap(p).pair = p
      OBVIOUS
    <3> QED BY <2>3, <3>1
  <2>5. ledger'[p].last = ledger[p].last /\ ledger'[p].end = now + 1 /\ ledger'[p].open = TRUE
    BY <1>1, <2>4 DEF AfterGapsFor, NoteGapped, Shapes, EntryFields
  <2> QED BY <1>1, <2>1, <2>3, <2>5
<1>5. Phases'
  BY <1>1 DEF Phases
<1>6. Clocks'
  <2>1. ASSUME NEW p \in Pairs
        PROVE  /\ ledger'[p].last \in Nat /\ ledger'[p].last <= now'
               /\ ledger'[p].end \in Nat /\ ledger'[p].end <= now'
    <3>1. ledger'[p].last \in Nat /\ ledger'[p].last <= now /\ ledger'[p].end = now'
      BY <1>4
    <3> QED BY <1>1, <1>3, <3>1
  <2>2. ASSUME NEW e \in unheard'
        PROVE  e \in Event /\ e.at <= now'
    BY <1>1, <1>3 DEF DateInv, Clocks, Event
  <2> QED BY <1>1, <1>3, <2>1, <2>2 DEF Clocks, NoSession
<1>7. EndIsDated'
  <2> SUFFICES ASSUME NEW p \in Pairs
               PROVE  \E g \in gaps' : /\ g.pair = p /\ g.from \in Nat /\ g.from <= g.to
                                       /\ g.to = ledger'[p].end
    BY DEF EndIsDated
  <2>1. /\ gap(p) \in gaps' /\ gap(p).pair = p /\ gap(p).from \in Nat /\ gap(p).from <= gap(p).to
        /\ gap(p).to = ledger'[p].end
    BY <1>1, <1>3, <1>4
  <2> QED BY <2>1
<1>8. SocketsNow' /\ HandoverNow'
  BY <1>1, <1>2 DEF DateInv, SocketsNow, HandoverNow, Between, NoSession
<1>9. NothingDatedYet'
  <2>1. ASSUME NEW p \in Pairs
        PROVE  ledger'[p].open /\ ledger'[p].last < ledger'[p].end
    <3>1. /\ ledger'[p].open /\ ledger'[p].last \in Nat /\ ledger'[p].last <= now
          /\ ledger'[p].end = now'
      BY <1>4
    <3> QED BY <1>1, <1>3, <3>1
  <2>2. ASSUME NEW e \in Missed'
        PROVE  InGap(e)'
    <3>1. e \in unheard
      BY <1>1, MissedIs
    <3>2. Queued(source) = {}
      BY <1>1, QueuedEmpty
    <3>3. session.rotating => Queued(replacement) = {}
      BY <1>1, QueuedEmpty DEF DateInv, HandoverNow
    <3>4. e \in Missed
      BY <3>1, <3>2, <3>3, MissedIs
    <3>5. e \in Event /\ e.at \in Nat /\ e.pair \in Pairs /\ e.at <= now
      BY <3>1 DEF DateInv, Clocks, Event
    <3>6. CASE InGap(e)
      BY <1>1, <3>6 DEF InGap
    <3>7. CASE StillDue(e)
      <4>1. gap(e.pair) \in gaps' /\ gap(e.pair).from <= e.at /\ e.at <= gap(e.pair).to
        BY <1>1, <1>3, <1>4, <3>5, <3>7 DEF StillDue
      <4> QED BY <4>1 DEF InGap
    <3> QED BY <1>1, <3>4, <3>6, <3>7 DEF DateInv, MissedWhileReading, Between
  <2> QED BY <2>1, <2>2 DEF NothingDatedYet
<1> QED BY <1>1, <1>5, <1>6, <1>7, <1>8, <1>9 DEF DateInv, MissedWhileReading

LEMMA DateStepStill ==
  ASSUME DateInv, UNCHANGED vars
  PROVE  DateInv'
<1>1. Missed' = Missed /\ \A e : (InGap(e)' <=> InGap(e)) /\ (StillDue(e)' <=> StillDue(e))
  BY DEF vars, sockets, history, Missed, Queued, InGap, StillDue
<1>2. UNCHANGED <<phase, source>>
  BY DEF vars, sockets
<1>3. NothingDatedYet' /\ MissedWhileReading'
  BY <1>1, <1>2 DEF DateInv, vars, NothingDatedYet, MissedWhileReading, Dead
<1> QED
  BY <1>3 DEF DateInv, vars, sockets, history, Phases, Clocks, EndIsDated, SocketsNow, HandoverNow, Dead

LEMMA DateAlways == Spec => [](Plain => DateInv)
<1>1. Init => (Plain => DateInv)
  BY DateInit
<1>2. IInv /\ (Plain => DateInv) /\ [Next]_vars => (Plain => DateInv)'
  <2> SUFFICES ASSUME IInv, Plain => DateInv, [Next]_vars, Plain'
               PROVE  DateInv'
    OBVIOUS
  <2>1. hazards' = hazards
    BY DEF Next, vars
  <2>2. Plain /\ DateInv /\ Shapes /\ NothingHeldYet
    BY <2>1 DEF Plain, IInv
  <2> QED
    BY <2>2, PlainDoes, DateStepPhase, DateStepKeepAlive, DateStepConnect, DateStepOpen,
       DateStepCloses, DateStepTick, DateStepSubscribe, DateStepReplaced, DateStepTake,
       DateStepLost, DateStepStill
    DEF Next, Loop
<1> QED
  BY <1>1, <1>2, InvAlways, PTL DEF Spec

(***************************************************************************)
(* Coverage: from a venue that closes and refuses as it likes, an event    *)
(* that no read has taken and none will take is inside a gap of its pair,  *)
(* or in the time that the pair's next gap will cover.                     *)
(***************************************************************************)
THEOREM NothingIsMissedSilently == Spec => []MissedIsDated
<1>1. (Plain => DateInv) => MissedIsDated
  BY DEF DateInv, Phases, Between, NothingDatedYet, MissedWhileReading, InGap, StillDue,
         MissedIsDated, Dated
<1> QED
  BY <1>1, DateAlways, PTL

-----------------------------------------------------------------------------
(***************************************************************************)
(* The waits.  Reading, the loop has just kept the connection alive, found *)
(* that it need not yet, or replaced it (AliveInv); and it is between a    *)
(* dial that failed and the next only while it waits (HotWaits).           *)
(***************************************************************************)
Timers ==
  /\ now \in Nat /\ session.keptAlive \in Nat
  /\ DOMAIN session = {"open", "opened", "keptAlive", "rotating"}

AliveInv == Timers /\ KeptAlive

HotWaits == hot => phase = "waiting" \/ "replacement_refused" \in hazards

LEMMA AliveStep ==
  ASSUME AliveInv, [Next]_vars
  PROVE  AliveInv'
<1>1. hazards' = hazards /\ KeepaliveAfter \in Nat
  BY PolicyAssumption DEF Next, vars
<1>2. CASE UNCHANGED <<now, session>> /\ phase' # "reading"
  BY <1>2 DEF AliveInv, Timers, KeptAlive
<1>3. CASE Tick \/ Connect \/ SessionLost
  <2>1. now' \in Nat /\ phase' # "reading"
    BY <1>3 DEF Tick, Connect, SessionLost, Ended, AliveInv, Timers
  <2>2. session' = session \/ session' = SessionAt(now) \/ session' = NoSession
    BY <1>3 DEF Tick, Connect, SessionLost
  <2> QED BY <2>1, <2>2 DEF AliveInv, Timers, KeptAlive, SessionAt, NoSession
<1>4. CASE KeepAlive \/ CloseReplaced
  <2>1. now' = now /\ session'.keptAlive = now /\ DOMAIN session' = DOMAIN session
    BY <1>4 DEF KeepAlive, CloseReplaced, SessionAt, AliveInv, Timers
  <2> QED BY <2>1 DEF AliveInv, Timers, KeptAlive
<1>5. CASE Nothing
  BY <1>1, <1>5 DEF Nothing, KeepaliveDue, AliveInv, Timers, KeptAlive
<1>6. CASE OpenReplacement
  BY <1>6 DEF OpenReplacement, AliveInv, Timers, KeptAlive
<1>7. CASE OpenReplacementFails
  BY <1>1, <1>7 DEF OpenReplacementFails, Fault, AliveInv, Timers, KeptAlive
<1>8. CASE VenueCloses \/ UNCHANGED vars
  BY <1>1, <1>8 DEF VenueCloses, vars, AliveInv, Timers, KeptAlive
<1>9. CASE BackOff \/ Subscribe \/ StartReplacement \/ TakeFrame \/ Idle \/ ConnectFails
             \/ KeepAliveFails
  <2>1. UNCHANGED <<now, session>> /\ phase' # "reading"
    BY <1>9 DEF BackOff, Subscribe, StartReplacement, TakeFrame, Idle, ConnectFails,
                KeepAliveFails, Ended
  <2> QED BY <1>2, <2>1
<1> QED
  BY <1>3, <1>4, <1>5, <1>6, <1>7, <1>8, <1>9 DEF Next, Loop

(***************************************************************************)
(* Session::act: at a venue that refuses no replacement, a connection that *)
(* is read is kept alive in time, or is being replaced.                    *)
(***************************************************************************)
THEOREM ConnectionsAreKept == Spec => []KeptAlive
<1>1. Init => AliveInv
  BY DEF Init, AliveInv, Timers, KeptAlive, NoSession
<1>2. AliveInv => KeptAlive
  BY DEF AliveInv
<1> QED
  BY <1>1, <1>2, AliveStep, PTL DEF Spec

LEMMA HotStep ==
  ASSUME HotWaits, [Next]_vars
  PROVE  HotWaits'
<1>1. hazards' = hazards
  BY DEF Next, vars
<1>2. CASE hot' = FALSE \/ (hot' = TRUE /\ phase' = "waiting")
  BY <1>2 DEF HotWaits
<1>3. CASE UNCHANGED hot /\ (phase # "waiting" \/ phase' = phase)
  BY <1>1, <1>3 DEF HotWaits
<1>4. CASE ConnectFails \/ BackOff
  BY <1>2, <1>4 DEF ConnectFails, BackOff
<1>5. CASE KeepAliveFails \/ SessionLost
  <2>1. phase' = (IF delivered THEN "dialing" ELSE "waiting") /\ hot' = ~delivered
    BY <1>5 DEF KeepAliveFails, SessionLost, Ended
  <2> QED BY <2>1 DEF HotWaits
<1>6. CASE OpenReplacementFails
  BY <1>1, <1>6 DEF OpenReplacementFails, Fault, HotWaits
<1>7. CASE Connect \/ Subscribe \/ Nothing \/ KeepAlive \/ StartReplacement \/ OpenReplacement
             \/ CloseReplaced \/ TakeFrame \/ Idle \/ Tick \/ VenueCloses \/ UNCHANGED vars
  <2>1. UNCHANGED hot /\ (phase # "waiting" \/ phase' = phase)
    BY <1>7 DEF Connect, Subscribe, Nothing, KeepAlive, StartReplacement, OpenReplacement,
                CloseReplaced, TakeFrame, Idle, Tick, VenueCloses, vars
  <2> QED BY <1>3, <2>1
<1> QED
  BY <1>4, <1>5, <1>6, <1>7 DEF Next, Loop

(***************************************************************************)
(* Backoff: at a venue that refuses no replacement, no dial follows at     *)
(* once a dial that was refused or a session that delivered nothing.       *)
(***************************************************************************)
THEOREM DialsAreApart == Spec => WaitsAfterRefusal
<1>1. Init => HotWaits
  BY DEF Init, HotWaits
<1>2. HotWaits /\ [Next]_vars => [Dial /\ "replacement_refused" \notin hazards => ~hot]_vars
  BY DEF HotWaits, Dial, Connect, ConnectFails, OpenReplacement, OpenReplacementFails
<1> QED
  BY <1>1, <1>2, HotStep, PTL DEF Spec, WaitsAfterRefusal
=============================================================================
