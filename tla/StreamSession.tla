---------------------------- MODULE StreamSession ---------------------------
(***************************************************************************)
(* The live loop of one venue's stream: capture/run.rs (Capture::run),     *)
(* capture/session.rs (when to rotate and keep alive),                     *)
(* capture/subscriptions.rs (what the socket delivers), source/stream.rs   *)
(* (the socket) and source/backoff.rs.  Capture sees all of this as one    *)
(* bit; here the venue sends events whether or not a socket is listening,  *)
(* and the question is which of them the ledger of Coverage answers for.   *)
(*                                                                         *)
(* Frames are read as they come whenever the loop reads at all: the clock  *)
(* moves only while the socket being read has nothing to say, its end      *)
(* included, or while the loop awaits something else.  Walks and fills are *)
(* not modelled here.                                                      *)
(***************************************************************************)
EXTENDS Coverage, FiniteSets, Sequences

CONSTANTS
  RotateAfter,          \* ConnectionPolicy::rotate_after_secs, in ticks; 0 for none
  KeepaliveAfter,       \* keepalive_secs; 0 for none
  Worlds,               \* sets of HazardNames: what the venue of a behaviour may do
  MaxTime, MaxFaults    \* bounds: ticks of the clock, failures of any kind

HazardNames == {"closed", "refused", "subscribe_error", "keepalive_error",
                "replacement_refused", "slow_replacement", "silent_death"}

ASSUME PairsAssumption == IsFiniteSet(Pairs)
ASSUME PolicyAssumption == RotateAfter \in Nat /\ KeepaliveAfter \in Nat
ASSUME WorldsAssumption == Worlds \subseteq SUBSET HazardNames
ASSUME BoundsAssumption == MaxTime \in Nat /\ MaxFaults \in Nat

VARIABLES
  hazards,      \* what this venue does, never changed
  now,          \* the wall clock
  phase,        \* which await or decision of run() the loop is at
  source,       \* the socket being read
  replacement,  \* the second socket of a handover, state "none" for Option::None
  session,      \* Capture::session: open, opened, keptAlive, rotating
  held,         \* Held::outcomes: absent, pending or held
  delivered,    \* this session has delivered a frame
  hot,          \* history: the last dial was refused, or silent, and no wait followed
  ledger,       \* Capture::coverage
  gaps,         \* every gap published
  unheard,      \* history: events the venue sent that no read has taken
  faults        \* failures so far

history == <<unheard, faults>>
sockets == <<source, replacement>>
vars == <<hazards, now, phase, sockets, session, held, delivered, hot, ledger, gaps, history>>

Event == [pair : Pairs, at : Nat]
(* A socket is "dead" from when the venue ends it until a read says so.    *)
NoSocket == [state |-> "none", subs |-> {}, spoke |-> {}, queue |-> <<>>]
Socket(subs) == [NoSocket EXCEPT !.state = "open", !.subs = subs]

NoSession == [open |-> FALSE, opened |-> 0, keptAlive |-> 0, rotating |-> FALSE]
SessionAt(at) == [open |-> TRUE, opened |-> at, keptAlive |-> at, rotating |-> FALSE]

Fault(name) == name \in hazards /\ faults < MaxFaults /\ faults' = faults + 1

-----------------------------------------------------------------------------
(* A restart has published its gap, [0, 1], and has not connected yet.     *)
Init ==
  /\ hazards \in Worlds
  /\ now = 1
  /\ phase = "dialing"
  /\ source = NoSocket /\ replacement = NoSocket
  /\ session = NoSession
  /\ held = [p \in Pairs |-> "absent"]
  /\ delivered = FALSE /\ hot = FALSE
  /\ ledger = [p \in Pairs |-> [last |-> 0, end |-> 1, cause |-> "downtime", open |-> TRUE]]
  /\ gaps = {[pair |-> p, from |-> 0, to |-> 1, cause |-> "downtime"] : p \in Pairs}
  /\ unheard = {}
  /\ faults = 0

(* Time passes, and the venue may have an event for a pair.  Every open    *)
(* socket that subscribes the pair is sent it.  A read gives up (Idle)     *)
(* after POLL_WINDOW, far less than a tick.                                *)
Sent(socket, pair) ==
  IF socket.state = "open" /\ pair \in socket.subs
  THEN [socket EXCEPT !.queue = Append(@, [pair |-> pair, at |-> now + 1])]
  ELSE socket

Awaiting ==
  \/ phase \in {"dialing", "waiting", "subscribing"}
  \/ /\ phase = "reading" /\ source.queue = <<>>
     /\ source.state = "dead" => "silent_death" \in hazards
  \/ phase = "opening" /\ "slow_replacement" \in hazards

Tick ==
  /\ now < MaxTime /\ Awaiting
  /\ now' = now + 1
  /\ \/ UNCHANGED <<sockets, unheard>>
     \/ \E p \in Pairs :
          /\ source' = Sent(source, p)
          /\ replacement' = Sent(replacement, p)
          /\ unheard' = unheard \cup {[pair |-> p, at |-> now + 1]}
  /\ phase' = IF phase = "reading" THEN "deciding" ELSE phase
  /\ UNCHANGED <<session, held, delivered, hot, ledger, gaps, faults>>

(* The venue ends a connection; what it sent before is still read.         *)
VenueCloses ==
  /\ Fault("closed")
  /\ Awaiting
  /\ \/ source.state = "open" /\ source' = [source EXCEPT !.state = "dead"]
        /\ UNCHANGED replacement
     \/ replacement.state = "open" /\ replacement' = [replacement EXCEPT !.state = "dead"]
        /\ UNCHANGED source
  /\ UNCHANGED <<now, phase, session, held, delivered, hot, ledger, gaps, unheard>>

-----------------------------------------------------------------------------
ConnectRemembers ==                      \* mutant: Held without connection_lost
  /\ phase = "dialing"
  /\ phase' = "subscribing"
  /\ source' = Socket({})
  /\ session' = SessionAt(now)
  /\ delivered' = FALSE
  /\ UNCHANGED <<now, replacement, held, hot, ledger, gaps, history>>

(* StreamSource::connect and open_session.                                 *)
Connect ==
  /\ phase = "dialing"
  /\ phase' = "subscribing"
  /\ source' = Socket({})
  /\ session' = SessionAt(now)
  /\ held' = [p \in Pairs |-> "absent"]
  /\ delivered' = FALSE
  /\ UNCHANGED <<now, replacement, hot, ledger, gaps, history>>

ConnectFails ==
  /\ phase = "dialing"
  /\ Fault("refused")
  /\ phase' = "waiting"
  /\ hot' = TRUE
  /\ UNCHANGED <<now, sockets, session, held, delivered, ledger, gaps, unheard>>

BackOff ==
  /\ phase = "waiting"
  /\ phase' = "dialing"
  /\ hot' = FALSE
  /\ UNCHANGED <<now, sockets, session, held, delivered, ledger, gaps, history>>

(* Held::converge after connection_lost is the whole declared set.  A send *)
(* that fails leaves a part of it asked for and is only logged.            *)
ToSubscribe == {p \in Pairs : held[p] # "held"}

Subscribe ==
  /\ phase = "subscribing"
  /\ \/ source' = [source EXCEPT !.subs = ToSubscribe] /\ UNCHANGED faults
     \/ /\ Fault("subscribe_error")
        /\ \E some \in SUBSET ToSubscribe \ {ToSubscribe} : source' = [source EXCEPT !.subs = some]
  /\ held' = [p \in Pairs |-> IF p \in ToSubscribe /\ held[p] = "absent" THEN "pending" ELSE held[p]]
  /\ gaps' = gaps \cup Tails(ledger, ToSubscribe, now)
  /\ ledger' = AfterAskedAgain(ledger, ToSubscribe, now)
  /\ phase' = "deciding"
  /\ UNCHANGED <<now, replacement, session, delivered, hot, unheard>>

-----------------------------------------------------------------------------
(* Session::act.                                                           *)
RotationDue == ~session.rotating /\ RotateAfter > 0 /\ now - session.opened >= RotateAfter
KeepaliveDueLate ==                      \* mutant: off by one
  ~session.rotating /\ ~RotationDue /\ KeepaliveAfter > 0 /\ now - session.keptAlive > KeepaliveAfter
KeepaliveDue == /\ ~session.rotating /\ ~RotationDue
                /\ KeepaliveAfter > 0 /\ now - session.keptAlive >= KeepaliveAfter

Nothing ==
  /\ phase = "deciding"
  /\ ~session.rotating /\ ~RotationDue /\ ~KeepaliveDue
  /\ phase' = "reading"
  /\ UNCHANGED <<now, sockets, session, held, delivered, hot, ledger, gaps, history>>

KeepAlive ==
  /\ phase = "deciding" /\ KeepaliveDue
  /\ phase' = "reading"
  /\ session' = [session EXCEPT !.keptAlive = now]
  /\ UNCHANGED <<now, sockets, held, delivered, hot, ledger, gaps, history>>

EndedAtOnce == phase' = "dialing" /\ hot' = ~delivered  \* mutant: no wait

(* After the loop over one session: a session that delivered reconnects at *)
(* once, one that did not waits first.                                     *)
Ended == phase' = (IF delivered THEN "dialing" ELSE "waiting") /\ hot' = ~delivered

(* The send fails and the loop breaks, without session_lost.               *)
KeepAliveFails ==
  /\ phase = "deciding" /\ KeepaliveDue
  /\ Fault("keepalive_error")
  /\ source' = NoSocket
  /\ Ended
  /\ UNCHANGED <<now, replacement, session, held, delivered, ledger, gaps, unheard>>

StartReplacement ==
  /\ phase = "deciding" /\ RotationDue
  /\ phase' = "opening"
  /\ UNCHANGED <<now, sockets, session, held, delivered, hot, ledger, gaps, history>>

(* open_replacement, with a replacement of an earlier session dropped.     *)
OpenReplacement ==
  /\ phase = "opening"
  /\ replacement' = Socket(Pairs)
  /\ session' = [session EXCEPT !.rotating = TRUE]
  /\ phase' = "reading"
  /\ UNCHANGED <<now, source, held, delivered, hot, ledger, gaps, history>>

OpenReplacementFails ==
  /\ phase = "opening"
  /\ Fault("replacement_refused")
  /\ hot' = TRUE
  /\ phase' = "reading"
  /\ UNCHANGED <<now, sockets, session, held, delivered, ledger, gaps, unheard>>

(* The replaced socket goes, with anything it still had queued.            *)
CloseReplaced ==
  /\ phase = "deciding" /\ session.rotating
  /\ source' = replacement /\ replacement' = NoSocket
  /\ ledger' = HandoverCompleted(ledger, now)
  /\ session' = SessionAt(now)
  /\ held' = [p \in Pairs |-> "pending"]
  /\ phase' = "reading"
  /\ UNCHANGED <<now, delivered, hot, gaps, history>>

-----------------------------------------------------------------------------
(* One next_frame, and what the loop does with its answer.                 *)
TakeFrame ==
  /\ phase = "reading" /\ source.queue # <<>>
  /\ LET event == Head(source.queue)
     IN  /\ source' = [source EXCEPT !.queue = Tail(@), !.spoke = @ \cup {event.pair}]
         /\ ledger' = Received(ledger, {event.pair}, now)
         /\ held' = [held EXCEPT ![event.pair] = "held"]
         /\ unheard' = unheard \ {event}
  /\ delivered' = TRUE
  /\ phase' = "deciding"
  /\ UNCHANGED <<now, replacement, session, hot, gaps, faults>>

Idle ==
  /\ phase = "reading" /\ source.queue = <<>> /\ source.state = "open"
  /\ phase' = "deciding"
  /\ UNCHANGED <<now, sockets, session, held, delivered, hot, ledger, gaps, history>>

(* session_lost.  The clock read here is later than any read before.       *)
SessionLost ==
  /\ phase = "reading" /\ source.queue = <<>> /\ source.state = "dead"
  /\ now' = now + 1
  /\ gaps' = gaps \cup GapsForAll(ledger, now + 1, "session_lost")
  /\ ledger' = AfterGapsFor(ledger, Pairs, now + 1, "session_lost")
  /\ session' = NoSession
  /\ source' = NoSocket
  /\ Ended
  /\ UNCHANGED <<replacement, held, delivered, history>>

Loop ==
  \/ Connect \/ BackOff \/ Subscribe
  \/ Nothing \/ KeepAlive \/ StartReplacement \/ OpenReplacement \/ CloseReplaced
  \/ TakeFrame \/ Idle \/ SessionLost

Next ==
  /\ \/ Loop
     \/ Tick \/ VenueCloses
     \/ ConnectFails \/ KeepAliveFails \/ OpenReplacementFails
  /\ UNCHANGED hazards

(* One task runs the loop; every await ends.                               *)
Spec == Init /\ [][Next]_vars /\ WF_vars(Loop /\ UNCHANGED hazards)

-----------------------------------------------------------------------------
Queued(socket) == {socket.queue[i] : i \in DOMAIN socket.queue}

(* Sent by the venue, and on no socket that will be read.                  *)
Missed ==
  {e \in unheard : e \notin Queued(source) /\ (session.rotating => e \notin Queued(replacement))}

(* The venue closes and refuses, and every frame and send is answered.     *)
Plain == hazards \subseteq {"closed", "refused"}

Dated ==
  \A e \in Missed :
    \/ GapFrom(ledger[e.pair]) <= e.at
    \/ \E g \in gaps : g.pair = e.pair /\ g.from <= e.at /\ e.at <= g.to

(* Coverage: an event nobody heard is inside a published gap of its pair,  *)
(* or not earlier than where that pair's next gap will begin.              *)
MissedIsDated == Plain => Dated

(* run.rs, open_replacement: "coverage is continuous and no gap is         *)
(* published -- because none occurred", whatever the replacement takes.    *)
HandoverMissesNothing == Dated

(* Capture::run: a pair whose time is in no gap has been asked for.  While *)
(* the loop reads a socket, no gap is still open.                          *)
AskedClosesEveryGap ==
  phase \in {"deciding", "opening", "reading"} => \A p \in Pairs : ~ledger[p].open

(* Held::connection_lost: subs_held counts only what the socket being read *)
(* has delivered.                                                          *)
HeldIsDelivering ==
  source.state # "none" => \A p \in Pairs : held[p] = "held" => p \in source.spoke

(* Backoff: after a dial that was refused, or a session that delivered     *)
(* nothing, the loop waits before it dials again; a replacement that is     *)
(* refused is the exception.                                              *)
Dial == Connect \/ ConnectFails \/ OpenReplacement \/ OpenReplacementFails
WaitsAfterRefusal == [][Dial /\ "replacement_refused" \notin hazards => ~hot]_vars

(* run(): while the venue fails only so often, the loop gets back to a     *)
(* socket that was asked for every declared pair.                          *)
Listening == source.state = "open" /\ source.subs = Pairs /\ phase = "reading"
AlwaysReconnects == Plain => []<>Listening

(* Session::act: a connection that is kept is kept alive, and one whose    *)
(* replacement would not open is kept.                                     *)
KeptAlive ==
  phase = "reading" /\ ~session.rotating /\ KeepaliveAfter > 0
    => "replacement_refused" \in hazards \/ now - session.keptAlive < KeepaliveAfter
=============================================================================
