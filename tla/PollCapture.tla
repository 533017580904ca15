----------------------------- MODULE PollCapture -----------------------------
(***************************************************************************)
(* Capture of a venue that is asked on a timer: run_poll of                *)
(* capture/poll.rs, for one instrument, over its boot (boot.rs,            *)
(* report_restart_gap of capture/run.rs).  Every answer and every gap is   *)
(* durable as it is taken.                                                 *)
(***************************************************************************)
EXTENDS Cadence, FiniteSetsExt

CONSTANTS
  Interval,    \* ticks between two asks
  Backoffs,    \* ticks a throttle may add: each wait is jittered
  Latency,     \* ticks an ask may take
  Hazards,     \* which of HazardNames may happen
  MaxTime, MaxFaults   \* bounds

HazardNames == {"kill", "stop", "throttled", "unreachable", "unrecorded"}

VARIABLES
  now,
  archive,     \* what is durable: answers and gaps, by moment of receipt
  cadence,     \* Cadence::last_answered_micros
  poll,        \* where the loop is
  backedOff,   \* whether the backoff has left its first wait
  owed,        \* history: moments this process or a boot had to date
  missed,      \* history: failed asks the record has an answer before
  faults

vars == <<now, archive, cadence, poll, backedOff, owed, missed, faults>>

Down == [at |-> "down"]
Answers == {r \in archive : ~r.gap}
Gaps == {r \in archive : r.gap}
AnswerAt(recv) == [gap |-> FALSE, recv |-> recv]
Gap(window) == [gap |-> TRUE, recv |-> window.to, from |-> window.from, to |-> window.to]

Init ==
  /\ now = 1 /\ archive = {} /\ cadence = Unanswered /\ poll = Down /\ backedOff = FALSE
  /\ owed = {} /\ missed = {} /\ faults = 0

Strikes(hazard) == hazard \in Hazards /\ faults < MaxFaults /\ faults' = faults + 1

(* Bound: an ask ends by its timeout, and an ask is made when it is due.   *)
Tick ==
  /\ now < MaxTime
  /\ poll.at = "asking" => now < poll.asked + Latency
  /\ poll.at = "waiting" => now < poll.until
  /\ now' = now + 1
  /\ UNCHANGED <<archive, cadence, poll, backedOff, owed, missed, faults>>

-----------------------------------------------------------------------------
(* Archive::restart_window: from the newest thing durable to now.          *)
LastDurable == Max({r.recv : r \in archive})
RestartWindow ==
  IF archive = {} \/ LastDurable >= now THEN {} ELSE {[from |-> LastDurable, to |-> now]}

Boot ==
  /\ poll = Down
  /\ archive' = archive \cup {Gap(w) : w \in RestartWindow}
  /\ owed' = owed \cup (IF archive = {} THEN {} ELSE LastDurable + 1 .. now)
  /\ poll' = [at |-> "waiting", until |-> now]
  /\ cadence' = Unanswered /\ backedOff' = FALSE
  /\ UNCHANGED <<now, missed, faults>>

Ask ==
  /\ poll.at = "waiting" /\ poll.until = now
  /\ poll' = [at |-> "asking", asked |-> now]
  /\ UNCHANGED <<now, archive, cadence, backedOff, owed, missed, faults>>

Waits(extra) == poll' = [at |-> "waiting", until |-> now + Interval + extra]

(* Archived whether or not it changed, at its receipt; the cadence keeps   *)
(* the moment of the ask.                                                  *)
Answered ==
  /\ poll.at = "asking"
  /\ archive' = archive \cup {AnswerAt(now)}
  /\ cadence' = poll.asked
  /\ backedOff' = FALSE
  /\ Waits(0)
  /\ UNCHANGED <<now, owed, missed, faults>>

(* publish_poll_gap, and a gap the record refused is only warned about.    *)
NotAnswered ==
  /\ archive' = archive \cup {Gap(w) : w \in Missed(cadence, poll.asked)}
  /\ owed' = owed \cup (IF cadence = Unanswered THEN {} ELSE cadence + 1 .. poll.asked)
  /\ missed' = missed \cup (IF Answers # {} /\ LastDurable < poll.asked THEN {poll.asked} ELSE {})

Unreachable ==
  /\ poll.at = "asking" /\ "unreachable" \in Hazards
  /\ NotAnswered
  /\ Waits(0)
  /\ UNCHANGED <<now, cadence, backedOff, faults>>

(* The backoff is added to the cadence, never instead of it.               *)
Throttled ==
  /\ poll.at = "asking" /\ "throttled" \in Hazards
  /\ NotAnswered
  /\ \E extra \in Backoffs : (backedOff => extra > 0) /\ Waits(extra)
  /\ backedOff' = TRUE
  /\ UNCHANGED <<now, cadence, faults>>

GapUnrecorded ==
  /\ poll.at = "asking" /\ Missed(cadence, poll.asked) # {} /\ Strikes("unrecorded")
  /\ Waits(0)
  /\ UNCHANGED <<now, archive, cadence, backedOff, owed, missed>>

(* Asked to stop while it waits, or killed: all it held is durable.        *)
Stop ==
  /\ \/ poll.at = "waiting" /\ Strikes("stop")
     \/ poll # Down /\ Strikes("kill")
  /\ poll' = Down
  /\ UNCHANGED <<now, archive, cadence, backedOff, owed, missed>>

Next == Tick \/ Boot \/ Ask \/ Answered \/ Unreachable \/ Throttled \/ GapUnrecorded \/ Stop
Spec == Init /\ [][Next]_vars

-----------------------------------------------------------------------------
Dated(t) == \E g \in Gaps : g.from <= t /\ t <= g.to

(* Cadence::missed and report_restart_gap: whatever failed asks, throttles *)
(* and restarts come, every moment from the last answer of a process to a  *)
(* failed ask of it, and from the last thing durable to the next boot, is  *)
(* in a gap.                                                               *)
SilenceIsDated == \A t \in owed : Dated(t)

(* venue/poll.rs: "On a poll, silence is a gap": once the record has an    *)
(* answer, no failed ask is outside every gap.                             *)
SilenceIsAGap == \A t \in missed : Dated(t)
=============================================================================
