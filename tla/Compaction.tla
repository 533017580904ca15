----------------------------- MODULE Compaction -----------------------------
(***************************************************************************)
(* One partition of the record (one kind, one day) while capture commits   *)
(* to it, galata-compact rewrites it and readers read it:                  *)
(* galata-segments' compact.rs, hold.rs and the commit of writer.rs.       *)
(*                                                                         *)
(* A segment is its name, <<first, last, seq>>, and the bag of its rows.   *)
(* The process id in a name is left out: one capture process writes the    *)
(* partition.  A day is HoursPerDay hours of HourTicks ticks.              *)
(***************************************************************************)
EXTENDS Integers, Bags, FiniteSetsExt

CONSTANTS
  HourTicks, HoursPerDay,
  Hazards,                        \* which of HazardNames may happen
  MaxRows, MaxReads, MaxCrashes   \* bounds: rows received, reads, kills and power losses

HazardNames == {"page", "kill", "kill_unsynced", "power"}

ASSUME DayAssumption == HourTicks \in Nat \ {0} /\ HoursPerDay \in Nat \ {0}
ASSUME HazardsAssumption == Hazards \subseteq HazardNames
ASSUME BoundsAssumption == MaxRows \in Nat /\ MaxReads \in Nat /\ MaxCrashes \in Nat

VARIABLES
  now,          \* the clock: the day is over at DayEnd
  received,     \* rows capture has received so far
  buffer,       \* Archive::buffered, of this partition
  flushes,      \* Archive::flush_seq
  dir,          \* the segments a listing shows: name -> bag of rows
  synced,       \* the directory as its last sync left it
  job,          \* the compaction under way
  reading,      \* a reader's listing not yet read; Nobody when none holds the root
  reads, kills, losses, \* how many so far: reads, kills, power losses
  paged         \* history: a page or a gap was committed here, not only flushes

capture == <<now, received, buffer, flushes>>
disk == <<dir, synced>>
reader == <<reading, reads>>
faults == <<kills, losses>>
vars == <<capture, disk, job, reader, faults, paged>>

DayEnd == HourTicks * HoursPerDay
Row == [at : 0 .. DayEnd, n : 1 .. MaxRows]

Nobody == [held |-> FALSE, left |-> {}]

(* phase: idle, listing (it holds the root), removing (superseded          *)
(* segments), merging, syncing, dropping (the originals).                  *)
Idle == [phase |-> "idle", todo |-> {}, group |-> {}, doomed |-> {}]

RowsIn(names) == UNION {BagToSet(dir[s]) : s \in names}
RowsOnDisk == RowsIn(DOMAIN dir)
Without(names) == [s \in DOMAIN dir \ names |-> dir[s]]
With(name, bag) == [s \in DOMAIN dir \cup {name} |-> IF s = name THEN bag ELSE dir[s]]

Least(ns) == CHOOSE n \in ns : \A k \in ns : n <= k
Greatest(ns) == CHOOSE n \in ns : \A k \in ns : k <= n

-----------------------------------------------------------------------------
Init ==
  /\ now = 0 /\ received = 0 /\ buffer = {} /\ flushes = 0
  /\ dir = << >> /\ synced = << >>
  /\ job = Idle
  /\ reading = Nobody /\ reads = 0 /\ kills = 0 /\ losses = 0
  /\ paged = FALSE

Tick == /\ now < DayEnd
        /\ now' = now + 1
        /\ UNCHANGED <<received, buffer, flushes, disk, job, reader, faults, paged>>

(* A frame, buffered until the next flush.                                 *)
Receive == /\ received < MaxRows /\ now < DayEnd
           /\ received' = received + 1
           /\ buffer' = buffer \cup {[at |-> now, n |-> received + 1]}
           /\ UNCHANGED <<now, flushes, disk, job, reader, faults, paged>>

(* write_segment: synced, renamed, and the directory synced.               *)
CommitRows(rows) ==
  LET times == {r.at : r \in rows}
      name == [first |-> Least(times), last |-> Greatest(times), seq |-> flushes + 1]
  IN  /\ flushes' = flushes + 1
      /\ dir' = With(name, SetToBag(rows))
      /\ synced' = dir'

(* The flush timer.  Frames of one flush came before those of the next.    *)
Flush == /\ buffer # {} /\ \A r \in buffer : r.at < now
         /\ CommitRows(buffer)
         /\ buffer' = {}
         /\ UNCHANGED <<now, received, job, reader, faults, paged>>

(* A fetched page or a gap: durable at once, ahead of the buffer.          *)
Page == /\ "page" \in Hazards
        /\ received < MaxRows /\ now < DayEnd
        /\ received' = received + 1
        /\ CommitRows({[at |-> now, n |-> received + 1]})
        /\ paged' = TRUE
        /\ UNCHANGED <<now, buffer, job, reader, faults>>

-----------------------------------------------------------------------------
(* superseded.                                                             *)
Wider(w, s) ==
  w.first <= s.first /\ s.last <= w.last /\ (w.first < s.first \/ s.last < w.last)

Contained(names) == {s \in names : \E w \in names : Wider(w, s)}

(* The order of the sweep: widest first at each start, then the listing's. *)
Before(a, b) ==
  \/ a.first < b.first
  \/ a.first = b.first /\ a.last > b.last
  \/ a.first = b.first /\ a.last = b.last /\ a.seq < b.seq

(* What the sweep holds as the widest when it comes to s.                  *)
Container(names, s) ==
  LET tops == {w \in names \ Contained(names) : Before(w, s)}
  IN  CHOOSE w \in tops : \A v \in tops : v = w \/ Before(v, w)

(* merge: every copy of every row.                                        *)
MergedName(names) == [first |-> Least({s.first : s \in names}),
                      last  |-> Greatest({s.last : s \in names}),
                      seq   |-> 0]
MergedBag(names) ==
  [r \in RowsIn(names) |->
     MapThenSumSet(LAMBDA s : dir[s][r], {s \in names : r \in BagToSet(dir[s])})]

(* proven_duplicates, in the order of the sweep: a segment goes when its   *)
(* rows are among those its container has left, each proof before it       *)
(* having spent the copies it needed.  One set is the outcome of that.     *)
Left(container, spent) == dir[container] (-) MergedBag(spent)
Proven(names, container) ==
  LET inside == {s \in Contained(names) : Container(names, s) = container}
      Outcome(doomed) ==
        \A s \in inside :
          s \in doomed <=> dir[s] \sqsubseteq Left(container, {d \in doomed : Before(d, s)})
  IN  UNION {doomed \in SUBSET inside : Outcome(doomed)}

SupersededByRange(names) == Contained(names)      \* mutant: the range proves the rows
SupersededNever(names) == {}                      \* mutant: an interrupted run is merged again
Superseded(names) == UNION {Proven(names, w) : w \in names \ Contained(names)}

(* A closed day is one group; before that, each hour that has closed is,   *)
(* by the hour its segments end in.                                        *)
DayClosed == now >= DayEnd
Cutoff == HourTicks * (now \div HourTicks)
HourOf(s) == s.last \div HourTicks
HourGroups == {{s \in DOMAIN dir : s.last < Cutoff /\ HourOf(s) = h} : h \in 0 .. HoursPerDay - 1}
Groups == IF DayClosed THEN {DOMAIN dir}
          ELSE {g \in HourGroups : Cardinality(g) > 1}

-----------------------------------------------------------------------------
(* hold: exclusive, so no reader holds the root.                           *)
TakeHoldAlone ==                                  \* mutant: readers do not count
  /\ job.phase = "idle"
  /\ job' = [job EXCEPT !.phase = "listing", !.todo = Groups]
  /\ UNCHANGED <<capture, disk, reader, faults, paged>>
TakeHold ==
  /\ job.phase = "idle" /\ ~reading.held
  /\ job' = [job EXCEPT !.phase = "listing", !.todo = Groups]
  /\ UNCHANGED <<capture, disk, reader, faults, paged>>

(* compact_set, one group of the listing.                                  *)
StartGroup ==
  /\ job.phase = "listing"
  /\ \E g \in job.todo :
       job' = [phase |-> "removing", todo |-> job.todo \ {g}, group |-> g,
               doomed |-> Superseded(g)]
  /\ UNCHANGED <<capture, disk, reader, faults, paged>>

RemoveDoomed ==
  /\ job.phase = "removing"
  /\ \E s \in job.doomed :
       /\ dir' = Without({s})
       /\ job' = [job EXCEPT !.doomed = @ \ {s}, !.group = @ \ {s}]
  /\ UNCHANGED <<capture, synced, reader, faults, paged>>

EnoughTwo(names) == Cardinality(names) <= 2       \* mutant: off by one
Enough(names) == Cardinality(names) <= 1

DoomedGone ==
  /\ job.phase = "removing" /\ job.doomed = {}
  /\ job' = IF Enough(job.group)
            THEN [job EXCEPT !.phase = "listing", !.group = {}]
            ELSE [job EXCEPT !.phase = "merging"]
  /\ UNCHANGED <<capture, disk, reader, faults, paged>>

(* merge, up to the rename: over a segment of the same name, if there is   *)
(* one.                                                                    *)
Merge ==
  /\ job.phase = "merging"
  /\ dir' = With(MergedName(job.group), MergedBag(job.group))
  /\ job' = [job EXCEPT !.phase = "syncing"]
  /\ UNCHANGED <<capture, synced, reader, faults, paged>>

SyncDir ==
  /\ job.phase = "syncing"
  /\ synced' = dir
  /\ job' = [job EXCEPT !.phase = "dropping", !.group = @ \ {MergedName(@)}]
  /\ UNCHANGED <<capture, dir, reader, faults, paged>>

DropOriginal ==
  /\ job.phase = "dropping"
  /\ \E s \in job.group :
       /\ dir' = Without({s})
       /\ job' = [job EXCEPT !.group = @ \ {s}]
  /\ UNCHANGED <<capture, synced, reader, faults, paged>>

GroupDone ==
  /\ job.phase = "dropping" /\ job.group = {}
  /\ job' = [job EXCEPT !.phase = "listing"]
  /\ UNCHANGED <<capture, disk, reader, faults, paged>>

Release ==
  /\ job.phase = "listing" /\ job.todo = {}
  /\ job' = Idle
  /\ UNCHANGED <<capture, disk, reader, faults, paged>>

Compact ==
  \/ TakeHold \/ StartGroup \/ RemoveDoomed \/ DoomedGone
  \/ Merge \/ SyncDir \/ DropOriginal \/ GroupDone \/ Release

(* The compaction dies, or an error ends it; the kernel drops its hold.    *)
Kill ==
  /\ "kill" \in Hazards /\ kills + losses < MaxCrashes
  /\ job.phase # "idle"
  /\ job.phase = "syncing" => "kill_unsynced" \in Hazards
  /\ kills' = kills + 1
  /\ job' = Idle
  /\ UNCHANGED <<capture, disk, reader, losses, paged>>

(* The host loses power.  Each name is as the last sync left it or as it   *)
(* is now, whatever the others are.                                        *)
AfterPowerLoss ==
  LET settled == {s \in DOMAIN dir \cap DOMAIN synced : dir[s] = synced[s]}
      open == (DOMAIN dir \cup DOMAIN synced) \ settled
      kept(new) == settled \cup (new \cap DOMAIN dir) \cup ((open \ new) \cap DOMAIN synced)
  IN  {[s \in kept(new) |-> IF s \in new \cup settled THEN dir[s] ELSE synced[s]] : new \in SUBSET open}

PowerLoss ==
  /\ "power" \in Hazards /\ kills + losses < MaxCrashes
  /\ losses' = losses + 1
  /\ dir' \in AfterPowerLoss /\ synced' = dir'
  /\ buffer' = {} /\ job' = Idle /\ reading' = Nobody
  /\ UNCHANGED <<now, received, flushes, reads, kills, paged>>

-----------------------------------------------------------------------------
(* A reader holds the root shared, lists it once, and opens what it listed.*)
StartRead ==
  /\ job.phase = "idle" /\ ~reading.held
  /\ reads < MaxReads
  /\ reads' = reads + 1
  /\ reading' = [held |-> TRUE, left |-> DOMAIN dir]
  /\ UNCHANGED <<capture, disk, job, faults, paged>>

OpenSegment ==
  /\ reading.held
  /\ \E s \in reading.left : reading' = [reading EXCEPT !.left = @ \ {s}]
  /\ UNCHANGED <<capture, disk, job, reads, faults, paged>>

EndRead ==
  /\ reading.held /\ reading.left = {}
  /\ reading' = Nobody
  /\ UNCHANGED <<capture, disk, job, reads, faults, paged>>

Next ==
  \/ Tick \/ Receive \/ Flush \/ Page
  \/ Compact \/ Kill \/ PowerLoss
  \/ StartRead \/ OpenSegment \/ EndRead

(* The schedule runs galata-compact again and again, and a reader ends.    *)
Spec == Init /\ [][Next]_vars /\ WF_vars(Compact) /\ WF_vars(OpenSegment \/ EndRead)

-----------------------------------------------------------------------------
(* compact.rs: order is the whole safety argument.  Whatever is written,   *)
(* removed or interrupted, the rows a listing reaches only grow, and only  *)
(* by a commit of capture.                                                 *)
Store == INSTANCE SegmentStore WITH Rows <- Row, rows <- RowsOnDisk
CommittedRowsStay == Store!Spec

(* hold.rs: what a reader listed is still there when it opens it.          *)
ReaderFindsAll == reading.left \subseteq DOMAIN dir

(* compact_set: a resumed compaction finishes the interrupted one, and no  *)
(* segment holds a row twice.                                              *)
NoRowTwice == \A s \in DOMAIN dir : \A r \in BagToSet(dir[s]) : dir[s][r] = 1

(* nested: segments flushed in receipt order abut and never contain one    *)
(* another, so what a killed compaction left is recognised and finished.   *)
(* (Not after a power loss: removals are not synced, and when a merged     *)
(* hour and its originals come back inside a merged day, the hour's proof  *)
(* spends the copies its originals' proofs need.)                          *)
FlushedRowsOnce == (~paged /\ losses = 0) => NoRowTwice

(* compact_closed: once a day is over and capture has flushed, the         *)
(* partition comes to one segment and stays there, however often a run is  *)
(* interrupted.                                                            *)
Settled == DayClosed /\ buffer = {}
SettlesToOne == <>[](Settled => Cardinality(DOMAIN dir) <= 1)
=============================================================================
