----------------------------- MODULE SegmentFile -----------------------------
(***************************************************************************)
(* The commit discipline of galata-segments (writer.rs), for one file name *)
(* of one partition, written again and again: by SegmentWriter, which      *)
(* leaves a segment that is already there alone, or by write_file, which   *)
(* replaces it.                                                            *)
(*                                                                         *)
(* Two contents are told apart by their version.  Until a directory is     *)
(* synced a power loss may undo any rename in it.                          *)
(***************************************************************************)
EXTENDS Integers

CONSTANTS
  Versions,
  Hazards,     \* which of HazardNames may happen
  MaxCommits, MaxFaults   \* bounds

HazardNames == {"kill", "power", "write_error", "sync_error", "rename_error", "dir_sync_error",
                "unsynced_entry", "new_partition"}

VARIABLES
  keeps,       \* SegmentWriter: the same bytes are left alone
  partition,   \* the partition's own entry: absent, volatile or durable
  temp,        \* the temporary
  visible,     \* what the name is now
  possible,    \* what it may be after a power loss
  writer,
  promised,    \* history: the versions a caller who was told Ok may find
  commits, faults

vars == <<keeps, partition, temp, visible, possible, writer, promised, commits, faults>>

NoFile == [version |-> 0, whole |-> FALSE, synced |-> FALSE]
Idle == [at |-> "idle"]

Init ==
  /\ keeps \in BOOLEAN
  /\ partition \in (IF "new_partition" \in Hazards THEN {"absent", "durable"} ELSE {"durable"})
  /\ temp = NoFile /\ visible = NoFile /\ possible = {NoFile}
  /\ writer = Idle /\ promised = {} /\ commits = 0 /\ faults = 0

Strikes(hazard) == hazard \in Hazards /\ faults < MaxFaults /\ faults' = faults + 1
At(place) == writer.at = place /\ UNCHANGED <<keeps, commits>>
Goes(place) == writer' = [writer EXCEPT !.at = place]

(* create_labelled: the directory, and an empty temporary.                 *)
Create ==
  /\ writer = Idle /\ commits < MaxCommits /\ commits' = commits + 1
  /\ \E v \in Versions :
       /\ temp' = [version |-> v, whole |-> FALSE, synced |-> FALSE]
       /\ writer' = [at |-> "writing", version |-> v]
  /\ partition' = IF partition = "absent" THEN "volatile" ELSE partition
  /\ UNCHANGED <<keeps, visible, possible, promised, faults>>

Write ==
  /\ At("writing") /\ Goes(IF keeps THEN "comparing" ELSE "syncing")
  /\ temp' = [temp EXCEPT !.whole = TRUE]
  /\ UNCHANGED <<partition, visible, possible, promised, faults>>

(* Drop removes the temporary.                                             *)
WriteFails ==
  /\ At("writing") /\ Strikes("write_error")
  /\ writer' = Idle /\ temp' = NoFile
  /\ UNCHANGED <<partition, visible, possible, promised>>

(* same_bytes.                                                             *)
SameBytes == visible.whole /\ visible.version = writer.version
AlreadyThere ==
  /\ At("comparing") /\ SameBytes
  /\ writer' = Idle /\ temp' = NoFile
  /\ promised' = {writer.version}
  /\ UNCHANGED <<partition, visible, possible, faults>>

NotThere ==
  /\ At("comparing") /\ ~SameBytes
  /\ Goes("syncing")
  /\ UNCHANGED <<partition, temp, visible, possible, promised, faults>>

SyncedNot(file) == file                        \* mutant: visible before durable
Synced(file) == [file EXCEPT !.synced = TRUE]
Sync ==
  /\ At("syncing") /\ Goes("renaming")
  /\ temp' = Synced(temp)
  /\ UNCHANGED <<partition, visible, possible, promised, faults>>

Rename ==
  /\ At("renaming") /\ Goes("dir")
  /\ visible' = temp /\ possible' = possible \cup {temp} /\ temp' = NoFile
  /\ promised' = IF promised = {} THEN {} ELSE promised \cup {writer.version}
  /\ UNCHANGED <<partition, faults>>

(* Past the writing a segment's temporary is left where it is.             *)
SyncOrRenameFails ==
  /\ \/ At("syncing") /\ Strikes("sync_error")
     \/ At("renaming") /\ Strikes("rename_error")
  /\ writer' = Idle /\ temp' = IF keeps THEN temp ELSE NoFile
  /\ UNCHANGED <<partition, visible, possible, promised>>

SyncDir ==
  /\ At("dir")
  /\ writer' = Idle
  /\ possible' = {visible} /\ promised' = {writer.version}
  /\ UNCHANGED <<partition, temp, visible, faults>>

(* A segment's renamed entry whose directory was not synced is trusted by  *)
(* the next commit of the same bytes: a hazard of its own.                 *)
SyncDirFails ==
  /\ At("dir") /\ Strikes(IF keeps THEN "unsynced_entry" ELSE "dir_sync_error")
  /\ writer' = Idle
  /\ UNCHANGED <<partition, temp, visible, possible, promised>>

Kill ==
  /\ writer # Idle /\ UNCHANGED <<keeps, commits>>
  /\ Strikes(IF keeps /\ writer.at = "dir" THEN "unsynced_entry" ELSE "kill")
  /\ writer' = Idle
  /\ UNCHANGED <<partition, temp, visible, possible, promised>>

(* A file whose data was not synced may come back in part, and a directory *)
(* whose own entry was not, not at all.                                    *)
Survivor(f, intact) ==
  [version |-> f.version, whole |-> f.whole /\ (f.synced \/ intact), synced |-> f # NoFile]
Surviving == {Survivor(f, intact) : f \in possible, intact \in BOOLEAN}
PowerLoss ==
  /\ Strikes("power") /\ UNCHANGED <<keeps, commits, promised>>
  /\ writer' = Idle /\ temp' = NoFile
  /\ \E kept \in {TRUE, partition # "volatile"} :
       /\ partition' = IF kept THEN partition ELSE "absent"
       /\ visible' \in (IF kept THEN Surviving ELSE {NoFile})
  /\ possible' = {visible'}

Next ==
  \/ Create \/ Write \/ WriteFails \/ AlreadyThere \/ NotThere
  \/ Sync \/ Rename \/ SyncOrRenameFails \/ SyncDir \/ SyncDirFails
  \/ Kill \/ PowerLoss
Spec == Init /\ [][Next]_vars

-----------------------------------------------------------------------------
(* writer.rs, "Order is the whole safety argument": under its name a file  *)
(* is whole or not there, whatever failed or lost power before; and what a *)
(* caller was told is committed is found after any power loss, as that     *)
(* version or a later one.                                                 *)
CommitIsDurable ==
  /\ visible # NoFile => visible.whole
  /\ promised # {} =>
       /\ visible.version \in promised
       /\ \A f \in possible : f.version \in promised
=============================================================================
