-------------------------- MODULE CompactionProofs --------------------------
(***************************************************************************)
(* Proofs about one partition of the record: whatever capture commits,     *)
(* galata-compact rewrites and a crash interrupts, the partition           *)
(* implements SegmentStore, and a reader finds what it listed.             *)
(***************************************************************************)
EXTENDS Compaction, FiniteSetTheorems, NaturalsInduction, WellFoundedInduction, TLAPS

-----------------------------------------------------------------------------
(* The inductive invariant, in named parts.                                *)

Name == [first : 0 .. DayEnd, last : 0 .. DayEnd, seq : Nat]
Phases == {"idle", "listing", "removing", "merging", "syncing", "dropping"}
Jobs == [phase : Phases, todo : SUBSET SUBSET Name, group : SUBSET Name, doomed : SUBSET Name]

(* Bags of the rows of the day under names of the day, on both sides of a  *)
(* sync.                                                                   *)
IsDisk(d) == DOMAIN d \subseteq Name /\ \A s \in DOMAIN d : DOMAIN d[s] \subseteq Row

TypeOK ==
  /\ now \in 0 .. DayEnd /\ received \in 0 .. MaxRows /\ flushes \in Nat
  /\ buffer \subseteq Row
  /\ IsDisk(dir) /\ IsDisk(synced)
  /\ job \in Jobs

(* Archive::flush_seq: no name on either side is one a commit will give.   *)
NamesAreOld == \A s \in DOMAIN dir \cup DOMAIN synced : s.seq <= flushes

(* A merged segment takes the last time of one of its group; the groups    *)
(* of a listing share none, and each has the merged segments of its times. *)
SharesNoLast(g, h) == \A s \in g, t \in h : s.last # t.last
HasMerged(g) == \A s \in g, t \in DOMAIN dir : t.seq = 0 /\ t.last = s.last => t \in g

GroupsApart ==
  /\ job.group \subseteq DOMAIN dir
  /\ \A g \in job.todo : /\ g \subseteq DOMAIN dir
                         /\ HasMerged(g)
                         /\ SharesNoLast(job.group, g)
                         /\ \A h \in job.todo : g = h \/ SharesNoLast(g, h)
  /\ job.phase \in {"idle", "listing"} => job.group = {}
  /\ job.phase \in {"removing", "merging"} => HasMerged(job.group)

(* The order of compact_set: a segment is removed only while another one,  *)
(* not to be removed, has its rows.                                        *)
DoomedAreHeld ==
  /\ job.doomed \subseteq job.group
  /\ job.phase # "removing" => job.doomed = {}
  /\ \A s \in job.doomed : \E w \in DOMAIN dir \ job.doomed : DOMAIN dir[s] \subseteq DOMAIN dir[w]

HoldsRowsOf(m, names) ==
  m \in DOMAIN dir /\ \A s \in names : DOMAIN dir[s] \subseteq DOMAIN dir[m]
MergedIsHeld ==
  /\ job.phase = "merging" => ~Enough(job.group)
  /\ job.phase = "syncing" => HoldsRowsOf(MergedName(job.group), job.group)
  /\ job.phase = "dropping" => \E m \in DOMAIN dir \ job.group : HoldsRowsOf(m, job.group)

(* The directory's sync comes before the removals: what a power loss may   *)
(* take back is only the segment just merged, and its rows are elsewhere.  *)
IsSettled(s) == s \in DOMAIN synced /\ synced[s] = dir[s]
Survives(r, m) ==
  \/ \E s \in job.group \ {m} : r \in DOMAIN dir[s]
  \/ m \in DOMAIN synced /\ r \in DOMAIN synced[m]
SyncsInTime == "power" \in Hazards /\ "kill_unsynced" \notin Hazards
SyncedFirst ==
  SyncsInTime =>
    LET m == MergedName(job.group)
    IN  /\ \A s \in DOMAIN dir : IsSettled(s) \/ (job.phase = "syncing" /\ s = m)
        /\ job.phase = "syncing" => \A r \in DOMAIN dir[m] : Survives(r, m)

Inv == /\ TypeOK /\ NamesAreOld /\ GroupsApart
       /\ DoomedAreHeld /\ MergedIsHeld /\ SyncedFirst

-----------------------------------------------------------------------------
(* Lemmas about the operators.                                             *)

(* Every set of naturals that is not empty has a least member.             *)
LEMMA LeastNat ==
  ASSUME NEW S \in SUBSET Nat, S # {}
  PROVE  \E n \in S : \A k \in S : n <= k
<1>1. IsWellFoundedOn(OpToRel(<, Nat), Nat)
  BY NatLessThanWellFounded
<1>2. PICK n \in S : \A k \in S : ~(<<k, n>> \in OpToRel(<, Nat))
  BY <1>1, WFMin
<1>3. \A k \in S : ~(k < n)
  BY <1>2 DEF OpToRel
<1> QED BY <1>3

(* A non-empty set of naturals with an upper bound has a greatest element. *)
LEMMA GreatestNat ==
  ASSUME NEW S \in SUBSET Nat, S # {}, NEW b \in Nat, \A k \in S : k <= b
  PROVE  \E m \in S : \A k \in S : k <= m
<1> DEFINE Bounds == {u \in Nat : \A k \in S : k <= u}
<1>1. Bounds \in SUBSET Nat /\ Bounds # {}
  OBVIOUS
<1>2. PICK u \in Bounds : \A v \in Bounds : u <= v
  BY <1>1, LeastNat
<1>3. CASE u \in S
  BY <1>3
<1>4. CASE u \notin S
  <2>1. \A k \in S : k < u
    BY <1>4
  <2>2. PICK k \in S : TRUE
    OBVIOUS
  <2>3. u - 1 \in Nat /\ \A j \in S : j <= u - 1
    BY <2>1, <2>2
  <2> QED BY <1>2, <2>3
<1> QED BY <1>3, <1>4

(* Least and Greatest of times of the day are two of those times, with the *)
(* others between them.                                                    *)
LEMMA TimesHaveEnds ==
  ASSUME NEW ns \in SUBSET (0 .. DayEnd), ns # {}
  PROVE  /\ Least(ns) \in ns /\ Greatest(ns) \in ns
         /\ \A k \in ns : Least(ns) <= k /\ k <= Greatest(ns)
<1>d. DayEnd \in Nat
  BY DayAssumption DEF DayEnd
<1>1. \E n \in ns : \A k \in ns : n <= k
  <2>1. ns \in SUBSET Nat
    BY <1>d
  <2> QED BY <2>1, LeastNat
<1>2. \E n \in ns : \A k \in ns : k <= n
  <2>1. ns \in SUBSET Nat /\ \A k \in ns : k <= DayEnd
    BY <1>d
  <2> QED BY <1>d, <2>1, GreatestNat
<1> QED BY <1>1, <1>2 DEF Least, Greatest

(* A merged segment is named in the day, and spans its group.              *)
LEMMA MergedNameEnds ==
  ASSUME NEW g \in SUBSET Name, g # {}
  PROVE  /\ MergedName(g) \in Name
         /\ MergedName(g).seq = 0
         /\ \E s \in g : MergedName(g).first = s.first
         /\ \E s \in g : MergedName(g).last = s.last
         /\ \A s \in g : MergedName(g).first <= s.first /\ s.last <= MergedName(g).last
<1> DEFINE firsts == {s.first : s \in g}
           lasts == {s.last : s \in g}
<1>1. firsts \in SUBSET (0 .. DayEnd) /\ firsts # {}
  BY DEF Name
<1>2. lasts \in SUBSET (0 .. DayEnd) /\ lasts # {}
  BY DEF Name
<1>3. /\ Least(firsts) \in firsts /\ Greatest(lasts) \in lasts
      /\ \A k \in firsts : Least(firsts) <= k
      /\ \A k \in lasts : k <= Greatest(lasts)
  BY <1>1, <1>2, TimesHaveEnds
<1>4. MergedName(g) = [first |-> Least(firsts), last |-> Greatest(lasts), seq |-> 0]
  BY DEF MergedName
<1> PICK f, l : f = Least(firsts) /\ l = Greatest(lasts)
  OBVIOUS
<1>5. /\ \E s \in g : f = s.first
      /\ \E s \in g : l = s.last
      /\ \A s \in g : f <= s.first /\ s.last <= l
  BY <1>3
<1>6. f \in 0 .. DayEnd /\ l \in 0 .. DayEnd
  BY <1>1, <1>2, <1>3
<1>7. MergedName(g) = [first |-> f, last |-> l, seq |-> 0]
  BY <1>4
<1> HIDE DEF firsts, lasts
<1> QED BY <1>5, <1>6, <1>7 DEF Name

(* ~Enough: there are two segments.                                        *)
LEMMA TwoOfThem ==
  ASSUME NEW g, ~Enough(g)
  PROVE  \E s, t \in g : s # t
<1>1. g # {}
  BY FS_EmptySet DEF Enough
<1>2. PICK s : s \in g
  BY <1>1
<1>3. g # {s}
  BY FS_Singleton DEF Enough
<1> QED BY <1>2, <1>3

(* merge: the replacement has the rows of its inputs.                      *)
LEMMA MergedBagRows ==
  ASSUME NEW g
  PROVE  /\ \A r : r \in DOMAIN MergedBag(g) <=> \E s \in g : r \in DOMAIN dir[s]
BY DEF MergedBag, RowsIn, BagToSet

(* proven_duplicates: what is superseded in a group is held by a segment   *)
(* of it that is not.                                                      *)
LEMMA SupersededAreHeld ==
  ASSUME NEW g, NEW s \in Superseded(g)
  PROVE  s \in g /\ \E w \in g \ Superseded(g) : DOMAIN dir[s] \subseteq DOMAIN dir[w]
<1>1. Superseded(g) \subseteq Contained(g) /\ Contained(g) \subseteq g
  BY DEF Superseded, Proven, Contained
<1>2. PICK w \in g \ Contained(g) : s \in Proven(g, w)
  BY DEF Superseded
<1>3. PICK doomed : s \in doomed /\ dir[s] \sqsubseteq Left(w, {d \in doomed : Before(d, s)})
  BY <1>2 DEF Proven
<1>4. DOMAIN Left(w, {d \in doomed : Before(d, s)}) \subseteq DOMAIN dir[w]
  BY DEF Left, (-)
<1>5. DOMAIN dir[s] \subseteq DOMAIN dir[w]
  BY <1>3, <1>4 DEF \sqsubseteq
<1> QED BY <1>1, <1>2, <1>5

-----------------------------------------------------------------------------
(* The actions of capture and of a reader.                                 *)

(* A step that leaves the directory and the compaction alone.              *)
LEMMA ElsewhereKeeps ==
  ASSUME Inv, UNCHANGED <<flushes, disk, job>>,
         now' \in 0 .. DayEnd, received' \in 0 .. MaxRows, buffer' \subseteq Row
  PROVE  Inv'
<1>1. TypeOK'
  BY DEF Inv, TypeOK, IsDisk, disk
<1>2. NamesAreOld' /\ GroupsApart' /\ DoomedAreHeld'
  BY DEF Inv, NamesAreOld, GroupsApart, DoomedAreHeld, HasMerged, SharesNoLast, disk
<1>3. MergedIsHeld'
  BY DEF Inv, MergedIsHeld, HoldsRowsOf, MergedName, disk
<1>4. SyncedFirst'
  BY DEF Inv, SyncedFirst, Survives, IsSettled, MergedName, disk
<1> QED BY <1>1, <1>2, <1>3, <1>4 DEF Inv

(* write_segment: a name of its own, beside what is there, and synced with *)
(* whatever waited for a sync.                                             *)
LEMMA CommitKeeps ==
  ASSUME Inv, NEW rows \in SUBSET Row, rows # {}, CommitRows(rows),
         UNCHANGED <<now, job>>, received' \in 0 .. MaxRows, buffer' \subseteq Row
  PROVE  /\ Inv'
         /\ RowsOnDisk \subseteq RowsOnDisk'
<1> DEFINE times == {r.at : r \in rows}
           name == [first |-> Least(times), last |-> Greatest(times), seq |-> flushes + 1]
<1>1. /\ flushes' = flushes + 1
      /\ dir' = With(name, SetToBag(rows))
      /\ synced' = dir'
  BY DEF CommitRows
<1>2. name \in Name /\ name.seq = flushes + 1
  <2>1. times \in SUBSET (0 .. DayEnd) /\ times # {}
    BY DEF Row
  <2>2. Least(times) \in 0 .. DayEnd /\ Greatest(times) \in 0 .. DayEnd
    BY <2>1, TimesHaveEnds
  <2>3. flushes + 1 \in Nat
    BY DEF Inv, TypeOK
  <2> QED BY <2>2, <2>3 DEF Name
<1> HIDE DEF name
<1>3. /\ DOMAIN dir' = DOMAIN dir \cup {name}
      /\ name \notin DOMAIN dir
      /\ \A s \in DOMAIN dir : dir'[s] = dir[s]
      /\ DOMAIN dir'[name] = rows
  <2>1. name \notin DOMAIN dir
    BY <1>2 DEF Inv, TypeOK, NamesAreOld
  <2>2. DOMAIN SetToBag(rows) = rows
    BY DEF SetToBag
  <2> QED BY <1>1, <2>1, <2>2 DEF With
<1>4. TypeOK'
  BY <1>1, <1>2, <1>3 DEF Inv, TypeOK, IsDisk
<1>5. NamesAreOld'
  <2>1. \A s \in DOMAIN dir : s.seq \in Nat /\ s.seq <= flushes
    BY DEF Inv, TypeOK, IsDisk, Name, NamesAreOld
  <2> QED BY <1>1, <1>2, <1>3, <2>1 DEF NamesAreOld, Inv, TypeOK
<1>6. GroupsApart'
  <2>1. name.seq # 0
    BY <1>2 DEF Inv, TypeOK
  <2>2. \A g : HasMerged(g) => HasMerged(g)'
    BY <1>3, <2>1 DEF HasMerged
  <2>3. \A g, h : SharesNoLast(g, h) => SharesNoLast(g, h)'
    BY DEF SharesNoLast
  <2> QED BY <1>3, <2>2, <2>3 DEF Inv, GroupsApart
<1>7. DoomedAreHeld'
  BY <1>3 DEF Inv, DoomedAreHeld, GroupsApart
<1>8. MergedIsHeld'
  BY <1>3 DEF Inv, MergedIsHeld, HoldsRowsOf, GroupsApart, MergedName
<1>9. SyncedFirst'
  BY <1>1, <1>3 DEF Inv, SyncedFirst, IsSettled, Survives, MergedIsHeld, HoldsRowsOf, MergedName
<1>10. RowsOnDisk \subseteq RowsOnDisk'
  BY <1>3 DEF RowsOnDisk, RowsIn, BagToSet
<1> QED BY <1>4, <1>5, <1>6, <1>7, <1>8, <1>9, <1>10 DEF Inv

-----------------------------------------------------------------------------
(* The steps of a compaction that leave the directory alone.               *)

(* Groups: of the closed day or of each hour that has closed.              *)
LEMMA GroupsAreApart ==
  ASSUME TypeOK, NEW g \in Groups
  PROVE  /\ g \subseteq DOMAIN dir
         /\ HasMerged(g)
         /\ \A h \in Groups : g = h \/ SharesNoLast(g, h)
<1>1. CASE DayClosed
  BY <1>1 DEF Groups, HasMerged
<1>2. CASE ~DayClosed
  <2>1. Groups \subseteq HourGroups
    BY <1>2 DEF Groups
  <2> DEFINE hour(i) == {s \in DOMAIN dir : s.last < Cutoff /\ HourOf(s) = i}
  <2>2. \A f \in Groups : \E i : f = hour(i)
    BY <2>1 DEF HourGroups
  <2>3. PICK i : g = hour(i)
    BY <2>2
  <2>4. g \subseteq DOMAIN dir
    BY <2>3
  <2>5. HasMerged(g)
    BY <2>3 DEF HasMerged, HourOf
  <2>6. ASSUME NEW h \in Groups PROVE g = h \/ SharesNoLast(g, h)
    <3>1. PICK j : h = hour(j)
      BY <2>2
    <3>2. CASE i = j
      BY <2>3, <3>1, <3>2
    <3>3. CASE i # j
      BY <2>3, <3>1, <3>3 DEF SharesNoLast, HourOf
    <3> QED BY <3>2, <3>3
  <2> QED BY <2>4, <2>5, <2>6
<1> QED BY <1>1, <1>2

(* A step of the compaction that leaves the directory alone.               *)
LEMMA JobKeeps ==
  ASSUME Inv, UNCHANGED <<capture, disk>>, job' \in Jobs
  PROVE  /\ TypeOK' /\ NamesAreOld'
         /\ \A g : HasMerged(g) => HasMerged(g)'
         /\ \A g, h : SharesNoLast(g, h) => SharesNoLast(g, h)'
<1>1. TypeOK'
  BY DEF Inv, TypeOK, IsDisk, capture, disk
<1>2. NamesAreOld'
  BY DEF Inv, NamesAreOld, capture, disk
<1>3. \A g : HasMerged(g) => HasMerged(g)'
  BY DEF HasMerged, disk
<1>4. \A g, h : SharesNoLast(g, h) => SharesNoLast(g, h)'
  BY DEF SharesNoLast
<1> QED BY <1>1, <1>2, <1>3, <1>4

LEMMA TakeHoldKeeps ==
  ASSUME Inv, TakeHold
  PROVE  Inv'
<1>1. UNCHANGED <<capture, disk>> /\ dir' = dir
  BY DEF TakeHold, disk
<1>2. /\ job' = [phase |-> "listing", todo |-> Groups, group |-> {}, doomed |-> {}]
      /\ Groups \subseteq SUBSET Name
  <2>1. job.group = {} /\ job.doomed = {}
    BY DEF Inv, TypeOK, Jobs, TakeHold, GroupsApart, DoomedAreHeld
  <2>2. Groups \subseteq SUBSET Name
    BY GroupsAreApart DEF Inv, TypeOK, Jobs, IsDisk
  <2> QED BY <2>1, <2>2 DEF TakeHold, Inv, TypeOK, Jobs
<1>3. TypeOK' /\ NamesAreOld'
  BY <1>1, <1>2, JobKeeps DEF Jobs, Phases
<1>4. GroupsApart'
  <2>1. \A g \in Groups : /\ g \subseteq DOMAIN dir /\ HasMerged(g)
                         /\ \A h \in Groups : g = h \/ SharesNoLast(g, h)
    BY GroupsAreApart DEF Inv
  <2> QED BY <1>1, <1>2, <2>1 DEF GroupsApart, HasMerged, SharesNoLast
<1>5. DoomedAreHeld' /\ MergedIsHeld'
  BY <1>2 DEF DoomedAreHeld, MergedIsHeld
<1>6. SyncedFirst'
  BY <1>1, <1>2 DEF Inv, SyncedFirst, IsSettled, TakeHold, disk
<1> QED BY <1>3, <1>4, <1>5, <1>6 DEF Inv

(* compact_set lists, and judges, the group as it is.                      *)
LEMMA StartGroupKeeps ==
  ASSUME Inv, StartGroup
  PROVE  Inv'
<1>1. UNCHANGED <<capture, disk>> /\ dir' = dir
  BY DEF StartGroup, disk
<1>2. PICK g \in job.todo :
        job' = [phase |-> "removing", todo |-> job.todo \ {g}, group |-> g,
                doomed |-> Superseded(g)]
  BY DEF StartGroup
<1>3. Superseded(g) \subseteq g
  BY SupersededAreHeld
<1>4. TypeOK' /\ NamesAreOld'
  <2>1. g \in SUBSET Name /\ job.todo \in SUBSET SUBSET Name
    BY DEF Inv, TypeOK, Jobs
  <2>2. job' \in Jobs
    BY <1>2, <1>3, <2>1 DEF Jobs, Phases
  <2> QED BY <1>1, <2>2, JobKeeps
<1>5. GroupsApart'
  BY <1>1, <1>2 DEF Inv, GroupsApart, HasMerged, SharesNoLast
<1>6. DoomedAreHeld'
  <2>1. g \subseteq DOMAIN dir
    BY DEF Inv, GroupsApart
  <2>2. \A s \in Superseded(g) :
           \E w \in DOMAIN dir \ Superseded(g) : DOMAIN dir[s] \subseteq DOMAIN dir[w]
    BY <2>1, SupersededAreHeld
  <2> QED BY <1>1, <1>2, <1>3, <2>2 DEF DoomedAreHeld
<1>7. MergedIsHeld'
  BY <1>2 DEF MergedIsHeld
<1>8. SyncedFirst'
  BY <1>1, <1>2 DEF Inv, SyncedFirst, IsSettled, StartGroup, disk
<1> QED BY <1>4, <1>5, <1>6, <1>7, <1>8 DEF Inv

(* What was superseded is gone: the group is done, or is merged.           *)
LEMMA DoomedGoneKeeps ==
  ASSUME Inv, DoomedGone
  PROVE  Inv'
<1>1. UNCHANGED <<capture, disk>> /\ dir' = dir
  BY DEF DoomedGone, disk
<1>2. /\ job.phase = "removing" /\ job.doomed = {}
      /\ \/ job' = [phase |-> "listing", todo |-> job.todo, group |-> {}, doomed |-> {}]
         \/ /\ job' = [phase |-> "merging", todo |-> job.todo, group |-> job.group, doomed |-> {}]
            /\ ~Enough(job.group)
  BY DEF Inv, TypeOK, Jobs, DoomedGone
<1>3. TypeOK' /\ NamesAreOld'
  <2>1. job.group \in SUBSET Name /\ job.todo \in SUBSET SUBSET Name
    BY DEF Inv, TypeOK, Jobs
  <2>2. job' \in Jobs
    BY <1>2, <2>1 DEF Jobs, Phases
  <2> QED BY <1>1, <2>2, JobKeeps
<1>4. GroupsApart'
  BY <1>1, <1>2 DEF Inv, GroupsApart, HasMerged, SharesNoLast
<1>5. DoomedAreHeld' /\ MergedIsHeld'
  BY <1>2, FS_EmptySet DEF DoomedAreHeld, MergedIsHeld, Enough
<1>6. SyncedFirst'
  BY <1>1, <1>2 DEF Inv, SyncedFirst, IsSettled, disk
<1> QED BY <1>3, <1>4, <1>5, <1>6 DEF Inv

(* The end of a group, of the run, and a kill: the compaction is left with *)
(* no group.                                                               *)
LEMMA NoGroupKeeps ==
  ASSUME Inv, UNCHANGED <<capture, disk>>,
         job'.phase \in {"idle", "listing"}, job'.group = {}, job'.doomed = {},
         job'.todo \subseteq job.todo,
         job' \in Jobs,
         SyncsInTime => job.phase # "syncing"
  PROVE  Inv'
<1>1. TypeOK' /\ NamesAreOld'
  BY JobKeeps
<1>2. GroupsApart'
  BY DEF Inv, GroupsApart, HasMerged, SharesNoLast, disk
<1>3. DoomedAreHeld' /\ MergedIsHeld'
  BY DEF DoomedAreHeld, MergedIsHeld
<1>4. SyncedFirst'
  BY DEF Inv, SyncedFirst, IsSettled, disk
<1> QED BY <1>1, <1>2, <1>3, <1>4 DEF Inv

-----------------------------------------------------------------------------
(* The steps of a compaction that change the directory.                    *)

(* What every removal of a segment of the group has in common.             *)
LEMMA RemovalKeeps ==
  ASSUME Inv, NEW s \in job.group, dir' = Without({s}),
         UNCHANGED <<capture, synced>>,
         job'.phase = job.phase, job'.todo = job.todo, job'.group = job.group \ {s},
         job'.doomed = job.doomed \ {s},
         job' \in Jobs,
         job.phase \in {"removing", "dropping"}
  PROVE  /\ TypeOK' /\ NamesAreOld' /\ GroupsApart' /\ SyncedFirst'
         /\ DOMAIN dir' = DOMAIN dir \ {s}
         /\ \A t \in DOMAIN dir' : dir'[t] = dir[t]
<1>1. /\ DOMAIN dir' = DOMAIN dir \ {s}
      /\ \A t \in DOMAIN dir' : dir'[t] = dir[t]
  BY DEF Without
<1>2. TypeOK' /\ NamesAreOld'
  BY <1>1 DEF Inv, TypeOK, Jobs, IsDisk, NamesAreOld, capture
<1>3. GroupsApart'
  <2>1. \A g \in job.todo : s \notin g
    BY DEF Inv, GroupsApart, SharesNoLast
  <2>2. ASSUME NEW g, HasMerged(g) PROVE HasMerged(g)' /\ HasMerged(g \ {s})'
    BY <1>1, <2>2 DEF HasMerged
  <2>3. ASSUME NEW g, SharesNoLast(job.group, g) PROVE SharesNoLast(job.group, g)'
    <3>1. job'.group \subseteq job.group
      OBVIOUS
    <3> QED BY <2>3, <3>1 DEF SharesNoLast
  <2>4. \A g, h : SharesNoLast(g, h) => SharesNoLast(g, h)'
    BY DEF SharesNoLast
  <2>5. \A g \in job.todo : g \subseteq DOMAIN dir'
    BY <1>1, <2>1 DEF Inv, GroupsApart
  <2>6. job.group' \subseteq DOMAIN dir'
    BY <1>1 DEF Inv, GroupsApart
  <2>7. job'.phase \in {"removing", "merging"} => HasMerged(job.group)'
    BY <2>2 DEF Inv, GroupsApart
  <2> QED BY <2>2, <2>3, <2>4, <2>5, <2>6, <2>7 DEF Inv, GroupsApart
<1>4. SyncedFirst'
  BY <1>1 DEF Inv, SyncedFirst, IsSettled
<1> QED BY <1>1, <1>2, <1>3, <1>4

(* One segment gone, and another one has its rows.                         *)
LEMMA RowsElsewhere ==
  ASSUME NEW s, NEW w \in DOMAIN dir \ {s}, s \in DOMAIN dir,
         DOMAIN dir[s] \subseteq DOMAIN dir[w],
         DOMAIN dir' = DOMAIN dir \ {s}, \A t \in DOMAIN dir' : dir'[t] = dir[t]
  PROVE  RowsOnDisk \subseteq RowsOnDisk'
BY DEF RowsOnDisk, RowsIn, BagToSet

LEMMA RemoveDoomedKeeps ==
  ASSUME Inv, RemoveDoomed
  PROVE  Inv' /\ RowsOnDisk \subseteq RowsOnDisk'
<1>1. PICK s \in job.doomed :
        /\ dir' = Without({s})
        /\ job' = [phase |-> job.phase, todo |-> job.todo,
                   group |-> job.group \ {s}, doomed |-> job.doomed \ {s}]
  <2>1. job \in Jobs
    BY DEF Inv, TypeOK, Jobs
  <2> QED BY <2>1 DEF RemoveDoomed, Jobs
<1>2. job.phase = "removing" /\ UNCHANGED <<capture, synced>>
  BY DEF RemoveDoomed
<1>3. s \in job.group /\ s \in DOMAIN dir
  BY DEF Inv, DoomedAreHeld, GroupsApart
<1>4. /\ TypeOK' /\ NamesAreOld' /\ GroupsApart' /\ SyncedFirst'
      /\ DOMAIN dir' = DOMAIN dir \ {s}
      /\ \A t \in DOMAIN dir' : dir'[t] = dir[t]
  <2>1. job' \in Jobs
    BY <1>1 DEF Inv, TypeOK, Jobs
  <2> QED BY <1>1, <1>2, <1>3, <2>1, RemovalKeeps
<1>5. PICK w \in DOMAIN dir \ job.doomed : DOMAIN dir[s] \subseteq DOMAIN dir[w]
  BY DEF Inv, DoomedAreHeld
<1>6. DoomedAreHeld'
  <2>1. job.doomed \subseteq job.group /\ job.group \subseteq DOMAIN dir
    BY DEF Inv, DoomedAreHeld, GroupsApart
  <2>2. ASSUME NEW t \in job.doomed \ {s}
        PROVE  \E v \in DOMAIN dir' \ job'.doomed : DOMAIN dir'[t] \subseteq DOMAIN dir'[v]
    <3>1. PICK v \in DOMAIN dir \ job.doomed : DOMAIN dir[t] \subseteq DOMAIN dir[v]
      BY DEF Inv, DoomedAreHeld
    <3> QED BY <1>1, <1>4, <2>1, <3>1
  <2> QED BY <1>1, <1>2, <2>1, <2>2 DEF DoomedAreHeld
<1>7. MergedIsHeld'
  BY <1>1, <1>2 DEF MergedIsHeld
<1>8. RowsOnDisk \subseteq RowsOnDisk'
  BY <1>3, <1>4, <1>5, RowsElsewhere
<1> QED BY <1>4, <1>6, <1>7, <1>8 DEF Inv

(* merge: over what had its name, if it had, since that was of the group.  *)
LEMMA MergeKeeps ==
  ASSUME Inv, Merge
  PROVE  Inv' /\ RowsOnDisk \subseteq RowsOnDisk'
<1> DEFINE g == job.group
<1> PICK m : m = MergedName(g)
  OBVIOUS
<1>1. /\ job.phase = "merging" /\ UNCHANGED <<capture, synced>>
      /\ dir' = With(m, MergedBag(g))
      /\ job' = [phase |-> "syncing", todo |-> job.todo, group |-> g, doomed |-> job.doomed]
  BY DEF Merge, Inv, TypeOK, Jobs
<1>2. m \in Name /\ m.seq = 0 /\ \E s \in g : m.last = s.last
  <2>1. g \in SUBSET Name /\ g # {}
    BY <1>1, TwoOfThem DEF Inv, TypeOK, Jobs, MergedIsHeld
  <2> QED BY <2>1, MergedNameEnds
<1>3. m \in DOMAIN dir => m \in g
  BY <1>1, <1>2 DEF Inv, GroupsApart, HasMerged
<1>4. MergedName(job.group)' = m
  BY <1>1 DEF MergedName
<1>5. /\ DOMAIN dir' = DOMAIN dir \cup {m}
      /\ \A s \in DOMAIN dir \ {m} : dir'[s] = dir[s]
      /\ \A r : r \in DOMAIN dir'[m] <=> \E s \in g : r \in DOMAIN dir[s]
  BY <1>1, MergedBagRows DEF With
<1>6. g \subseteq DOMAIN dir
  BY DEF Inv, GroupsApart
<1>7. TypeOK'
  BY <1>1, <1>2, <1>5, <1>6 DEF Inv, TypeOK, IsDisk, Jobs, Phases, capture
<1>8. NamesAreOld'
  BY <1>1, <1>2, <1>5 DEF Inv, NamesAreOld, TypeOK, Jobs, capture
<1>9. GroupsApart'
  <2>1. \A h \in job.todo : SharesNoLast(g, h)
    BY DEF Inv, GroupsApart
  <2>2. \A h \in job.todo : \A s \in h : s.last # m.last
    BY <1>2, <2>1 DEF SharesNoLast
  <2>3. \A h \in job.todo : HasMerged(h)'
    BY <1>5, <2>2 DEF HasMerged, Inv, GroupsApart
  <2>4. \A h, f : SharesNoLast(h, f) => SharesNoLast(h, f)'
    BY DEF SharesNoLast
  <2> QED BY <1>1, <1>5, <2>3, <2>4 DEF Inv, GroupsApart
<1>10. DoomedAreHeld'
  BY <1>1 DEF DoomedAreHeld, Inv
<1>11. MergedIsHeld'
  <2>1. \A s \in g : DOMAIN dir'[s] \subseteq DOMAIN dir'[m]
    BY <1>5, <1>6
  <2> QED BY <1>1, <1>4, <1>5, <2>1 DEF MergedIsHeld, HoldsRowsOf
<1>12. SyncedFirst'
  <2> SUFFICES ASSUME SyncsInTime
               PROVE  /\ \A s \in DOMAIN dir' : IsSettled(s)' \/ s = m
                      /\ \A r \in DOMAIN dir'[m] : Survives(r, m)'
    BY <1>1, <1>4 DEF SyncedFirst
  <2>1. \A s \in DOMAIN dir : s \in DOMAIN synced /\ synced[s] = dir[s]
    BY <1>1 DEF Inv, SyncedFirst, IsSettled
  <2>2. \A s \in DOMAIN dir' : IsSettled(s)' \/ s = m
    BY <1>1, <1>5, <2>1 DEF IsSettled
  <2>3. ASSUME NEW r \in DOMAIN dir'[m] PROVE Survives(r, m)'
    <3>1. PICK s \in g : r \in DOMAIN dir[s]
      BY <1>5
    <3>2. CASE s = m
      BY <1>1, <1>6, <2>1, <3>1, <3>2 DEF Survives
    <3>3. CASE s # m
      BY <1>1, <1>5, <1>6, <3>1, <3>3 DEF Survives
    <3> QED BY <3>2, <3>3
  <2> QED BY <2>2, <2>3
<1>13. RowsOnDisk \subseteq RowsOnDisk'
  <2>1. \A s \in DOMAIN dir : \E t \in DOMAIN dir' : DOMAIN dir[s] \subseteq DOMAIN dir'[t]
    BY <1>3, <1>5
  <2> QED BY <2>1 DEF RowsOnDisk, RowsIn, BagToSet
<1> QED BY <1>7, <1>8, <1>9, <1>10, <1>11, <1>12, <1>13 DEF Inv

(* sync_dir: the replacement is durable before any original goes.          *)
LEMMA SyncDirKeeps ==
  ASSUME Inv, SyncDir
  PROVE  Inv'
<1> PICK m : m = MergedName(job.group)
  OBVIOUS
<1>1. /\ job.phase = "syncing" /\ UNCHANGED <<capture, dir>> /\ synced' = dir
      /\ job' = [phase |-> "dropping", todo |-> job.todo,
                 group |-> job.group \ {m}, doomed |-> job.doomed]
  BY DEF SyncDir, Inv, TypeOK, Jobs
<1>2. TypeOK' /\ NamesAreOld'
  BY <1>1 DEF Inv, TypeOK, IsDisk, Jobs, Phases, NamesAreOld, capture
<1>3. GroupsApart'
  BY <1>1 DEF Inv, GroupsApart, HasMerged, SharesNoLast
<1>4. DoomedAreHeld'
  BY <1>1 DEF Inv, DoomedAreHeld
<1>5. MergedIsHeld'
  <2>1. HoldsRowsOf(m, job.group)
    BY <1>1 DEF Inv, MergedIsHeld
  <2> QED BY <1>1, <2>1 DEF MergedIsHeld, HoldsRowsOf
<1>6. SyncedFirst'
  BY <1>1 DEF SyncedFirst, IsSettled
<1> QED BY <1>2, <1>3, <1>4, <1>5, <1>6 DEF Inv

LEMMA DropOriginalKeeps ==
  ASSUME Inv, DropOriginal
  PROVE  Inv' /\ RowsOnDisk \subseteq RowsOnDisk'
<1>1. PICK s \in job.group :
        /\ dir' = Without({s})
        /\ job' = [phase |-> job.phase, todo |-> job.todo,
                   group |-> job.group \ {s}, doomed |-> job.doomed]
  <2>1. job \in Jobs
    BY DEF Inv, TypeOK
  <2> QED BY <2>1 DEF DropOriginal, Jobs
<1>2. job.phase = "dropping" /\ UNCHANGED <<capture, synced>>
  BY DEF DropOriginal
<1>3. job.doomed = {} /\ s \in DOMAIN dir
  BY <1>2 DEF Inv, DoomedAreHeld, GroupsApart
<1>4. /\ TypeOK' /\ NamesAreOld' /\ GroupsApart' /\ SyncedFirst'
      /\ DOMAIN dir' = DOMAIN dir \ {s}
      /\ \A t \in DOMAIN dir' : dir'[t] = dir[t]
  <2>1. job' \in Jobs
    BY <1>1 DEF Inv, TypeOK, Jobs
  <2> QED BY <1>1, <1>2, <1>3, <2>1, RemovalKeeps
<1>5. PICK m \in DOMAIN dir \ job.group : HoldsRowsOf(m, job.group)
  BY <1>2 DEF Inv, MergedIsHeld
<1>6. DoomedAreHeld'
  BY <1>1, <1>3 DEF DoomedAreHeld
<1>7. MergedIsHeld'
  <2>1. m \in DOMAIN dir' \ job'.group /\ HoldsRowsOf(m, job.group)'
    <3>1. job.group \subseteq DOMAIN dir
      BY DEF Inv, GroupsApart
    <3> QED BY <1>1, <1>4, <1>5, <3>1 DEF HoldsRowsOf
  <2> QED BY <1>1, <1>2, <2>1 DEF MergedIsHeld
<1>8. RowsOnDisk \subseteq RowsOnDisk'
  BY <1>1, <1>3, <1>4, <1>5, RowsElsewhere DEF HoldsRowsOf
<1> QED BY <1>4, <1>6, <1>7, <1>8 DEF Inv

-----------------------------------------------------------------------------
(* A power loss.                                                           *)

(* Each name is as it is now or as the last sync left it; one that both    *)
(* sides have stays.                                                       *)
IsOfOneSide(s, d) ==
  \/ s \in DOMAIN dir /\ d[s] = dir[s]
  \/ s \in DOMAIN synced /\ d[s] = synced[s]

LEMMA AfterPowerLossIs ==
  ASSUME NEW d \in AfterPowerLoss
  PROVE  /\ \A s \in DOMAIN d : IsOfOneSide(s, d)
         /\ DOMAIN dir \cap DOMAIN synced \subseteq DOMAIN d
<1> DEFINE settled == {s \in DOMAIN dir \cap DOMAIN synced : dir[s] = synced[s]}
           open == (DOMAIN dir \cup DOMAIN synced) \ settled
           kept(new) == settled \cup (new \cap DOMAIN dir) \cup ((open \ new) \cap DOMAIN synced)
<1>1. PICK new \in SUBSET open :
        d = [s \in kept(new) |-> IF s \in new \cup settled THEN dir[s] ELSE synced[s]]
  BY DEF AfterPowerLoss
<1>2. DOMAIN d = kept(new)
  BY <1>1
<1>3. \A s \in DOMAIN d : IsOfOneSide(s, d)
  BY <1>1, <1>2 DEF IsOfOneSide
<1>4. DOMAIN dir \cap DOMAIN synced \subseteq DOMAIN d
  BY <1>2
<1> QED BY <1>3, <1>4

(* SyncedFirst is what a power loss needs: every row is in one segment on  *)
(* both sides of the last sync.                                            *)
LEMMA RowsAreAnchored ==
  ASSUME Inv, SyncsInTime, NEW r \in RowsOnDisk
  PROVE  \E s \in DOMAIN dir \cap DOMAIN synced : r \in DOMAIN dir[s] /\ r \in DOMAIN synced[s]
<1>1. PICK s \in DOMAIN dir : r \in DOMAIN dir[s]
  BY DEF RowsOnDisk, RowsIn, BagToSet
<1>2. CASE IsSettled(s)
  BY <1>1, <1>2 DEF IsSettled
<1>3. CASE ~IsSettled(s)
  <2>1. job.phase = "syncing" /\ s = MergedName(job.group) /\ Survives(r, s)
    BY <1>1, <1>3 DEF Inv, SyncedFirst
  <2>2. ASSUME NEW t \in job.group \ {s}, r \in DOMAIN dir[t]
        PROVE  t \in DOMAIN dir /\ IsSettled(t)
    BY <2>1, <2>2 DEF Inv, SyncedFirst, GroupsApart
  <2> QED BY <1>1, <2>1, <2>2 DEF Survives, IsSettled
<1> QED BY <1>2, <1>3

LEMMA PowerLossKeeps ==
  ASSUME Inv, PowerLoss
  PROVE  Inv' /\ (SyncsInTime => RowsOnDisk \subseteq RowsOnDisk')
<1>1. /\ dir' \in AfterPowerLoss /\ synced' = dir' /\ buffer' = {} /\ job' = Idle
      /\ UNCHANGED <<now, received, flushes>>
  BY DEF PowerLoss
<1>d. PICK d \in AfterPowerLoss : d = dir'
  BY <1>1
<1>2. /\ \A s \in DOMAIN dir' : IsOfOneSide(s, d)
      /\ DOMAIN dir \cap DOMAIN synced \subseteq DOMAIN dir'
  BY <1>d, AfterPowerLossIs
<1>3. TypeOK' /\ NamesAreOld'
  BY <1>1, <1>d, <1>2 DEF IsOfOneSide, Inv, TypeOK, IsDisk, NamesAreOld, Idle, Jobs, Phases
<1>4. GroupsApart' /\ DoomedAreHeld' /\ MergedIsHeld'
  BY <1>1 DEF GroupsApart, DoomedAreHeld, MergedIsHeld, Idle
<1>5. SyncedFirst'
  BY <1>1 DEF SyncedFirst, IsSettled, Idle
<1>6. SyncsInTime => RowsOnDisk \subseteq RowsOnDisk'
  <2> SUFFICES ASSUME SyncsInTime, NEW r \in RowsOnDisk PROVE r \in RowsOnDisk'
    OBVIOUS
  <2>1. PICK s \in DOMAIN dir \cap DOMAIN synced : r \in DOMAIN dir[s] /\ r \in DOMAIN synced[s]
    BY RowsAreAnchored
  <2>2. s \in DOMAIN dir' /\ r \in DOMAIN dir'[s]
    BY <1>d, <1>2, <2>1 DEF IsOfOneSide
  <2> QED BY <2>2 DEF RowsOnDisk, RowsIn, BagToSet
<1> QED BY <1>3, <1>4, <1>5, <1>6 DEF Inv

-----------------------------------------------------------------------------
(* The theorems.                                                           *)

LEMMA InitHolds == ASSUME Init PROVE Inv
<1>1. TypeOK
  BY DayAssumption, BoundsAssumption
     DEF Init, TypeOK, IsDisk, Jobs, Phases, Idle, DayEnd
<1>2. NamesAreOld /\ GroupsApart /\ DoomedAreHeld /\ MergedIsHeld /\ SyncedFirst
  BY DEF Init, Idle, NamesAreOld, GroupsApart, DoomedAreHeld, MergedIsHeld, SyncedFirst
<1> QED BY <1>1, <1>2 DEF Inv

(* What SegmentStore promises of a step.                                   *)
Grows == RowsOnDisk \subseteq RowsOnDisk'

(* A kill between the rename and the sync of the directory leaves the      *)
(* replacement unsynced; only a power loss makes that matter.              *)
UnsyncedKillIsHarmless == "power" \notin Hazards \/ "kill_unsynced" \notin Hazards

LEMMA StepKeeps ==
  ASSUME Inv, [Next]_vars
  PROVE  Inv' /\ (UnsyncedKillIsHarmless => Grows)
<1>0. UNCHANGED disk => Grows
  BY DEF Grows, RowsOnDisk, RowsIn, disk
<1>t. /\ now \in 0 .. DayEnd /\ received \in 0 .. MaxRows /\ buffer \subseteq Row
      /\ DayEnd \in Nat /\ MaxRows \in Nat
  BY DayAssumption, BoundsAssumption DEF Inv, TypeOK, DayEnd
<1>1. CASE Tick
  <2>1. now' \in 0 .. DayEnd /\ UNCHANGED <<received, buffer, flushes, disk, job>>
    BY <1>1, <1>t DEF Tick
  <2> QED BY <1>0, <1>t, <2>1, ElsewhereKeeps
<1>2. CASE Receive
  <2>1. received' \in 0 .. MaxRows /\ buffer' \subseteq Row
        /\ UNCHANGED <<now, flushes, disk, job>>
    BY <1>2, <1>t DEF Receive, Row
  <2> QED BY <1>0, <1>t, <2>1, ElsewhereKeeps
<1>3. CASE Flush
  <2>1. CommitRows(buffer) /\ buffer # {} /\ buffer' \subseteq Row
        /\ UNCHANGED <<now, received, job>>
    BY <1>3 DEF Flush
  <2> QED BY <1>t, <2>1, CommitKeeps DEF Grows
<1>4. CASE Page
  <2> DEFINE row == [at |-> now, n |-> received + 1]
  <2>1. CommitRows({row}) /\ row \in Row /\ received' \in 0 .. MaxRows
        /\ UNCHANGED <<now, buffer, job>>
    BY <1>4, <1>t DEF Page, Row
  <2> HIDE DEF row
  <2> QED BY <1>t, <2>1, CommitKeeps DEF Grows
<1>5. CASE Compact
  <2>1. CASE TakeHold
    BY <1>0, <2>1, TakeHoldKeeps DEF TakeHold
  <2>2. CASE StartGroup
    BY <1>0, <2>2, StartGroupKeeps DEF StartGroup
  <2>3. CASE RemoveDoomed
    BY <2>3, RemoveDoomedKeeps DEF Grows
  <2>4. CASE DoomedGone
    BY <1>0, <2>4, DoomedGoneKeeps DEF DoomedGone
  <2>5. CASE Merge
    BY <2>5, MergeKeeps DEF Grows
  <2>6. CASE SyncDir
    <3>1. Grows
      BY <2>6 DEF Grows, SyncDir, RowsOnDisk, RowsIn
    <3> QED BY <2>6, <3>1, SyncDirKeeps
  <2>7. CASE DropOriginal
    BY <2>7, DropOriginalKeeps DEF Grows
  <2>8. CASE GroupDone
    <3>1. /\ UNCHANGED <<capture, disk>> /\ job' \in Jobs /\ job'.todo = job.todo
          /\ job'.phase = "listing" /\ job'.group = {} /\ job'.doomed = {}
          /\ job.phase # "syncing"
      BY <2>8 DEF GroupDone, Inv, TypeOK, Jobs, Phases, DoomedAreHeld
    <3> QED BY <1>0, <3>1, NoGroupKeeps
  <2>9. CASE Release
    <3>1. /\ UNCHANGED <<capture, disk>> /\ job' = Idle /\ job.phase # "syncing"
      BY <2>9 DEF Release
    <3> QED BY <1>0, <3>1, NoGroupKeeps DEF Idle, Jobs, Phases
  <2> QED BY <1>5, <2>1, <2>2, <2>3, <2>4, <2>5, <2>6, <2>7, <2>8, <2>9 DEF Compact
<1>6. CASE Kill
  <2>1. /\ UNCHANGED <<capture, disk>> /\ job' = Idle
        /\ SyncsInTime => job.phase # "syncing"
    BY <1>6 DEF Kill, SyncsInTime
  <2> QED BY <1>0, <2>1, NoGroupKeeps DEF Idle, Jobs, Phases
<1>7. CASE PowerLoss
  <2>1. UnsyncedKillIsHarmless => SyncsInTime
    BY <1>7 DEF PowerLoss, UnsyncedKillIsHarmless, SyncsInTime
  <2> QED BY <1>7, <2>1, PowerLossKeeps DEF Grows
<1>8. CASE StartRead \/ OpenSegment \/ EndRead \/ UNCHANGED vars
  <2>1. UNCHANGED <<capture, disk, job>>
    BY <1>8 DEF StartRead, OpenSegment, EndRead, vars
  <2> QED BY <1>0, <1>t, <2>1, ElsewhereKeeps DEF capture
<1> QED BY <1>1, <1>2, <1>3, <1>4, <1>5, <1>6, <1>7, <1>8 DEF Next

(* Names, bags and the compaction's work have their types, and a segment   *)
(* is removed only while another one has its rows: for every day, every    *)
(* bound and whatever may happen.                                          *)
THEOREM PartitionInvariant == Spec => []Inv
<1>1. Init => Inv
  BY InitHolds
<1>2. Inv /\ [Next]_vars => Inv'
  BY StepKeeps
<1> QED BY <1>1, <1>2, PTL DEF Spec

(* compact.rs: order is the whole safety argument.  The partition          *)
(* implements SegmentStore: no step of capture, of a compaction, of a kill *)
(* or of a power loss takes a row from a reader's listing.                 *)
THEOREM PartitionKeepsRows ==
  ASSUME UnsyncedKillIsHarmless
  PROVE  Spec => CommittedRowsStay
<1>1. Init => Store!Init
  BY DEF Init, Store!Init, RowsOnDisk, RowsIn
<1>2. Inv => RowsOnDisk \subseteq Row
  BY DEF Inv, TypeOK, IsDisk, RowsOnDisk, RowsIn, BagToSet
<1>3. Inv /\ [Next]_vars => [Store!Commit]_RowsOnDisk
  <2> SUFFICES ASSUME Inv, [Next]_vars PROVE Store!Commit
    OBVIOUS
  <2>1. Inv' /\ RowsOnDisk \subseteq RowsOnDisk'
    BY StepKeeps DEF Grows
  <2>2. RowsOnDisk' \subseteq Row
    <3>1. \A s \in DOMAIN dir' : DOMAIN dir'[s] \subseteq Row
      BY <2>1 DEF Inv, TypeOK, IsDisk
    <3> QED BY <3>1 DEF RowsOnDisk, RowsIn, BagToSet
  <2> QED BY <2>1, <2>2 DEF Store!Commit
<1> QED BY <1>1, <1>3, PartitionInvariant, PTL DEF Spec, CommittedRowsStay, Store!Spec

(* A reader and a compaction do not hold the root together, and a listing  *)
(* not yet read is all there: what the reader opens next is on disk.       *)
HoldIsExclusive ==
  /\ reading \in [held : BOOLEAN, left : SUBSET DOMAIN dir]
  /\ reading.held => job.phase = "idle"
  /\ ~reading.held => reading.left = {}

(* hold.rs: compaction waits for readers, so a listing stays good until    *)
(* the reader has opened all of it.                                        *)
THEOREM ReaderFindsWhatItListed == Spec => []ReaderFindsAll
<1>1. Init => HoldIsExclusive
  BY DEF Init, Nobody, HoldIsExclusive
<1>2. ASSUME HoldIsExclusive, [Next]_vars PROVE HoldIsExclusive'
  <2>1. CASE Tick \/ Receive \/ Kill \/ UNCHANGED vars
    BY <1>2, <2>1 DEF HoldIsExclusive, Tick, Receive, Kill, Idle, disk, reader, vars
  <2>2. CASE Flush \/ Page
    <3>1. \E rows : CommitRows(rows)
      BY <2>2 DEF Flush, Page
    <3>2. DOMAIN dir \subseteq DOMAIN dir'
      BY <3>1 DEF CommitRows, With
    <3>3. UNCHANGED <<job, reading>>
      BY <2>2 DEF Flush, Page, reader
    <3> QED BY <1>2, <3>2, <3>3 DEF HoldIsExclusive
  <2>3. CASE TakeHold
    BY <1>2, <2>3 DEF TakeHold, HoldIsExclusive, disk, reader
  <2>4. CASE Compact /\ ~TakeHold
    <3>1. job.phase # "idle" /\ UNCHANGED reading
      BY <2>4 DEF Compact, StartGroup, RemoveDoomed, DoomedGone, Merge, SyncDir,
                  DropOriginal, GroupDone, Release, reader
    <3>2. reading = Nobody
      BY <1>2, <3>1 DEF HoldIsExclusive, Nobody
    <3> QED BY <3>1, <3>2 DEF HoldIsExclusive, Nobody
  <2>5. CASE PowerLoss
    BY <2>5 DEF PowerLoss, HoldIsExclusive, Nobody
  <2>6. CASE StartRead
    BY <1>2, <2>6 DEF StartRead, HoldIsExclusive, disk
  <2>7. CASE OpenSegment
    <3>1. PICK s \in reading.left : reading' = [reading EXCEPT !.left = reading.left \ {s}]
      BY <2>7 DEF OpenSegment
    <3> QED BY <1>2, <2>7, <3>1 DEF OpenSegment, HoldIsExclusive, disk
  <2>8. CASE EndRead
    BY <2>8 DEF EndRead, HoldIsExclusive, Nobody
  <2> QED BY <1>2, <2>1, <2>2, <2>3, <2>4, <2>5, <2>6, <2>7, <2>8 DEF Next
<1>3. HoldIsExclusive => ReaderFindsAll
  BY DEF HoldIsExclusive, ReaderFindsAll
<1> QED BY <1>1, <1>2, <1>3, PTL DEF Spec

-----------------------------------------------------------------------------
(* The second invariant: while every segment was flushed in the order of   *)
(* receipt and no removal was undone.  Two segments are apart in time, or  *)
(* one was merged from the other; what was merged holds nothing that was   *)
(* merged in its turn, since a group is cleared before it is merged.       *)

Apart(s, t) == s.last < t.first \/ t.last < s.first
Nests(w, s) == Wider(w, s) /\ DOMAIN dir[s] \subseteq DOMAIN dir[w]

InReceiptOrder ==
  /\ \A s \in DOMAIN dir :
       /\ s.first <= s.last /\ s.last < now
       /\ \A r \in DOMAIN dir[s] : r.at \in s.first .. s.last
       /\ \A r \in buffer : s.last < r.at
  /\ \A r \in buffer : r.at <= now

OneMergeDeep ==
  /\ \A s, t \in DOMAIN dir : s = t \/ Apart(s, t) \/ Nests(s, t) \/ Nests(t, s)
  /\ \A s, t, u \in DOMAIN dir : ~(Wider(s, t) /\ Wider(t, u))

(* A group leaves out nothing that nests with it or lies inside its span.  *)
SameHour(g) == \A s, t \in g : HourOf(s) = HourOf(t)
IsWhole(g) ==
  /\ \A s \in g, t \in DOMAIN dir : Wider(s, t) \/ Wider(t, s) => t \in g
  /\ \A s, t \in g, u \in DOMAIN dir : s.last <= u.last /\ u.last <= t.last => u \in g
  /\ DayClosed \/ SameHour(g)
AllApart(g) == \A s, t \in g : s = t \/ Apart(s, t)

GroupsWhole ==
  /\ \A g \in job.todo : IsWhole(g)
  /\ job.phase \in {"removing", "merging"} =>
       IsWhole(job.group) /\ AllApart(job.group \ job.doomed)
  /\ DayClosed \/ \A s, t \in DOMAIN dir : Wider(s, t) => HourOf(s) = HourOf(t)

OnlyFlushed == ~paged /\ losses = 0
Ordered == InReceiptOrder /\ OneMergeDeep /\ GroupsWhole /\ NoRowTwice
FlushInv == losses \in Nat /\ (OnlyFlushed => Ordered)

-----------------------------------------------------------------------------
(* Lemmas about the operators, for the second invariant.                   *)

(* A sum over one element.                                                 *)
LEMMA SumOfOne ==
  ASSUME NEW a, NEW r, dir[a][r] \in Int
  PROVE  MapThenSumSet(LAMBDA s : dir[s][r], {a}) = dir[a][r]
<1> DEFINE pick(q) == CHOOSE x \in q : TRUE
           Sums(it) == it = [q \in SUBSET {a} |->
                               IF q = {} THEN 0 ELSE dir[pick(q)][r] + it[q \ {pick(q)}]]
           iter == CHOOSE it : Sums(it)
<1>1. MapThenSumSet(LAMBDA s : dir[s][r], {a}) = iter[{a}]
  BY DEF MapThenSumSet, MapThenFoldSet
<1>2. pick({a}) = a
  OBVIOUS
<1>3. \E it : Sums(it)
  <2> DEFINE it == [q \in SUBSET {a} |-> IF q = {} THEN 0 ELSE dir[a][r]]
  <2>1. it[{}] = 0 /\ it[{a}] = dir[a][r] /\ DOMAIN it = {{}, {a}}
    OBVIOUS
  <2>2. Sums(it)
    BY <1>2, <2>1
  <2> QED BY <2>2
<1>4. Sums(iter)
  BY <1>3
<1> HIDE DEF iter, pick
<1>5. iter[{}] = 0 /\ iter[{a}] = dir[a][r] + iter[{a} \ {a}]
  BY <1>2, <1>4
<1>6. {a} \ {a} = {}
  OBVIOUS
<1>7. iter[{a}] = dir[a][r]
  BY <1>5, <1>6
<1> QED BY <1>1, <1>7

(* merge: a row that one segment of the group has once, it has once.       *)
LEMMA CountedOnce ==
  ASSUME NEW g, NEW s \in g, NEW r \in DOMAIN dir[s], dir[s][r] = 1,
         \A t \in g : r \in DOMAIN dir[t] => t = s
  PROVE  MergedBag(g)[r] = 1
<1>1. {t \in g : r \in BagToSet(dir[t])} = {s}
  BY DEF BagToSet
<1>2. MergedBag(g)[r] = MapThenSumSet(LAMBDA t : dir[t][r], {t \in g : r \in BagToSet(dir[t])})
  BY DEF MergedBag, RowsIn, BagToSet
<1>3. dir[s][r] \in Int
  OBVIOUS
<1> QED BY <1>1, <1>2, <1>3, SumOfOne

(* Of the hours of the clock: what \div gives, and that it is monotone.    *)
LEMMA Quotient ==
  ASSUME NEW a \in Nat, NEW h \in Nat \ {0}
  PROVE  /\ a \div h \in Nat
         /\ h * (a \div h) <= a
         /\ a < h * (a \div h) + h
OBVIOUS

LEMMA Monotone ==
  ASSUME NEW h \in Nat \ {0}, NEW p \in Nat, NEW q \in Nat, p < q
  PROVE  h * p + h <= h * q
<1>1. q - p - 1 \in Nat
  OBVIOUS
<1>2. h * (q - p - 1) >= 0
  BY <1>1
<1>3. h * (q - p - 1) = h * q - h * p - h
  OBVIOUS
<1> QED BY <1>2, <1>3

LEMMA MonotoneQuotient ==
  ASSUME NEW h \in Nat \ {0}, NEW a \in Nat, NEW b \in Nat, a <= b
  PROVE  a \div h <= b \div h
<1> DEFINE p == a \div h
           q == b \div h
<1>1. p \in Nat /\ q \in Nat /\ h * p <= a /\ b < h * q + h
  BY Quotient
<1> HIDE DEF p, q
<1>2. CASE q < p
  <2>1. h * q + h <= h * p
    BY <1>1, <1>2, Monotone
  <2>2. h * p \in Nat /\ h * q \in Nat
    BY <1>1
  <2> QED BY <1>1, <2>1, <2>2
<1> QED BY <1>1, <1>2

(* Cutoff does not divide an hour.                                         *)
LEMMA BeforeCutoff ==
  ASSUME NEW h \in Nat \ {0}, NEW a \in Nat, NEW b \in Nat, NEW n \in Nat,
         a < h * (n \div h), b \div h = a \div h
  PROVE  b < h * (n \div h)
<1> DEFINE p == a \div h
           q == n \div h
<1>1. p \in Nat /\ q \in Nat /\ h * p <= a /\ b < h * p + h
  BY Quotient
<1>2. a < h * q
  OBVIOUS
<1> HIDE DEF p, q
<1>3. h * p \in Nat /\ h * q \in Nat
  BY <1>1
<1>4. p < q
  <2>1. CASE q <= p
    <3>1. h * q <= h * p
      <4>1. q = p \/ q < p
        BY <1>1, <2>1
      <4> QED BY <1>1, <1>3, <4>1, Monotone
    <3> QED BY <1>1, <1>2, <1>3, <3>1
  <2> QED BY <1>1, <2>1
<1>5. h * p + h <= h * q
  BY <1>1, <1>4, Monotone
<1>6. b < h * q
  BY <1>1, <1>3, <1>5
<1> QED BY <1>6 DEF q

LEMMA Segments ==
  ASSUME TypeOK, InReceiptOrder, NEW s \in DOMAIN dir
  PROVE  s \in Name /\ s.first \in Nat /\ s.last \in Nat /\ s.first <= s.last
<1>1. s \in Name /\ DayEnd \in Nat
  BY DayAssumption DEF TypeOK, IsDisk, DayEnd
<1> QED BY <1>1 DEF Name, InReceiptOrder

(* Of two segments apart, neither has a row of the other.                  *)
LEMMA ApartShareNoRow ==
  ASSUME TypeOK, InReceiptOrder, NEW s \in DOMAIN dir, NEW t \in DOMAIN dir, Apart(s, t)
  PROVE  DOMAIN dir[s] \cap DOMAIN dir[t] = {}
<1> SUFFICES ASSUME NEW r \in DOMAIN dir[s], r \in DOMAIN dir[t] PROVE FALSE
  OBVIOUS
<1>1. r.at \in s.first .. s.last /\ r.at \in t.first .. t.last
  BY DEF InReceiptOrder
<1> QED BY <1>1, Segments DEF Apart

(* superseded, in receipt order: exactly what lies inside another segment. *)
LEMMA SupersededIsContained ==
  ASSUME TypeOK, InReceiptOrder, OneMergeDeep, NoRowTwice, NEW g, g \subseteq DOMAIN dir
  PROVE  Superseded(g) = Contained(g) /\ AllApart(g \ Contained(g))
<1> DEFINE tops == g \ Contained(g)
<1>0. \A s \in g : s.first \in Nat /\ s.last \in Nat /\ s.first <= s.last /\ s.seq \in Nat
  BY Segments DEF Name
<1>1. AllApart(tops)
  BY DEF AllApart, Contained, OneMergeDeep, Nests
<1>2. ASSUME NEW s \in g, NEW w \in g, Wider(w, s)
      PROVE  w \in tops /\ Container(g, s) = w
  <2>1. w \in tops
    BY <1>2 DEF Contained, OneMergeDeep
  <2> DEFINE before == {v \in tops : Before(v, s)}
             Last(x) == \A v \in before : v = x \/ Before(v, x)
  <2>2. w \in before
    BY <1>0, <1>2, <2>1 DEF Before, Wider
  <2>3. Last(w)
    BY <1>0, <1>1, <1>2, <2>1 DEF AllApart, Apart, Before, Wider
  <2>4. \A x \in before : Last(x) => x = w
    BY <1>0, <2>2, <2>3 DEF Before
  <2> HIDE DEF before, Last
  <2>5. w = CHOOSE x \in before : Last(x)
    BY <2>2, <2>3, <2>4
  <2>6. Container(g, s) = CHOOSE x \in before : Last(x)
    BY DEF Container, before, Last
  <2> QED BY <2>1, <2>5, <2>6
<1>3. Contained(g) \subseteq Superseded(g)
  <2> SUFFICES ASSUME NEW s \in Contained(g) PROVE s \in Superseded(g)
    OBVIOUS
  <2>1. PICK w \in g : Wider(w, s)
    BY DEF Contained
  <2> DEFINE inside == {t \in Contained(g) : Container(g, t) = w}
  <2>2. s \in g /\ s \in inside /\ w \in tops
    BY <1>2, <2>1 DEF Contained
  <2>3. \A t \in inside : t \in g /\ Wider(w, t)
    BY <1>2 DEF Contained
  <2>4. ASSUME NEW t \in inside
        PROVE  dir[t] \sqsubseteq Left(w, {d \in inside : Before(d, t)})
    <3> DEFINE spent == {d \in inside : Before(d, t)}
    <3>1. \A d \in spent : DOMAIN dir[d] \cap DOMAIN dir[t] = {}
      <4> TAKE d \in spent
      <4>1. d # t /\ Apart(d, t)
        BY <1>0, <2>3 DEF Before, OneMergeDeep, Nests
      <4> QED BY <2>3, <4>1, ApartShareNoRow
    <3>2. DOMAIN dir[t] \subseteq DOMAIN dir[w]
      <4>1. ~Apart(w, t) /\ w # t /\ ~Wider(t, w)
        BY <1>0, <2>3 DEF Apart, Wider
      <4> QED BY <2>3, <4>1 DEF OneMergeDeep, Nests
    <3>3. DOMAIN MergedBag(spent) \cap DOMAIN dir[t] = {}
      BY <3>1, MergedBagRows
    <3> HIDE DEF spent
    <3>4. ASSUME NEW r \in DOMAIN dir[t]
          PROVE  r \in DOMAIN Left(w, spent) /\ Left(w, spent)[r] = 1 /\ dir[t][r] = 1
      <4>1. r \in DOMAIN dir[w] /\ r \notin DOMAIN MergedBag(spent)
        BY <3>2, <3>3
      <4>2. dir[w][r] = 1 /\ dir[t][r] = 1
        BY <2>3, <4>1 DEF NoRowTwice, BagToSet
      <4> QED BY <4>1, <4>2 DEF Left, (-)
    <3> QED BY <3>4 DEF \sqsubseteq, spent
  <2>5. inside \subseteq Proven(g, w)
    <3>1. \A t \in inside :
             t \in inside <=> dir[t] \sqsubseteq Left(w, {d \in inside : Before(d, t)})
      BY <2>4
    <3> QED BY <3>1 DEF Proven
  <2> QED BY <2>2, <2>5 DEF Superseded
<1>4. Superseded(g) \subseteq Contained(g)
  BY DEF Superseded, Proven
<1> QED BY <1>1, <1>3, <1>4

-----------------------------------------------------------------------------
(* The steps, while only flushes commit and no power is lost.              *)

(* The directory as it was, and the compaction with no group to clear.     *)
LEMMA OrderedElsewhere ==
  ASSUME Inv, Ordered, UNCHANGED dir,
         now' \in {now, now + 1}, buffer' \subseteq buffer \cup {r \in Row : r.at = now},
         \/ UNCHANGED job
         \/ job'.todo \subseteq job.todo /\ job'.phase \notin {"removing", "merging"}
  PROVE  Ordered'
<1>0. now \in 0 .. DayEnd /\ DayEnd \in Nat /\ buffer \subseteq Row /\ \A r \in Row : r.at \in Nat
  BY DayAssumption DEF Inv, TypeOK, DayEnd, Row
<1>1. InReceiptOrder'
  <2>1. \A s \in DOMAIN dir : s.last \in Nat
    BY Segments DEF Inv, Ordered
  <2> QED BY <1>0, <2>1 DEF Ordered, InReceiptOrder
<1>2. OneMergeDeep' /\ NoRowTwice'
  BY DEF Ordered, OneMergeDeep, Nests, NoRowTwice
<1>3. DayClosed => DayClosed'
  BY <1>0 DEF DayClosed
<1>4. \A g : IsWhole(g) => IsWhole(g)'
  BY <1>3 DEF IsWhole, SameHour
<1>5. GroupsWhole'
  BY <1>3, <1>4 DEF Ordered, GroupsWhole, AllApart
<1> QED BY <1>1, <1>2, <1>5 DEF Ordered

(* Flush: every frame in the buffer came after the last flush.             *)
LEMMA OrderedFlush ==
  ASSUME Inv, Ordered, Flush
  PROVE  Ordered'
<1> DEFINE times == {r.at : r \in buffer}
<1> PICK name : name = [first |-> Least(times), last |-> Greatest(times), seq |-> flushes + 1]
  OBVIOUS
<1>1. /\ dir' = With(name, SetToBag(buffer))
      /\ buffer # {} /\ buffer' = {} /\ UNCHANGED <<now, job>>
      /\ \A r \in buffer : r.at < now
  BY DEF Flush, CommitRows
<1>2. /\ now \in 0 .. DayEnd /\ DayEnd \in Nat /\ buffer \subseteq Row
      /\ \A r \in buffer : r.at \in 0 .. DayEnd
  BY DayAssumption DEF Inv, TypeOK, DayEnd, Row
<1>3. /\ name.first \in times /\ name.last \in times
      /\ \A k \in times : name.first <= k /\ k <= name.last
  <2>1. times \in SUBSET (0 .. DayEnd) /\ times # {}
    BY <1>1, <1>2
  <2> QED BY <2>1, TimesHaveEnds
<1>4. /\ name.first \in Nat /\ name.last \in Nat /\ name.first <= name.last /\ name.last < now
      /\ \A r \in buffer : r.at \in name.first .. name.last
  BY <1>1, <1>2, <1>3
<1>5. \A s \in DOMAIN dir : s.last < name.first
  BY <1>3 DEF Ordered, InReceiptOrder
<1> HIDE DEF times
<1>6. /\ \A s \in DOMAIN dir : s.first \in Nat /\ s.last \in Nat /\ s.first <= s.last
  BY Segments DEF Inv, Ordered
<1>7. /\ DOMAIN dir' = DOMAIN dir \cup {name} /\ name \notin DOMAIN dir
      /\ \A s \in DOMAIN dir : dir'[s] = dir[s]
      /\ DOMAIN dir'[name] = buffer /\ \A r \in buffer : dir'[name][r] = 1
  <2>1. name \notin DOMAIN dir
    BY <1>4, <1>5, <1>6
  <2>2. dir'[name] = [r \in buffer |-> 1]
    BY <1>1 DEF With, SetToBag
  <2> QED BY <1>1, <2>1, <2>2 DEF With
<1>8. InReceiptOrder'
  BY <1>1, <1>4, <1>7 DEF Ordered, InReceiptOrder
<1>9. \A s \in DOMAIN dir : Apart(s, name) /\ ~Wider(s, name) /\ ~Wider(name, s)
  BY <1>4, <1>5, <1>6 DEF Apart, Wider
<1>10. ~Wider(name, name)
  BY <1>4 DEF Wider
<1>11. OneMergeDeep'
  <2>1. \A s, t \in DOMAIN dir : Nests(s, t) => Nests(s, t)'
    BY <1>7 DEF Nests
  <2>2. \A s \in DOMAIN dir : Apart(name, s)
    BY <1>9 DEF Apart
  <2>3. \A s, t \in DOMAIN dir' : s = t \/ Apart(s, t) \/ Nests(s, t)' \/ Nests(t, s)'
    BY <1>7, <1>9, <2>1, <2>2 DEF Ordered, OneMergeDeep
  <2>4. \A s, t, u \in DOMAIN dir' : ~(Wider(s, t) /\ Wider(t, u))
    BY <1>7, <1>9, <1>10 DEF Ordered, OneMergeDeep
  <2> QED BY <2>3, <2>4 DEF OneMergeDeep
<1>12. NoRowTwice'
  BY <1>7 DEF Ordered, NoRowTwice, BagToSet
<1>13. GroupsWhole'
  <2>1. ASSUME NEW g, g \subseteq DOMAIN dir, IsWhole(g) PROVE IsWhole(g)'
    <3>1. \A s \in g, t \in DOMAIN dir' : Wider(s, t) \/ Wider(t, s) => t \in g
      BY <1>7, <1>9, <2>1 DEF IsWhole
    <3>2. \A t \in g : ~(name.last <= t.last)
      BY <1>4, <1>5, <1>6, <2>1
    <3>3. \A s, t \in g, u \in DOMAIN dir' : s.last <= u.last /\ u.last <= t.last => u \in g
      BY <1>7, <2>1, <3>2 DEF IsWhole
    <3>4. (DayClosed \/ SameHour(g))'
      BY <1>1, <2>1 DEF IsWhole, DayClosed, SameHour
    <3> QED BY <3>1, <3>3, <3>4 DEF IsWhole
  <2>2. \A g \in job.todo : IsWhole(g)'
    BY <2>1 DEF Inv, GroupsApart, Ordered, GroupsWhole
  <2>3. job.phase \in {"removing", "merging"} => IsWhole(job.group)'
    BY <1>1, <2>1 DEF Inv, GroupsApart, Ordered, GroupsWhole
  <2>4. DayClosed' \/ \A s, t \in DOMAIN dir' : Wider(s, t) => HourOf(s) = HourOf(t)
    BY <1>1, <1>7, <1>9, <1>10 DEF Ordered, GroupsWhole, DayClosed
  <2> QED BY <1>1, <2>2, <2>3, <2>4 DEF Ordered, GroupsWhole, AllApart
<1> QED BY <1>8, <1>11, <1>12, <1>13 DEF Ordered

(* Groups: of the closed day, or of an hour that has closed.               *)
LEMMA OrderedTakeHold ==
  ASSUME Inv, Ordered, TakeHold
  PROVE  Ordered'
<1>1. /\ UNCHANGED <<now, buffer, dir>>
      /\ job'.phase = "listing" /\ job'.todo = Groups
  BY DEF TakeHold, Inv, TypeOK, Jobs, capture, disk
<1>2. InReceiptOrder' /\ OneMergeDeep' /\ NoRowTwice'
  BY <1>1 DEF Ordered, InReceiptOrder, OneMergeDeep, Nests, NoRowTwice
<1>3. ASSUME NEW g \in Groups PROVE IsWhole(g)
  <2>1. CASE DayClosed
    BY <1>3, <2>1 DEF Groups, IsWhole
  <2>2. CASE ~DayClosed
    <3>1. PICK i : g = {s \in DOMAIN dir : s.last < Cutoff /\ HourOf(s) = i}
      BY <1>3, <2>2 DEF Groups, HourGroups
    <3>2. now \in Nat /\ HourTicks \in Nat \ {0} /\ \A s \in DOMAIN dir : s.last \in Nat
      BY Segments, DayAssumption DEF Inv, Ordered, TypeOK, DayEnd
    <3>3. \A s \in g, t \in DOMAIN dir : HourOf(t) = HourOf(s) => t \in g
      BY <3>1, <3>2, BeforeCutoff DEF HourOf, Cutoff
    <3>4. \A s \in g, t \in DOMAIN dir : Wider(s, t) \/ Wider(t, s) => t \in g
      BY <2>2, <3>1, <3>3 DEF Ordered, GroupsWhole
    <3>5. ASSUME NEW s \in g, NEW t \in g, NEW u \in DOMAIN dir,
                 s.last <= u.last, u.last <= t.last
          PROVE  u \in g
      <4>1. HourOf(s) <= HourOf(u) /\ HourOf(u) <= HourOf(t) /\ HourOf(s) = HourOf(t)
        BY <3>1, <3>2, <3>5, MonotoneQuotient DEF HourOf
      <4>2. HourOf(s) \in Nat /\ HourOf(u) \in Nat
        BY <3>1, <3>2, Quotient DEF HourOf
      <4> QED BY <3>3, <4>1, <4>2
    <3>6. SameHour(g)
      BY <3>1 DEF SameHour
    <3> QED BY <3>4, <3>5, <3>6 DEF IsWhole
  <2> QED BY <2>1, <2>2
<1>4. GroupsWhole'
  <2>1. \A g : IsWhole(g) => IsWhole(g)'
    BY <1>1 DEF IsWhole, DayClosed, SameHour
  <2> QED BY <1>1, <1>3, <2>1 DEF Ordered, GroupsWhole, DayClosed
<1> QED BY <1>2, <1>4 DEF Ordered

(* superseded finds all that is nested, so what is left of a group to be   *)
(* merged is apart.                                                        *)
LEMMA OrderedStartGroup ==
  ASSUME Inv, Ordered, StartGroup
  PROVE  Ordered'
<1>1. UNCHANGED <<now, buffer, dir>>
  BY DEF StartGroup, capture, disk
<1>2. PICK g \in job.todo :
        job' = [phase |-> "removing", todo |-> job.todo \ {g}, group |-> g,
                doomed |-> Superseded(g)]
  BY DEF StartGroup
<1>3. InReceiptOrder' /\ OneMergeDeep' /\ NoRowTwice'
  BY <1>1 DEF Ordered, InReceiptOrder, OneMergeDeep, Nests, NoRowTwice
<1>4. AllApart(g \ Superseded(g)) /\ IsWhole(g)
  <2>1. g \subseteq DOMAIN dir
    BY DEF Inv, GroupsApart
  <2> QED BY <2>1, SupersededIsContained DEF Inv, Ordered, GroupsWhole
<1>5. GroupsWhole'
  <2>1. \A h : IsWhole(h) => IsWhole(h)'
    BY <1>1 DEF IsWhole, DayClosed, SameHour
  <2>2. job'.phase = "removing" /\ job'.group = g /\ job'.doomed = Superseded(g)
        /\ job'.todo = job.todo \ {g}
    BY <1>2
  <2>3. AllApart(job.group \ job.doomed)'
    BY <1>4, <2>2 DEF AllApart
  <2>4. IsWhole(job.group)' /\ \A h \in job'.todo : IsWhole(h)'
    BY <1>4, <2>1, <2>2 DEF Ordered, GroupsWhole
  <2> QED BY <1>1, <2>2, <2>3, <2>4 DEF Ordered, GroupsWhole, DayClosed
<1> QED BY <1>3, <1>5 DEF Ordered

LEMMA OrderedDoomedGone ==
  ASSUME Inv, Ordered, DoomedGone
  PROVE  Ordered'
<1>1. /\ UNCHANGED <<now, buffer, dir>> /\ job.phase = "removing" /\ job.doomed = {}
      /\ \/ job'.todo = job.todo /\ job'.phase = "listing"
         \/ /\ job'.todo = job.todo /\ job'.phase = "merging"
            /\ job'.group = job.group /\ job'.doomed = {}
  BY DEF DoomedGone, Inv, TypeOK, Jobs, capture, disk
<1>2. CASE job'.phase = "listing"
  <2>1. now' \in {now, now + 1} /\ buffer' \subseteq buffer \cup {r \in Row : r.at = now}
    BY <1>1
  <2>2. job'.todo \subseteq job.todo /\ job'.phase \notin {"removing", "merging"}
    BY <1>1, <1>2
  <2> QED BY <1>1, <2>1, <2>2, OrderedElsewhere
<1>3. CASE job'.phase = "merging"
  <2>1. InReceiptOrder' /\ OneMergeDeep' /\ NoRowTwice'
    BY <1>1 DEF Ordered, InReceiptOrder, OneMergeDeep, Nests, NoRowTwice
  <2>2. \A h : IsWhole(h) => IsWhole(h)'
    BY <1>1 DEF IsWhole, DayClosed, SameHour
  <2>3. \A h : AllApart(h) => AllApart(h)'
    BY DEF AllApart
  <2>4. GroupsWhole'
    BY <1>1, <1>3, <2>2, <2>3 DEF Ordered, GroupsWhole, DayClosed
  <2> QED BY <2>1, <2>4 DEF Ordered
<1> QED BY <1>1, <1>2, <1>3

(* RemoveDoomed and DropOriginal.                                          *)
LEMMA OrderedRemoval ==
  ASSUME Inv, Ordered, UNCHANGED <<now, buffer>>, NEW s \in job.group,
         dir' = Without({s}),
         job'.phase = job.phase, job'.todo = job.todo, job'.group = job.group \ {s},
         job'.doomed = job.doomed \ {s}, job.phase = "dropping" \/ s \in job.doomed
  PROVE  Ordered'
<1>1. /\ DOMAIN dir' = DOMAIN dir \ {s}
      /\ \A t \in DOMAIN dir' : dir'[t] = dir[t]
  BY DEF Without
<1>2. InReceiptOrder' /\ OneMergeDeep' /\ NoRowTwice'
  <2>1. InReceiptOrder'
    BY <1>1 DEF Ordered, InReceiptOrder
  <2>2. OneMergeDeep'
    BY <1>1 DEF Ordered, OneMergeDeep, Nests
  <2>3. NoRowTwice'
    BY <1>1 DEF Ordered, NoRowTwice
  <2> QED BY <2>1, <2>2, <2>3
<1>3. ASSUME NEW g, IsWhole(g) PROVE IsWhole(g \ {s})'
  BY <1>1, <1>3 DEF IsWhole, DayClosed, SameHour
<1>4. \A g \in job.todo : g \ {s} = g
  BY DEF Inv, GroupsApart, SharesNoLast
<1>5. \A g \in job.todo : IsWhole(g)'
  BY <1>3, <1>4 DEF Ordered, GroupsWhole
<1>6. job.phase \in {"removing", "merging"} =>
        IsWhole(job.group \ {s})' /\ AllApart(job'.group \ job'.doomed)
  <2>1. job.phase \in {"removing", "merging"} =>
          job'.group \ job'.doomed = job.group \ job.doomed
    OBVIOUS
  <2> QED BY <1>3, <2>1 DEF Ordered, GroupsWhole
<1>7. GroupsWhole'
  <2>1. IsWhole(job.group \ {s})' => IsWhole(job.group)'
    BY DEF IsWhole, SameHour
  <2>2. AllApart(job'.group \ job'.doomed) => AllApart(job.group \ job.doomed)'
    BY DEF AllApart
  <2> QED BY <1>1, <1>5, <1>6, <2>1, <2>2 DEF Ordered, GroupsWhole, DayClosed
<1> QED BY <1>2, <1>7 DEF Ordered

(* merge: the replacement spans its group and is apart from everything     *)
(* else, and what it was merged from is nested in it and in nothing more.  *)
LEMMA OrderedMerge ==
  ASSUME Inv, Ordered, Merge
  PROVE  Ordered'
<1> DEFINE g == job.group
<1> PICK m : m = MergedName(g)
  OBVIOUS
<1>1. /\ UNCHANGED <<now, buffer>> /\ job.phase = "merging"
      /\ dir' = With(m, MergedBag(g))
      /\ job'.phase = "syncing" /\ job'.todo = job.todo
  BY DEF Merge, Inv, TypeOK, Jobs, capture
<1>2. /\ g \subseteq DOMAIN dir /\ IsWhole(g) /\ AllApart(g)
      /\ \A h \in job.todo : h \subseteq DOMAIN dir /\ SharesNoLast(g, h) /\ IsWhole(h)
  <2>1. job.doomed = {} /\ g \ {} = g
    BY <1>1 DEF Inv, DoomedAreHeld
  <2> QED BY <1>1, <2>1 DEF Inv, GroupsApart, Ordered, GroupsWhole
<1>3. /\ m.first \in Nat /\ m.last \in Nat
      /\ \E a \in g : m.first = a.first
      /\ \E b \in g : m.last = b.last
      /\ \A s \in g : m.first <= s.first /\ s.last <= m.last
      /\ m \in DOMAIN dir => m \in g
  <2>1. g \in SUBSET Name /\ g # {}
    BY <1>1, TwoOfThem DEF Inv, TypeOK, Jobs, MergedIsHeld
  <2>2. m \in Name /\ DayEnd \in Nat
    BY <2>1, MergedNameEnds, DayAssumption DEF DayEnd
  <2>3. m \in DOMAIN dir => m \in g
    BY <1>1, <2>1, MergedNameEnds DEF Inv, GroupsApart, HasMerged
  <2>4. m.first \in Nat /\ m.last \in Nat
    BY <2>2 DEF Name
  <2> QED BY <2>1, <2>3, <2>4, MergedNameEnds
<1>4. \A s \in DOMAIN dir : s.first \in Nat /\ s.last \in Nat /\ s.first <= s.last
  BY Segments DEF Inv, Ordered
<1>5. ASSUME NEW s \in g PROVE Wider(m, s)
  <2>1. PICK t \in g : t # s
    BY <1>1, TwoOfThem DEF Inv, MergedIsHeld
  <2>2. Apart(s, t)
    BY <1>2, <2>1 DEF AllApart, Apart
  <2> QED BY <1>2, <1>3, <1>4, <2>1, <2>2 DEF Apart, Wider
<1>6. m \notin DOMAIN dir
  BY <1>3, <1>5 DEF Wider
<1>7. ASSUME NEW u \in DOMAIN dir \ g PROVE Apart(u, m)
  <2>1. PICK a \in g : m.first = a.first
    BY <1>3
  <2>2. PICK b \in g : m.last = b.last
    BY <1>3
  <2>3. Apart(u, a) /\ Apart(u, b)
    BY <1>2, <1>7 DEF IsWhole, Ordered, OneMergeDeep, Nests
  <2>4. ~(a.last <= u.last /\ u.last <= b.last)
    BY <1>2, <1>7 DEF IsWhole
  <2> QED BY <1>2, <1>3, <1>4, <2>1, <2>2, <2>3, <2>4 DEF Apart
<1>8. /\ DOMAIN dir' = DOMAIN dir \cup {m}
      /\ \A s \in DOMAIN dir : dir'[s] = dir[s]
      /\ dir'[m] = MergedBag(g)
      /\ \A r : r \in DOMAIN dir'[m] <=> \E s \in g : r \in DOMAIN dir[s]
  BY <1>1, <1>6, MergedBagRows DEF With
<1>9. \A u \in DOMAIN dir \ g : ~Wider(u, m) /\ ~Wider(m, u)
  <2>1. m.first <= m.last
    BY <1>2, <1>3, <1>4
  <2> QED BY <1>3, <1>4, <1>7, <2>1 DEF Apart, Wider
<1>10. \A s \in g \cup {m} : ~Wider(s, m)
  BY <1>2, <1>3, <1>4, <1>5 DEF Wider
<1>11. InReceiptOrder'
  <2>1. m.first <= m.last /\ m.last < now /\ \A r \in buffer : m.last < r.at
    BY <1>2, <1>3, <1>4 DEF Ordered, InReceiptOrder
  <2>2. \A r \in DOMAIN dir'[m] : r.at \in m.first .. m.last
    <3> TAKE r \in DOMAIN dir'[m]
    <3>1. PICK s \in g : r \in DOMAIN dir[s]
      BY <1>8
    <3>2. r.at \in s.first .. s.last
      BY <1>2, <3>1 DEF Ordered, InReceiptOrder
    <3> QED BY <1>2, <1>3, <1>4, <3>2
  <2> QED BY <1>1, <1>8, <2>1, <2>2 DEF Ordered, InReceiptOrder
<1>12. OneMergeDeep'
  <2>1. \A s, t \in DOMAIN dir : Nests(s, t) => Nests(s, t)'
    BY <1>8 DEF Nests
  <2>2. \A s \in g : Nests(m, s)'
    BY <1>2, <1>5, <1>8 DEF Nests
  <2>3. \A u \in DOMAIN dir \ g : Apart(u, m) /\ Apart(m, u)
    BY <1>7 DEF Apart
  <2>4. \A s, t \in DOMAIN dir' : s = t \/ Apart(s, t) \/ Nests(s, t)' \/ Nests(t, s)'
    BY <1>8, <2>1, <2>2, <2>3 DEF Ordered, OneMergeDeep
  <2>5. ASSUME NEW s \in g, NEW t \in DOMAIN dir PROVE ~Wider(s, t)
    <3>1. CASE t \in g
      BY <1>2, <1>4, <3>1 DEF AllApart, Apart, Wider
    <3>2. CASE t \notin g
      BY <1>2, <3>2 DEF IsWhole
    <3> QED BY <3>1, <3>2
  <2>6. \A s, t, u \in DOMAIN dir' : ~(Wider(s, t) /\ Wider(t, u))
    BY <1>8, <1>9, <1>10, <2>5 DEF Ordered, OneMergeDeep
  <2> QED BY <2>4, <2>6 DEF OneMergeDeep
<1>13. GroupsWhole'
  <2>1. ASSUME NEW h \in job.todo PROVE IsWhole(h)'
    <3>1. h \subseteq DOMAIN dir \ g
      BY <1>2 DEF SharesNoLast
    <3>2. \A s \in h, t \in DOMAIN dir' : Wider(s, t) \/ Wider(t, s) => t \in h
      BY <1>2, <1>8, <1>9, <3>1 DEF IsWhole
    <3>3. \A s, t \in h : ~(s.last <= m.last /\ m.last <= t.last)
      <4>1. PICK b \in g : m.last = b.last
        BY <1>3
      <4> QED BY <1>2, <3>1, <4>1 DEF IsWhole
    <3>4. \A s, t \in h, u \in DOMAIN dir' : s.last <= u.last /\ u.last <= t.last => u \in h
      BY <1>2, <1>8, <3>3 DEF IsWhole
    <3>5. (DayClosed \/ SameHour(h))'
      BY <1>1, <1>2 DEF IsWhole, DayClosed, SameHour
    <3> QED BY <3>2, <3>4, <3>5 DEF IsWhole
  <2>2. DayClosed' \/ \A s, t \in DOMAIN dir' : Wider(s, t) => HourOf(s) = HourOf(t)
    <3>1. PICK b \in g : m.last = b.last
      BY <1>3
    <3>2. HourOf(m) = HourOf(b)
      BY <3>1 DEF HourOf
    <3>3. DayClosed \/ \A s \in g : HourOf(m) = HourOf(s)
      BY <1>2, <3>1, <3>2 DEF IsWhole, SameHour
    <3> QED BY <1>1, <1>8, <1>9, <1>10, <3>3 DEF Ordered, GroupsWhole, DayClosed
  <2> QED BY <1>1, <2>1, <2>2 DEF GroupsWhole
<1>14. NoRowTwice'
  <2>1. ASSUME NEW r \in DOMAIN dir'[m] PROVE dir'[m][r] = 1
    <3>1. PICK s \in g : r \in DOMAIN dir[s]
      BY <1>8
    <3>2. dir[s][r] = 1
      BY <1>2, <3>1 DEF Ordered, NoRowTwice, BagToSet
    <3>3. ASSUME NEW t \in g, r \in DOMAIN dir[t] PROVE t = s
      BY <1>2, <3>1, <3>3, ApartShareNoRow DEF AllApart, Inv, Ordered
    <3> QED BY <1>8, <3>1, <3>2, <3>3, CountedOnce
  <2> QED BY <1>8, <2>1 DEF Ordered, NoRowTwice, BagToSet
<1> QED BY <1>11, <1>12, <1>13, <1>14 DEF Ordered

LEMMA OrderedStep ==
  ASSUME Inv, FlushInv, [Next]_vars
  PROVE  FlushInv'
<1>1. losses' \in Nat /\ (OnlyFlushed' => OnlyFlushed /\ ~PowerLoss /\ ~Page)
  <2>1. CASE PowerLoss
    BY <2>1 DEF PowerLoss, FlushInv, OnlyFlushed
  <2>2. CASE Page
    BY <2>2 DEF Page, FlushInv, OnlyFlushed, faults
  <2>3. CASE ~PowerLoss /\ ~Page
    <3>1. UNCHANGED <<losses, paged>>
      <4>1. CASE Compact
        BY <4>1 DEF Compact, TakeHold, StartGroup, RemoveDoomed, DoomedGone, Merge, SyncDir,
                    DropOriginal, GroupDone, Release, faults
      <4>2. CASE Tick \/ Receive \/ Flush \/ Kill
        BY <4>2 DEF Tick, Receive, Flush, Kill, faults
      <4>3. CASE StartRead \/ OpenSegment \/ EndRead \/ UNCHANGED vars
        BY <4>3 DEF StartRead, OpenSegment, EndRead, vars, faults
      <4> QED BY <2>3, <4>1, <4>2, <4>3 DEF Next
    <3> QED BY <2>3, <3>1 DEF FlushInv, OnlyFlushed
  <2> QED BY <2>1, <2>2, <2>3
<1> SUFFICES ASSUME Ordered, ~PowerLoss, ~Page PROVE Ordered'
  BY <1>1 DEF FlushInv
<1>2. CASE Tick \/ Receive
  <2>1. /\ UNCHANGED <<dir, job>> /\ now' \in {now, now + 1}
        /\ buffer' \subseteq buffer \cup {r \in Row : r.at = now}
    <3>1. now \in 0 .. DayEnd /\ received \in 0 .. MaxRows /\ MaxRows \in Nat /\ DayEnd \in Nat
      BY DayAssumption, BoundsAssumption DEF Inv, TypeOK, DayEnd
    <3> QED BY <1>2, <3>1 DEF Tick, Receive, Row, disk
  <2> QED BY <2>1, OrderedElsewhere
<1>3. CASE Flush
  BY <1>3, OrderedFlush
<1>4. CASE Compact
  <2>1. CASE TakeHold
    BY <2>1, OrderedTakeHold
  <2>2. CASE StartGroup
    BY <2>2, OrderedStartGroup
  <2>3. CASE RemoveDoomed
    <3>1. PICK s \in job.doomed :
            /\ dir' = Without({s})
            /\ job' = [job EXCEPT !.doomed = job.doomed \ {s}, !.group = job.group \ {s}]
      BY <2>3 DEF RemoveDoomed
    <3>2. s \in job.group
      BY DEF Inv, DoomedAreHeld
    <3>3. /\ job'.phase = job.phase /\ job'.todo = job.todo
          /\ job'.group = job.group \ {s} /\ job'.doomed = job.doomed \ {s}
      BY <3>1 DEF Inv, TypeOK, Jobs
    <3>4. UNCHANGED <<now, buffer>>
      BY <2>3 DEF RemoveDoomed, capture
    <3> QED BY <3>1, <3>2, <3>3, <3>4, OrderedRemoval
  <2>4. CASE DoomedGone
    BY <2>4, OrderedDoomedGone
  <2>5. CASE Merge
    BY <2>5, OrderedMerge
  <2>6. CASE DropOriginal
    <3>1. PICK s \in job.group :
            dir' = Without({s}) /\ job' = [job EXCEPT !.group = job.group \ {s}]
      BY <2>6 DEF DropOriginal
    <3>2. /\ job'.phase = job.phase /\ job'.todo = job.todo
          /\ job'.group = job.group \ {s} /\ job'.doomed = job.doomed
          /\ job.phase = "dropping" /\ job.doomed = {}
      BY <2>6, <3>1 DEF DropOriginal, Inv, TypeOK, Jobs, DoomedAreHeld
    <3>3. UNCHANGED <<now, buffer>>
      BY <2>6 DEF DropOriginal, capture
    <3> QED BY <3>1, <3>2, <3>3, OrderedRemoval
  <2>7. CASE SyncDir \/ GroupDone \/ Release
    <3>1. UNCHANGED <<now, buffer, dir>>
      BY <2>7 DEF SyncDir, GroupDone, Release, capture, disk
    <3>2. job'.todo \subseteq job.todo /\ job'.phase \notin {"removing", "merging"}
      <4>1. job \in Jobs
        BY DEF Inv, TypeOK
      <4>2. CASE SyncDir
        <5>1. job'.todo = job.todo /\ job'.phase = "dropping"
          BY <4>1, <4>2 DEF SyncDir, Jobs
        <5> QED BY <5>1
      <4>3. CASE GroupDone
        BY <4>1, <4>3 DEF GroupDone, Jobs
      <4>4. CASE Release
        BY <4>4 DEF Release, Idle
      <4> QED BY <2>7, <4>2, <4>3, <4>4
    <3>3. now' \in {now, now + 1} /\ buffer' \subseteq buffer \cup {r \in Row : r.at = now}
      BY <3>1
    <3> QED BY <3>1, <3>2, <3>3, OrderedElsewhere
  <2> QED BY <1>4, <2>1, <2>2, <2>3, <2>4, <2>5, <2>6, <2>7 DEF Compact
<1>5. CASE Kill
  <2>1. UNCHANGED <<now, buffer, dir>> /\ job' = Idle
    BY <1>5 DEF Kill, capture, disk
  <2>2. job'.todo \subseteq job.todo /\ job'.phase \notin {"removing", "merging"}
    BY <2>1 DEF Idle
  <2>3. now' \in {now, now + 1} /\ buffer' \subseteq buffer \cup {r \in Row : r.at = now}
    BY <2>1
  <2> QED BY <2>1, <2>2, <2>3, OrderedElsewhere
<1>6. CASE StartRead \/ OpenSegment \/ EndRead \/ UNCHANGED vars
  <2>1. UNCHANGED <<now, buffer, dir, job>>
    BY <1>6 DEF StartRead, OpenSegment, EndRead, vars, capture, disk
  <2>2. now' \in {now, now + 1} /\ buffer' \subseteq buffer \cup {r \in Row : r.at = now}
    BY <2>1
  <2> QED BY <2>1, <2>2, OrderedElsewhere
<1> QED BY <1>2, <1>3, <1>4, <1>5, <1>6 DEF Next

(* compact_set, superseded: while only flushes commit and no removal is    *)
(* undone, a compaction killed anywhere is recognised and finished, so no  *)
(* segment ever holds a row twice.                                         *)
THEOREM CompactedRowsOnce == Spec => []FlushedRowsOnce
<1>1. Init => FlushInv
  <2> SUFFICES ASSUME Init PROVE FlushInv
    OBVIOUS
  <2>1. Ordered
    BY DEF Init, Idle, Ordered, InReceiptOrder, OneMergeDeep, GroupsWhole, NoRowTwice
  <2> QED BY <2>1 DEF Init, FlushInv
<1>2. Inv /\ FlushInv /\ [Next]_vars => FlushInv'
  BY OrderedStep
<1>3. FlushInv => FlushedRowsOnce
  BY DEF FlushInv, OnlyFlushed, Ordered, FlushedRowsOnce
<1> QED BY <1>1, <1>2, <1>3, PartitionInvariant, PTL DEF Spec

=============================================================================
