---------------------------- MODULE PartsProofs ----------------------------
(***************************************************************************)
(* Theorems about the smaller components, as Parts has them side by side:  *)
(* the listing cache, the commit of a file, polls, sub-accounts, replays,  *)
(* returns, the walk of a boot and an account's book, each for all values  *)
(* of its constants that its assumptions leave.                            *)
(***************************************************************************)
EXTENDS Parts, FiniteSetTheorems, SequenceTheorems, WellFoundedInduction, TLAPS

-----------------------------------------------------------------------------
(* A set of naturals that is not empty has a least element.                *)
LEMMA LeastNat ==
  ASSUME NEW S \in SUBSET Nat, S # {}
  PROVE  \E x \in S : \A y \in S : x <= y
<1>1. IsWellFoundedOn(OpToRel(<, Nat), Nat)
  BY NatLessThanWellFounded
<1>2. PICK m \in S : \A k \in S : ~(<<k, m>> \in OpToRel(<, Nat))
  BY <1>1, WFMin
<1>3. \A k \in S : ~(k < m)
  BY <1>2 DEF OpToRel
<1> QED BY <1>3

(* One with an upper bound has a greatest element.                         *)
LEMMA GreatestNat ==
  ASSUME NEW S \in SUBSET Nat, S # {}, NEW b \in Nat, \A k \in S : k <= b
  PROVE  \E x \in S : \A y \in S : x >= y
<1> DEFINE Bounds == {u \in Nat : \A k \in S : k <= u}
<1>1. Bounds \in SUBSET Nat /\ Bounds # {}
  OBVIOUS
<1>2. PICK u \in Bounds : \A v \in Bounds : u <= v
  BY <1>1, LeastNat
<1>3. CASE u \in S
  BY <1>3
<1>4. CASE u \notin S
  <2>1. \A k \in S : k < u
    BY <1>4
  <2>2. PICK k \in S : TRUE
    OBVIOUS
  <2>3. u - 1 \in Nat /\ \A j \in S : j <= u - 1
    BY <2>1, <2>2
  <2> QED BY <1>2, <2>3
<1> QED BY <1>3, <1>4

-----------------------------------------------------------------------------
(* Parts is a union: the part that moves never changes, and its steps are  *)
(* those of its own specification.                                         *)
LEMMA OnePartMoves ==
  ASSUME [PartsNext]_partsVars
  PROVE  /\ part' = part
         /\ part = "segment" => [Segment!Next]_(Segment!vars)
         /\ part = "listing" => [Listing!Next]_(Listing!vars)
         /\ part = "poll" => [Poll!Next]_(Poll!vars)
         /\ part = "discovery" => [Subs!Next]_(Subs!vars)
         /\ part = "replay" => [Replayed!Next]_(Replayed!vars)
         /\ part = "grid" => [Returned!Next]_(Returned!vars)
         /\ part = "walk" => [History!Next]_(History!vars)
         /\ part = "book" => [Book!Next]_(Book!vars)
<1>1. part' = part
  BY DEF PartsNext, partsVars
<1>2. part = "segment" => [Segment!Next]_(Segment!vars)
  BY DEF PartsNext, partsVars, segmentVars, Segment!vars
<1>3. part = "listing" => [Listing!Next]_(Listing!vars)
  BY DEF PartsNext, partsVars, listingVars, Listing!vars
<1>4. part = "poll" => [Poll!Next]_(Poll!vars)
  BY DEF PartsNext, partsVars, pollVars, Poll!vars
<1>5. part = "discovery" => [Subs!Next]_(Subs!vars)
  BY DEF PartsNext, partsVars, discoveryVars, Subs!vars, Subs!memory
<1>6. part = "replay" => [Replayed!Next]_(Replayed!vars)
  BY DEF PartsNext, partsVars, replayVars, Replayed!vars
<1>7. part = "grid" => [Returned!Next]_(Returned!vars)
  BY DEF PartsNext, partsVars, gridVars, Returned!vars
<1>8. part = "walk" => [History!Next]_(History!vars)
  BY DEF PartsNext, partsVars, walkVars, History!vars
<1>9. part = "book" => [Book!Next]_(Book!vars)
  BY DEF PartsNext, partsVars, bookVars, Book!vars
<1> QED BY <1>1, <1>2, <1>3, <1>4, <1>5, <1>6, <1>7, <1>8, <1>9

-----------------------------------------------------------------------------
(* SegmentFile.                                                            *)
Places == {"writing", "comparing", "syncing", "renaming", "dir"}
File == [version : Versions \cup {0}, whole : BOOLEAN, synced : BOOLEAN]
Safe == {f \in File : f = Segment!NoFile \/ (f.whole /\ f.synced /\ f.version \in Versions)}

(***************************************************************************)
(* The strengthening.  CommitIsDurable is not inductive: whether a rename  *)
(* shows a whole file depends on what the writer did to its temporary, and *)
(* whether a segment found in place is durable on every earlier commit     *)
(* having ended with the sync of the directory.                            *)
(***************************************************************************)
FileTypes ==
  /\ keeps \in BOOLEAN
  /\ partition = "durable"
  /\ writer \in {Segment!Idle} \cup [at : Places, version : Versions]
  /\ temp \in File

(* Every rename has put in place a file that was whole and synced.         *)
EntriesAreSafe == possible \subseteq Safe /\ visible \in possible

(* What the writer has done to its temporary by each place.                *)
TempIsWritten ==
  /\ writer.at = "writing" => temp.version = writer.version
  /\ writer.at \in {"comparing", "syncing"} =>
       temp.whole /\ temp.version = writer.version
  /\ writer.at = "renaming" => temp.whole /\ temp.synced /\ temp.version = writer.version
  /\ writer.at = "dir" => visible.version = writer.version
  /\ writer.at = "comparing" => keeps

(* Outside the rename of a segment its directory is synced.                *)
SegmentIsSettled == keeps /\ writer.at # "dir" => possible = {visible}

PromisesAreKept ==
  promised # {} => \A f \in possible : f.version \in promised

FileInv ==
  /\ FileTypes
  /\ EntriesAreSafe
  /\ TempIsWritten
  /\ SegmentIsSettled
  /\ PromisesAreKept

-----------------------------------------------------------------------------
(* A power loss leaves of a synced file what was synced: of files that are *)
(* all safe, the survivors are among them (writer.rs, finish: sync_all     *)
(* before rename).                                                         *)
LEMMA SurvivorsWereThere ==
  ASSUME possible \subseteq Safe
  PROVE  Segment!Surviving \subseteq possible
<1>1. ASSUME NEW f \in possible, NEW intact \in BOOLEAN
      PROVE  Segment!Survivor(f, intact) = f
  <2>1. f \in File /\ (f = Segment!NoFile \/ (f.whole /\ f.synced /\ f.version \in Versions))
    BY DEF Safe
  <2>2. CASE f = Segment!NoFile
    <3>1. f.version = 0 /\ f.whole = FALSE /\ f.synced = FALSE
      BY <2>2 DEF Segment!NoFile
    <3>2. Segment!Survivor(f, intact) = [version |-> 0, whole |-> FALSE, synced |-> FALSE]
      BY <2>2, <3>1, Zenon DEF Segment!Survivor
    <3> QED BY <2>2, <3>2 DEF Segment!NoFile
  <2>3. CASE f # Segment!NoFile
    <3>1. f.whole = TRUE /\ f.synced = TRUE
      BY <2>1, <2>3 DEF File
    <3>2. Segment!Survivor(f, intact) = [version |-> f.version, whole |-> TRUE, synced |-> TRUE]
      BY <2>3, <3>1, Zenon DEF Segment!Survivor
    <3>3. f = [version |-> f.version, whole |-> TRUE, synced |-> TRUE]
      BY <2>1, <3>1 DEF File
    <3> QED BY <3>2, <3>3
  <2> QED BY <2>2, <2>3
<1>2. SUFFICES ASSUME NEW g \in Segment!Surviving
               PROVE  g \in possible
  OBVIOUS
<1>3. PICK f \in possible, intact \in BOOLEAN : g = Segment!Survivor(f, intact)
  BY <1>2 DEF Segment!Surviving
<1> QED BY <1>1, <1>3

LEMMA FileInvInit ==
  ASSUME "new_partition" \notin SegmentHazards
  PROVE  Segment!Init => FileInv
<1> SUFFICES ASSUME Segment!Init PROVE FileInv
  OBVIOUS
<1>1. Segment!NoFile \in File
  BY DEF Segment!NoFile, File
<1>2. FileTypes
  BY <1>1 DEF Segment!Init, FileTypes
<1>3. EntriesAreSafe
  BY <1>1 DEF Segment!Init, EntriesAreSafe, Safe
<1>4. TempIsWritten
  BY DEF Segment!Init, TempIsWritten, Segment!Idle
<1>5. SegmentIsSettled /\ PromisesAreKept
  BY DEF Segment!Init, SegmentIsSettled, PromisesAreKept
<1> QED BY <1>2, <1>3, <1>4, <1>5 DEF FileInv

(* One case for each step the writer takes, and one for each of the three  *)
(* ways it is stopped.                                                     *)
LEMMA FileInvNext ==
  ASSUME "unsynced_entry" \notin SegmentHazards, "new_partition" \notin SegmentHazards,
         FileInv, [Segment!Next]_(Segment!vars)
  PROVE  FileInv'
<1> USE DEF FileInv, FileTypes, File, Places, Segment!Idle, Safe, EntriesAreSafe, TempIsWritten,
            SegmentIsSettled, PromisesAreKept
<1>1. CASE Segment!Create
  BY <1>1 DEF Segment!Create
<1>2. CASE Segment!Write
  <2>1. writer.at = "writing" /\ writer.version \in Versions /\ temp.version = writer.version
    BY <1>2 DEF Segment!Write, Segment!At
  <2>2. /\ temp' \in File /\ temp'.whole = TRUE /\ temp'.version = writer.version
        /\ UNCHANGED <<keeps, partition, visible, possible, promised>>
    BY <1>2, <2>1 DEF Segment!Write, Segment!At
  <2>3. /\ writer' \in [at : Places, version : Versions] /\ writer'.version = writer.version
        /\ writer'.at = IF keeps THEN "comparing" ELSE "syncing"
    BY <1>2, <2>1 DEF Segment!Write, Segment!Goes
  <2>4. FileTypes' /\ TempIsWritten'
    BY <2>2, <2>3
  <2>5. EntriesAreSafe' /\ SegmentIsSettled' /\ PromisesAreKept'
    BY <2>1, <2>2, <2>3
  <2> QED BY <2>4, <2>5
<1>3. CASE Segment!WriteFails
  BY <1>3 DEF Segment!WriteFails, Segment!At, Segment!NoFile
<1>4. CASE Segment!AlreadyThere
  BY <1>4 DEF Segment!AlreadyThere, Segment!At, Segment!SameBytes, Segment!NoFile
<1>5. CASE Segment!NotThere
  BY <1>5 DEF Segment!NotThere, Segment!At, Segment!Goes
<1>6. CASE Segment!Sync
  <2>1. /\ writer.at = "syncing" /\ writer.version \in Versions
        /\ temp.whole = TRUE /\ temp.version = writer.version
    BY <1>6 DEF Segment!Sync, Segment!At
  <2>2. /\ temp' \in File /\ temp'.whole = TRUE /\ temp'.synced = TRUE
        /\ temp'.version = writer.version
        /\ UNCHANGED <<keeps, partition, visible, possible, promised>>
    BY <1>6, <2>1 DEF Segment!Sync, Segment!Synced, Segment!At
  <2>3. /\ writer' \in [at : Places, version : Versions] /\ writer'.version = writer.version
        /\ writer'.at = "renaming"
    BY <1>6, <2>1 DEF Segment!Sync, Segment!Goes
  <2>4. FileTypes' /\ TempIsWritten'
    BY <2>2, <2>3
  <2>5. EntriesAreSafe' /\ SegmentIsSettled' /\ PromisesAreKept'
    BY <2>1, <2>2, <2>3
  <2> QED BY <2>4, <2>5
<1>7. CASE Segment!Rename
  BY <1>7 DEF Segment!Rename, Segment!At, Segment!Goes, Segment!NoFile
<1>8. CASE Segment!SyncOrRenameFails
  BY <1>8 DEF Segment!SyncOrRenameFails, Segment!At, Segment!NoFile
<1>9. CASE Segment!SyncDir
  BY <1>9 DEF Segment!SyncDir, Segment!At
<1>10. CASE Segment!SyncDirFails
  BY <1>10 DEF Segment!SyncDirFails, Segment!At, Segment!Strikes
<1>11. CASE Segment!Kill
  BY <1>11 DEF Segment!Kill, Segment!Strikes
<1>12. CASE Segment!PowerLoss
  <2>1. visible' \in Segment!Surviving /\ partition' = "durable"
    BY <1>12 DEF Segment!PowerLoss
  <2>2. visible' \in possible
    BY <2>1, SurvivorsWereThere
  <2> QED
    BY <1>12, <2>1, <2>2 DEF Segment!PowerLoss, Segment!NoFile
<1>13. CASE UNCHANGED Segment!vars
  BY <1>13 DEF Segment!vars
<1> QED
  BY <1>1, <1>2, <1>3, <1>4, <1>5, <1>6, <1>7, <1>8, <1>9, <1>10, <1>11, <1>12, <1>13
     DEF Segment!Next

LEMMA FileInvImpliesDurable == FileInv => Segment!CommitIsDurable
BY DEF FileInv, EntriesAreSafe, PromisesAreKept, Segment!CommitIsDurable, Safe

(***************************************************************************)
(* writer.rs, "Order is the whole safety argument": a file is whole or not *)
(* there, and what a caller was told is committed is found after any power *)
(* loss, for any number of commits and failures.                           *)
(***************************************************************************)
THEOREM Durable ==
  ASSUME "unsynced_entry" \notin SegmentHazards, "new_partition" \notin SegmentHazards
  PROVE  PartsSpec => []CommitIsDurable
<1>1. PartsInit => (part = "segment" => FileInv)
  BY FileInvInit DEF PartsInit, SegmentInit
<1>2. (part = "segment" => FileInv) /\ [PartsNext]_partsVars => (part = "segment" => FileInv)'
  BY OnePartMoves, FileInvNext
<1>3. (part = "segment" => FileInv) => CommitIsDurable
  BY FileInvImpliesDurable DEF CommitIsDurable
<1> QED BY <1>1, <1>2, <1>3, PTL DEF PartsSpec
-----------------------------------------------------------------------------
(* ListingCache.                                                           *)
OneWalker == /\ \E w \in Walkers : Walkers = {w}
             /\ Margin \in Nat /\ WalkTime \in Nat /\ WalkTime <= Margin
             /\ \E S : Dirs \in Seq(S) /\ Dirs # <<>>

CacheEntry == [known : {TRUE}, modified : Nat, entries : Nat, trusted : BOOLEAN]
Walking == [at : {"stat", "read", "insert", "settle", "done"}, dir : Nat \ {0}, started : Nat,
            begun : [Listing!Places -> Nat], seen : Seq(Nat), out : Seq(Nat)]

(* How far a walk has come: what it has stat'ed and what it has read.      *)
WalkShape(W) ==
  /\ W \in Walking
  /\ W.at \in {"stat", "read", "insert"} => W.dir <= Len(Dirs)
  /\ W.at \in {"settle", "done"} => W.dir = Len(Dirs) + 1
  /\ Len(W.seen) = W.dir - (IF W.at \in {"read", "insert"} THEN 0 ELSE 1)
  /\ Len(W.out) = W.dir - (IF W.at = "insert" THEN 0 ELSE 1)

ListingTypes ==
  /\ now \in Nat
  /\ held \in [Listing!Places -> Nat] /\ modified \in [Listing!Places -> Nat]
  /\ cache \in [Listing!Places -> {Listing!Unlisted} \cup CacheEntry]
  /\ DOMAIN walk = Walkers

(* No mtime is of the future, and none goes back.                          *)
Timely(W) ==
  /\ W.started <= now /\ now <= W.started + WalkTime
  /\ \A d \in DOMAIN W.seen : W.seen[d] <= modified[d]

(* What a walk has said so far is not from before it began.                *)
NotFromBefore(W) ==
  /\ \A d \in Listing!Places : W.begun[d] <= held[d]
  /\ \A d \in DOMAIN W.out : W.begun[d] <= W.out[d] /\ W.out[d] <= held[d]

(***************************************************************************)
(* The strengthening.  A listing that is trusted is older than the clock,  *)
(* so no change still to come leaves its mtime as it was.                  *)
(***************************************************************************)
TrustInv ==
  \A d \in Listing!Places : cache[d] # Listing!Unlisted /\ cache[d].trusted =>
    /\ cache[d].modified < now
    /\ cache[d].modified = modified[d] => cache[d].entries = held[d]

(* And what a walk has read or kept may be stale, under the mtime it saw,  *)
(* only if that mtime is of its own time.                                  *)
ReadCurrent(W, d, entries) ==
  W.seen[d] = modified[d] => entries = held[d] \/ W.started <= W.seen[d]
ReadFresh(W) ==
  /\ W.at # "done" => \A d \in 1 .. W.dir - 1 :
       /\ cache[d] # Listing!Unlisted /\ cache[d].modified = W.seen[d]
       /\ ReadCurrent(W, d, cache[d].entries)
  /\ W.at = "insert" => ReadCurrent(W, W.dir, W.out[W.dir])

GoodWalk(W) ==
  W = Listing!Resting \/ (WalkShape(W) /\ Timely(W) /\ NotFromBefore(W) /\ ReadFresh(W))
ListingInv ==
  /\ ListingTypes /\ TrustInv
  /\ \A d \in Listing!Places : modified[d] <= now
  /\ \A w \in Walkers : GoodWalk(walk[w])

-----------------------------------------------------------------------------
(* Max, of what a walk has seen.                                           *)
LEMMA GreatestOf ==
  ASSUME NEW S \in SUBSET Nat, S # {}, NEW b \in Nat, \A k \in S : k <= b
  PROVE  Listing!Max(S) \in S
<1>1. \E x \in S : \A y \in S : x >= y
  BY GreatestNat
<1> QED BY <1>1, Zenon DEF Listing!Max

LEMMA PlacesAre ==
  ASSUME OneWalker
  PROVE  Len(Dirs) \in Nat /\ Len(Dirs) >= 1 /\ Listing!Places = 1 .. Len(Dirs)
BY DEF OneWalker, Listing!Places

(* What the shape says of a walk's parts.                                  *)
LEMMA ShapeFacts ==
  ASSUME OneWalker, NEW W, WalkShape(W)
  PROVE  /\ W.at # "rest" /\ W # Listing!Resting /\ W.dir \in Nat /\ W.dir >= 1 /\ W.started \in Nat
         /\ W.begun \in [Listing!Places -> Nat] /\ W.seen \in Seq(Nat) /\ W.out \in Seq(Nat)
         /\ W.dir <= Len(Dirs) + 1
         /\ DOMAIN W.seen \subseteq Listing!Places /\ 1 .. W.dir - 1 \subseteq DOMAIN W.seen
         /\ DOMAIN W.out \subseteq Listing!Places
         /\ W.at = "insert" => W.dir \in DOMAIN W.seen /\ W.dir \in DOMAIN W.out
<1>1. W \in Walking /\ W.at # "rest" /\ W # Listing!Resting
  BY DEF WalkShape, Walking, Listing!Resting
<1>2. /\ W.dir \in Nat /\ W.dir >= 1 /\ W.started \in Nat
      /\ W.begun \in [Listing!Places -> Nat] /\ W.seen \in Seq(Nat) /\ W.out \in Seq(Nat)
      /\ W.at \in {"stat", "read", "insert", "settle", "done"}
  BY <1>1 DEF Walking
<1>3. /\ W.dir <= Len(Dirs) + 1
      /\ W.at \in {"read", "insert"} => W.dir <= Len(Dirs) /\ Len(W.seen) = W.dir
      /\ W.at \notin {"read", "insert"} => Len(W.seen) = W.dir - 1
      /\ W.at = "insert" => Len(W.out) = W.dir
      /\ W.at # "insert" => Len(W.out) = W.dir - 1
  BY <1>2, PlacesAre DEF WalkShape
<1>4. DOMAIN W.seen = 1 .. Len(W.seen) /\ DOMAIN W.out = 1 .. Len(W.out)
  BY <1>2
<1> QED BY <1>1, <1>2, <1>3, <1>4, PlacesAre, SMTT(30)

LEMMA ListingInvInit ==
  ASSUME OneWalker, Listing!Init
  PROVE  ListingInv
<1>1. ListingTypes
  BY DEF Listing!Init, ListingTypes
<1> QED
  BY <1>1 DEF Listing!Init, ListingInv, TrustInv, GoodWalk, Listing!Unlisted

(* Time passes no faster than a walk may last.                             *)
LEMMA ListingInvTick ==
  ASSUME OneWalker, ListingInv, Listing!Tick
  PROVE  ListingInv'
<1>1. now' = now + 1 /\ UNCHANGED <<held, modified, cache, walk>>
  BY DEF Listing!Tick
<1>2. ListingTypes'
  BY <1>1 DEF ListingInv, ListingTypes
<1>3. TrustInv'
  <2>1. \A d \in Listing!Places : cache[d] # Listing!Unlisted => cache[d].modified \in Nat
    BY DEF ListingInv, ListingTypes, CacheEntry
  <2> QED BY <1>1, <2>1 DEF ListingInv, ListingTypes, TrustInv
<1>4. \A d \in Listing!Places : modified'[d] <= now'
  BY <1>1 DEF ListingInv, ListingTypes
<1>5. ASSUME NEW w \in Walkers, walk[w] # Listing!Resting
      PROVE  GoodWalk(walk[w])'
  <2>1. WalkShape(walk[w]) /\ Timely(walk[w]) /\ NotFromBefore(walk[w]) /\ ReadFresh(walk[w])
    BY <1>5 DEF ListingInv, GoodWalk
  <2>2. walk[w].at # "rest" /\ walk[w].started \in Nat
    BY <2>1, ShapeFacts
  <2>3. now < walk[w].started + WalkTime
    BY <2>2 DEF Listing!Tick
  <2>4. Timely(walk[w])'
    BY <1>1, <2>1, <2>2, <2>3 DEF Timely, ListingInv, ListingTypes, OneWalker
  <2>5. WalkShape(walk[w])' /\ NotFromBefore(walk[w])' /\ ReadFresh(walk[w])'
    BY <1>1, <2>1 DEF WalkShape, NotFromBefore, ReadFresh, ReadCurrent
  <2> QED BY <2>4, <2>5 DEF GoodWalk
<1>6. \A w \in Walkers : GoodWalk(walk[w])'
  BY <1>1, <1>5 DEF GoodWalk
<1> QED BY <1>2, <1>3, <1>4, <1>6 DEF ListingInv

(* A change leaves an mtime no older than the walk under way.              *)
LEMMA ListingInvChange ==
  ASSUME OneWalker, ListingInv, NEW c \in Listing!Places, Listing!Change(c)
  PROVE  ListingInv'
<1>1. /\ held' = [held EXCEPT ![c] = @ + 1] /\ modified' = [modified EXCEPT ![c] = now]
      /\ UNCHANGED <<now, cache, walk>>
  BY DEF Listing!Change
<1>2. ListingTypes'
  BY <1>1 DEF ListingInv, ListingTypes
<1>3. \A d \in Listing!Places : /\ held[d] \in Nat /\ held'[d] \in Nat /\ held[d] <= held'[d]
                                /\ modified[d] \in Nat /\ modified'[d] \in Nat
                                /\ modified[d] <= modified'[d] /\ modified'[d] <= now
                                /\ d # c => held'[d] = held[d] /\ modified'[d] = modified[d]
                                /\ modified'[c] = now
  BY <1>1 DEF ListingInv, ListingTypes
<1>4. TrustInv'
  <2>1. \A d \in Listing!Places : cache[d] # Listing!Unlisted => cache[d].modified \in Nat
    BY DEF ListingInv, ListingTypes, CacheEntry
  <2> QED BY <1>1, <1>3, <2>1 DEF ListingInv, ListingTypes, TrustInv
<1>5. ASSUME NEW w \in Walkers, walk[w] # Listing!Resting
      PROVE  GoodWalk(walk[w])'
  <2> DEFINE W == walk[w]
  <2>1. WalkShape(W) /\ Timely(W) /\ NotFromBefore(W) /\ ReadFresh(W)
    BY <1>5 DEF ListingInv, GoodWalk
  <2>2. /\ W.started \in Nat /\ W.begun \in [Listing!Places -> Nat] /\ W.seen \in Seq(Nat)
        /\ W.out \in Seq(Nat) /\ DOMAIN W.seen \subseteq Listing!Places
        /\ DOMAIN W.out \subseteq Listing!Places
        /\ 1 .. W.dir - 1 \subseteq DOMAIN W.seen
        /\ W.at = "insert" => W.dir \in DOMAIN W.seen
    BY <2>1, ShapeFacts
  <2>3. W' = W
    BY <1>1
  <2> HIDE DEF W
  <2>4. \A d \in DOMAIN W.seen : W.seen[d] \in Nat /\ d \in Listing!Places
    BY <2>2
  <2>5. \A d \in DOMAIN W.out : W.out[d] \in Nat /\ d \in Listing!Places
    BY <2>2
  <2>6. Timely(W)'
    BY <1>1, <1>3, <2>1, <2>3, <2>4 DEF Timely
  <2>7. NotFromBefore(W)'
    <3>1. \A d \in Listing!Places : W.begun[d] <= held'[d]
      <4>1. \A d \in Listing!Places : W.begun[d] \in Nat /\ W.begun[d] <= held[d]
        BY <2>1, <2>2 DEF NotFromBefore
      <4> QED BY <1>3, <4>1
    <3>2. \A d \in DOMAIN W.out : W.begun[d] <= W.out[d] /\ W.out[d] <= held'[d]
      <4>1. \A d \in DOMAIN W.out : W.begun[d] <= W.out[d] /\ W.out[d] <= held[d]
        BY <2>1 DEF NotFromBefore
      <4> QED BY <1>3, <2>5, <4>1
    <3> QED BY <2>3, <3>1, <3>2 DEF NotFromBefore
  <2>8. ASSUME NEW d \in DOMAIN W.seen, NEW e, ReadCurrent(W, d, e)
        PROVE  ReadCurrent(W, d, e)'
    <3>1. CASE d = c
      BY <1>1, <1>3, <2>1, <2>3, <2>4, <3>1 DEF ReadCurrent, Timely
    <3>2. CASE d # c
      BY <1>1, <1>3, <2>3, <2>4, <2>8, <3>2 DEF ReadCurrent
    <3> QED BY <3>1, <3>2
  <2>9. ReadFresh(W)'
    <3>1. ASSUME W.at # "done", NEW d \in 1 .. W.dir - 1
          PROVE  /\ cache[d] # Listing!Unlisted /\ cache[d].modified = W.seen[d]
                 /\ ReadCurrent(W, d, cache[d].entries)'
      <4>1. /\ d \in DOMAIN W.seen /\ cache[d] # Listing!Unlisted /\ cache[d].modified = W.seen[d]
            /\ ReadCurrent(W, d, cache[d].entries)
        BY <2>1, <2>2, <3>1 DEF ReadFresh
      <4>2. cache' = cache
        BY <1>1
      <4> HIDE <1>1
      <4>3. \A e : ReadCurrent(W, d, e) => ReadCurrent(W, d, e)'
        BY <2>8, <4>1
      <4> QED BY <4>1, <4>2, <4>3
    <3>2. ASSUME W.at = "insert" PROVE ReadCurrent(W, W.dir, W.out[W.dir])'
      BY <2>1, <2>2, <2>3, <2>8, <3>2 DEF ReadFresh, ReadCurrent
    <3> QED BY <1>1, <2>3, <3>1, <3>2 DEF ReadFresh
  <2> QED BY <2>1, <2>3, <2>6, <2>7, <2>9 DEF GoodWalk, WalkShape, W
<1>6. \A w \in Walkers : GoodWalk(walk[w])'
  BY <1>1, <1>5 DEF GoodWalk
<1> QED BY <1>1, <1>2, <1>3, <1>4, <1>6 DEF ListingInv

-----------------------------------------------------------------------------
(* A step of the walker: what is to be shown of its walk.                  *)
LEMMA WalkerStep ==
  ASSUME OneWalker, ListingInv, NEW w \in Walkers, NEW W,
         UNCHANGED <<now, held, modified>>, walk' = [walk EXCEPT ![w] = W],
         cache' \in [Listing!Places -> {Listing!Unlisted} \cup CacheEntry],
         TrustInv', GoodWalk(walk[w])'
  PROVE  ListingInv'
<1>1. DOMAIN walk' = Walkers /\ \A v \in Walkers : v = w
  BY DEF ListingInv, ListingTypes, OneWalker
<1>2. ListingTypes'
  BY <1>1 DEF ListingInv, ListingTypes
<1> QED BY <1>1, <1>2 DEF ListingInv

(* And when the cache is as it was, of the walk as it will be.             *)
LEMMA WalkerMoves ==
  ASSUME OneWalker, ListingInv, NEW w \in Walkers, NEW W,
         UNCHANGED <<now, held, modified, cache>>, walk' = [walk EXCEPT ![w] = W],
         GoodWalk(W)
  PROVE  ListingInv'
<1>1. walk'[w] = W
  BY DEF ListingInv, ListingTypes
<1>2. GoodWalk(walk[w])'
  BY <1>1 DEF GoodWalk, WalkShape, Timely, NotFromBefore, ReadFresh, ReadCurrent
<1>3. TrustInv' /\ cache' \in [Listing!Places -> {Listing!Unlisted} \cup CacheEntry]
  BY DEF ListingInv, ListingTypes, TrustInv
<1> QED BY <1>2, <1>3, WalkerStep

LEMMA ListingInvBegin ==
  ASSUME OneWalker, ListingInv, NEW w \in Walkers, Listing!Begin(w)
  PROVE  ListingInv'
<1> DEFINE W == [at |-> "stat", dir |-> 1, started |-> now, begun |-> held,
                 seen |-> <<>>, out |-> <<>>]
<1>1. walk' = [walk EXCEPT ![w] = W] /\ UNCHANGED <<now, held, modified, cache>>
  BY DEF Listing!Begin
<1>2. W \in Walking
  BY DEF ListingInv, ListingTypes, Walking
<1>3. WalkShape(W)
  BY <1>2, PlacesAre DEF WalkShape
<1>4. Timely(W)
  BY DEF Timely, ListingInv, ListingTypes, OneWalker
<1>5. NotFromBefore(W)
  BY DEF NotFromBefore, ListingInv, ListingTypes
<1>6. ReadFresh(W)
  BY DEF ReadFresh
<1>7. GoodWalk(W)
  BY <1>3, <1>4, <1>5, <1>6 DEF GoodWalk
<1> HIDE DEF W
<1> QED BY <1>1, <1>7, WalkerMoves

LEMMA ListingInvFinish ==
  ASSUME OneWalker, ListingInv, NEW w \in Walkers, Listing!Finish(w)
  PROVE  ListingInv'
<1>1. walk' = [walk EXCEPT ![w] = Listing!Resting] /\ UNCHANGED <<now, held, modified, cache>>
  BY DEF Listing!Finish
<1> QED BY <1>1, WalkerMoves DEF GoodWalk

(* A walk that stands somewhere is a good one.                             *)
LEMMA UnderWay ==
  ASSUME OneWalker, ListingInv, NEW w \in Walkers, walk[w] # Listing!Resting
  PROVE  /\ WalkShape(walk[w]) /\ Timely(walk[w]) /\ NotFromBefore(walk[w]) /\ ReadFresh(walk[w])
BY DEF ListingInv, GoodWalk

(* Where a walk stands before a directory is read.                         *)
LEMMA AtPlace ==
  ASSUME OneWalker, NEW V, WalkShape(V), V.at \in {"stat", "read", "insert"}
  PROVE  /\ V.started \in Nat /\ V.begun \in [Listing!Places -> Nat] /\ V \in Walking
         /\ V.dir \in Listing!Places /\ V.dir \in Nat /\ V.dir >= 1 /\ V.dir <= Len(Dirs)
         /\ V.seen \in Seq(Nat) /\ V.out \in Seq(Nat)
         /\ DOMAIN V.seen = 1 .. Len(V.seen) /\ DOMAIN V.out = 1 .. Len(V.out)
         /\ Len(V.seen) = IF V.at = "stat" THEN V.dir - 1 ELSE V.dir
         /\ Len(V.out) = IF V.at = "insert" THEN V.dir ELSE V.dir - 1
<1>1. V.dir \in Nat /\ V.dir >= 1 /\ V.dir <= Len(Dirs)
  BY ShapeFacts DEF WalkShape
<1>2. V.seen \in Seq(Nat) /\ V.out \in Seq(Nat)
  BY ShapeFacts
<1>3. DOMAIN V.seen = 1 .. Len(V.seen) /\ DOMAIN V.out = 1 .. Len(V.out)
  BY <1>2
<1> QED BY <1>1, <1>2, <1>3, ShapeFacts, PlacesAre DEF WalkShape

LEMMA SeqGrows ==
  ASSUME NEW s \in Seq(Nat), NEW x \in Nat, NEW n \in Nat, n >= 1, Len(s) = n - 1
  PROVE  /\ Append(s, x) \in Seq(Nat) /\ Len(Append(s, x)) = n /\ Append(s, x)[n] = x
         /\ DOMAIN Append(s, x) = 1 .. n
         /\ \A e \in 1 .. n - 1 : Append(s, x)[e] = s[e]
OBVIOUS

(* The mtime is read, and then, unless the cache answers, the directory.   *)
LEMMA ListingInvStat ==
  ASSUME OneWalker, ListingInv, NEW w \in Walkers, Listing!Stat(w)
  PROVE  ListingInv'
<1> DEFINE V == walk[w]
           d == V.dir
<1>1. UNCHANGED <<now, held, modified, cache>> /\ V.at = "stat"
  BY DEF Listing!Stat
<1>2. WalkShape(V) /\ Timely(V) /\ NotFromBefore(V) /\ ReadFresh(V)
  BY <1>1, UnderWay DEF Listing!Resting
<1>3. /\ V.started \in Nat /\ V.begun \in [Listing!Places -> Nat] /\ V \in Walking
      /\ d \in Listing!Places /\ d \in Nat /\ d >= 1 /\ d <= Len(Dirs)
      /\ V.seen \in Seq(Nat) /\ V.out \in Seq(Nat)
      /\ DOMAIN V.seen = 1 .. d - 1 /\ DOMAIN V.out = 1 .. d - 1
      /\ Len(V.seen) = d - 1 /\ Len(V.out) = d - 1
  BY <1>1, <1>2, AtPlace
<1>4. modified[d] \in Nat /\ held[d] \in Nat /\ modified[d] <= now
  BY <1>3 DEF ListingInv, ListingTypes
<1> DEFINE seen == Append(V.seen, modified[d])
<1> HIDE DEF V, d
<1>5. /\ seen \in Seq(Nat) /\ Len(seen) = d /\ seen[d] = modified[d] /\ DOMAIN seen = 1 .. d
      /\ \A e \in 1 .. d - 1 : seen[e] = V.seen[e]
  BY <1>3, <1>4, SeqGrows
<1>6. \A e \in 1 .. d : e \in 1 .. d - 1 \/ e = d
  BY <1>3
<1>7. CASE Listing!Usable(d)
  <2> DEFINE W == [Listing!Onward(w, cache[d].entries) EXCEPT !.seen = seen]
             out == Append(V.out, cache[d].entries)
  <2>1. walk' = [walk EXCEPT ![w] = W]
    BY <1>7 DEF Listing!Stat, V, d
  <2>2. /\ cache[d] # Listing!Unlisted /\ cache[d].modified = modified[d]
        /\ cache[d].entries = held[d]
    <3>1. cache[d].known /\ cache[d].trusted /\ cache[d].modified = modified[d]
      BY <1>7 DEF Listing!Usable
    <3>2. cache[d] # Listing!Unlisted
      BY <3>1 DEF Listing!Unlisted
    <3> QED BY <1>3, <3>1, <3>2 DEF ListingInv, TrustInv
  <2>3. W = [V EXCEPT !.out = out, !.dir = d + 1, !.seen = seen,
                      !.at = IF d = Len(Dirs) THEN "settle" ELSE "stat"]
    BY <1>3 DEF Listing!Onward, Walking, V, d
  <2> HIDE DEF W, seen
  <2>4. /\ out \in Seq(Nat) /\ Len(out) = d /\ out[d] = held[d] /\ DOMAIN out = 1 .. d
        /\ \A e \in 1 .. d - 1 : out[e] = V.out[e]
    BY <1>3, <1>4, <2>2, SeqGrows
  <2> HIDE DEF out
  <2>5. /\ W.at = (IF d = Len(Dirs) THEN "settle" ELSE "stat") /\ W.dir = d + 1
        /\ W.started = V.started /\ W.begun = V.begun /\ W.seen = seen /\ W.out = out
        /\ W \in Walking
    <3>1. d + 1 \in Nat \ {0}
      BY <1>3
    <3> QED BY <1>3, <1>5, <2>3, <2>4, <3>1 DEF Walking
  <2>6. WalkShape(W)
    BY <1>3, <1>5, <2>4, <2>5 DEF WalkShape
  <2>7. Timely(W)
    <3>1. \A e \in 1 .. d - 1 : seen[e] <= modified[e]
      BY <1>2, <1>3, <1>5 DEF Timely
    <3>2. seen[d] <= modified[d]
      BY <1>4, <1>5
    <3> QED BY <1>2, <1>5, <1>6, <2>5, <3>1, <3>2 DEF Timely
  <2>8. NotFromBefore(W)
    <3>1. V.begun[d] <= held[d] /\ held[d] <= held[d]
      BY <1>2, <1>3, <1>4 DEF NotFromBefore
    <3>2. \A e \in 1 .. d : V.begun[e] <= out[e] /\ out[e] <= held[e]
      BY <1>2, <1>3, <1>6, <2>4, <3>1 DEF NotFromBefore
    <3> QED BY <1>2, <2>4, <2>5, <3>2 DEF NotFromBefore
  <2>9. ReadFresh(W)
    <3>1. 1 .. W.dir - 1 = 1 .. d
      BY <1>3, <2>5
    <3>2. \A e \in 1 .. d : /\ cache[e] # Listing!Unlisted /\ cache[e].modified = seen[e]
                            /\ seen[e] = modified[e] =>
                                 cache[e].entries = held[e] \/ V.started <= seen[e]
      BY <1>1, <1>2, <1>5, <1>6, <2>2 DEF ReadFresh, ReadCurrent, d
    <3> QED BY <2>5, <3>1, <3>2 DEF ReadFresh, ReadCurrent
  <2> QED BY <1>1, <2>1, <2>6, <2>7, <2>8, <2>9, WalkerMoves DEF GoodWalk
<1>8. CASE ~Listing!Usable(d)
  <2> DEFINE W == [V EXCEPT !.at = "read", !.seen = seen]
  <2>1. walk' = [walk EXCEPT ![w] = W]
    BY <1>8 DEF Listing!Stat, V, d
  <2> HIDE DEF seen
  <2>2. /\ W.at = "read" /\ W.dir = d /\ W.started = V.started /\ W.begun = V.begun
        /\ W.seen = seen /\ W.out = V.out /\ W \in Walking
    BY <1>3, <1>5 DEF Walking, d
  <2> HIDE DEF W
  <2>3. WalkShape(W)
    BY <1>3, <1>5, <2>2 DEF WalkShape
  <2>4. Timely(W)
    <3>1. \A e \in 1 .. d - 1 : seen[e] <= modified[e]
      BY <1>2, <1>3, <1>5 DEF Timely
    <3>2. seen[d] <= modified[d]
      BY <1>4, <1>5
    <3> QED BY <1>2, <1>5, <1>6, <2>2, <3>1, <3>2 DEF Timely
  <2>5. NotFromBefore(W)
    BY <1>2, <2>2 DEF NotFromBefore
  <2>6. ReadFresh(W)
    <3>1. \A e \in 1 .. d - 1 : /\ cache[e] # Listing!Unlisted /\ cache[e].modified = seen[e]
                                /\ seen[e] = modified[e] =>
                                     cache[e].entries = held[e] \/ V.started <= seen[e]
      BY <1>1, <1>2, <1>5 DEF ReadFresh, ReadCurrent, d
    <3> QED BY <2>2, <3>1 DEF ReadFresh, ReadCurrent
  <2> QED BY <1>1, <2>1, <2>3, <2>4, <2>5, <2>6, WalkerMoves DEF GoodWalk
<1> QED BY <1>7, <1>8

LEMMA ListingInvRead ==
  ASSUME OneWalker, ListingInv, NEW w \in Walkers, Listing!Read(w)
  PROVE  ListingInv'
<1> DEFINE V == walk[w]
           d == V.dir
<1>1. UNCHANGED <<now, held, modified, cache>> /\ V.at = "read"
  BY DEF Listing!Read
<1>2. WalkShape(V) /\ Timely(V) /\ NotFromBefore(V) /\ ReadFresh(V)
  BY <1>1, UnderWay DEF Listing!Resting
<1>3. /\ V.started \in Nat /\ V.begun \in [Listing!Places -> Nat] /\ V \in Walking
      /\ d \in Listing!Places /\ d \in Nat /\ d >= 1 /\ d <= Len(Dirs)
      /\ V.seen \in Seq(Nat) /\ V.out \in Seq(Nat)
      /\ DOMAIN V.seen = 1 .. d /\ DOMAIN V.out = 1 .. d - 1
      /\ Len(V.seen) = d /\ Len(V.out) = d - 1
  BY <1>1, <1>2, AtPlace
<1>4. held[d] \in Nat
  BY <1>3 DEF ListingInv, ListingTypes
<1> DEFINE out == Append(V.out, held[d])
           W == [V EXCEPT !.at = "insert", !.out = out]
<1>5. walk' = [walk EXCEPT ![w] = W]
  BY DEF Listing!Read
<1> HIDE DEF V, d
<1>6. /\ out \in Seq(Nat) /\ Len(out) = d /\ out[d] = held[d] /\ DOMAIN out = 1 .. d
      /\ \A e \in 1 .. d - 1 : out[e] = V.out[e]
  BY <1>3, <1>4, SeqGrows
<1>7. \A e \in 1 .. d : e \in 1 .. d - 1 \/ e = d
  BY <1>3
<1> HIDE DEF out
<1>8. /\ W.at = "insert" /\ W.dir = d /\ W.started = V.started /\ W.begun = V.begun
      /\ W.seen = V.seen /\ W.out = out /\ W \in Walking
  BY <1>3, <1>6 DEF Walking, d
<1> HIDE DEF W
<1>9. WalkShape(W)
  BY <1>3, <1>6, <1>8 DEF WalkShape
<1>10. Timely(W)
  BY <1>2, <1>8 DEF Timely
<1>11. NotFromBefore(W)
  <2>1. V.begun[d] <= held[d] /\ held[d] <= held[d]
    BY <1>2, <1>3, <1>4 DEF NotFromBefore
  <2>2. \A e \in 1 .. d : V.begun[e] <= out[e] /\ out[e] <= held[e]
    BY <1>2, <1>3, <1>6, <1>7, <2>1 DEF NotFromBefore
  <2> QED BY <1>2, <1>6, <1>8, <2>2 DEF NotFromBefore
<1>12. ReadFresh(W)
  <2>1. \A e \in 1 .. d - 1 : /\ cache[e] # Listing!Unlisted /\ cache[e].modified = V.seen[e]
                              /\ V.seen[e] = modified[e] =>
                                   cache[e].entries = held[e] \/ V.started <= V.seen[e]
    BY <1>1, <1>2 DEF ReadFresh, ReadCurrent, d
  <2> QED BY <1>6, <1>8, <2>1 DEF ReadFresh, ReadCurrent
<1> QED BY <1>1, <1>5, <1>9, <1>10, <1>11, <1>12, WalkerMoves DEF GoodWalk

(* What was read is kept under the mtime seen before, untrusted.           *)
LEMMA ListingInvInsert ==
  ASSUME OneWalker, ListingInv, NEW w \in Walkers, Listing!Insert(w)
  PROVE  ListingInv'
<1> DEFINE V == walk[w]
           d == V.dir
           W == [V EXCEPT !.dir = d + 1, !.at = IF d = Len(Dirs) THEN "settle" ELSE "stat"]
<1>1. /\ UNCHANGED <<now, held, modified>> /\ V.at = "insert"
      /\ cache' = [cache EXCEPT ![d] = Listing!Listed(V.seen[d], V.out[d], FALSE)]
      /\ walk' = [walk EXCEPT ![w] = W]
  BY DEF Listing!Insert
<1>2. WalkShape(V) /\ Timely(V) /\ NotFromBefore(V) /\ ReadFresh(V)
  BY <1>1, UnderWay DEF Listing!Resting
<1>3. /\ V.started \in Nat /\ V.begun \in [Listing!Places -> Nat] /\ V \in Walking
      /\ d \in Listing!Places /\ d \in Nat /\ d >= 1 /\ d <= Len(Dirs)
      /\ V.seen \in Seq(Nat) /\ V.out \in Seq(Nat)
      /\ DOMAIN V.seen = 1 .. d /\ DOMAIN V.out = 1 .. d
      /\ Len(V.seen) = d /\ Len(V.out) = d
  BY <1>1, <1>2, AtPlace
<1>4. walk'[w] = W
  BY <1>1 DEF ListingInv, ListingTypes
<1> HIDE DEF V, d
<1>5. /\ W.at = (IF d = Len(Dirs) THEN "settle" ELSE "stat") /\ W.dir = d + 1
      /\ W.started = V.started /\ W.begun = V.begun /\ W.seen = V.seen /\ W.out = V.out
      /\ W \in Walking
  <2>1. d + 1 \in Nat \ {0}
    BY <1>3
  <2> QED BY <1>3, <2>1 DEF Walking
<1> HIDE DEF W
<1>6. V.seen[d] \in Nat /\ V.out[d] \in Nat
  BY <1>3
<1>7. /\ cache'[d] = Listing!Listed(V.seen[d], V.out[d], FALSE)
      /\ \A e \in Listing!Places : e # d => cache'[e] = cache[e]
      /\ cache' \in [Listing!Places -> {Listing!Unlisted} \cup CacheEntry]
  BY <1>1, <1>3, <1>6 DEF ListingInv, ListingTypes, Listing!Listed, CacheEntry
<1>8. TrustInv'
  <2> SUFFICES ASSUME NEW e \in Listing!Places, cache'[e] # Listing!Unlisted, cache'[e].trusted
               PROVE  /\ cache'[e].modified < now
                      /\ cache'[e].modified = modified[e] => cache'[e].entries = held[e]
    BY <1>1 DEF TrustInv
  <2>1. e # d
    BY <1>7 DEF Listing!Listed
  <2> QED BY <1>7, <2>1 DEF ListingInv, TrustInv
<1>9. WalkShape(W)
  BY <1>3, <1>5 DEF WalkShape
<1>10. Timely(W) /\ NotFromBefore(W)
  BY <1>2, <1>5 DEF Timely, NotFromBefore
<1>11. ReadFresh(walk[w])'
  <2>1. \A e \in 1 .. d - 1 :
          /\ e \in Listing!Places /\ e # d
          /\ cache[e] # Listing!Unlisted /\ cache[e].modified = V.seen[e]
          /\ V.seen[e] = modified[e] => cache[e].entries = held[e] \/ V.started <= V.seen[e]
    <3>1. \A e \in 1 .. d - 1 : e \in Listing!Places /\ e # d
      BY <1>3, PlacesAre
    <3> QED BY <1>1, <1>2, <3>1 DEF ReadFresh, ReadCurrent, d
  <2>2. V.seen[d] = modified[d] => V.out[d] = held[d] \/ V.started <= V.seen[d]
    BY <1>1, <1>2 DEF ReadFresh, ReadCurrent, d
  <2>3. /\ cache'[d] # Listing!Unlisted /\ cache'[d].modified = V.seen[d]
        /\ cache'[d].entries = V.out[d]
    BY <1>7 DEF Listing!Listed, Listing!Unlisted
  <2>4. W.dir - 1 = d /\ \A e \in 1 .. d : e \in 1 .. d - 1 \/ e = d
    BY <1>3, <1>5
  <2>5. \A e \in 1 .. d : /\ cache'[e] # Listing!Unlisted /\ cache'[e].modified = V.seen[e]
                          /\ V.seen[e] = modified[e] =>
                               cache'[e].entries = held[e] \/ V.started <= V.seen[e]
    BY <1>7, <2>1, <2>2, <2>3, <2>4
  <2> QED BY <1>1, <1>4, <1>5, <2>4, <2>5 DEF ReadFresh, ReadCurrent
<1>12. GoodWalk(walk[w])'
  BY <1>1, <1>4, <1>9, <1>10, <1>11 DEF GoodWalk, WalkShape, Timely, NotFromBefore
<1> QED BY <1>1, <1>7, <1>8, <1>12, WalkerStep

(***************************************************************************)
(* The margin at work.  A listing is trusted only if the walk saw a        *)
(* directory younger than it by more than the margin; the walk lasts no    *)
(* longer, so the listing is from before the walk began, and what the walk *)
(* read under that mtime is what the directory holds.                      *)
(***************************************************************************)
LEMMA ListingInvSettle ==
  ASSUME OneWalker, ListingInv, NEW w \in Walkers, Listing!Settle(w)
  PROVE  ListingInv'
<1> DEFINE V == walk[w]
           W == [V EXCEPT !.at = "done"]
<1>1. /\ UNCHANGED <<now, held, modified>> /\ V.at = "settle"
      /\ cache' = [e \in Listing!Places |-> Listing!Settled(w, e)] /\ walk' = [walk EXCEPT ![w] = W]
  BY DEF Listing!Settle
<1>2. WalkShape(V) /\ Timely(V) /\ NotFromBefore(V) /\ ReadFresh(V)
  BY <1>1, UnderWay DEF Listing!Resting
<1>3. V.dir = Len(Dirs) + 1 /\ Len(V.seen) = Len(Dirs) /\ V \in Walking
  BY <1>1, <1>2, PlacesAre DEF WalkShape
<1>4. V.started \in Nat /\ V.seen \in Seq(Nat) /\ DOMAIN V.seen = Listing!Places
  <2>1. V.started \in Nat /\ V.seen \in Seq(Nat)
    BY <1>2, ShapeFacts
  <2>2. DOMAIN V.seen = 1 .. Len(V.seen)
    BY <2>1
  <2> QED BY <1>3, <2>1, <2>2, PlacesAre
<1>5. \A e \in Listing!Places : /\ V.seen[e] \in Nat /\ modified[e] \in Nat
                                /\ V.seen[e] <= modified[e] /\ modified[e] <= now
  BY <1>2, <1>4 DEF Timely, ListingInv, ListingTypes
<1>6. \A e \in Listing!Places : /\ cache[e] # Listing!Unlisted /\ cache[e].modified = V.seen[e]
                                /\ V.seen[e] = modified[e] =>
                                     cache[e].entries = held[e] \/ V.started <= V.seen[e]
  <2>1. 1 .. V.dir - 1 = Listing!Places
    BY <1>3, PlacesAre
  <2> QED BY <1>1, <1>2, <2>1 DEF ReadFresh, ReadCurrent
<1>7. now \in Nat /\ Margin \in Nat /\ WalkTime \in Nat /\ WalkTime <= Margin
      /\ now <= V.started + WalkTime
  BY <1>2 DEF ListingInv, ListingTypes, OneWalker, Timely
<1>8. Listing!Newest(w) \in Nat /\ Listing!Newest(w) <= now
  <2> DEFINE S == {V.seen[e] : e \in Listing!Places}
  <2>1. S \in SUBSET Nat /\ S # {} /\ \A k \in S : k <= now
    BY <1>5, <1>7, PlacesAre
  <2>2. Listing!Newest(w) = Listing!Max(S)
    BY DEF Listing!Newest
  <2> HIDE DEF S
  <2>3. Listing!Max(S) \in S
    BY <1>7, <2>1, GreatestOf
  <2> QED BY <2>1, <2>2, <2>3
<1>9. \A e \in Listing!Places : cache[e] \in CacheEntry
  BY <1>6 DEF ListingInv, ListingTypes
<1>10. \A e \in Listing!Places :
         cache'[e] = [cache[e] EXCEPT !.trusted = V.seen[e] + Margin < Listing!Newest(w)]
  BY <1>1, <1>6, <1>9 DEF Listing!Settled, CacheEntry
<1>11. \A e \in Listing!Places : /\ cache'[e] \in CacheEntry /\ cache'[e].modified = V.seen[e]
                                 /\ cache'[e].entries = cache[e].entries
                                 /\ cache'[e].trusted = (V.seen[e] + Margin < Listing!Newest(w))
  <2> SUFFICES ASSUME NEW e \in Listing!Places
               PROVE  /\ cache'[e] \in CacheEntry /\ cache'[e].modified = V.seen[e]
                      /\ cache'[e].entries = cache[e].entries
                      /\ cache'[e].trusted = (V.seen[e] + Margin < Listing!Newest(w))
    OBVIOUS
  <2> DEFINE b == V.seen[e] + Margin < Listing!Newest(w)
  <2>1. b \in BOOLEAN
    OBVIOUS
  <2>2. cache'[e] = [cache[e] EXCEPT !.trusted = b]
    BY <1>10
  <2> HIDE DEF b
  <2>3. /\ cache'[e] \in CacheEntry /\ cache'[e].modified = cache[e].modified
        /\ cache'[e].entries = cache[e].entries /\ cache'[e].trusted = b
    BY <1>9, <2>1, <2>2 DEF CacheEntry
  <2> QED BY <1>6, <2>3 DEF b
<1>12. cache' \in [Listing!Places -> {Listing!Unlisted} \cup CacheEntry]
  BY <1>1, <1>11
<1>13. TrustInv'
  <2> SUFFICES ASSUME NEW e \in Listing!Places, cache'[e].trusted
               PROVE  /\ cache'[e].modified < now
                      /\ cache'[e].modified = modified[e] => cache'[e].entries = held[e]
    BY <1>1 DEF TrustInv
  <2>1. V.seen[e] + Margin < Listing!Newest(w)
    BY <1>11
  <2>2. V.seen[e] < now /\ V.seen[e] < V.started
    BY <1>4, <1>5, <1>7, <1>8, <2>1, SMTT(30)
  <2>3. ~(V.started <= V.seen[e])
    BY <1>4, <1>5, <2>2
  <2> QED BY <1>6, <1>11, <2>2, <2>3
<1>14. walk'[w] = W
  BY <1>1 DEF ListingInv, ListingTypes
<1> HIDE DEF V
<1>15. /\ W.at = "done" /\ W.dir = V.dir /\ W.started = V.started /\ W.begun = V.begun
       /\ W.seen = V.seen /\ W.out = V.out /\ W \in Walking
  BY <1>3 DEF Walking
<1> HIDE DEF W
<1>16. GoodWalk(walk[w])'
  <2>1. WalkShape(W)
    BY <1>1, <1>2, <1>3, <1>15 DEF WalkShape
  <2>2. Timely(W) /\ NotFromBefore(W)
    BY <1>2, <1>15 DEF Timely, NotFromBefore
  <2> QED BY <1>1, <1>14, <1>15, <2>1, <2>2
          DEF GoodWalk, WalkShape, Timely, NotFromBefore, ReadFresh
<1> QED BY <1>1, <1>12, <1>13, <1>16, WalkerStep

-----------------------------------------------------------------------------
LEMMA ListingInvNext ==
  ASSUME OneWalker, ListingInv, [Listing!Next]_(Listing!vars)
  PROVE  ListingInv'
<1>1. CASE Listing!Tick
  BY <1>1, ListingInvTick
<1>2. CASE \E d \in Listing!Places : Listing!Change(d)
  BY <1>2, ListingInvChange
<1>3. ASSUME NEW w \in Walkers,
             Listing!Begin(w) \/ Listing!Stat(w) \/ Listing!Read(w)
               \/ Listing!Insert(w) \/ Listing!Settle(w) \/ Listing!Finish(w)
      PROVE  ListingInv'
  BY <1>3, ListingInvBegin, ListingInvStat, ListingInvRead, ListingInvInsert, ListingInvSettle,
     ListingInvFinish
<1>4. CASE UNCHANGED Listing!vars
  BY <1>4 DEF Listing!vars, ListingInv, ListingTypes, TrustInv, GoodWalk, WalkShape, Timely,
              NotFromBefore, ReadFresh, ReadCurrent
<1> QED BY <1>1, <1>2, <1>3, <1>4 DEF Listing!Next

(* At the end of a walk every directory has its answer.                    *)
LEMMA ListingInvImplies ==
  ASSUME OneWalker, ListingInv
  PROVE  Listing!ListingIsCurrent
<1> SUFFICES ASSUME NEW w \in Walkers, walk[w].at = "done", NEW d \in Listing!Places
             PROVE  walk[w].begun[d] <= walk[w].out[d] /\ walk[w].out[d] <= held[d]
  BY DEF Listing!ListingIsCurrent
<1>1. WalkShape(walk[w]) /\ NotFromBefore(walk[w])
  BY UnderWay DEF Listing!Resting
<1>2. walk[w].out \in Seq(Nat)
  BY <1>1, ShapeFacts
<1>3. Len(walk[w].out) = Len(Dirs)
  BY <1>1, PlacesAre DEF WalkShape
<1>4. d \in DOMAIN walk[w].out
  BY <1>2, <1>3, PlacesAre
<1> QED BY <1>1, <1>4 DEF NotFromBefore

(* listing.rs, RACY_MARGIN: while one walker walks at a time and no walk   *)
(* outlasts the margin, a walk's answer for a directory is what it held at *)
(* some moment of that walk.                                               *)
THEOREM WalkSeesItsTime ==
  ASSUME OneWalker
  PROVE  PartsSpec => []ListingIsCurrent
<1>1. PartsInit => (part = "listing" => ListingInv)
  BY ListingInvInit DEF PartsInit, ListingInit
<1>2. (part = "listing" => ListingInv) /\ [PartsNext]_partsVars => (part = "listing" => ListingInv)'
  BY OnePartMoves, ListingInvNext
<1>3. (part = "listing" => ListingInv) => ListingIsCurrent
  BY ListingInvImplies DEF ListingIsCurrent
<1> QED BY <1>1, <1>2, <1>3, PTL DEF PartsSpec

-----------------------------------------------------------------------------
(* PollCapture.  Besides that every moment owed is dated: nothing durable  *)
(* and no ask is of the future, and a cadence is no later than the ask in  *)
(* hand.                                                                   *)
PollInv ==
  /\ now \in Nat /\ cadence \in 0 .. now
  /\ \A r \in archive : r.recv \in 0 .. now
  /\ poll.at \in {"down", "waiting", "asking"}
  /\ poll.at = "asking" => poll.asked \in cadence .. now
  /\ owed \subseteq Nat
  /\ Poll!SilenceIsDated

(* Archive::restart_window has a newest thing durable, if anything is.     *)
LEMMA LastDurableIs ==
  ASSUME PollInv, archive # {}
  PROVE  Poll!LastDurable \in 0 .. now
<1> DEFINE S == {r.recv : r \in archive}
<1>1. S \in SUBSET Nat /\ S # {} /\ (\A k \in S : k <= now) /\ now \in Nat
  BY DEF PollInv
<1>2. \E m \in S : \A k \in S : m >= k
  BY <1>1, GreatestNat
<1>3. Poll!Max(S) \in S
  BY <1>2, Zenon DEF Poll!Max
<1> QED BY <1>1, <1>3 DEF Poll!LastDurable

(* What is durable stays so, and with it what it dates.                    *)
LEMMA MoreIsDated ==
  ASSUME PollInv, archive \subseteq archive', NEW from \in Nat, NEW to \in Nat,
         from < to => Poll!Gap([from |-> from, to |-> to]) \in archive',
         owed' = owed \cup (from + 1) .. to
  PROVE  owed' \subseteq Nat /\ Poll!SilenceIsDated'
<1>1. ASSUME NEW t \in owed PROVE Poll!Dated(t)'
  BY DEF PollInv, Poll!SilenceIsDated, Poll!Dated, Poll!Gaps
<1>2. ASSUME NEW t \in (from + 1) .. to PROVE Poll!Dated(t)'
  <2> DEFINE g == Poll!Gap([from |-> from, to |-> to])
  <2>1. g \in archive' /\ g.gap /\ g.from <= t /\ t <= g.to
    BY <1>2 DEF Poll!Gap
  <2> HIDE DEF g
  <2> QED BY <2>1 DEF Poll!Dated, Poll!Gaps
<1> QED BY <1>1, <1>2 DEF PollInv, Poll!SilenceIsDated

LEMMA SameIsDated ==
  ASSUME PollInv, archive \subseteq archive', owed' = owed
  PROVE  owed' \subseteq Nat /\ Poll!SilenceIsDated'
BY DEF PollInv, Poll!SilenceIsDated, Poll!Dated, Poll!Gaps

LEMMA PollInvInit == Poll!Init => PollInv
BY DEF Poll!Init, PollInv, Poll!Unanswered, Poll!Down, Poll!SilenceIsDated

LEMMA PollBoot ==
  ASSUME PollInv, Poll!Boot
  PROVE  PollInv'
<1>1. CASE archive = {}
  <2>1. archive \subseteq archive' /\ owed' = owed
    BY <1>1 DEF Poll!Boot
  <2>2. archive' = {}
    BY <1>1 DEF Poll!Boot, Poll!RestartWindow
  <2> QED BY <2>1, <2>2, SameIsDated DEF PollInv, Poll!Boot, Poll!Unanswered
<1>2. CASE archive # {}
  <2> DEFINE w == [from |-> Poll!LastDurable, to |-> now]
  <2>1. Poll!LastDurable \in Nat /\ now \in Nat /\ Poll!LastDurable <= now
    BY <1>2, LastDurableIs DEF PollInv
  <2>2. owed' = owed \cup (Poll!LastDurable + 1) .. now
    BY <1>2 DEF Poll!Boot
  <2>3. archive \subseteq archive' /\ \A r \in archive' : r \in archive \/ r = Poll!Gap(w)
    BY <1>2 DEF Poll!Boot, Poll!RestartWindow
  <2>4. Poll!LastDurable < now => Poll!Gap(w) \in archive'
    BY <1>2, <2>1 DEF Poll!Boot, Poll!RestartWindow
  <2>5. owed' \subseteq Nat /\ Poll!SilenceIsDated'
    BY <2>1, <2>2, <2>3, <2>4, MoreIsDated
  <2>6. Poll!Gap(w).recv = now
    BY DEF Poll!Gap
  <2> HIDE DEF w
  <2> QED BY <2>1, <2>3, <2>5, <2>6 DEF PollInv, Poll!Boot, Poll!Unanswered
<1> QED BY <1>1, <1>2

(* publish_poll_gap: from the last answer to the ask that failed.          *)
LEMMA PollNotAnswered ==
  ASSUME PollInv, poll.at = "asking", Poll!NotAnswered
  PROVE  /\ owed' \subseteq Nat /\ Poll!SilenceIsDated'
         /\ \A r \in archive' : r.recv \in 0 .. now
<1> DEFINE w == [from |-> cadence, to |-> poll.asked]
<1>1. cadence \in Nat /\ now \in Nat /\ poll.asked \in Nat
      /\ cadence <= poll.asked /\ poll.asked <= now
  BY DEF PollInv
<1>2. archive \subseteq archive' /\ \A r \in archive' : r \in archive \/ r = Poll!Gap(w)
  BY DEF Poll!NotAnswered, Poll!Missed
<1>3. Poll!Gap(w).recv = poll.asked
  BY DEF Poll!Gap
<1>4. CASE cadence = Poll!Unanswered
  <2>1. owed' = owed
    BY <1>4 DEF Poll!NotAnswered
  <2> QED BY <1>1, <1>2, <1>3, <2>1, SameIsDated DEF PollInv
<1>5. CASE cadence # Poll!Unanswered
  <2>1. owed' = owed \cup (cadence + 1) .. poll.asked
    BY <1>5 DEF Poll!NotAnswered
  <2>2. cadence < poll.asked => Poll!Gap(w) \in archive'
    BY <1>1, <1>5 DEF Poll!NotAnswered, Poll!Missed
  <2>3. owed' \subseteq Nat /\ Poll!SilenceIsDated'
    BY <1>1, <1>2, <2>1, <2>2, MoreIsDated
  <2> QED BY <1>1, <1>2, <1>3, <2>3 DEF PollInv
<1> QED BY <1>4, <1>5

LEMMA PollInvNext ==
  ASSUME PollInv, [Poll!Next]_(Poll!vars)
  PROVE  PollInv'
<1>1. CASE Poll!Tick
  BY <1>1, SameIsDated DEF PollInv, Poll!Tick
<1>2. CASE Poll!Boot
  BY <1>2, PollBoot
<1>3. CASE Poll!Ask
  BY <1>3, SameIsDated DEF PollInv, Poll!Ask
<1>4. CASE Poll!Answered
  <2>1. archive \subseteq archive' /\ owed' = owed
    BY <1>4 DEF Poll!Answered
  <2>2. \A r \in archive' : r \in archive \/ r.recv = now
    BY <1>4 DEF Poll!Answered, Poll!AnswerAt
  <2> QED BY <1>4, <2>1, <2>2, SameIsDated DEF PollInv, Poll!Answered, Poll!Waits
<1>5. CASE Poll!Unreachable
  <2>1. poll.at = "asking" /\ Poll!NotAnswered
    BY <1>5 DEF Poll!Unreachable
  <2> QED BY <1>5, <2>1, PollNotAnswered DEF PollInv, Poll!Unreachable, Poll!Waits
<1>6. CASE Poll!Throttled
  <2>1. poll.at = "asking" /\ Poll!NotAnswered
    BY <1>6 DEF Poll!Throttled
  <2> QED BY <1>6, <2>1, PollNotAnswered DEF PollInv, Poll!Throttled, Poll!Waits
<1>7. CASE Poll!GapUnrecorded
  BY <1>7, SameIsDated DEF PollInv, Poll!GapUnrecorded, Poll!Waits
<1>8. CASE Poll!Stop
  BY <1>8, SameIsDated DEF PollInv, Poll!Stop, Poll!Down
<1>9. CASE UNCHANGED Poll!vars
  BY <1>9, SameIsDated DEF PollInv, Poll!vars
<1> QED
  BY <1>1, <1>2, <1>3, <1>4, <1>5, <1>6, <1>7, <1>8, <1>9 DEF Poll!Next

(***************************************************************************)
(* SilenceIsDated, for every interval, backoff and hazard (venue/poll.rs,  *)
(* Cadence::missed, and report_restart_gap): what lies between an answer   *)
(* and a failed ask of its process, and between the last thing durable and *)
(* a boot, is in a gap.                                                    *)
(***************************************************************************)
THEOREM PollsAreDated == PartsSpec => []SilenceIsDated
<1>1. PartsInit => (part = "poll" => PollInv)
  BY PollInvInit DEF PartsInit, PollInit
<1>2. (part = "poll" => PollInv) /\ [PartsNext]_partsVars => (part = "poll" => PollInv)'
  BY OnePartMoves, PollInvNext
<1>3. (part = "poll" => PollInv) => SilenceIsDated
  BY DEF PollInv, SilenceIsDated
<1> QED BY <1>1, <1>2, <1>3, PTL DEF PartsSpec

-----------------------------------------------------------------------------
(* Discovery.                                                              *)
Row ==
  [what : {"listing"}, ordinal : {0}, fp : Masters]
    \cup [what : {"seen"}, ordinal : Nat \ {0}, fp : Fingerprints, name : Names]
    \cup [what : {"snapshot"}, ordinal : Nat \ {0}, fp : Fingerprints, at : Int]
    \cup [what : {"gap"}, ordinal : Nat \ {0}, fp : Fingerprints, from : Int, to : Int]

SubsTypes ==
  /\ now \in Int /\ resolved \in Masters
  /\ DOMAIN accounts \subseteq Fingerprints /\ accounts \in [DOMAIN accounts -> Names]
  /\ bindings \in Seq(Row)
  /\ DOMAIN bound \subseteq Fingerprints
  /\ bound \in [DOMAIN bound -> [ordinal : Nat \ {0}, name : Names]]
  /\ answered \in [DOMAIN answered -> Int]

(* Ordinals end somewhere, so there is a next one.                         *)
OrdinalsEnd == \E n \in Nat : \A i \in DOMAIN bindings : bindings[i].ordinal <= n

(* A running process writes of the address the record is of, and its       *)
(* bindings are those of the record.                                       *)
Verified == ledger.at # "down" => \A i \in DOMAIN bindings :
  /\ bindings[i].ordinal = 0 => bindings[i].fp = resolved
  /\ bindings[i].what = "seen" =>
       /\ bindings[i].fp \in DOMAIN bound
       /\ bound[bindings[i].fp].ordinal = bindings[i].ordinal
Known(ordinal, fp) ==
  \E i \in DOMAIN bindings :
    bindings[i].what = "seen" /\ bindings[i].fp = fp /\ bindings[i].ordinal = ordinal
BoundIsKnown == \A fp \in DOMAIN bound : Known(bound[fp].ordinal, fp)

(* What is polled under an ordinal is the address bound to it.             *)
PolledIsBound ==
  /\ \A o \in DOMAIN subs : subs[o] \in DOMAIN bound /\ bound[subs[o]].ordinal = o
  /\ polled \subseteq DOMAIN subs
  /\ ledger.at = "binding" => ledger.left \subseteq DOMAIN accounts
  /\ ledger.at = "snapshots" => ledger.left \subseteq polled

SubsInv ==
  /\ SubsTypes /\ OrdinalsEnd /\ Verified /\ BoundIsKnown /\ PolledIsBound
  /\ Subs!AliasNamesOneAddress

LEMMA RowFields ==
  ASSUME SubsInv, NEW i \in DOMAIN bindings
  PROVE  /\ i \in Nat /\ 1 <= i /\ bindings[i] \in Row
         /\ bindings[i].ordinal \in Nat
         /\ bindings[i].ordinal = 0 => bindings[i].fp \in Masters
         /\ bindings[i].ordinal # 0 => bindings[i].fp \in Fingerprints
         /\ bindings[i].what = "seen" => bindings[i].ordinal # 0 /\ bindings[i].name \in Names
<1>1. i \in Nat /\ 1 <= i /\ bindings[i] \in Row
  BY DEF SubsInv, SubsTypes
<1> QED BY <1>1 DEF Row

(* Nothing but a row of a known binding, or of the verified master, is     *)
(* appended, and neither changes what the record says of aliases.          *)
LEMMA Appended ==
  ASSUME SubsInv, NEW row \in Row, bindings' = Append(bindings, row)
  PROVE  /\ bindings' \in Seq(Row) /\ OrdinalsEnd'
         /\ DOMAIN bindings' = DOMAIN bindings \cup {Len(bindings) + 1}
         /\ Len(bindings) + 1 \notin DOMAIN bindings /\ Len(bindings) \in Nat
         /\ \A i \in DOMAIN bindings : bindings'[i] = bindings[i] /\ i \in 1 .. Len(bindings) + 1
         /\ bindings'[Len(bindings) + 1] = row
<1>1. bindings \in Seq(Row)
  BY DEF SubsInv, SubsTypes
<1>2. /\ bindings' \in Seq(Row)
      /\ DOMAIN bindings' = DOMAIN bindings \cup {Len(bindings) + 1}
      /\ Len(bindings) + 1 \notin DOMAIN bindings /\ Len(bindings) \in Nat
      /\ \A i \in DOMAIN bindings : bindings'[i] = bindings[i] /\ i \in 1 .. Len(bindings) + 1
      /\ bindings'[Len(bindings) + 1] = row
  BY <1>1
<1>3. PICK n \in Nat : \A i \in DOMAIN bindings : bindings[i].ordinal <= n
  BY DEF SubsInv, OrdinalsEnd
<1>4. row.ordinal \in Nat /\ \A i \in DOMAIN bindings : bindings[i].ordinal \in Nat
  BY RowFields DEF Row
<1>5. n + row.ordinal \in Nat /\ \A i \in DOMAIN bindings' : bindings'[i].ordinal <= n + row.ordinal
  BY <1>2, <1>3, <1>4
<1>6. OrdinalsEnd'
  BY <1>5 DEF OrdinalsEnd
<1> QED BY <1>2, <1>6

(* A row under an alias and address that the record has together already.  *)
LEMMA AppendedAlike ==
  ASSUME SubsInv, NEW row \in Row, bindings' = Append(bindings, row),
         NEW k \in DOMAIN bindings,
         bindings[k].ordinal = row.ordinal, bindings[k].fp = row.fp
  PROVE  Subs!AliasNamesOneAddress'
<1>1. /\ DOMAIN bindings' = DOMAIN bindings \cup {Len(bindings) + 1} /\ Len(bindings) \in Nat
      /\ \A i \in DOMAIN bindings : bindings'[i] = bindings[i] /\ i \in 1 .. Len(bindings) + 1
      /\ bindings'[Len(bindings) + 1] = row
  BY Appended
<1>2. ASSUME NEW i \in DOMAIN bindings', NEW j \in DOMAIN bindings'
      PROVE  bindings'[i].ordinal = bindings'[j].ordinal <=> bindings'[i].fp = bindings'[j].fp
  BY <1>1 DEF SubsInv, Subs!AliasNamesOneAddress
<1>3. ASSUME NEW i \in DOMAIN bindings', bindings'[i].ordinal # 0
      PROVE  \E s \in 1 .. i : bindings'[s].what = "seen" /\ bindings'[s].fp = bindings'[i].fp
  <2>1. PICK j \in DOMAIN bindings : j <= i /\ bindings[j].ordinal = bindings'[i].ordinal
                                   /\ bindings[j].fp = bindings'[i].fp
    <3>1. CASE i \in DOMAIN bindings
      BY <3>1, <1>1
    <3>2. CASE i = Len(bindings) + 1
      BY <3>2, <1>1
    <3> QED BY <3>1, <3>2, <1>1
  <2>2. PICK s \in 1 .. j : bindings[s].what = "seen" /\ bindings[s].fp = bindings[j].fp
    BY <2>1, <1>3 DEF SubsInv, Subs!AliasNamesOneAddress
  <2>3. DOMAIN bindings = 1 .. Len(bindings) /\ i \in Nat
    BY <1>1 DEF SubsInv, SubsTypes
  <2>4. s \in DOMAIN bindings /\ s \in 1 .. i
    BY <1>1, <2>1, <2>2, <2>3
  <2> QED BY <1>1, <2>1, <2>2, <2>4
<1> QED BY <1>2, <1>3 DEF Subs!AliasNamesOneAddress

(* A row under an alias and an address that are both new to the record:    *)
(* the master's, or one that binds them.                                   *)
LEMMA AppendedNew ==
  ASSUME SubsInv, NEW row \in Row, bindings' = Append(bindings, row),
         \A i \in DOMAIN bindings : bindings[i].ordinal # row.ordinal /\ bindings[i].fp # row.fp,
         row.ordinal = 0 \/ row.what = "seen"
  PROVE  Subs!AliasNamesOneAddress'
<1> DEFINE n == Len(bindings) + 1
<1>1. /\ DOMAIN bindings' = DOMAIN bindings \cup {n} /\ n \in Nat
      /\ \A i \in DOMAIN bindings : bindings'[i] = bindings[i]
      /\ bindings'[n] = row
  BY Appended
<1>2. ASSUME NEW i \in DOMAIN bindings', NEW j \in DOMAIN bindings'
      PROVE  bindings'[i].ordinal = bindings'[j].ordinal <=> bindings'[i].fp = bindings'[j].fp
  BY <1>1 DEF SubsInv, Subs!AliasNamesOneAddress
<1>3. ASSUME NEW i \in DOMAIN bindings', bindings'[i].ordinal # 0
      PROVE  \E s \in 1 .. i : bindings'[s].what = "seen" /\ bindings'[s].fp = bindings'[i].fp
  <2>1. CASE i \in DOMAIN bindings
    <3>1. PICK s \in 1 .. i : bindings[s].what = "seen" /\ bindings[s].fp = bindings[i].fp
      BY <1>1, <1>3, <2>1 DEF SubsInv, Subs!AliasNamesOneAddress
    <3>2. s \in DOMAIN bindings
      BY <2>1 DEF SubsInv, SubsTypes
    <3> QED BY <1>1, <2>1, <3>1, <3>2
  <2>2. CASE i = n
    <3>1. bindings'[n].what = "seen" /\ n \in 1 .. i
      BY <1>1, <1>3, <2>2 DEF SubsInv, SubsTypes
    <3> QED BY <2>2, <3>1
  <2> QED BY <1>1, <2>1, <2>2
<1> QED BY <1>2, <1>3 DEF Subs!AliasNamesOneAddress

(* Every row of a sub-account is of one that a running process knows.      *)
LEMMA RowsAreBound ==
  ASSUME SubsInv, ledger.at # "down", NEW i \in DOMAIN bindings, bindings[i].ordinal # 0
  PROVE  bindings[i].fp \in DOMAIN bound /\ bound[bindings[i].fp].ordinal = bindings[i].ordinal
<1>1. PICK s \in 1 .. i : bindings[s].what = "seen" /\ bindings[s].fp = bindings[i].fp
  BY DEF SubsInv, Subs!AliasNamesOneAddress
<1>2. s \in DOMAIN bindings
  BY <1>1, RowFields DEF SubsInv, SubsTypes
<1>3. bindings[s].ordinal = bindings[i].ordinal
  BY <1>1, <1>2 DEF SubsInv, Subs!AliasNamesOneAddress
<1> QED BY <1>1, <1>2, <1>3 DEF SubsInv, Verified

(* What a step that leaves the record alone must keep.                     *)
LEMMA RecordStands ==
  ASSUME SubsInv, bindings' = bindings
  PROVE  OrdinalsEnd' /\ Subs!AliasNamesOneAddress'
         /\ (bound' = bound => BoundIsKnown')
         /\ (bound' = bound /\ resolved' = resolved /\ ledger.at # "down" => Verified')
<1>1. OrdinalsEnd' /\ Subs!AliasNamesOneAddress'
  BY DEF SubsInv, OrdinalsEnd, Subs!AliasNamesOneAddress
<1>2. bound' = bound => BoundIsKnown'
  BY DEF SubsInv, BoundIsKnown, Known
<1>3. bound' = bound /\ resolved' = resolved /\ ledger.at # "down" => Verified'
  BY DEF SubsInv, Verified
<1> QED BY <1>1, <1>2, <1>3

(* A listing, a snapshot or a gap.                                         *)
LEMMA ReportAppended ==
  ASSUME SubsInv, ledger.at # "down", bound' = bound, resolved' = resolved,
         NEW row \in Row, bindings' = Append(bindings, row), row.what # "seen",
         row.ordinal = 0 => row.fp = resolved
  PROVE  Verified' /\ BoundIsKnown'
<1>1. /\ DOMAIN bindings' = DOMAIN bindings \cup {Len(bindings) + 1}
      /\ \A i \in DOMAIN bindings : bindings'[i] = bindings[i]
      /\ bindings'[Len(bindings) + 1] = row
  BY Appended
<1>2. Verified'
  BY <1>1 DEF SubsInv, Verified
<1>3. BoundIsKnown'
  BY <1>1 DEF SubsInv, BoundIsKnown, Known
<1> QED BY <1>2, <1>3

(* What is polled keeps its binding.                                       *)
LEMMA PolledReport ==
  ASSUME SubsInv, Subs!AddressesAssumption, ledger.at = "snapshots", ledger.left # {}
  PROVE  /\ Subs!Ordinal \in ledger.left /\ Subs!Ordinal \in Nat \ {0}
         /\ subs[Subs!Ordinal] \in Fingerprints
         /\ Known(Subs!Ordinal, subs[Subs!Ordinal])
<1>1. \A o \in ledger.left : /\ o \in Nat \ {0} /\ subs[o] \in Fingerprints
                             /\ Known(o, subs[o])
  BY DEF SubsInv, SubsTypes, PolledIsBound, BoundIsKnown
<1>2. \E x \in ledger.left : \A y \in ledger.left : x <= y
  BY <1>1, LeastNat
<1>3. Subs!Min(ledger.left) \in ledger.left
  BY <1>2, Zenon DEF Subs!Min
<1> QED BY <1>1, <1>3 DEF Subs!Ordinal

LEMMA SubsInvInit ==
  ASSUME Subs!Init
  PROVE  SubsInv
<1>1. now \in Int /\ resolved \in Masters /\ bindings \in Seq(Row)
  BY DEF Subs!Init
<1>2. DOMAIN Subs!Nothing = {}
  BY DEF Subs!Nothing
<1>3. /\ DOMAIN accounts = {} /\ DOMAIN bound = {} /\ DOMAIN answered = {}
      /\ DOMAIN subs = {} /\ DOMAIN bindings = {} /\ polled = {} /\ ledger.at = "down"
  BY <1>2 DEF Subs!Init, Subs!Down
<1>4. Subs!Nothing \in [DOMAIN Subs!Nothing -> Names]
      /\ Subs!Nothing \in [DOMAIN Subs!Nothing -> Int]
      /\ Subs!Nothing \in [DOMAIN Subs!Nothing -> [ordinal : Nat \ {0}, name : Names]]
  BY DEF Subs!Nothing
<1>5. SubsTypes
  BY <1>1, <1>3, <1>4 DEF Subs!Init, SubsTypes
<1>6. OrdinalsEnd
  <2>1. 0 \in Nat
    OBVIOUS
  <2> QED BY <1>3, <2>1 DEF OrdinalsEnd
<1>7. Verified /\ BoundIsKnown /\ PolledIsBound /\ Subs!AliasNamesOneAddress
  BY <1>3 DEF Verified, BoundIsKnown, PolledIsBound, Subs!AliasNamesOneAddress
<1> QED BY <1>5, <1>6, <1>7 DEF SubsInv

(* Bindings::from_seen, of a record whose master rows are all of the       *)
(* address the alias resolves to.                                          *)
LEMMA SubsBoot ==
  ASSUME SubsInv, Subs!Boot
  PROVE  SubsInv'
<1>1. bindings' = bindings /\ resolved' = resolved /\ accounts' = accounts /\ now' = now
      /\ ledger' = [at |-> "listing"] /\ bound' = Subs!FromSeen
      /\ subs' = Subs!Nothing /\ polled' = {} /\ answered' = Subs!Nothing
  BY DEF Subs!Boot
<1>2. \A i \in DOMAIN bindings : bindings[i].ordinal = 0 => bindings[i].fp = resolved
  <2> DEFINE S == Subs!MasterRows
  <2>1. SUFFICES ASSUME NEW i \in S PROVE bindings[i].fp = resolved
    BY DEF Subs!MasterRows
  <2>2. S \in SUBSET Nat /\ Len(bindings) \in Nat /\ \A k \in S : k <= Len(bindings)
    BY DEF SubsInv, SubsTypes, Subs!MasterRows
  <2>3. \E x \in S : \A y \in S : x >= y
    BY <2>1, <2>2, GreatestNat
  <2>4. Subs!Max(S) \in S
    BY <2>3, Zenon DEF Subs!Max
  <2>5. bindings[Subs!Max(S)].fp = resolved
    BY <2>1 DEF Subs!Boot, Subs!Verified
  <2> QED BY <2>4, <2>5 DEF SubsInv, Subs!AliasNamesOneAddress, Subs!MasterRows
<1>3. ASSUME NEW fp \in DOMAIN Subs!FromSeen
      PROVE  /\ fp \in Fingerprints
             /\ Subs!FromSeen[fp] \in [ordinal : Nat \ {0}, name : Names]
             /\ Known(Subs!FromSeen[fp].ordinal, fp)
  <2> DEFINE S == Subs!SeenRows(fp)
  <2>1. PICK k \in DOMAIN bindings : bindings[k].what = "seen" /\ bindings[k].fp = fp
    BY DEF Subs!FromSeen, Subs!Seen
  <2>2. k \in S /\ S \in SUBSET Nat /\ Len(bindings) \in Nat /\ \A j \in S : j <= Len(bindings)
    BY <2>1 DEF SubsInv, SubsTypes, Subs!SeenRows
  <2>3. (\E x \in S : \A y \in S : x <= y) /\ (\E x \in S : \A y \in S : x >= y)
    BY <2>2, LeastNat, GreatestNat
  <2>4. Subs!Min(S) \in S /\ Subs!Max(S) \in S
    BY <2>3, Zenon DEF Subs!Min, Subs!Max
  <2> DEFINE a == Subs!Min(S)
             b == Subs!Max(S)
  <2>5. /\ a \in DOMAIN bindings /\ bindings[a].what = "seen" /\ bindings[a].fp = fp
        /\ b \in DOMAIN bindings /\ bindings[b].what = "seen"
    BY <2>4 DEF Subs!SeenRows
  <2>6. Subs!FromSeen[fp] = [ordinal |-> bindings[a].ordinal, name |-> bindings[b].name]
    BY DEF Subs!FromSeen
  <2> HIDE DEF a, b, S
  <2>7. bindings[a].ordinal \in Nat \ {0} /\ bindings[b].name \in Names /\ fp \in Fingerprints
    BY <2>5, RowFields
  <2> QED BY <2>5, <2>6, <2>7 DEF Known
<1>4. Subs!FromSeen \in [DOMAIN Subs!FromSeen -> [ordinal : Nat \ {0}, name : Names]]
  BY <1>3 DEF Subs!FromSeen
<1>5. ASSUME NEW i \in DOMAIN bindings, bindings[i].what = "seen"
      PROVE  /\ bindings[i].fp \in DOMAIN Subs!FromSeen
             /\ Subs!FromSeen[bindings[i].fp].ordinal = bindings[i].ordinal
  <2>1. bindings[i].fp \in DOMAIN Subs!FromSeen
    BY <1>5 DEF Subs!FromSeen, Subs!Seen
  <2>2. Known(Subs!FromSeen[bindings[i].fp].ordinal, bindings[i].fp)
    BY <1>3, <2>1
  <2> QED BY <2>1, <2>2 DEF Known, SubsInv, Subs!AliasNamesOneAddress
<1>6. DOMAIN Subs!Nothing = {} /\ Subs!Nothing \in [DOMAIN Subs!Nothing -> Int]
  BY DEF Subs!Nothing
<1>7. SubsTypes'
  BY <1>1, <1>3, <1>4, <1>6 DEF SubsInv, SubsTypes
<1>8. Verified'
  BY <1>1, <1>2, <1>5 DEF Verified
<1>9. BoundIsKnown'
  BY <1>1, <1>3 DEF BoundIsKnown, Known
<1>10. PolledIsBound'
  BY <1>1, <1>6 DEF PolledIsBound
<1> QED BY <1>1, <1>7, <1>8, <1>9, <1>10, RecordStands DEF SubsInv

LEMMA SubsListing ==
  ASSUME SubsInv, Subs!AddressesAssumption, Subs!ListingAnswered
  PROVE  SubsInv'
<1> DEFINE row == [what |-> "listing", ordinal |-> 0, fp |-> resolved]
<1>1. /\ bindings' = Append(bindings, row) /\ ledger' = [at |-> "binding", left |-> DOMAIN accounts]
      /\ UNCHANGED <<now, resolved, accounts, bound, subs, polled, answered>>
      /\ ledger.at = "listing"
  BY DEF Subs!ListingAnswered, Subs!memory
<1>2. row \in Row /\ row.what # "seen" /\ row.ordinal = 0 /\ row.fp = resolved
  BY DEF SubsInv, SubsTypes, Row
<1> HIDE DEF row
<1>3. Verified' /\ BoundIsKnown'
  BY <1>1, <1>2, ReportAppended
<1>4. bindings' \in Seq(Row) /\ OrdinalsEnd'
  BY <1>1, <1>2, Appended
<1>5. Subs!AliasNamesOneAddress'
  <2>1. CASE \E k \in DOMAIN bindings : bindings[k].ordinal = 0
    <3>1. PICK k \in DOMAIN bindings : bindings[k].ordinal = 0
      BY <2>1
    <3>2. bindings[k].fp = row.fp
      BY <1>1, <1>2, <3>1 DEF SubsInv, Verified
    <3> QED BY <1>1, <1>2, <3>1, <3>2, AppendedAlike
  <2>2. CASE ~\E k \in DOMAIN bindings : bindings[k].ordinal = 0
    <3>1. \A i \in DOMAIN bindings : bindings[i].ordinal # row.ordinal /\ bindings[i].fp # row.fp
      BY <1>2, <2>2, RowFields DEF SubsInv, SubsTypes, Subs!AddressesAssumption
    <3> QED BY <1>1, <1>2, <3>1, AppendedNew
  <2> QED BY <2>1, <2>2
<1>6. SubsTypes' /\ PolledIsBound'
  BY <1>1, <1>4 DEF SubsInv, SubsTypes, PolledIsBound
<1> QED BY <1>3, <1>4, <1>5, <1>6 DEF SubsInv

(* Bindings::observe: one more than the highest is no one's yet.           *)
LEMMA NextIsFree ==
  ASSUME SubsInv
  PROVE  Subs!NextOrdinal \in Nat \ {0} /\ \A fp \in DOMAIN bound :
                                            bound[fp].ordinal # Subs!NextOrdinal
<1> DEFINE S == Subs!Ordinals \cup {0}
<1>1. PICK n \in Nat : \A i \in DOMAIN bindings : bindings[i].ordinal <= n
  BY DEF SubsInv, OrdinalsEnd
<1>2. \A fp \in DOMAIN bound : bound[fp].ordinal \in Nat /\ bound[fp].ordinal <= n
  BY <1>1 DEF SubsInv, SubsTypes, BoundIsKnown, Known
<1>3. S \in SUBSET Nat /\ S # {} /\ \A k \in S : k <= n
  BY <1>2 DEF Subs!Ordinals
<1>4. \E x \in S : \A y \in S : x >= y
  BY <1>3, GreatestNat
<1>5. Subs!Max(S) \in S /\ \A y \in S : Subs!Max(S) >= y
  BY <1>4, Zenon DEF Subs!Max
<1>6. \A fp \in DOMAIN bound : bound[fp].ordinal \in S
  BY DEF Subs!Ordinals
<1> DEFINE m == Subs!Max(S)
<1>7. Subs!NextOrdinal = m + 1
  BY DEF Subs!NextOrdinal
<1> HIDE DEF S, m
<1>8. m \in Nat /\ \A fp \in DOMAIN bound : bound[fp].ordinal \in Nat /\ bound[fp].ordinal <= m
  BY <1>3, <1>5, <1>6 DEF m
<1> QED BY <1>7, <1>8

(* discover, one sub-account: known, renamed or new.                       *)
LEMMA SubsBind ==
  ASSUME SubsInv, Subs!AddressesAssumption, Subs!BindOne
  PROVE  SubsInv'
<1>1. PICK fp \in ledger.left :
        LET name == accounts[fp]
            binding == Subs!Observed(fp, name)[fp]
        IN  /\ bound' = Subs!Observed(fp, name)
            /\ bindings' = IF Subs!RecordsBinding(fp, name)
                         THEN Append(bindings, Subs!SeenRow(fp, binding)) ELSE bindings
            /\ polled' = polled \cup {binding.ordinal}
            /\ subs' = [o \in DOMAIN subs \cup {binding.ordinal} |->
                          IF o = binding.ordinal THEN fp ELSE subs[o]]
            /\ ledger' = [ledger EXCEPT !.left = @ \ {fp}]
  BY DEF Subs!BindOne
<1>2. /\ ledger.at = "binding"
      /\ UNCHANGED <<now, resolved, accounts, answered>>
  BY DEF Subs!BindOne
<1> DEFINE name == accounts[fp]
           ordinal == IF fp \in DOMAIN bound THEN bound[fp].ordinal ELSE Subs!NextOrdinal
           row == [what |-> "seen", ordinal |-> ordinal, fp |-> fp, name |-> name]
<1>3. fp \in Fingerprints /\ name \in Names /\ fp \in DOMAIN accounts
  BY <1>2 DEF SubsInv, SubsTypes, PolledIsBound
<1>4. ordinal \in Nat \ {0}
  BY NextIsFree DEF SubsInv, SubsTypes
<1>5. /\ DOMAIN bound' = DOMAIN bound \cup {fp}
      /\ bound'[fp] = [ordinal |-> ordinal, name |-> name]
      /\ \A f \in DOMAIN bound : f # fp => bound'[f] = bound[f]
  BY <1>1 DEF Subs!Observed
<1>6. /\ bindings' = IF Subs!RecordsBinding(fp, name) THEN Append(bindings, row) ELSE bindings
      /\ polled' = polled \cup {ordinal}
      /\ DOMAIN subs' = DOMAIN subs \cup {ordinal} /\ subs'[ordinal] = fp
      /\ \A o \in DOMAIN subs : o # ordinal => subs'[o] = subs[o]
  BY <1>1 DEF Subs!Observed, Subs!SeenRow
<1>7. ledger'.at # "down" /\ ledger'.at # "snapshots" /\ ledger'.at # "idle"
      /\ (ledger'.at = "binding" => ledger'.left \subseteq DOMAIN accounts)
  BY <1>1, <1>2 DEF SubsInv, PolledIsBound
<1>8. row \in Row /\ row.what = "seen" /\ row.ordinal = ordinal /\ row.fp = fp
  BY <1>3, <1>4 DEF Row
<1>9. \A f \in DOMAIN bound : bound'[f].ordinal = bound[f].ordinal
  BY <1>5
<1>10. Subs!RecordsBinding(fp, name) \/ fp \in DOMAIN bound
  BY DEF Subs!RecordsBinding
<1> HIDE DEF row, ordinal, name
<1>11. /\ bindings' \in Seq(Row) /\ OrdinalsEnd' /\ Subs!AliasNamesOneAddress'
       /\ \A i \in DOMAIN bindings : i \in DOMAIN bindings' /\ bindings'[i] = bindings[i]
       /\ \A i \in DOMAIN bindings' : i \in DOMAIN bindings \/ bindings'[i] = row
       /\ \E i \in DOMAIN bindings' : /\ bindings'[i].what = "seen" /\ bindings'[i].fp = fp
                                   /\ bindings'[i].ordinal = ordinal
  <2>1. CASE fp \in DOMAIN bound
    <3>1. Known(ordinal, fp)
      BY <2>1 DEF SubsInv, BoundIsKnown, ordinal
    <3>2. PICK k \in DOMAIN bindings : bindings[k].fp = fp /\ bindings[k].ordinal = ordinal
                                     /\ bindings[k].what = "seen"
      BY <3>1 DEF Known
    <3>3. CASE bindings' = bindings
      BY <3>2, <3>3, RecordStands DEF SubsInv, SubsTypes
    <3>4. CASE bindings' = Append(bindings, row)
      <4>1. Subs!AliasNamesOneAddress'
        BY <1>8, <3>2, <3>4, AppendedAlike
      <4>2. /\ bindings' \in Seq(Row) /\ OrdinalsEnd'
            /\ DOMAIN bindings' = DOMAIN bindings \cup {Len(bindings) + 1}
            /\ \A i \in DOMAIN bindings : bindings'[i] = bindings[i]
            /\ bindings'[Len(bindings) + 1] = row
        BY <1>8, <3>4, Appended
      <4> QED BY <3>2, <4>1, <4>2
    <3> QED BY <1>6, <3>3, <3>4
  <2>2. CASE fp \notin DOMAIN bound
    <3>1. bindings' = Append(bindings, row) /\ ordinal = Subs!NextOrdinal
      BY <1>6, <1>10, <2>2 DEF ordinal
    <3>2. ASSUME NEW i \in DOMAIN bindings
          PROVE  bindings[i].ordinal # ordinal /\ bindings[i].fp # fp
      <4>1. CASE bindings[i].ordinal = 0
        BY <1>3, <1>4, <4>1, RowFields DEF Subs!AddressesAssumption
      <4>2. CASE bindings[i].ordinal # 0
        <5>1. bindings[i].fp \in DOMAIN bound /\ bound[bindings[i].fp].ordinal = bindings[i].ordinal
          BY <1>2, <4>2, RowsAreBound
        <5> QED BY <2>2, <3>1, <5>1, NextIsFree
      <4> QED BY <4>1, <4>2
    <3>3. Subs!AliasNamesOneAddress'
      BY <1>8, <3>1, <3>2, AppendedNew
    <3>4. /\ bindings' \in Seq(Row) /\ OrdinalsEnd'
          /\ DOMAIN bindings' = DOMAIN bindings \cup {Len(bindings) + 1}
          /\ \A i \in DOMAIN bindings : bindings'[i] = bindings[i]
          /\ bindings'[Len(bindings) + 1] = row
      BY <1>8, <3>1, Appended
    <3> QED BY <1>8, <3>3, <3>4
  <2> QED BY <2>1, <2>2
<1>12. SubsTypes'
  <2>1. bound' \in [DOMAIN bound' -> [ordinal : Nat \ {0}, name : Names]]
    BY <1>1, <1>3, <1>4, <1>5 DEF SubsInv, SubsTypes, Subs!Observed
  <2> QED BY <1>2, <1>3, <1>5, <1>11, <2>1 DEF SubsInv, SubsTypes
<1>13. Verified'
  BY <1>2, <1>4, <1>5, <1>8, <1>9, <1>11 DEF SubsInv, Verified
<1>14. BoundIsKnown'
  BY <1>5, <1>9, <1>11 DEF SubsInv, BoundIsKnown, Known
<1>15. PolledIsBound'
  BY <1>2, <1>5, <1>6, <1>7, <1>9 DEF SubsInv, PolledIsBound
<1> QED BY <1>11, <1>12, <1>13, <1>14, <1>15 DEF SubsInv

(* snapshot_all: of the address bound to the ordinal, answered or not.     *)
LEMMA SubsSnapshot ==
  ASSUME SubsInv, Subs!AddressesAssumption, Subs!SnapshotAnswered \/ Subs!SnapshotUnanswered
  PROVE  SubsInv'
<1> DEFINE o == Subs!Ordinal
<1>1. /\ ledger.at = "snapshots" /\ ledger.left # {} /\ ledger' = [ledger EXCEPT !.left = @ \ {o}]
      /\ UNCHANGED <<now, resolved, accounts, bound, subs, polled>>
  BY DEF Subs!SnapshotAnswered, Subs!SnapshotUnanswered, Subs!Snapshotting, Subs!memory
<1>2. o \in ledger.left /\ o \in Nat \ {0} /\ subs[o] \in Fingerprints /\ Known(o, subs[o])
  BY <1>1, PolledReport
<1>3. PICK k \in DOMAIN bindings : bindings[k].ordinal = o /\ bindings[k].fp = subs[o]
  BY <1>2 DEF Known
<1>4. bindings' = bindings \/ \E row \in Row : /\ bindings' = Append(bindings, row)
                                               /\ row.ordinal = o /\ row.fp = subs[o]
                                               /\ row.what # "seen"
  <2>1. CASE Subs!SnapshotAnswered
    <3> DEFINE row == [what |-> "snapshot", ordinal |-> o, fp |-> subs[o], at |-> now]
    <3>1. row \in Row /\ row.ordinal = o /\ row.fp = subs[o] /\ row.what # "seen"
      BY <1>2 DEF Row, SubsInv, SubsTypes
    <3>2. bindings' = Append(bindings, row)
      BY <2>1 DEF Subs!SnapshotAnswered
    <3> HIDE DEF row, o
    <3> QED BY <3>1, <3>2
  <2>2. CASE Subs!SnapshotUnanswered /\ bindings' # bindings
    <3>1. PICK w \in Subs!Missed(Subs!Cadence(o), now) :
            bindings' = Append(bindings, [what |-> "gap", ordinal |-> o, fp |-> subs[o],
                                      from |-> w.from, to |-> w.to])
      BY <2>2 DEF Subs!SnapshotUnanswered
    <3> DEFINE row == [what |-> "gap", ordinal |-> o, fp |-> subs[o],
                       from |-> w.from, to |-> w.to]
    <3>2. w.from \in Int /\ w.to \in Int
      BY <3>1 DEF SubsInv, SubsTypes, Subs!Missed, Subs!Cadence, Subs!Unanswered
    <3>3. row \in Row /\ row.ordinal = o /\ row.fp = subs[o] /\ row.what # "seen"
      BY <1>2, <3>2 DEF Row
    <3>4. bindings' = Append(bindings, row)
      BY <3>1
    <3> HIDE DEF row, o
    <3> QED BY <3>3, <3>4
  <2> QED BY <2>1, <2>2
<1>5. answered' \in [DOMAIN answered' -> Int]
  <2>1. CASE Subs!SnapshotAnswered
    BY <2>1 DEF Subs!SnapshotAnswered, SubsInv, SubsTypes
  <2>2. CASE Subs!SnapshotUnanswered
    BY <2>2 DEF Subs!SnapshotUnanswered, Subs!memory, SubsInv, SubsTypes
  <2> QED BY <2>1, <2>2
<1>6. PolledIsBound'
  BY <1>1 DEF SubsInv, PolledIsBound
<1> HIDE DEF o
<1>7. CASE bindings' = bindings
  <2>1. SubsTypes'
    BY <1>1, <1>5, <1>7 DEF SubsInv, SubsTypes
  <2>2. Verified' /\ BoundIsKnown' /\ OrdinalsEnd' /\ Subs!AliasNamesOneAddress'
    BY <1>1, <1>7, RecordStands
  <2> QED BY <1>6, <2>1, <2>2 DEF SubsInv
<1>8. ASSUME NEW row \in Row, bindings' = Append(bindings, row),
             row.ordinal = o, row.fp = subs[o], row.what # "seen"
      PROVE  SubsInv'
  <2>1. Verified' /\ BoundIsKnown'
    BY <1>1, <1>2, <1>8, ReportAppended
  <2>2. Subs!AliasNamesOneAddress'
    BY <1>3, <1>8, AppendedAlike
  <2>3. OrdinalsEnd' /\ bindings' \in Seq(Row)
    BY <1>8, Appended
  <2>4. SubsTypes'
    BY <1>1, <1>5, <2>3 DEF SubsInv, SubsTypes
  <2> QED BY <1>6, <2>1, <2>2, <2>3, <2>4 DEF SubsInv
<1> QED BY <1>4, <1>7, <1>8

(* The steps that record nothing.                                          *)
LEMMA SubsStill ==
  ASSUME SubsInv, bindings' = bindings, SubsTypes', PolledIsBound',
         bound' = bound, resolved' = resolved, ledger.at # "down"
  PROVE  SubsInv'
BY RecordStands DEF SubsInv

LEMMA SubsDown ==
  ASSUME SubsInv, bindings' = bindings, SubsTypes', PolledIsBound',
         ledger'.at = "down", BoundIsKnown'
  PROVE  SubsInv'
BY RecordStands DEF SubsInv, Verified

LEMMA SubsListingChanges ==
  ASSUME SubsInv, Subs!ListingChanges
  PROVE  SubsInv'
<1>1. /\ ledger.at = "listing"
      /\ UNCHANGED <<now, resolved, bindings, ledger, bound, subs, polled, answered>>
  BY DEF Subs!ListingChanges, Subs!memory
<1>2. DOMAIN accounts' \subseteq Fingerprints /\ accounts' \in [DOMAIN accounts' -> Names]
  <2>1. ASSUME NEW fp \in Fingerprints, NEW name \in Names, accounts' = Subs!Named(fp, name)
        PROVE  <1>2
    BY <2>1 DEF Subs!Named, SubsInv, SubsTypes
  <2>2. ASSUME NEW fp \in DOMAIN accounts,
               accounts' = [f \in DOMAIN accounts \ {fp} |-> accounts[f]]
        PROVE  <1>2
    BY <2>2 DEF SubsInv, SubsTypes
  <2> QED BY <2>1, <2>2 DEF Subs!ListingChanges
<1>3. SubsTypes'
  BY <1>1, <1>2 DEF SubsInv, SubsTypes
<1>4. PolledIsBound'
  BY <1>1 DEF SubsInv, PolledIsBound
<1> QED BY <1>1, <1>3, <1>4, SubsStill

LEMMA SubsKill ==
  ASSUME SubsInv, Subs!Kill
  PROVE  SubsInv'
<1>1. DOMAIN Subs!Nothing = {} /\ Subs!Nothing \in [DOMAIN Subs!Nothing -> Int]
      /\ Subs!Nothing \in [DOMAIN Subs!Nothing -> [ordinal : Nat \ {0}, name : Names]]
  BY DEF Subs!Nothing
<1>2. /\ UNCHANGED <<now, resolved, accounts, bindings>> /\ ledger'.at = "down" /\ polled' = {}
      /\ bound' = Subs!Nothing /\ subs' = Subs!Nothing /\ answered' = Subs!Nothing
  BY DEF Subs!Kill, Subs!Down
<1>3. SubsTypes'
  BY <1>1, <1>2 DEF SubsInv, SubsTypes
<1>4. PolledIsBound' /\ BoundIsKnown'
  BY <1>1, <1>2 DEF PolledIsBound, BoundIsKnown
<1> QED BY <1>2, <1>3, <1>4, SubsDown

LEMMA SubsInvNext ==
  ASSUME SubsInv, Subs!AddressesAssumption, [Subs!Next]_(Subs!vars)
  PROVE  SubsInv'
<1>1. CASE Subs!Tick
  <2>1. ledger.at = "waiting" /\ now' \in Int
        /\ UNCHANGED <<resolved, accounts, bindings, ledger, bound, subs, polled, answered>>
    BY <1>1 DEF Subs!Tick, Subs!Waiting, Subs!memory, SubsInv, SubsTypes
  <2>2. SubsTypes' /\ PolledIsBound'
    BY <2>1 DEF SubsInv, SubsTypes, PolledIsBound
  <2> QED BY <2>1, <2>2, SubsStill
<1>2. CASE Subs!ListingChanges
  BY <1>2, SubsListingChanges
<1>3. CASE Subs!Repoint
  <2>1. ledger.at = "down" /\ resolved' \in Masters
        /\ UNCHANGED <<now, accounts, bindings, ledger, bound, subs, polled, answered>>
    BY <1>3 DEF Subs!Repoint, Subs!Down, Subs!memory
  <2>2. SubsTypes' /\ PolledIsBound' /\ BoundIsKnown'
    BY <2>1 DEF SubsInv, SubsTypes, PolledIsBound, BoundIsKnown, Known
  <2> QED BY <2>1, <2>2, SubsDown
<1>4. CASE Subs!Boot
  BY <1>4, SubsBoot
<1>5. CASE Subs!ListingAnswered
  BY <1>5, SubsListing
<1>6. CASE Subs!ListingRefused
  <2>1. ledger.at = "listing" /\ ledger' = [at |-> "waiting"]
        /\ UNCHANGED <<now, resolved, accounts, bindings, bound, subs, polled, answered>>
    BY <1>6 DEF Subs!ListingRefused, Subs!Waiting, Subs!memory
  <2>2. SubsTypes' /\ PolledIsBound'
    BY <2>1 DEF SubsInv, SubsTypes, PolledIsBound
  <2> QED BY <2>1, <2>2, SubsStill
<1>7. CASE Subs!BindOne
  BY <1>7, SubsBind
<1>8. CASE Subs!StopMissing
  <2>1. /\ ledger.at = "binding" /\ ledger' = [at |-> "waiting"] /\ polled' \subseteq polled
        /\ UNCHANGED <<now, resolved, accounts, bindings, bound, subs, answered>>
    BY <1>8 DEF Subs!StopMissing, Subs!Waiting
  <2>2. SubsTypes' /\ PolledIsBound'
    BY <2>1 DEF SubsInv, SubsTypes, PolledIsBound
  <2> QED BY <2>1, <2>2, SubsStill
<1>9. CASE Subs!StartPass
  <2>1. /\ ledger.at = "waiting"
        /\ ledger' = [at |-> "listing"] \/ ledger' = [at |-> "snapshots", left |-> polled]
        /\ UNCHANGED <<now, resolved, accounts, bindings, bound, subs, polled, answered>>
    BY <1>9 DEF Subs!StartPass, Subs!Waiting, Subs!memory
  <2>2. SubsTypes' /\ PolledIsBound'
    BY <2>1 DEF SubsInv, SubsTypes, PolledIsBound
  <2> QED BY <2>1, <2>2, SubsStill
<1>10. CASE Subs!SnapshotAnswered \/ Subs!SnapshotUnanswered
  BY <1>10, SubsSnapshot
<1>11. CASE Subs!PassEnds
  <2>1. ledger.at = "snapshots" /\ ledger' = [at |-> "waiting"]
        /\ UNCHANGED <<now, resolved, accounts, bindings, bound, subs, polled, answered>>
    BY <1>11 DEF Subs!PassEnds, Subs!Waiting, Subs!memory
  <2>2. SubsTypes' /\ PolledIsBound'
    BY <2>1 DEF SubsInv, SubsTypes, PolledIsBound
  <2> QED BY <2>1, <2>2, SubsStill
<1>12. CASE Subs!Kill
  BY <1>12, SubsKill
<1>13. CASE UNCHANGED Subs!vars
  <2>1. UNCHANGED <<now, resolved, accounts, bindings, ledger, bound, subs, polled, answered>>
    BY <1>13 DEF Subs!vars, Subs!memory
  <2>2. SubsTypes' /\ PolledIsBound' /\ BoundIsKnown' /\ Verified'
    BY <2>1 DEF SubsInv, SubsTypes, PolledIsBound, BoundIsKnown, Known, Verified
  <2> QED BY <2>1, <2>2, RecordStands DEF SubsInv
<1> QED
  BY <1>1, <1>2, <1>3, <1>4, <1>5, <1>6, <1>7, <1>8, <1>9, <1>10, <1>11, <1>12, <1>13
  DEF Subs!Next

(***************************************************************************)
(* AliasNamesOneAddress, for any masters, sub-accounts and bounds          *)
(* (accounts.rs, observe, from_seen and check_fingerprints): an alias      *)
(* names one address for good and is bound in the record before anything   *)
(* is recorded under it, over renames, disappearances, listings in any     *)
(* order, kills at any step and a vault that is repointed.                 *)
(***************************************************************************)
THEOREM AliasesAreKept == PartsSpec => []AliasNamesOneAddress
<1>1. PartsInit => (part = "discovery" => SubsInv)
  BY SubsInvInit, InstancesAssumption DEF PartsInit, DiscoveryInit
<1>2. (part = "discovery" => SubsInv) /\ [PartsNext]_partsVars => (part = "discovery" => SubsInv)'
  BY OnePartMoves, SubsInvNext, InstancesAssumption
<1>3. (part = "discovery" => SubsInv) => AliasNamesOneAddress
  BY DEF SubsInv, AliasNamesOneAddress
<1> QED BY <1>1, <1>2, <1>3, PTL DEF PartsSpec

-----------------------------------------------------------------------------
(* Replay.                                                                 *)
ReplayParams == Replayed!ReceivedAssumption /\ Replayed!RangeAssumption

Before(r, s) == Replayed!Before(r, s)
Passed(r) == \E i \in DOMAIN yielded : yielded[i] = r
(* Nothing yielded so far comes after it.                                  *)
Ahead(r) == yielded # <<>> => Before(yielded[Len(yielded)], r)

SegmentsInv ==
  \A s \in segments :
    /\ s.rows \subseteq Received /\ s.rows # {}
    /\ s.timed \in BOOLEAN
    /\ \A r \in s.rows : r.recv \div DayTicks = s.day
AskedInv == asked.from \in Nat /\ asked.to \in Nat

(* What a replay has yet to yield is ahead, and is held or in a segment    *)
(* still to be opened.                                                     *)
ReplayInv ==
  /\ SegmentsInv /\ AskedInv
  /\ yielded \in Seq(Replayed!InScope) /\ open \subseteq Replayed!InScope
  /\ pending \subseteq {s \in segments : s.kind \in asked.kinds}
  /\ replay \in {"unasked", "replaying", "failed", "done"}
  /\ replay = "unasked" => pending = {} /\ open = {} /\ yielded = <<>>
  /\ \A i \in 1 .. Len(yielded) - 1 : Before(yielded[i], yielded[i + 1])
  /\ \A r \in open : Ahead(r)
  /\ \A s \in pending : \A r \in s.rows : Replayed!Asked(r) => Ahead(r)
  /\ \A r \in Replayed!InScope : Passed(r) \/ (replay # "done" /\ Ahead(r))
  /\ replay = "replaying" =>
       \A r \in Replayed!InScope : Passed(r) \/ r \in open \/ \E s \in pending : r \in s.rows

LEMMA ScopeIs ==
  ASSUME ReplayParams, SegmentsInv, NEW r \in Replayed!InScope
  PROVE  /\ r \in Received /\ r.recv \in Nat /\ r.seq \in Nat /\ Replayed!Asked(r)
         /\ \E s \in segments : s.kind \in asked.kinds /\ r \in s.rows
BY DEF ReplayParams, SegmentsInv, Replayed!InScope, Replayed!ReceivedAssumption

(* The order of receipt has a first among any rows.                        *)
LEMMA FirstOfRows ==
  ASSUME ReplayParams, NEW S \in SUBSET Received, S # {}
  PROVE  \E r \in S : \A s \in S : Before(r, s)
<1>1. \A r \in S : r.recv \in Nat /\ r.seq \in Nat
  BY DEF ReplayParams, Replayed!ReceivedAssumption
<1> DEFINE T == {r.recv : r \in S}
<1>2. PICK m \in T : \A t \in T : m <= t
  <2>1. T \in SUBSET Nat /\ T # {}
    BY <1>1
  <2> QED BY <2>1, LeastNat
<1> DEFINE Q == {r.seq : r \in {x \in S : x.recv = m}}
<1>3. PICK q \in Q : \A t \in Q : q <= t
  <2>1. Q \in SUBSET Nat /\ Q # {}
    BY <1>1, <1>2
  <2> QED BY <2>1, LeastNat
<1>4. PICK r \in S : r.recv = m /\ r.seq = q
  BY <1>3
<1>5. ASSUME NEW s \in S PROVE Before(r, s)
  <2>1. s.recv \in Nat /\ r.recv <= s.recv /\ r.recv \in Nat
    BY <1>1, <1>2, <1>4
  <2>2. s.recv = r.recv => r.seq <= s.seq
    BY <1>3, <1>4
  <2> QED BY <2>1, <2>2 DEF Before, Replayed!Before
<1> QED BY <1>4, <1>5

LEMMA EarliestIs ==
  ASSUME ReplayParams, ReplayInv, open # {}
  PROVE  Replayed!Earliest \in open /\ \A r \in open : Before(Replayed!Earliest, r)
<1>1. open \in SUBSET Received
  BY ScopeIs DEF ReplayInv
<1>2. \E r \in open : \A s \in open : Replayed!Before(r, s)
  BY <1>1, FirstOfRows DEF Before
<1> QED BY <1>2, Zenon DEF Replayed!Earliest, Before

(* The beginning a segment's name claims for it is no later than its rows. *)
LEMMA FirstIs ==
  ASSUME ReplayParams, SegmentsInv, NEW s \in segments
  PROVE  /\ Replayed!First(s) \in Int /\ -1 <= Replayed!First(s)
         /\ \A r \in s.rows : Replayed!First(s) <= r.recv
<1> DEFINE T == Replayed!Receipts(s)
<1>1. T \in SUBSET Nat /\ T # {} /\ \A r \in s.rows : r.recv \in T
  BY DEF ReplayParams, SegmentsInv, Replayed!ReceivedAssumption, Replayed!Receipts
<1>2. \E x \in T : \A y \in T : x <= y
  BY <1>1, LeastNat
<1>3. Replayed!Min(T) \in T /\ \A y \in T : Replayed!Min(T) <= y
  BY <1>2, Zenon DEF Replayed!Min
<1>4. Replayed!First(s) = Replayed!Min(T) \/ Replayed!First(s) = -1
  BY DEF Replayed!First
<1>5. \A r \in s.rows : r.recv \in Nat
  BY <1>1
<1> DEFINE m == Replayed!Min(T)
<1>6. m \in Nat /\ (\A r \in s.rows : m <= r.recv)
      /\ (Replayed!First(s) = m \/ Replayed!First(s) = -1)
  BY <1>1, <1>3, <1>4
<1> HIDE DEF m, T
<1> QED BY <1>5, <1>6

LEMMA NextPendingIs ==
  ASSUME ReplayParams, ReplayInv, pending # {}
  PROVE  /\ Replayed!NextPending \in pending
         /\ \A s \in pending : Replayed!First(Replayed!NextPending) <= Replayed!First(s)
<1> DEFINE T == {Replayed!First(s) + 1 : s \in pending}
<1>1. \A s \in pending : Replayed!First(s) \in Int /\ Replayed!First(s) + 1 \in Nat
  BY FirstIs DEF ReplayInv
<1>2. PICK m \in T : \A t \in T : m <= t
  <2>1. T \in SUBSET Nat /\ T # {}
    BY <1>1
  <2> QED BY <2>1, LeastNat
<1>3. \E s \in pending : \A t \in pending : Replayed!First(s) <= Replayed!First(t)
  <2>1. PICK s \in pending : m = Replayed!First(s) + 1
    BY <1>2
  <2>2. ASSUME NEW t \in pending PROVE Replayed!First(s) <= Replayed!First(t)
    <3>1. m <= Replayed!First(t) + 1
      BY <1>2
    <3> QED BY <1>1, <2>1, <3>1
  <2> QED BY <2>2
<1> QED BY <1>3, Zenon DEF Replayed!NextPending

(* stream_range: pruning by day and by name passes over no row asked for.  *)
LEMMA NothingPruned ==
  ASSUME ReplayParams, ReplayInv, NEW r \in Replayed!InScope
  PROVE  \E s \in {t \in segments : Replayed!Covers(t.day) /\ t.kind \in asked.kinds
                                      /\ Replayed!NameOverlaps(t)} : r \in s.rows
<1>1. PICK s \in segments : s.kind \in asked.kinds /\ r \in s.rows
  BY ScopeIs DEF ReplayInv
<1>2. /\ r.recv \in Nat /\ asked.from <= r.recv /\ r.recv < asked.to
      /\ asked.from \in Nat /\ asked.to \in Nat
  BY ScopeIs DEF ReplayInv, AskedInv, Replayed!Asked
<1>3. Replayed!Covers(s.day)
  <2>1. DayTicks \in Nat /\ DayTicks > 0
    BY DEF ReplayParams, Replayed!RangeAssumption
  <2>2. s.day = r.recv \div DayTicks
    BY <1>1 DEF ReplayInv, SegmentsInv
  <2> DEFINE d == r.recv \div DayTicks
  <2>3. d \in Int /\ d * DayTicks <= r.recv /\ r.recv < (d + 1) * DayTicks
    BY <1>2, <2>1
  <2> HIDE DEF d
  <2>4. d * DayTicks \in Int /\ (d + 1) * DayTicks \in Int
    BY <2>1, <2>3
  <2> QED BY <1>2, <2>2, <2>3, <2>4 DEF Replayed!Covers, d
<1>4. Replayed!NameOverlaps(s)
  <2> DEFINE T == Replayed!Receipts(s)
  <2>1. T \in SUBSET Nat /\ r.recv \in T
    BY <1>1 DEF ReplayParams, ReplayInv, SegmentsInv, Replayed!ReceivedAssumption,
                Replayed!Receipts
  <2>2. PICK last \in Nat : \A t \in T : t <= last
    <3>1. PICK last \in {x.recv : x \in Received} \cup {0} : \A x \in Received : x.recv <= last
      BY DEF ReplayParams, Replayed!ReceivedAssumption
    <3>2. last \in Nat
      BY <3>1 DEF ReplayParams, Replayed!ReceivedAssumption
    <3>3. \A t \in T : t <= last
      BY <1>1, <3>1 DEF ReplayInv, SegmentsInv, Replayed!Receipts
    <3> QED BY <3>2, <3>3
  <2>3. (\E x \in T : \A y \in T : x <= y) /\ (\E x \in T : \A y \in T : x >= y)
    BY <2>1, <2>2, LeastNat, GreatestNat
  <2>4. /\ Replayed!Max(T) \in T /\ \A y \in T : Replayed!Max(T) >= y
        /\ Replayed!Min(T) \in T /\ \A y \in T : Replayed!Min(T) <= y
    BY <2>3, Zenon DEF Replayed!Max, Replayed!Min
  <2> DEFINE a == Replayed!Min(T)
             b == Replayed!Max(T)
  <2>5. a \in Nat /\ b \in Nat /\ a <= r.recv /\ b >= r.recv
    BY <2>1, <2>4
  <2>6. a < asked.to /\ b >= asked.from
    <3> HIDE DEF a, b
    <3> QED BY <1>2, <2>5
  <2> QED BY <2>6 DEF Replayed!NameOverlaps
<1> QED BY <1>1, <1>3, <1>4

LEMMA ReplayInvInit ==
  ASSUME ReplayParams, Replayed!Init
  PROVE  ReplayInv
<1>1. PICK kind \in [Received -> ReplayKinds], flush \in [Received -> Flushes],
           untimed \in Flushes \cup {"none"} :
         segments = Replayed!Divided(kind, flush, untimed)
  BY DEF Replayed!Init
<1>2. SegmentsInv
  <2> DEFINE place(r) == [kind |-> kind[r], flush |-> flush[r], day |-> r.recv \div DayTicks]
  <2>1. SUFFICES ASSUME NEW s \in segments
                 PROVE  /\ s.rows \subseteq Received /\ s.rows # {} /\ s.timed \in BOOLEAN
                        /\ \A r \in s.rows : r.recv \div DayTicks = s.day
    BY DEF SegmentsInv
  <2>2. PICK p \in {place(r) : r \in Received} :
          s = [kind |-> p.kind, flush |-> p.flush, day |-> p.day, timed |-> p.flush # untimed,
               rows |-> {r \in Received : place(r) = p}]
    BY <1>1 DEF Replayed!Divided
  <2>3. s.rows = {r \in Received : place(r) = p} /\ s.day = p.day /\ s.timed \in BOOLEAN
    BY <2>2
  <2>4. \A r \in s.rows : place(r).day = s.day
    BY <2>3
  <2> QED BY <2>2, <2>3, <2>4
<1>3. AskedInv
  BY DEF Replayed!Init, AskedInv, ReplayParams, Replayed!RangeAssumption
<1>4. pending = {} /\ open = {} /\ yielded = <<>> /\ replay = "unasked"
  BY DEF Replayed!Init
<1>5. yielded \in Seq(Replayed!InScope) /\ Len(yielded) = 0
  BY <1>4
<1> QED BY <1>2, <1>3, <1>4, <1>5 DEF ReplayInv, Ahead

LEMMA ReplayStarts ==
  ASSUME ReplayParams, ReplayInv, Replayed!StreamRange
  PROVE  ReplayInv'
<1>1. /\ replay = "unasked" /\ replay' = "replaying" /\ UNCHANGED <<segments, asked, open, yielded>>
      /\ pending' = {s \in segments : Replayed!Covers(s.day) /\ s.kind \in asked.kinds
                                      /\ Replayed!NameOverlaps(s)}
  BY DEF Replayed!StreamRange
<1>2. open = {} /\ yielded = <<>>
  BY <1>1 DEF ReplayInv
<1>3. Replayed!InScope' = Replayed!InScope
  BY <1>1 DEF Replayed!InScope, Replayed!Asked
<1>4. SegmentsInv' /\ AskedInv'
  BY <1>1 DEF ReplayInv, SegmentsInv, AskedInv
<1>5. \A r \in Replayed!InScope : \E s \in pending' : r \in s.rows
  BY <1>1, NothingPruned
<1>6. \A r : Ahead(r)'
  BY <1>1, <1>2 DEF Ahead
<1>7. pending' \subseteq {s \in segments : s.kind \in asked.kinds}
  BY <1>1
<1>8. \A i \in 1 .. Len(yielded') - 1 : Before(yielded'[i], yielded'[i + 1])
  BY <1>1, <1>2
<1> QED BY <1>1, <1>2, <1>3, <1>4, <1>5, <1>6, <1>7, <1>8 DEF ReplayInv

(* Replay::open_segment: the rows of a pending segment are all ahead.      *)
LEMMA ReplayOpens ==
  ASSUME ReplayParams, ReplayInv, Replayed!Open
  PROVE  ReplayInv'
<1> DEFINE n == Replayed!NextPending
<1>1. /\ replay = "replaying" /\ pending # {} /\ pending' = pending \ {n}
      /\ UNCHANGED <<segments, asked, yielded>>
  BY DEF Replayed!Open, Replayed!MustOpen
<1>2. \/ open' = open \cup {r \in n.rows : Replayed!Asked(r)} /\ replay' = replay
      \/ open' = open /\ replay' = "failed"
  BY DEF Replayed!Open
<1>3. n \in pending
  BY <1>1, NextPendingIs
<1>4. Replayed!InScope' = Replayed!InScope
  BY <1>1 DEF Replayed!InScope, Replayed!Asked
<1>5. SegmentsInv' /\ AskedInv'
  BY <1>1 DEF ReplayInv, SegmentsInv, AskedInv
<1> HIDE DEF n
<1>6. /\ \A r : Ahead(r)' <=> Ahead(r)
      /\ \A r : Passed(r)' <=> Passed(r)
      /\ \A r : Replayed!Asked(r)' <=> Replayed!Asked(r)
  BY <1>1 DEF Ahead, Passed, Replayed!Asked
<1>7. {r \in n.rows : Replayed!Asked(r)} \subseteq Replayed!InScope
  BY <1>3 DEF ReplayInv, Replayed!InScope
<1>8. open' \subseteq Replayed!InScope /\ \A r \in open' : Ahead(r)
  BY <1>2, <1>3, <1>7 DEF ReplayInv
<1>9. replay' = "replaying" =>
        \A r \in Replayed!InScope : Passed(r) \/ r \in open' \/ \E s \in pending' : r \in s.rows
  <2>1. SUFFICES ASSUME replay' = "replaying", NEW r \in Replayed!InScope,
                        ~Passed(r), r \notin open
                 PROVE  r \in open' \/ \E s \in pending' : r \in s.rows
    BY <1>2
  <2>2. PICK s \in pending : r \in s.rows
    BY <1>1, <2>1 DEF ReplayInv
  <2>3. CASE s = n
    BY <1>2, <2>1, <2>2, <2>3, ScopeIs DEF ReplayInv
  <2>4. CASE s # n
    BY <1>1, <2>2, <2>4
  <2> QED BY <2>3, <2>4
<1>10. pending' \subseteq pending /\ replay' \in {"replaying", "failed"}
  BY <1>1, <1>2
<1>11. \A r \in Replayed!InScope : Passed(r) \/ Ahead(r)
  BY DEF ReplayInv
<1>12. \A s \in pending' : \A r \in s.rows : Replayed!Asked(r) => Ahead(r)
  BY <1>10 DEF ReplayInv
<1>13. pending' \subseteq {s \in segments : s.kind \in asked.kinds}
  BY <1>10 DEF ReplayInv
<1>14. \A i \in 1 .. Len(yielded') - 1 : Before(yielded'[i], yielded'[i + 1])
  BY <1>1 DEF ReplayInv
<1>15. yielded' \in Seq(Replayed!InScope)
  BY <1>1 DEF ReplayInv
<1> QED
  BY <1>1, <1>4, <1>5, <1>6, <1>8, <1>9, <1>10, <1>11, <1>12, <1>13, <1>14, <1>15 DEF ReplayInv

(* Replay::next: the earliest row held is before every other row to come,  *)
(* since a segment that could begin as early was opened first.             *)
LEMMA ReplayYields ==
  ASSUME ReplayParams, ReplayInv, Replayed!Yield
  PROVE  ReplayInv'
<1> DEFINE e == Replayed!Earliest
<1>1. /\ replay = "replaying" /\ ~Replayed!MustOpen /\ open # {}
      /\ yielded' = Append(yielded, e) /\ open' = open \ {e}
      /\ UNCHANGED <<segments, asked, pending, replay>>
  BY DEF Replayed!Yield
<1>2. e \in open /\ \A r \in open : Before(e, r)
  BY <1>1, EarliestIs
<1>3. e \in Replayed!InScope /\ e.recv \in Nat
  BY <1>2, ScopeIs DEF ReplayInv
<1>4. \A s \in pending : \A r \in s.rows : Before(e, r)
  <2>1. SUFFICES ASSUME NEW s \in pending, NEW r \in s.rows PROVE Before(e, r)
    OBVIOUS
  <2> DEFINE n == Replayed!NextPending
  <2>2. n \in pending /\ Replayed!First(n) <= Replayed!First(s)
    BY NextPendingIs
  <2>3. s \in segments /\ n \in segments
    BY <2>2 DEF ReplayInv
  <2>4. Replayed!First(s) \in Int /\ Replayed!First(n) \in Int /\ Replayed!First(s) <= r.recv
    BY <2>3, FirstIs DEF ReplayInv
  <2>5. ~(e.recv >= Replayed!First(n))
    BY <1>1 DEF Replayed!MustOpen
  <2>6. r.recv \in Nat
    BY <2>3 DEF ReplayInv, SegmentsInv, ReplayParams, Replayed!ReceivedAssumption
  <2> HIDE DEF n, e
  <2>7. e.recv < r.recv
    BY <1>3, <2>2, <2>4, <2>5, <2>6
  <2> QED BY <2>7 DEF Before, Replayed!Before
<1> HIDE DEF e
<1>5. Replayed!InScope' = Replayed!InScope
  BY <1>1 DEF Replayed!InScope, Replayed!Asked
<1>6. SegmentsInv' /\ AskedInv' /\ \A r : Replayed!Asked(r)' <=> Replayed!Asked(r)
  BY <1>1 DEF ReplayInv, SegmentsInv, AskedInv, Replayed!Asked
<1>7. /\ yielded' \in Seq(Replayed!InScope) /\ Len(yielded) \in Nat
      /\ Len(yielded') = Len(yielded) + 1 /\ yielded'[Len(yielded')] = e
      /\ \A i \in 1 .. Len(yielded) : yielded'[i] = yielded[i]
      /\ DOMAIN yielded' = 1 .. Len(yielded) + 1 /\ DOMAIN yielded = 1 .. Len(yielded)
      /\ (yielded # <<>> => Len(yielded) # 0)
  BY <1>1, <1>3 DEF ReplayInv
<1>8. \A r : Ahead(r)' <=> Before(e, r)
  <2>1. yielded' # <<>>
    BY <1>7
  <2> QED BY <1>7, <2>1 DEF Ahead
<1>9. \A r : Passed(r)' <=> Passed(r) \/ r = e
  BY <1>7 DEF Passed
<1>10. \A i \in 1 .. Len(yielded') - 1 : Before(yielded'[i], yielded'[i + 1])
  <2>1. SUFFICES ASSUME NEW i \in 1 .. Len(yielded) PROVE Before(yielded'[i], yielded'[i + 1])
    BY <1>7
  <2>2. CASE i = Len(yielded)
    <3>1. Ahead(e) /\ yielded # <<>>
      BY <1>2, <1>7, <2>2 DEF ReplayInv
    <3> QED BY <1>7, <2>2, <3>1 DEF Ahead
  <2>3. CASE i # Len(yielded)
    <3>1. Len(yielded) \in Nat
      BY <1>7
    <3>2. i \in 1 .. Len(yielded) - 1 /\ i + 1 \in 1 .. Len(yielded)
      BY <2>3, <3>1
    <3> QED BY <1>7, <3>2 DEF ReplayInv
  <2> QED BY <2>2, <2>3
<1>11. \A r \in Replayed!InScope :
         \/ Passed(r) \/ r = e
         \/ Before(e, r) /\ (r \in open' \/ \E s \in pending : r \in s.rows)
  BY <1>1, <1>2, <1>4 DEF ReplayInv
<1>12. /\ open' \subseteq Replayed!InScope /\ \A r \in open' : Before(e, r)
       /\ pending \subseteq {s \in segments : s.kind \in asked.kinds}
  BY <1>1, <1>2 DEF ReplayInv
<1> QED
  BY <1>1, <1>4, <1>5, <1>6, <1>7, <1>8, <1>9, <1>10, <1>11, <1>12 DEF ReplayInv

LEMMA ReplayEnds ==
  ASSUME ReplayParams, ReplayInv, Replayed!Exhausted
  PROVE  ReplayInv'
<1>1. /\ replay = "replaying" /\ replay' = "done" /\ pending = {} /\ open = {}
      /\ UNCHANGED <<segments, asked, pending, open, yielded>>
  BY DEF Replayed!Exhausted
<1>2. \A r \in Replayed!InScope : Passed(r)
  BY <1>1 DEF ReplayInv
<1>3. /\ Replayed!InScope' = Replayed!InScope
      /\ \A r : (Passed(r)' <=> Passed(r)) /\ (Ahead(r)' <=> Ahead(r))
  BY <1>1 DEF Replayed!InScope, Replayed!Asked, Passed, Ahead
<1>4. SegmentsInv' /\ AskedInv'
  BY <1>1 DEF ReplayInv, SegmentsInv, AskedInv
<1> QED BY <1>1, <1>2, <1>3, <1>4 DEF ReplayInv

LEMMA ReplayInvNext ==
  ASSUME ReplayParams, ReplayInv, [Replayed!Next]_(Replayed!vars)
  PROVE  ReplayInv'
<1>1. CASE Replayed!StreamRange
  BY <1>1, ReplayStarts
<1>2. CASE Replayed!Open
  BY <1>2, ReplayOpens
<1>3. CASE Replayed!Yield
  BY <1>3, ReplayYields
<1>4. CASE Replayed!Exhausted
  BY <1>4, ReplayEnds
<1>5. CASE Replayed!Removed \/ UNCHANGED Replayed!vars
  <2>1. UNCHANGED <<segments, asked, pending, open, yielded, replay>>
    BY <1>5 DEF Replayed!Removed, Replayed!vars
  <2>2. /\ Replayed!InScope' = Replayed!InScope
        /\ \A r : /\ (Passed(r)' <=> Passed(r)) /\ (Ahead(r)' <=> Ahead(r))
                  /\ (Replayed!Asked(r)' <=> Replayed!Asked(r))
    BY <2>1 DEF Replayed!InScope, Replayed!Asked, Passed, Ahead
  <2>3. SegmentsInv' /\ AskedInv'
    BY <2>1 DEF ReplayInv, SegmentsInv, AskedInv
  <2> QED BY <2>1, <2>2, <2>3 DEF ReplayInv
<1> QED BY <1>1, <1>2, <1>3, <1>4, <1>5 DEF Replayed!Next

LEMMA ReplayInvImplies == ReplayInv => Replayed!YieldedIsPrefix
<1> SUFFICES ASSUME ReplayInv PROVE Replayed!YieldedIsPrefix
  OBVIOUS
<1>1. \A i \in DOMAIN yielded : yielded[i] \in Replayed!InScope
  BY DEF ReplayInv
<1>2. \A r \in Replayed!InScope :
        \/ \E i \in DOMAIN yielded : yielded[i] = r
        \/ replay # "done" /\ (yielded # <<>> => Replayed!Before(Replayed!Last(yielded), r))
  BY DEF ReplayInv, Passed, Ahead, Before, Replayed!Last
<1> QED BY <1>1, <1>2 DEF ReplayInv, Before, Replayed!YieldedIsPrefix

(***************************************************************************)
(* YieldedIsPrefix, for any division of any payloads into segments and any *)
(* range (replay.rs, stream_range): a lazy merge yields the range in the   *)
(* order of receipt, and all of it unless it ends with an error, though    *)
(* names and days alone decide what is listed, segments are opened only    *)
(* when the merge reaches them, and any may be removed before.             *)
(***************************************************************************)
THEOREM ReplaysAreInOrder == PartsSpec => []YieldedIsPrefix
<1>1. PartsInit => (part = "replay" => ReplayInv)
  BY ReplayInvInit, InstancesAssumption DEF PartsInit, ReplayInit, ReplayParams
<1>2. (part = "replay" => ReplayInv) /\ [PartsNext]_partsVars => (part = "replay" => ReplayInv)'
  BY OnePartMoves, ReplayInvNext, InstancesAssumption DEF ReplayParams
<1>3. (part = "replay" => ReplayInv) => YieldedIsPrefix
  BY ReplayInvImplies, InstancesAssumption DEF YieldedIsPrefix, ReplayParams
<1> QED BY <1>1, <1>2, <1>3, PTL DEF PartsSpec

-----------------------------------------------------------------------------
(* Grid.                                                                   *)
(* A bar says what the price was when it ended, or when it was heard.      *)
BarInv(bar) ==
  /\ bar.start \in Nat /\ bar.width \in Widths
  /\ bar.recv \in DOMAIN price
  /\ bar.recv >= bar.start + bar.width => bar.close = price[bar.start + bar.width]
GridInv ==
  /\ \E n \in Nat : DOMAIN price = 0 .. n
  /\ \A bar \in bars : BarInv(bar)

LEMMA NowIs ==
  ASSUME NEW n \in Nat, DOMAIN price = 0 .. n
  PROVE  Returned!Now = n
<1>1. n \in DOMAIN price /\ \A t \in DOMAIN price : n >= t
  OBVIOUS
<1>2. \E m \in DOMAIN price : \A t \in DOMAIN price : m >= t
  BY <1>1
<1>3. LET m == Returned!Max(DOMAIN price) IN m \in DOMAIN price /\ \A t \in DOMAIN price : m >= t
  BY <1>2, Zenon DEF Returned!Max
<1> DEFINE m == Returned!Max(DOMAIN price)
<1>4. m \in 0 .. n /\ m >= n
  BY <1>1, <1>3
<1> HIDE DEF m
<1>5. m = n
  BY <1>4
<1> QED BY <1>5 DEF Returned!Now, m

LEMMA SmallerOfTwo ==
  ASSUME NEW a \in Nat, NEW b \in Nat, b >= a
  PROVE  Returned!Min({a, b}) = a
<1>1. \E x \in {a, b} : \A y \in {a, b} : x <= y
  OBVIOUS
<1>2. LET m == Returned!Min({a, b}) IN m \in {a, b} /\ \A y \in {a, b} : m <= y
  BY <1>1, Zenon DEF Returned!Min
<1> DEFINE m == Returned!Min({a, b})
<1>3. (m = a \/ m = b) /\ m <= a
  BY <1>2
<1> HIDE DEF m
<1>4. m = a
  BY <1>3
<1> QED BY <1>4 DEF m

LEMMA Products ==
  ASSUME NEW a \in Int, NEW b \in Int, a <= b, NEW c \in Nat
  PROVE  a * c <= b * c /\ a * c \in Int /\ b * c \in Int
<1>1. a * c \in Int /\ b * c \in Int /\ (b - a) * c \in Int
  OBVIOUS
<1>2. b - a \in Nat /\ (b - a) * c >= 0
  OBVIOUS
<1>3. (b - a) * c = b * c - a * c
  OBVIOUS
<1> QED BY <1>1, <1>2, <1>3

(* A bar no wider than a bucket that ends where one ends is of that one.   *)
LEMMA EndOfSlot ==
  ASSUME NEW B \in Nat \ {0}, NEW width \in Nat \ {0}, NEW start \in Nat,
         B % width = 0, (start + width) % B = 0
  PROVE  start + width = ((start \div B) + 1) * B
<1> DEFINE d == start \div B
           k == (start + width) \div B
<1>1. width <= B
  <2>1. CASE width > B
    <3>1. B % width = B
      BY <2>1
    <3> QED BY <3>1
  <2> QED BY <2>1
<1>2. d \in Int /\ start = d * B + (start % B) /\ start % B \in 0 .. (B - 1)
  OBVIOUS
<1>3. k \in Int /\ start + width = k * B
  <2>1. k \in Int /\ start + width = k * B + ((start + width) % B)
    OBVIOUS
  <2> QED BY <2>1
<1> HIDE DEF d, k
<1>4. k > d
  <2>1. CASE k <= d
    <3>1. k * B <= d * B /\ k * B \in Int /\ d * B \in Int
      BY <1>2, <1>3, <2>1, Products
    <3> QED BY <1>2, <1>3, <3>1
  <2> QED BY <1>2, <1>3, <2>1
<1>5. k < d + 2
  <2>1. CASE d + 2 <= k
    <3>1. (d + 2) * B <= k * B /\ k * B \in Int /\ (d + 2) * B \in Int
      BY <1>2, <1>3, <2>1, Products
    <3>2. (d + 2) * B = d * B + 2 * B /\ d * B \in Int
      BY <1>2
    <3>3. start % B < B /\ start % B \in Int
      BY <1>2
    <3> QED BY <1>1, <1>2, <1>3, <3>1, <3>2, <3>3
  <2> QED BY <1>2, <1>3, <2>1
<1>6. k = d + 1
  BY <1>2, <1>3, <1>4, <1>5
<1> QED BY <1>3, <1>6 DEF d

LEMMA GridInvInit ==
  ASSUME Returned!Init
  PROVE  GridInv
<1>1. DOMAIN price = 0 .. 0 /\ bars = {} /\ 0 \in Nat
  BY DEF Returned!Init
<1> QED BY <1>1 DEF GridInv

LEMMA GridTrades ==
  ASSUME GridInv, Returned!WidthsAssumption, Returned!Trade
  PROVE  GridInv'
<1>1. PICK n \in Nat : DOMAIN price = 0 .. n
  BY DEF GridInv
<1>2. Returned!Now = n
  BY <1>1, NowIs
<1>3. PICK p \in GridPrices :
        price' = [t \in 0 .. (n + 1) |-> IF t > n THEN p ELSE price[t]]
  BY <1>2 DEF Returned!Trade
<1>4. DOMAIN price' = 0 .. (n + 1) /\ \A t \in DOMAIN price : t \in DOMAIN price'
                                                        /\ price'[t] = price[t]
  BY <1>1, <1>3
<1>5. ASSUME NEW bar \in bars PROVE BarInv(bar)'
  <2>1. BarInv(bar)
    BY DEF GridInv
  <2>2. bar.recv \in DOMAIN price'
    BY <1>4, <2>1 DEF BarInv
  <2>3. bar.recv >= bar.start + bar.width => bar.close = price'[bar.start + bar.width]
    <3>1. SUFFICES ASSUME bar.recv >= bar.start + bar.width
                   PROVE  bar.start + bar.width \in DOMAIN price
      BY <1>4, <2>1 DEF BarInv
    <3>2. bar.start \in Nat /\ bar.width \in Nat /\ bar.recv \in 0 .. n
      BY <1>1, <2>1 DEF BarInv, Returned!WidthsAssumption
    <3> QED BY <1>1, <3>1, <3>2
  <2> QED BY <2>1, <2>2, <2>3 DEF BarInv
<1>6. bars' = bars /\ n + 1 \in Nat
  BY DEF Returned!Trade
<1> QED BY <1>4, <1>5, <1>6 DEF GridInv

LEMMA GridHears ==
  ASSUME GridInv, Returned!WidthsAssumption, Returned!Hear
  PROVE  GridInv'
<1>1. PICK n \in Nat : DOMAIN price = 0 .. n
  BY DEF GridInv
<1>2. Returned!Now = n
  BY <1>1, NowIs
<1>3. PICK width \in Widths, start \in 0 .. n, filed \in BOOLEAN :
        bars' = bars \cup {[start |-> start, width |-> width, recv |-> n, final |-> filed,
                            close |-> price[Returned!Min({start + width, n})]]}
  BY <1>2 DEF Returned!Hear
<1>4. UNCHANGED price
  BY DEF Returned!Hear
<1> DEFINE bar == [start |-> start, width |-> width, recv |-> n, final |-> filed,
                   close |-> price[Returned!Min({start + width, n})]]
<1>5. BarInv(bar)
  <2>1. start \in Nat /\ width \in Nat /\ start + width \in Nat /\ n \in DOMAIN price
    BY <1>1 DEF Returned!WidthsAssumption
  <2>2. n >= start + width => Returned!Min({start + width, n}) = start + width
    BY <2>1, SmallerOfTwo
  <2> QED BY <2>1, <2>2 DEF BarInv
<1> HIDE DEF bar
<1>6. bars' = bars \cup {bar}
  BY <1>3 DEF bar
<1>7. \A b \in bars' : BarInv(b)'
  BY <1>4, <1>5, <1>6 DEF GridInv, BarInv
<1> QED BY <1>1, <1>4, <1>7 DEF GridInv

(* The last heard among the closing bars of a slot is one of them, and was *)
(* heard when it had ended.                                                *)
LEMMA ClosingIsReal ==
  ASSUME GridInv, Returned!WidthsAssumption, NEW slot \in Returned!Slots
  PROVE  /\ slot \in Int /\ (slot + 1) * Bucket \in DOMAIN price
         /\ Returned!LastHeard(slot).close = price[(slot + 1) * Bucket]
<1> DEFINE C == Returned!Closing(slot)
           last == Returned!LastHeard(slot)
<1>1. PICK n \in Nat : DOMAIN price = 0 .. n
  BY DEF GridInv
<1>2. \A bar \in C : BarInv(bar) /\ bar.recv \in Nat /\ bar.recv <= n
  BY <1>1 DEF GridInv, BarInv, Returned!Closing
<1>3. C # {}
  BY DEF Returned!Slots, Returned!Closing
<1>4. last \in C
  <2> DEFINE T == {bar.recv : bar \in C}
  <2>1. T \in SUBSET Nat /\ T # {} /\ \A t \in T : t <= n
    BY <1>2, <1>3
  <2>2. \E x \in T : \A y \in T : x >= y
    BY <2>1, GreatestNat
  <2>3. PICK bar \in C : \A other \in C : bar.recv >= other.recv
    BY <2>2
  <2>4. \A other \in C : other.recv <= bar.recv
    BY <1>2, <2>3
  <2>5. \E b \in C : \A other \in C : other.recv <= b.recv
    BY <2>4
  <2> QED BY <2>5, Zenon DEF Returned!LastHeard
<1>5. /\ BarInv(last) /\ Returned!Admitted(last) /\ slot = last.start \div Bucket
  BY <1>2, <1>4 DEF Returned!Closing
<1> HIDE DEF last
<1>6. /\ last.start \in Nat /\ last.width \in Nat \ {0} /\ Bucket \in Nat \ {0}
      /\ Bucket % last.width = 0 /\ (last.start + last.width) % Bucket = 0
      /\ last.recv >= last.start + last.width /\ last.recv \in 0 .. n
      /\ last.close = price[last.start + last.width]
  BY <1>1, <1>5 DEF BarInv, Returned!Admitted, Returned!End, Returned!WidthsAssumption
<1>7. last.start + last.width = (slot + 1) * Bucket
  BY <1>5, <1>6, EndOfSlot
<1>8. slot \in Int
  BY <1>5, <1>6
<1>9. last.start + last.width \in 0 .. n
  BY <1>6
<1> QED BY <1>1, <1>6, <1>7, <1>8, <1>9 DEF last

LEMMA GridInvNext ==
  ASSUME GridInv, Returned!WidthsAssumption, [Returned!Next]_(Returned!vars)
  PROVE  GridInv'
<1>1. CASE UNCHANGED Returned!vars
  BY <1>1 DEF Returned!vars, GridInv, BarInv
<1> QED BY <1>1, GridTrades, GridHears DEF Returned!Next

LEMMA GridInvImplies ==
  ASSUME GridInv, Returned!WidthsAssumption
  PROVE  Returned!ReturnsAreReal
<1>1. SUFFICES ASSUME NEW r \in Returned!Returns
               PROVE  /\ (r.slot + 1) * Bucket <= Returned!Now
                      /\ r.from = price[(r.slot + 1) * Bucket - Bucket]
                      /\ r.to = price[(r.slot + 1) * Bucket]
  BY DEF Returned!ReturnsAreReal
<1>2. PICK pair \in {p \in Returned!Slots \X Returned!Slots : Returned!Follows(p[1], p[2])} :
        r = [slot |-> pair[2], from |-> Returned!LastHeard(pair[1]).close,
             to |-> Returned!LastHeard(pair[2]).close]
  BY DEF Returned!Returns
<1> DEFINE e == pair[1]
           l == pair[2]
<1>3. /\ e \in Returned!Slots /\ l \in Returned!Slots /\ e + 1 = l
      /\ r.slot = l /\ r.from = Returned!LastHeard(e).close /\ r.to = Returned!LastHeard(l).close
  BY <1>2 DEF Returned!Follows
<1> HIDE DEF e, l
<1>4. /\ e \in Int /\ l \in Int /\ (l + 1) * Bucket \in DOMAIN price
      /\ r.from = price[(e + 1) * Bucket] /\ r.to = price[(l + 1) * Bucket]
  BY <1>3, ClosingIsReal
<1>5. (e + 1) * Bucket = (l + 1) * Bucket - Bucket
  <2>1. Bucket \in Nat
    BY DEF Returned!WidthsAssumption
  <2> QED BY <1>3, <1>4, <2>1
<1>6. (l + 1) * Bucket <= Returned!Now
  <2>1. PICK n \in Nat : DOMAIN price = 0 .. n
    BY DEF GridInv
  <2> QED BY <1>4, <2>1, NowIs
<1> QED BY <1>3, <1>4, <1>5, <1>6

(***************************************************************************)
(* ReturnsAreReal, for any bucket, widths of bars and prices               *)
(* (derive/mod.rs, returns): "every return is between two real prices      *)
(* exactly one bucket apart, never interpolated", in whatever order bars   *)
(* were heard, and though open ones may be filed as final.                 *)
(***************************************************************************)
THEOREM ReturnsAreOfPrices == PartsSpec => []ReturnsAreReal
<1>1. PartsInit => (part = "grid" => GridInv)
  BY GridInvInit, InstancesAssumption DEF PartsInit, GridInit
<1>2. (part = "grid" => GridInv) /\ [PartsNext]_partsVars => (part = "grid" => GridInv)'
  BY OnePartMoves, GridInvNext, InstancesAssumption
<1>3. (part = "grid" => GridInv) => ReturnsAreReal
  BY GridInvImplies, InstancesAssumption DEF ReturnsAreReal
<1> QED BY <1>1, <1>2, <1>3, PTL DEF PartsSpec

-----------------------------------------------------------------------------
(* Walk.                                                                   *)
WalkParams == History!InstrumentsAssumption /\ History!PagesAssumption

WalkRequest == [instrument : Instruments, from : Int, to : Int]
Walks == [at : {"walking"}, from : Int, left : Seq(WalkRequest), pages : Nat, retries : Nat,
          capped : BOOLEAN, heres : SUBSET Int, failed : SUBSET Int]
Setup == [cap : Nat \ {0}, reach : Nat \ {0}, forward : BOOLEAN, edges : SUBSET {"from", "to"}]

WalkTypes ==
  /\ now \in Nat /\ setup \in Setup
  /\ \A r \in durable : r.recv \in 0 .. now
  /\ walker \in {History!Down, History!Live} \cup Walks

Left == 1 .. Len(walker.left)
Got(i, b) == \E r \in durable : r.instrument = i /\ r.bar = b
GotTo(i, to) ==
  \A b \in Int : walker.from < b /\ b < to /\ b >= ListedFrom[i] => Got(i, b)

(* What a walk holds stays within what it set out to cover.                *)
WalkBounds ==
  /\ now \in walker.heres /\ \A h \in walker.heres : h >= walker.from - 1
  /\ \A f \in walker.failed : f >= walker.from
  /\ \A k \in Left : walker.left[k].to <= now /\ walker.left[k].from >= walker.from

(* By steps: each bar of the plan is held, or above where a request was    *)
(* refused, or strictly inside a request still to be made.                 *)
Accounted(i, b) ==
  \/ Got(i, b)
  \/ \E f \in walker.failed : f <= b
  \/ \E k \in Left : /\ walker.left[k].instrument = i
                     /\ walker.left[k].from < b /\ b < walker.left[k].to
StepsCover ==
  /\ History!Planned \in Int
  /\ \A k \in Left : walker.left[k].to <= walker.left[k].from + PageRows
  /\ \A i \in Instruments : \A b \in Int :
       walker.from < b /\ b < History!Planned /\ b >= ListedFrom[i] => Accounted(i, b)

(* Paging forward: an instrument is held up to its request, or up to where *)
(* it was left.                                                            *)
UpToRequest(i) ==
  \E k \in Left : walker.left[k].instrument = i /\ GotTo(i, walker.left[k].from)
UpToHere(i) == \E h \in walker.heres : GotTo(i, h)
PagesCover ==
  /\ \A k \in Left : walker.left[k].to = now
  /\ \A i \in Instruments : UpToRequest(i) \/ UpToHere(i)

WalkInv ==
  /\ WalkTypes
  /\ walker.at = "walking" => /\ WalkBounds
                              /\ ~setup.forward => StepsCover
                              /\ setup.forward => PagesCover
  /\ History!CoveredIsHeld

-----------------------------------------------------------------------------
LEMMA WalkCounts ==
  /\ \A S : History!Cardinality(S) = Cardinality(S)
  /\ \A S : History!IsFiniteSet(S) <=> IsFiniteSet(S)
BY DEF History!Cardinality, Cardinality, History!IsFiniteSet, IsFiniteSet

(* A set of integers with a bound has a least, or a greatest, element.     *)
LEMMA LeastOf ==
  ASSUME NEW S \in SUBSET Int, S # {}, NEW low \in Int, \A x \in S : x >= low
  PROVE  /\ History!Min(S) \in S
         /\ \A y \in S : History!Min(S) <= y
<1> DEFINE T == {x - low : x \in S}
<1>1. T \in SUBSET Nat /\ T # {}
  <2>1. \A x \in S : x - low \in Nat
    OBVIOUS
  <2> QED BY <2>1
<1>2. PICK t \in T : \A y \in T : t <= y
  BY <1>1, LeastNat
<1>3. PICK x \in S : t = x - low
  OBVIOUS
<1>4. \A y \in S : x <= y
  <2> TAKE y \in S
  <2>1. t <= y - low
    BY <1>2
  <2> QED BY <1>3, <2>1
<1>5. \E m \in S : \A y \in S : m <= y
  BY <1>4
<1> QED BY <1>5, Zenon DEF History!Min

LEMMA GreatestWithin ==
  ASSUME NEW S \in SUBSET Int, S # {}, NEW low \in Int, NEW high \in Int,
         \A x \in S : low <= x /\ x <= high
  PROVE  /\ History!Max(S) \in S
         /\ \A y \in S : y <= History!Max(S)
<1> DEFINE T == {x - low : x \in S}
<1>1. T \in SUBSET Nat /\ T # {} /\ (\A t \in T : t <= high - low) /\ high - low \in Nat
  <2>1. \A x \in S : x - low \in Nat /\ x - low <= high - low /\ high - low \in Nat
    OBVIOUS
  <2> QED BY <2>1
<1> HIDE DEF T
<1>2. PICK t \in T : \A y \in T : t >= y
  BY <1>1, GreatestNat
<1> USE DEF T
<1>3. PICK x \in S : t = x - low
  OBVIOUS
<1>4. \A y \in S : x >= y
  <2> TAKE y \in S
  <2>1. t >= y - low
    BY <1>2
  <2> QED BY <1>3, <2>1
<1>5. \E m \in S : \A y \in S : m >= y
  BY <1>4
<1>6. LET m == History!Max(S) IN m \in S /\ \A y \in S : m >= y
  BY <1>5, Zenon DEF History!Max
<1> HIDE DEF T
<1> DEFINE m == History!Max(S)
<1>7. m \in Int
  BY <1>6
<1> HIDE DEF m
<1>8. \A y \in S : y <= m
  BY <1>6, <1>7 DEF m
<1> QED BY <1>6, <1>8 DEF m

LEMMA LaterSooner ==
  ASSUME NEW a \in Int, NEW b \in Int
  PROVE  /\ History!Later(a, b) \in {a, b}
         /\ History!Later(a, b) >= a /\ History!Later(a, b) >= b
         /\ History!Sooner(a, b) \in {a, b}
         /\ History!Sooner(a, b) <= a /\ History!Sooner(a, b) <= b
BY DEF History!Later, History!Sooner

-----------------------------------------------------------------------------
(* The venue's answers.                                                    *)
LEMMA RowsAre ==
  ASSUME WalkParams, WalkTypes, NEW r \in WalkRequest, r.to <= now
  PROVE  LET rows == History!Rows(r)
             answer == History!Answer(r)
         IN  /\ rows \subseteq Int /\ IsFiniteSet(rows) /\ answer \subseteq rows
             /\ IsFiniteSet(answer)
             /\ \A b \in rows : ListedFrom[r.instrument] <= b /\ b <= now - 1
                                /\ r.from <= b /\ b <= r.to
             /\ \A b \in Int : /\ b >= ListedFrom[r.instrument] /\ r.from < b /\ b < r.to
                               => b \in rows
             /\ setup.forward /\ r.to = now =>
                  \A b \in Int : b >= ListedFrom[r.instrument] /\ r.from <= b /\ b < now
                                   => b \in rows
             /\ answer = IF setup.forward
                         THEN {b \in rows : Cardinality({c \in rows : c < b}) < PageRows}
                         ELSE {b \in rows : Cardinality({c \in rows : c > b}) < PageRows}
<1> DEFINE first == ListedFrom[r.instrument]
           rows == History!Rows(r)
           answer == History!Answer(r)
<1>1. first \in Int /\ now \in Int /\ r.from \in Int /\ r.to \in Int
  BY DEF WalkParams, History!InstrumentsAssumption, WalkTypes, WalkRequest
<1>2. rows = {b \in first .. now - 1 :
               /\ r.from <= b /\ b <= r.to
               /\ b = r.from /\ ~setup.forward => "from" \in setup.edges
               /\ b = r.to => "to" \in setup.edges}
  BY DEF History!Rows
<1>3. answer = IF setup.forward
               THEN {b \in rows : Cardinality({c \in rows : c < b}) < PageRows}
               ELSE {b \in rows : Cardinality({c \in rows : c > b}) < PageRows}
  BY WalkCounts DEF History!Answer
<1> HIDE DEF first, rows, answer
<1>4. rows \subseteq first .. now - 1 /\ rows \subseteq Int
  BY <1>1, <1>2
<1>5. IsFiniteSet(first .. now - 1)
  BY <1>1, FS_Interval
<1>6. IsFiniteSet(rows) /\ answer \subseteq rows
  BY <1>3, <1>4, <1>5, FS_Subset
<1>7. IsFiniteSet(answer)
  BY <1>6, FS_Subset
<1>8. \A b \in rows : first <= b /\ b <= now - 1 /\ r.from <= b /\ b <= r.to
  BY <1>1, <1>2
<1>9. \A b \in Int : b >= first /\ r.from < b /\ b < r.to => b \in rows
  BY <1>1, <1>2
<1>10. setup.forward /\ r.to = now =>
         \A b \in Int : b >= first /\ r.from <= b /\ b < now => b \in rows
  BY <1>1, <1>2
<1> USE DEF first, rows, answer
<1> QED BY <1>3, <1>4, <1>6, <1>7, <1>8, <1>9, <1>10

(* The answer of a step no longer than a page has all that lies strictly   *)
(* inside it, whichever of its edges the venue answers.                    *)
LEMMA StepAnswered ==
  ASSUME WalkParams, WalkTypes, ~setup.forward, NEW r \in WalkRequest, r.to <= now,
         r.to <= r.from + PageRows,
         NEW b \in Int, b >= ListedFrom[r.instrument], r.from < b, b < r.to
  PROVE  b \in History!Answer(r)
<1> DEFINE rows == History!Rows(r)
           After == {c \in rows : c > b}
<1>1. b \in rows /\ IsFiniteSet(rows) /\ rows \subseteq Int /\ \A c \in rows : c <= r.to
  BY RowsAre
<1>2. r.from \in Int /\ r.to \in Int /\ PageRows \in Nat
  BY DEF WalkRequest, WalkParams, History!PagesAssumption
<1>3. After \subseteq (b + 1) .. r.to
  BY <1>1, <1>2
<1>4. IsFiniteSet((b + 1) .. r.to) /\ Cardinality((b + 1) .. r.to) = r.to - b
  <2>1. IsFiniteSet((b + 1) .. r.to)
        /\ Cardinality((b + 1) .. r.to) = IF b + 1 > r.to THEN 0 ELSE r.to - (b + 1) + 1
    <3>1. b + 1 \in Int /\ r.to \in Int
      BY <1>2
    <3> HIDE DEF After
    <3> QED BY <3>1, FS_Interval
  <2> QED BY <1>2, <2>1
<1> HIDE DEF After
<1>5. Cardinality(After) <= r.to - b /\ Cardinality(After) \in Nat
  <2>1. IsFiniteSet(After) /\ Cardinality(After) <= Cardinality((b + 1) .. r.to)
    BY <1>3, <1>4, FS_Subset
  <2> QED BY <1>4, <2>1, FS_CardinalityType
<1>6. Cardinality(After) < PageRows
  BY <1>2, <1>5
<1>7. History!Answer(r) = {x \in rows : Cardinality({c \in rows : c > x}) < PageRows}
  BY RowsAre
<1> QED BY <1>1, <1>6, <1>7 DEF After

(* Paging forward, a short page is the rest; a full one has every row up   *)
(* to its last.                                                            *)
LEMMA PageAnswered ==
  ASSUME WalkParams, WalkTypes, setup.forward, NEW r \in WalkRequest, r.to = now
  PROVE  LET rows == History!Rows(r)
             answer == History!Answer(r)
         IN  /\ Cardinality(answer) < PageRows => answer = rows
             /\ ~(Cardinality(answer) < PageRows) =>
                  /\ History!Max(answer) \in answer
                  /\ \A b \in rows : b <= History!Max(answer) => b \in answer
<1> DEFINE rows == History!Rows(r)
           answer == History!Answer(r)
           before(x) == {c \in rows : c < x}
           first == ListedFrom[r.instrument]
<1>1. /\ r.to <= now /\ PageRows \in Nat /\ PageRows > 0 /\ first \in Int /\ now \in Int
      /\ r.to \in Int
  BY DEF WalkTypes, WalkParams, History!PagesAssumption, History!InstrumentsAssumption,
         WalkRequest
<1>2. /\ IsFiniteSet(rows) /\ rows \subseteq Int /\ answer \subseteq rows /\ IsFiniteSet(answer)
      /\ \A b \in rows : first <= b /\ b <= now - 1
      /\ answer = {b \in rows : Cardinality(before(b)) < PageRows}
  BY <1>1, RowsAre
<1> HIDE DEF rows, answer, first
<1>3. \A x \in rows : IsFiniteSet(before(x)) /\ Cardinality(before(x)) \in Nat
  BY <1>2, FS_Subset, FS_CardinalityType
<1>4. ASSUME NEW x \in rows, NEW y \in rows, x <= y, y \in answer
      PROVE  x \in answer
  <2>1. \A c \in rows : c < x => c < y
    BY <1>2, <1>4
  <2>4. before(x) \subseteq before(y)
    BY <2>1
  <2>2. Cardinality(before(x)) <= Cardinality(before(y))
    BY <1>3, <2>4, FS_Subset
  <2>3. Cardinality(before(y)) < PageRows
    BY <1>2, <1>4
  <2> HIDE DEF before
  <2> QED BY <1>1, <1>2, <1>3, <2>2, <2>3
<1>5. ASSUME Cardinality(answer) < PageRows
      PROVE  answer = rows
  <2> SUFFICES ASSUME rows \ answer # {} PROVE FALSE
    BY <1>2
  <2> DEFINE M == rows \ answer
  <2>1. M \in SUBSET Int /\ M # {} /\ \A x \in M : x >= first
    BY <1>2
  <2> HIDE DEF M
  <2>2. History!Min(M) \in M /\ \A y \in M : History!Min(M) <= y
    BY <1>1, <2>1, LeastOf
  <2> DEFINE m == History!Min(M)
  <2> USE DEF M
  <2>3. m \in rows /\ m \notin answer /\ before(m) \subseteq answer
    <3>1. m \in rows /\ m \notin answer
      BY <2>2
    <3>2. ASSUME NEW c \in rows, c < m, c \notin answer PROVE FALSE
      <4>1. m <= c
        BY <2>2, <3>2
      <4>2. m \in Int /\ c \in Int
        BY <1>2, <3>1
      <4> HIDE DEF m
      <4> QED BY <3>2, <4>1, <4>2
    <3> QED BY <3>1, <3>2
  <2> HIDE DEF m
  <2>4. Cardinality(before(m)) <= Cardinality(answer) /\ Cardinality(answer) \in Nat
    BY <1>2, <2>3, FS_Subset, FS_CardinalityType
  <2>5. ~(Cardinality(before(m)) < PageRows)
    BY <1>2, <2>3
  <2> HIDE DEF before
  <2> QED BY <1>1, <1>3, <1>5, <2>3, <2>4, <2>5
<1>6. ASSUME ~(Cardinality(answer) < PageRows)
      PROVE  History!Max(answer) \in answer
  <2>1. answer # {}
    <3>1. Cardinality({}) = 0
      BY FS_EmptySet
    <3> QED BY <1>1, <1>6, <3>1
  <2>2. answer \in SUBSET Int /\ \A x \in answer : first <= x /\ x <= now - 1
    BY <1>2
  <2>3. now - 1 \in Int
    BY <1>1
  <2> QED BY <1>1, <2>1, <2>2, <2>3, GreatestWithin
<1>7. ~(Cardinality(answer) < PageRows) =>
        \A b \in rows : b <= History!Max(answer) => b \in answer
  BY <1>2, <1>4, <1>6
<1> USE DEF rows, answer
<1> QED BY <1>5, <1>6, <1>7

-----------------------------------------------------------------------------
(* The plan.                                                               *)
Stride == PageRows - Overlap

LEMMA StepIs ==
  ASSUME WalkParams, WalkTypes, NEW from \in Int, NEW n \in Nat
  PROVE  /\ n * Stride \in Int /\ Stride \in Nat \ {0} /\ Stride < PageRows
         /\ History!StepFrom(from, n) = from + n * Stride
         /\ History!StepFrom(from, n) \in Int /\ History!StepTo(from, n) \in Int
         /\ History!StepTo(from, n) \in {from + n * Stride + PageRows, now}
         /\ History!StepTo(from, n) <= from + n * Stride + PageRows
         /\ History!StepTo(from, n) <= now
<1>1. Stride \in Nat \ {0} /\ Stride < PageRows /\ PageRows \in Nat /\ now \in Int
  BY DEF WalkParams, History!PagesAssumption, WalkTypes, Stride
<1>2. History!StepFrom(from, n) = from + n * Stride
  BY DEF History!StepFrom, Stride
<1> HIDE DEF Stride
<1>3. n * Stride \in Int
  BY <1>1
<1> DEFINE start == from + n * Stride
<1>4. start \in Int
  BY <1>3
<1>5. History!StepTo(from, n) = History!Sooner(start + PageRows, now)
  BY <1>2 DEF History!StepTo
<1> HIDE DEF start
<1>6. start + PageRows \in Int
  BY <1>1, <1>4
<1>7. /\ History!StepTo(from, n) \in {start + PageRows, now}
      /\ History!StepTo(from, n) <= start + PageRows /\ History!StepTo(from, n) <= now
  BY <1>1, <1>5, <1>6, LaterSooner
<1>8. History!StepTo(from, n) \in Int
  BY <1>1, <1>6, <1>7
<1> QED BY <1>1, <1>2, <1>3, <1>4, <1>7, <1>8 DEF start

(* A plan that has anything to cover has steps.                            *)
LEMMA PlanIs ==
  ASSUME WalkParams, WalkTypes, NEW from \in Int, from >= now - ColdStart, from < now
  PROVE  History!PlanLength(from) \in Nat \ {0}
<1> DEFINE Enough(n) == History!StepTo(from, n - 1) >= now
           T == {n \in 1 .. now + ColdStart : Enough(n)}
           m == now - from
<1>1. now \in Nat /\ ColdStart \in Nat /\ PageRows \in Nat /\ setup.cap \in Nat \ {0}
  BY DEF WalkParams, History!PagesAssumption, WalkTypes, Setup
<1>2. m \in 1 .. now + ColdStart /\ m - 1 \in Nat /\ m \in Nat
  BY <1>1
<1>3. Enough(m)
  <2>1. /\ History!StepTo(from, m - 1) \in {from + (m - 1) * Stride + PageRows, now}
        /\ Stride \in Nat \ {0} /\ Stride < PageRows /\ (m - 1) * Stride \in Int
    BY <1>2, StepIs
  <2>2. 1 * (m - 1) <= Stride * (m - 1)
    BY <1>2, <2>1, Products
  <2>3. 1 * (m - 1) = m - 1 /\ Stride * (m - 1) = (m - 1) * Stride
    BY <1>2, <2>1
  <2> DEFINE far == (m - 1) * Stride
  <2> HIDE DEF far
  <2>4. far \in Int /\ m - 1 <= far
    BY <2>1, <2>2, <2>3 DEF far
  <2>5. from + far + PageRows >= now
    <3>1. from + (m - 1) + 1 = now
      BY <1>1
    <3>2. PageRows >= 1
      BY <1>1, <2>1
    <3> HIDE DEF m
    <3> QED BY <1>1, <1>2, <2>4, <3>1, <3>2
  <2> QED BY <1>1, <2>1, <2>5 DEF far
<1>4. T \in SUBSET Nat /\ T # {}
  <2> HIDE DEF Enough, m
  <2> QED BY <1>1, <1>2, <1>3
<1>5. PICK n \in T : \A k \in T : n <= k
  <2> HIDE DEF T
  <2> QED BY <1>4, LeastNat
<1>6. \E x \in 1 .. now + ColdStart : Enough(x) /\ \A k \in 1 .. x - 1 : ~Enough(k)
  <2>1. n \in 1 .. now + ColdStart /\ Enough(n)
    BY <1>5
  <2>2. ASSUME NEW k \in 1 .. n - 1, Enough(k) PROVE FALSE
    <3>1. k \in 1 .. now + ColdStart /\ k < n /\ n \in Nat /\ k \in Nat
      BY <1>1, <2>1
    <3>2. k \in T
      BY <2>2, <3>1
    <3>3. n <= k
      BY <1>5, <3>2
    <3> QED BY <3>1, <3>3
  <2> HIDE DEF Enough, T
  <2> QED BY <2>1, <2>2
<1>7. \A x \in 1 .. now + ColdStart : \A k \in 1 .. x - 1 :
        ~Enough(k) <=> History!StepTo(from, k - 1) < now
  <2> TAKE x \in 1 .. now + ColdStart
  <2> TAKE k \in 1 .. x - 1
  <2>1. k - 1 \in Nat
    BY <1>1
  <2>2. History!StepTo(from, k - 1) \in Int
    BY <2>1, StepIs
  <2> QED BY <1>1, <2>2
<1> DEFINE Ends(x) == /\ History!StepTo(from, x - 1) >= now
                      /\ \A k \in 1 .. x - 1 : History!StepTo(from, k - 1) < now
           length == CHOOSE x \in 1 .. now + ColdStart : Ends(x)
<1>8. \E x \in 1 .. now + ColdStart : Ends(x)
  BY <1>6, <1>7
<1>9. length \in 1 .. now + ColdStart
  <2> HIDE DEF Ends
  <2> QED BY <1>8, Zenon
<1>10. History!PlanLength(from) = History!Sooner(setup.cap, length)
  <2>1. ~(from >= now)
    BY <1>1
  <2> QED BY <2>1, Zenon DEF History!PlanLength
<1> HIDE DEF length
<1>11. length \in Nat \ {0}
  BY <1>1, <1>9
<1> QED BY <1>1, <1>10, <1>11, LaterSooner

(* Steps overlap, so what lies between where a plan begins and where its   *)
(* last step ends lies strictly inside one of them.                        *)
LEMMA StepOver ==
  ASSUME WalkParams, WalkTypes, NEW from \in Int, NEW P \in Nat \ {0},
         NEW b \in Int, from < b, b < History!StepTo(from, P - 1)
  PROVE  \E s \in 0 .. P - 1 : History!StepFrom(from, s) < b /\ b < History!StepTo(from, s)
<1> DEFINE q == (b - from - 1) \div Stride
           far(n) == n * Stride
<1>1. Stride \in Nat \ {0} /\ Stride < PageRows /\ PageRows \in Nat /\ now \in Nat
  BY StepIs DEF WalkParams, History!PagesAssumption, WalkTypes
<1>2. q \in Nat /\ far(q) \in Int /\ from + far(q) < b /\ b <= from + far(q) + Stride
  <2>1. b - from - 1 \in Nat
    OBVIOUS
  <2> DEFINE x == b - from - 1
  <2>2. x \in Nat /\ q = x \div Stride
    BY <2>1
  <2> HIDE DEF x, q
  <2>3. q \in Nat /\ x = q * Stride + (x % Stride) /\ x % Stride \in 0 .. Stride - 1
    BY <1>1, <2>2
  <2>4. far(q) \in Int
    BY <1>1, <2>3
  <2> HIDE DEF far
  <2>5. x = far(q) + (x % Stride) /\ x = b - from - 1
    BY <2>3 DEF far, x
  <2> QED BY <1>1, <2>2, <2>3, <2>4, <2>5
<1>3. \A s \in Nat : /\ far(s) \in Int
                     /\ History!StepFrom(from, s) = from + far(s)
                     /\ History!StepTo(from, s) \in {from + far(s) + PageRows, now}
                     /\ History!StepTo(from, s) <= now
                     /\ History!StepTo(from, s) \in Int
  BY StepIs
<1>4. P - 1 \in Nat
  OBVIOUS
<1>5. b < now
  BY <1>1, <1>3, <1>4
<1> HIDE DEF q
<1>6. CASE q <= P - 1
  <2>1. q \in 0 .. P - 1
    BY <1>2, <1>6
  <2>2. /\ History!StepFrom(from, q) = from + far(q)
        /\ History!StepTo(from, q) \in {from + far(q) + PageRows, now}
    BY <1>2, <1>3
  <2> HIDE DEF far
  <2>3. b < from + far(q) + PageRows
    BY <1>1, <1>2
  <2> QED BY <1>2, <1>5, <2>1, <2>2, <2>3
<1>7. CASE q > P - 1
  <2>1. far(P - 1) <= far(q)
    BY <1>1, <1>2, <1>4, <1>7, Products
  <2>2. History!StepFrom(from, P - 1) = from + far(P - 1) /\ far(P - 1) \in Int
    BY <1>3, <1>4
  <2> HIDE DEF far
  <2>3. History!StepFrom(from, P - 1) < b
    BY <1>2, <2>1, <2>2
  <2> QED BY <1>4, <2>3
<1> QED BY <1>2, <1>6, <1>7

-----------------------------------------------------------------------------
(* The requests: each instrument at each step.                             *)
LEMMA OrderIs ==
  ASSUME WalkParams
  PROVE  /\ Cardinality(Instruments) \in Nat
         /\ \A k \in 1 .. Cardinality(Instruments) : History!Order[k] \in Instruments
         /\ \A i \in Instruments : \E k \in 1 .. Cardinality(Instruments) : History!Order[k] = i
<1> DEFINE C == Cardinality(Instruments)
           F == [1 .. C -> Instruments]
<1>1. IsFiniteSet(Instruments)
  BY WalkCounts DEF WalkParams, History!InstrumentsAssumption
<1>2. C \in Nat /\ ExistsBijection(1 .. C, Instruments)
  BY <1>1, FS_CardinalityType
<1>3. PICK f \in F : History!IsInjective(f)
  BY <1>2 DEF ExistsBijection, Bijection, Injection, Surjection, IsInjective, History!IsInjective
<1>4. History!Order = CHOOSE g \in F : History!IsInjective(g)
  BY WalkCounts DEF History!Order, History!SetToSeq
<1> DEFINE o == History!Order
<1> HIDE DEF F
<1>5. o \in F /\ History!IsInjective(o)
  BY <1>3, <1>4, Zenon
<1> HIDE DEF o, C
<1>6. o \in Injection(1 .. C, Instruments)
  BY <1>5 DEF F, Injection, IsInjective, History!IsInjective
<1>7. IsFiniteSet(1 .. C) /\ Cardinality(1 .. C) = C
  <2>1. 1 \in Int /\ C \in Int
    BY <1>2
  <2>2. IsFiniteSet(1 .. C) /\ Cardinality(1 .. C) = IF 1 > C THEN 0 ELSE C - 1 + 1
    BY <2>1, FS_Interval
  <2> QED BY <1>2, <2>2
<1>8. o \in Surjection(1 .. C, Instruments)
  BY <1>1, <1>6, <1>7, FS_Injection DEF C
<1>9. \A i \in Instruments : \E k \in 1 .. C : o[k] = i
  BY <1>8 DEF Surjection
<1>10. \A k \in 1 .. C : o[k] \in Instruments
  BY <1>5 DEF F
<1> QED BY <1>2, <1>9, <1>10 DEF o, C

LEMMA IndexOf ==
  ASSUME NEW C \in Nat, NEW P \in Nat, NEW s \in 0 .. P - 1, NEW k \in 1 .. C
  PROVE  \E n \in 1 .. P * C : (n - 1) \div C = s /\ (n - 1) % C = k - 1
<1> DEFINE x == s * C + (k - 1)
           q == x \div C
<1>1. s \in Nat /\ k \in Nat /\ C \in Nat \ {0} /\ k - 1 \in 0 .. C - 1 /\ P * C \in Int
  OBVIOUS
<1>2. s * C \in Nat /\ x \in Nat
  BY <1>1
<1>3. q \in Int /\ x = q * C + (x % C) /\ x % C \in 0 .. C - 1
  <2> HIDE DEF x
  <2> QED BY <1>1, <1>2
<1> DEFINE far(m) == m * C
<1>4. x = far(s) + (k - 1) /\ x = far(q) + (x % C) /\ far(s) \in Int /\ far(q) \in Int
  BY <1>1, <1>3
<1>5. q <= s
  <2> SUFFICES ASSUME s + 1 <= q PROVE FALSE
    BY <1>1, <1>3
  <2>1. far(s + 1) <= far(q)
    BY <1>1, <1>3, Products
  <2>2. far(s + 1) = far(s) + C
    BY <1>1
  <2> HIDE DEF far, q, x
  <2> QED BY <1>1, <1>3, <1>4, <2>1, <2>2
<1>6. s <= q
  <2> SUFFICES ASSUME q + 1 <= s PROVE FALSE
    BY <1>1, <1>3
  <2>1. far(q + 1) <= far(s)
    BY <1>1, <1>3, Products
  <2>2. far(q + 1) = far(q) + C
    BY <1>1, <1>3
  <2> HIDE DEF far, q, x
  <2> QED BY <1>1, <1>3, <1>4, <2>1, <2>2
<1>7. q = s /\ x % C = k - 1
  <2> HIDE DEF q, x
  <2>1. q = s
    BY <1>1, <1>3, <1>5, <1>6
  <2> HIDE DEF far
  <2> QED BY <1>1, <1>3, <1>4, <2>1
<1>8. x + 1 \in 1 .. P * C
  <2>1. far(s + 1) <= far(P)
    BY <1>1, Products
  <2>2. far(s + 1) = far(s) + C
    BY <1>1
  <2>3. far(P) = P * C
    OBVIOUS
  <2> HIDE DEF far, x
  <2> QED BY <1>1, <1>2, <1>4, <2>1, <2>2, <2>3
<1>9. (x + 1) - 1 = x
  BY <1>2
<1> QED BY <1>7, <1>8, <1>9

LEMMA IndexIs ==
  ASSUME NEW C \in Nat, NEW P \in Nat, NEW n \in 1 .. P * C
  PROVE  (n - 1) \div C \in 0 .. P - 1 /\ 1 + ((n - 1) % C) \in 1 .. C
<1>1. C \in Nat \ {0}
  <2>1. CASE C = 0
    <3>1. P * C = 0
      BY <2>1
    <3> QED BY <3>1
  <2> QED BY <2>1
<1> DEFINE x == n - 1
           q == x \div C
           far(m) == m * C
<1>2. x \in Nat /\ P * C \in Int /\ x < P * C
  BY <1>1
<1>3. q \in Nat /\ x = q * C + (x % C) /\ x % C \in 0 .. C - 1
  <2> HIDE DEF x
  <2> QED BY <1>1, <1>2
<1>4. q < P
  <2> SUFFICES ASSUME P <= q PROVE FALSE
    BY <1>3
  <2>1. far(P) <= far(q) /\ far(P) \in Int /\ far(q) \in Int
    BY <1>1, <1>3, Products
  <2>2. far(P) = P * C /\ x = far(q) + (x % C)
    BY <1>3
  <2> HIDE DEF far, q, x
  <2> QED BY <1>2, <1>3, <2>1, <2>2
<1> HIDE DEF q
<1>5. q \in 0 .. P - 1
  BY <1>3, <1>4
<1> QED BY <1>3, <1>5 DEF q

LEMMA RequestsAre ==
  ASSUME WalkParams, WalkTypes, ~setup.forward,
         NEW from \in Int, from >= now - ColdStart, from < now
  PROVE  LET R == History!Requests(from)
             P == History!PlanLength(from)
         IN  /\ P \in Nat \ {0} /\ R \in Seq(WalkRequest)
             /\ \A n \in 1 .. Len(R) : /\ R[n].from >= from /\ R[n].to <= now
                                       /\ R[n].to <= R[n].from + PageRows
             /\ \A i \in Instruments : \A s \in 0 .. P - 1 : \E n \in 1 .. Len(R) :
                  R[n] = [instrument |-> i, from |-> History!StepFrom(from, s),
                          to |-> History!StepTo(from, s)]
<1> DEFINE R == History!Requests(from)
           P == History!PlanLength(from)
           C == Cardinality(Instruments)
           S(n) == (n - 1) \div C
           K(n) == 1 + ((n - 1) % C)
           Of(k, s) == [instrument |-> History!Order[k], from |-> History!StepFrom(from, s),
                        to |-> History!StepTo(from, s)]
<1>1. P \in Nat \ {0} /\ C \in Nat
  BY PlanIs, OrderIs
<1>2. \A n \in 1 .. P * C : S(n) \in 0 .. P - 1 /\ K(n) \in 1 .. C
  BY <1>1, IndexIs
<1>3. R = [n \in 1 .. P * C |-> Of(K(n), S(n))]
  <2> DEFINE steps == History!Steps(from)
  <2>1. steps = [k \in 1 .. P |-> [from |-> History!StepFrom(from, k - 1),
                                   to |-> History!StepTo(from, k - 1)]]
    BY DEF History!Steps
  <2>2. R = [n \in 1 .. P * C |->
               [instrument |-> History!Order[K(n)], from |-> steps[1 + S(n)].from,
                to |-> steps[1 + S(n)].to]]
    BY WalkCounts DEF History!Requests
  <2>3. ASSUME NEW n \in 1 .. P * C
        PROVE  steps[1 + S(n)].from = History!StepFrom(from, S(n))
               /\ steps[1 + S(n)].to = History!StepTo(from, S(n))
    <3> DEFINE s == S(n)
    <3>1. s \in 0 .. P - 1
      BY <1>2
    <3> HIDE DEF s, P
    <3>2. 1 + s \in 1 .. P /\ (1 + s) - 1 = s
      BY <1>1, <3>1
    <3> HIDE DEF steps
    <3>3. steps[1 + s] = [from |-> History!StepFrom(from, s), to |-> History!StepTo(from, s)]
      BY <2>1, <3>2
    <3> QED BY <3>3 DEF s
  <2> HIDE DEF steps, P, C, S, K, R
  <2> QED BY <2>2, <2>3
<1>4. P * C \in Nat
  BY <1>1
<1> HIDE DEF R
<1>5. \A s \in 0 .. P - 1 : /\ History!StepFrom(from, s) \in Int /\ History!StepTo(from, s) \in Int
                            /\ History!StepFrom(from, s) >= from
                            /\ History!StepTo(from, s) <= now
                            /\ History!StepTo(from, s) <= History!StepFrom(from, s) + PageRows
  <2> TAKE s \in 0 .. P - 1
  <2> HIDE DEF P
  <2>1. s \in Nat
    BY <1>1
  <2> DEFINE far == s * Stride
  <2>2. /\ far \in Int /\ Stride \in Nat \ {0}
        /\ History!StepFrom(from, s) = from + far
        /\ History!StepFrom(from, s) \in Int /\ History!StepTo(from, s) \in Int
        /\ History!StepTo(from, s) <= from + far + PageRows
        /\ History!StepTo(from, s) <= now
    BY <2>1, StepIs
  <2>3. far >= 0
    BY <2>1, <2>2
  <2> HIDE DEF far
  <2> QED BY <2>2, <2>3
<1> HIDE DEF P, C
<1>6. \A n \in 1 .. P * C : R[n] = Of(K(n), S(n)) /\ Of(K(n), S(n)) \in WalkRequest
  <2> TAKE n \in 1 .. P * C
  <2>1. History!Order[K(n)] \in Instruments
    BY <1>2, OrderIs DEF C
  <2> DEFINE k == K(n)
             s == S(n)
  <2>2. s \in 0 .. P - 1 /\ History!Order[k] \in Instruments /\ R[n] = Of(k, s)
    BY <1>2, <1>3, <2>1
  <2> HIDE DEF k, s
  <2>3. Of(k, s) \in WalkRequest
    BY <1>5, <2>2 DEF WalkRequest
  <2> QED BY <2>2, <2>3 DEF k, s
<1>7. R \in Seq(WalkRequest) /\ Len(R) = P * C
  <2> HIDE DEF K, S, Of
  <2>1. R \in [1 .. P * C -> WalkRequest]
    BY <1>3, <1>6
  <2> DEFINE N == P * C
  <2>2. N \in Nat
    BY <1>4
  <2> HIDE DEF N
  <2>3. R \in [1 .. N -> WalkRequest] => R \in Seq(WalkRequest) /\ Len(R) = N
    BY <2>2
  <2> QED BY <2>1, <2>3 DEF N
<1>8. \A n \in 1 .. Len(R) : /\ R[n].from >= from /\ R[n].to <= now
                             /\ R[n].to <= R[n].from + PageRows
  <2> TAKE n \in 1 .. Len(R)
  <2> DEFINE k == K(n)
             s == S(n)
  <2>1. s \in 0 .. P - 1 /\ R[n] = Of(k, s)
    BY <1>2, <1>6, <1>7
  <2> HIDE DEF k, s
  <2> QED BY <1>5, <2>1
<1>9. ASSUME NEW i \in Instruments, NEW s \in 0 .. P - 1
      PROVE  \E n \in 1 .. Len(R) :
               R[n] = [instrument |-> i, from |-> History!StepFrom(from, s),
                       to |-> History!StepTo(from, s)]
  <2>1. PICK k \in 1 .. C : History!Order[k] = i
    BY OrderIs DEF C
  <2>2. PICK n \in 1 .. P * C : S(n) = s /\ (n - 1) % C = k - 1
    BY <1>1, IndexOf
  <2>3. K(n) = k
    BY <1>1, <2>2
  <2> HIDE DEF K, S
  <2> QED BY <1>6, <1>7, <2>1, <2>2, <2>3
<1> USE DEF R, P
<1> QED BY <1>1, <1>7, <1>8, <1>9

(* Where a plan ends.                                                      *)
PlanEnd(from) ==
  IF History!PlanLength(from) = 0 THEN from
  ELSE History!Steps(from)[History!PlanLength(from)].to

LEMMA PlannedIs ==
  ASSUME ~setup.forward
  PROVE  History!Planned = PlanEnd(walker.from)
BY DEF History!Planned, PlanEnd

LEMMA PlannedStays ==
  ASSUME ~setup.forward, now' = now, setup' = setup
  PROVE  History!Planned' = PlanEnd(walker'.from)
BY DEF History!Planned, PlanEnd, History!PlanLength, History!Steps, History!StepTo,
       History!StepFrom

LEMMA PlanEndIs ==
  ASSUME NEW from \in Int, History!PlanLength(from) \in Nat \ {0}
  PROVE  PlanEnd(from) = History!StepTo(from, History!PlanLength(from) - 1)
<1> DEFINE P == History!PlanLength(from)
<1>1. P \in 1 .. P
  OBVIOUS
<1>2. History!Steps(from) = [k \in 1 .. P |-> [from |-> History!StepFrom(from, k - 1),
                                               to |-> History!StepTo(from, k - 1)]]
  BY DEF History!Steps
<1> HIDE DEF P
<1>3. History!Steps(from)[P] = [from |-> History!StepFrom(from, P - 1),
                                to |-> History!StepTo(from, P - 1)]
  BY <1>1, <1>2
<1> QED BY <1>1, <1>3 DEF PlanEnd, P

(* What a boot asks for ends now and begins no earlier than a cold start   *)
(* would.                                                                  *)
LEMMA AskFromIs ==
  ASSUME WalkParams, WalkTypes
  PROVE  History!AskFrom \in Int /\ History!AskFrom >= now - ColdStart /\ History!AskFrom < now
<1>1. /\ now \in Nat /\ ColdStart \in Nat \ {0} /\ Overlap \in Nat \ {0}
      /\ setup.reach \in Nat \ {0}
  BY DEF WalkParams, History!PagesAssumption, WalkTypes, Setup
<1> DEFINE S == {r.recv : r \in durable}
<1>2. S \in SUBSET Int /\ \A x \in S : 0 <= x /\ x <= now
  BY <1>1 DEF WalkTypes
<1>3. durable # {} => History!Max(S) \in Int /\ History!Max(S) <= now
  <2> SUFFICES ASSUME durable # {} PROVE History!Max(S) \in S
    BY <1>2
  <2>1. S # {} /\ 0 \in Int /\ now \in Int
    BY <1>1
  <2> HIDE DEF S
  <2> QED BY <1>2, <2>1, GreatestWithin
<1> DEFINE m == History!Max(S)
           from == History!ResumeFrom
<1>4. from = IF durable = {} THEN now - ColdStart
             ELSE History!Later(m - Overlap, now - ColdStart)
  BY DEF History!ResumeFrom
<1> HIDE DEF m, from
<1>5. from \in Int /\ from >= now - ColdStart /\ from < now
  <2>1. CASE durable = {}
    BY <1>1, <1>4, <2>1
  <2>2. CASE durable # {}
    <3>1. m - Overlap \in Int /\ m - Overlap < now /\ now - ColdStart \in Int
      BY <1>1, <1>3, <2>2 DEF m
    <3>2. from = History!Later(m - Overlap, now - ColdStart)
      BY <1>4, <2>2
    <3> QED BY <1>1, <3>1, <3>2, LaterSooner
  <2> QED BY <2>1, <2>2
<1>6. History!AskFrom = History!Later(from, now - setup.reach)
  BY DEF History!AskFrom, from
<1>7. now - setup.reach \in Int /\ now - setup.reach < now
  BY <1>1
<1> QED BY <1>1, <1>5, <1>6, <1>7, LaterSooner

-----------------------------------------------------------------------------
(* Each step.                                                              *)
LEMMA HeldStays ==
  ASSUME WalkInv, durable \subseteq durable', outcomes' = outcomes
  PROVE  History!CoveredIsHeld'
BY DEF WalkInv, History!CoveredIsHeld, History!Held

LEMMA WalkBoots ==
  ASSUME WalkParams, WalkInv, History!Boot
  PROVE  WalkInv'
<1> DEFINE from == History!AskFrom
           R == History!Requests(from)
<1>1. /\ walker' = [at |-> "walking", from |-> from, left |-> R, pages |-> 0, retries |-> 0,
                    capped |-> FALSE, heres |-> {now}, failed |-> {}]
      /\ now' = now /\ setup' = setup /\ durable' = durable /\ outcomes' = outcomes
  BY DEF History!Boot
<1>2. from \in Int /\ from >= now - ColdStart /\ from < now /\ now \in Nat /\ WalkTypes
  BY AskFromIs DEF WalkInv, WalkTypes
<1> HIDE DEF from, R
<1>3. CASE setup.forward
  <2> DEFINE C == Cardinality(Instruments)
  <2>1. C \in Nat /\ (\A k \in 1 .. C : History!Order[k] \in Instruments)
        /\ \A i \in Instruments : \E k \in 1 .. C : History!Order[k] = i
    BY OrderIs
  <2>2. R = [n \in 1 .. C |-> [instrument |-> History!Order[n], from |-> from, to |-> now]]
    BY <1>3, WalkCounts DEF R, History!Requests
  <2> HIDE DEF C
  <2>3. \A n \in 1 .. C : /\ R[n] \in WalkRequest /\ R[n].instrument = History!Order[n]
                          /\ R[n].from = from /\ R[n].to = now
    BY <1>2, <2>1, <2>2 DEF WalkRequest
  <2>4. R \in Seq(WalkRequest) /\ Len(R) = C
    <3>1. R \in [1 .. C -> WalkRequest]
      BY <2>2, <2>3
    <3> QED BY <2>1, <3>1
  <2>5. walker' \in Walks
    BY <1>1, <1>2, <2>4 DEF Walks
  <2>6. walker'.left = R /\ walker'.from = from /\ walker'.heres = {now} /\ walker'.failed = {}
    BY <1>1
  <2>7. WalkTypes'
    BY <1>1, <1>2, <2>5 DEF WalkTypes
  <2>8. WalkBounds'
    BY <1>1, <1>2, <2>3, <2>4, <2>6 DEF WalkBounds, Left
  <2>9. PagesCover'
    <3>1. \A k \in Left' : walker'.left[k].to = now'
      BY <1>1, <2>3, <2>4, <2>6 DEF Left
    <3>2. ASSUME NEW i \in Instruments
          PROVE  UpToRequest(i)'
      <4>1. PICK k \in 1 .. C : History!Order[k] = i
        BY <2>1
      <4>2. k \in Left' /\ walker'.left[k].instrument = i /\ walker'.left[k].from = from
        BY <2>3, <2>4, <2>6, <4>1 DEF Left
      <4>3. \A b \in Int : ~(walker'.from < b /\ b < walker'.left[k].from)
        BY <1>2, <2>6, <4>2
      <4> QED BY <4>2, <4>3 DEF UpToRequest, GotTo
    <3> QED BY <3>1, <3>2 DEF PagesCover
  <2>10. setup'.forward
    BY <1>1, <1>3
  <2> QED BY <1>1, <2>7, <2>8, <2>9, <2>10, HeldStays DEF WalkInv
<1>4. CASE ~setup.forward
  <2> DEFINE P == History!PlanLength(from)
  <2>1. /\ P \in Nat \ {0} /\ R \in Seq(WalkRequest)
        /\ \A n \in 1 .. Len(R) : /\ R[n].from >= from /\ R[n].to <= now
                                  /\ R[n].to <= R[n].from + PageRows
        /\ \A i \in Instruments : \A s \in 0 .. P - 1 : \E n \in 1 .. Len(R) :
             R[n] = [instrument |-> i, from |-> History!StepFrom(from, s),
                     to |-> History!StepTo(from, s)]
    BY <1>2, <1>4, RequestsAre DEF R
  <2>2. PlanEnd(from) = History!StepTo(from, P - 1) /\ P - 1 \in Nat
    BY <1>2, <2>1, PlanEndIs
  <2> HIDE DEF P
  <2>3. walker' \in Walks
    BY <1>1, <1>2, <2>1 DEF Walks
  <2>4. walker'.left = R /\ walker'.from = from /\ walker'.heres = {now} /\ walker'.failed = {}
    BY <1>1
  <2>5. WalkTypes'
    BY <1>1, <1>2, <2>3 DEF WalkTypes
  <2>6. WalkBounds'
    BY <1>1, <1>2, <2>1, <2>4 DEF WalkBounds, Left
  <2>7. History!Planned' = PlanEnd(from)
    BY <1>1, <1>4, <2>4, PlannedStays
  <2>8. History!Planned' \in Int
    BY <1>2, <2>2, <2>7, StepIs
  <2>9. \A k \in Left' : walker'.left[k].to <= walker'.left[k].from + PageRows
    BY <2>1, <2>4 DEF Left
  <2>10. ASSUME NEW i \in Instruments, NEW b \in Int,
                walker'.from < b, b < History!Planned', b >= ListedFrom[i]
         PROVE  Accounted(i, b)'
    <3>1. from < b /\ b < History!StepTo(from, P - 1)
      BY <2>2, <2>4, <2>7, <2>10
    <3>2. PICK s \in 0 .. P - 1 : History!StepFrom(from, s) < b /\ b < History!StepTo(from, s)
      BY <1>2, <2>1, <3>1, StepOver
    <3>3. PICK n \in 1 .. Len(R) :
            R[n] = [instrument |-> i, from |-> History!StepFrom(from, s),
                    to |-> History!StepTo(from, s)]
      BY <2>1
    <3>4. n \in Left' /\ walker'.left[n].instrument = i
          /\ walker'.left[n].from < b /\ b < walker'.left[n].to
      BY <2>4, <3>2, <3>3 DEF Left
    <3> QED BY <3>4 DEF Accounted
  <2>11. StepsCover'
    BY <2>8, <2>9, <2>10 DEF StepsCover
  <2>12. ~setup'.forward
    BY <1>1, <1>4
  <2> QED BY <1>1, <2>5, <2>6, <2>11, <2>12, HeldStays DEF WalkInv
<1> QED BY <1>3, <1>4

(* A walk under way.                                                       *)
LEMMA WalkFields ==
  ASSUME WalkInv, walker.at = "walking"
  PROVE  /\ walker \in Walks /\ WalkTypes /\ WalkBounds /\ now \in Nat /\ setup \in Setup
         /\ walker.from \in Int /\ walker.left \in Seq(WalkRequest)
         /\ walker.heres \in SUBSET Int /\ walker.failed \in SUBSET Int
         /\ Len(walker.left) \in Nat
         /\ \A k \in Left : walker.left[k] \in WalkRequest
<1>1. WalkTypes /\ WalkBounds
  BY DEF WalkInv
<1>2. walker \in Walks
  BY <1>1 DEF WalkTypes, History!Down, History!Live
<1>3. walker.left \in Seq(WalkRequest)
  BY <1>2 DEF Walks
<1> QED BY <1>1, <1>2, <1>3 DEF Walks, WalkTypes, Left

LEMMA AskingIs ==
  ASSUME WalkInv, History!Asking
  PROVE  /\ walker.at = "walking" /\ 1 \in Left /\ Len(walker.left) \in Nat \ {0}
         /\ History!Request = walker.left[1] /\ History!Request \in WalkRequest
         /\ Tail(walker.left) \in Seq(WalkRequest)
         /\ Len(Tail(walker.left)) = Len(walker.left) - 1
         /\ \A k \in 1 .. Len(walker.left) - 1 : Tail(walker.left)[k] = walker.left[k + 1]
<1>1. walker.at = "walking" /\ walker.left # <<>>
  BY DEF History!Asking
<1>2. walker.left \in Seq(WalkRequest)
  BY <1>1, WalkFields
<1> DEFINE s == walker.left
<1> HIDE DEF s
<1>3. /\ Len(s) \in Nat \ {0} /\ 1 \in 1 .. Len(s) /\ Head(s) = s[1] /\ s[1] \in WalkRequest
      /\ Tail(s) \in Seq(WalkRequest) /\ Len(Tail(s)) = Len(s) - 1
      /\ \A k \in 1 .. Len(s) - 1 : Tail(s)[k] = s[k + 1]
  BY <1>1, <1>2 DEF s
<1> QED BY <1>1, <1>3 DEF s, Left, History!Request

(* A walk further on, and the parts of it that changed.                    *)
Moved(left, pages, retries, capped, heres, failed) ==
  [at |-> "walking", from |-> walker.from, left |-> left, pages |-> pages, retries |-> retries,
   capped |-> capped, heres |-> heres, failed |-> failed]

LEMMA WalkMoved ==
  ASSUME walker \in Walks, NEW left \in Seq(WalkRequest), NEW pages \in Nat, NEW retries \in Nat,
         NEW capped \in BOOLEAN, NEW heres \in SUBSET Int, NEW failed \in SUBSET Int,
         walker' = Moved(left, pages, retries, capped, heres, failed)
  PROVE  /\ walker' \in Walks /\ walker'.from = walker.from /\ walker'.left = left
         /\ walker'.heres = heres /\ walker'.failed = failed
<1>1. walker.from \in Int
  BY DEF Walks
<1>2. Moved(left, pages, retries, capped, heres, failed) \in Walks
  BY <1>1 DEF Moved, Walks
<1> QED BY <1>2 DEF Moved

(* By steps: a request is done with when what lies strictly inside it is   *)
(* held, or lies above where a refusal is noted.                           *)
LEMMA StepTaken ==
  ASSUME WalkParams, WalkInv, ~setup.forward, History!Asking,
         now' = now, setup' = setup, outcomes' = outcomes,
         durable \subseteq durable', \A r \in durable' : r.recv \in 0 .. now,
         walker' \in Walks, walker'.from = walker.from, walker'.left = Tail(walker.left),
         walker'.heres = walker.heres, walker.failed \subseteq walker'.failed,
         \A f \in walker'.failed : f >= walker.from,
         \A i \in Instruments : \A b \in Int :
           /\ i = History!Request.instrument /\ b >= ListedFrom[i]
           /\ History!Request.from < b /\ b < History!Request.to
           => Got(i, b)' \/ \E f \in walker'.failed : f <= b
  PROVE  WalkInv'
<1>1. /\ WalkTypes /\ WalkBounds /\ StepsCover /\ walker.from \in Int
      /\ Len(walker.left) \in Nat \ {0} /\ History!Request = walker.left[1]
      /\ Len(Tail(walker.left)) = Len(walker.left) - 1
      /\ \A k \in 1 .. Len(walker.left) - 1 : Tail(walker.left)[k] = walker.left[k + 1]
  BY AskingIs, WalkFields DEF WalkInv
<1>2. \A k \in Left' : k + 1 \in Left /\ walker'.left[k] = walker.left[k + 1]
  BY <1>1 DEF Left
<1>3. WalkTypes'
  BY <1>1 DEF WalkTypes
<1>4. WalkBounds'
  BY <1>1, <1>2 DEF WalkBounds
<1>5. History!Planned' = History!Planned
  BY PlannedStays, PlannedIs
<1>6. ASSUME NEW i \in Instruments, NEW b \in Int, Accounted(i, b), b >= ListedFrom[i]
      PROVE  Accounted(i, b)'
  <2>1. CASE Got(i, b)
    BY <2>1 DEF Got, Accounted
  <2>2. CASE \E f \in walker.failed : f <= b
    BY <2>2 DEF Accounted
  <2>3. ASSUME NEW k \in Left, walker.left[k].instrument = i,
               walker.left[k].from < b, b < walker.left[k].to
        PROVE  Accounted(i, b)'
    <3>1. CASE k = 1
      <4>1. Got(i, b)' \/ \E f \in walker'.failed : f <= b
        BY <1>1, <1>6, <2>3, <3>1
      <4> QED BY <4>1 DEF Accounted
    <3>2. CASE k # 1
      <4>1. k - 1 \in Left' /\ walker'.left[k - 1] = walker.left[k]
        BY <1>1, <2>3, <3>2 DEF Left
      <4> QED BY <2>3, <4>1 DEF Accounted
    <3> QED BY <3>1, <3>2
  <2> QED BY <1>6, <2>1, <2>2, <2>3 DEF Accounted
<1>7. StepsCover'
  <2>1. \A k \in Left' : walker'.left[k].to <= walker'.left[k].from + PageRows
    BY <1>1, <1>2 DEF StepsCover
  <2>2. ASSUME NEW i \in Instruments, NEW b \in Int,
               walker'.from < b, b < History!Planned', b >= ListedFrom[i]
        PROVE  Accounted(i, b)'
    BY <1>1, <1>5, <1>6, <2>2 DEF StepsCover
  <2>3. History!Planned' \in Int
    BY <1>1, <1>5 DEF StepsCover
  <2> QED BY <2>1, <2>2, <2>3 DEF StepsCover
<1> QED BY <1>3, <1>4, <1>7, HeldStays DEF WalkInv

(* Paging forward: an instrument is left where everything before is held.  *)
LEMMA InstrumentLeft ==
  ASSUME WalkParams, WalkInv, setup.forward, History!Asking, NEW here \in Int,
         now' = now, setup' = setup, outcomes' = outcomes,
         durable \subseteq durable', \A r \in durable' : r.recv \in 0 .. now,
         walker' \in Walks, walker'.from = walker.from, walker'.left = Tail(walker.left),
         walker'.heres = walker.heres \cup {here}, here >= walker.from - 1,
         \A f \in walker'.failed : f >= walker.from,
         \A i \in Instruments : \A b \in Int :
           /\ i = History!Request.instrument /\ GotTo(i, History!Request.from)
           /\ walker.from < b /\ b < here /\ b >= ListedFrom[i]
           => Got(i, b)'
  PROVE  WalkInv'
<1>1. /\ WalkTypes /\ WalkBounds /\ PagesCover /\ walker.from \in Int
      /\ Len(walker.left) \in Nat \ {0} /\ History!Request = walker.left[1]
      /\ Len(Tail(walker.left)) = Len(walker.left) - 1
      /\ \A k \in 1 .. Len(walker.left) - 1 : Tail(walker.left)[k] = walker.left[k + 1]
  BY AskingIs, WalkFields DEF WalkInv
<1>2. \A k \in Left' : k + 1 \in Left /\ walker'.left[k] = walker.left[k + 1]
  BY <1>1 DEF Left
<1>3. WalkTypes'
  BY <1>1 DEF WalkTypes
<1>4. WalkBounds'
  BY <1>1, <1>2 DEF WalkBounds
<1>5. ASSUME NEW i, NEW to, GotTo(i, to)
      PROVE  GotTo(i, to)'
  BY <1>5 DEF GotTo, Got
<1>6. ASSUME NEW i \in Instruments
      PROVE  UpToRequest(i)' \/ UpToHere(i)'
  <2>1. ASSUME NEW h \in walker.heres, GotTo(i, h)
        PROVE  UpToHere(i)'
    <3>1. h \in walker'.heres /\ GotTo(i, h)'
      BY <1>5, <2>1
    <3> QED BY <3>1 DEF UpToHere
  <2>2. ASSUME NEW k \in Left, walker.left[k].instrument = i, GotTo(i, walker.left[k].from),
               k = 1
        PROVE  UpToHere(i)'
    <3>1. i = History!Request.instrument /\ GotTo(i, History!Request.from)
      BY <1>1, <2>2
    <3>2. GotTo(i, here)'
      BY <3>1 DEF GotTo
    <3> QED BY <3>2 DEF UpToHere
  <2>3. ASSUME NEW k \in Left, walker.left[k].instrument = i, GotTo(i, walker.left[k].from),
               k # 1
        PROVE  UpToRequest(i)'
    <3>1. k - 1 \in Left' /\ walker'.left[k - 1] = walker.left[k]
      BY <1>1, <2>3 DEF Left
    <3>2. PICK to : to = walker.left[k].from
      OBVIOUS
    <3>3. GotTo(i, to)'
      BY <1>5, <2>3, <3>2
    <3>4. \A b \in Int : b < walker'.left[k - 1].from <=> b < to
      BY <3>1, <3>2
    <3> QED BY <2>3, <3>1, <3>3, <3>4 DEF UpToRequest, GotTo
  <2> QED BY <1>1, <2>1, <2>2, <2>3 DEF PagesCover, UpToRequest, UpToHere
<1>7. PagesCover'
  <2>1. \A k \in Left' : walker'.left[k].to = now'
    BY <1>1, <1>2 DEF PagesCover
  <2> QED BY <1>6, <2>1 DEF PagesCover
<1> QED BY <1>3, <1>4, <1>7, HeldStays DEF WalkInv

(* Paging forward: after a full page the request starts past its last row. *)
LEMMA PageOn ==
  ASSUME WalkParams, WalkInv, setup.forward, History!Asking, NEW on \in Int,
         now' = now, setup' = setup, outcomes' = outcomes,
         durable \subseteq durable', \A r \in durable' : r.recv \in 0 .. now,
         walker' \in Walks, walker'.from = walker.from,
         walker'.left = [walker.left EXCEPT ![1].from = on],
         walker'.heres = walker.heres, walker'.failed = walker.failed, on >= walker.from,
         \A i \in Instruments : \A b \in Int :
           /\ i = History!Request.instrument /\ GotTo(i, History!Request.from)
           /\ walker.from < b /\ b < on /\ b >= ListedFrom[i]
           => Got(i, b)'
  PROVE  WalkInv'
<1>1. /\ WalkTypes /\ WalkBounds /\ PagesCover /\ walker.from \in Int
      /\ Len(walker.left) \in Nat \ {0} /\ History!Request = walker.left[1]
      /\ walker.left \in Seq(WalkRequest) /\ walker.left[1] \in WalkRequest /\ 1 \in Left
  BY AskingIs, WalkFields DEF WalkInv
<1>2. /\ Left' = Left
      /\ \A k \in Left : k # 1 => walker'.left[k] = walker.left[k]
      /\ walker'.left[1].from = on /\ walker'.left[1].to = walker.left[1].to
      /\ walker'.left[1].instrument = walker.left[1].instrument
  BY <1>1 DEF Left, WalkRequest
<1>3. WalkTypes'
  BY <1>1 DEF WalkTypes
<1>4. WalkBounds'
  <2>1. ASSUME NEW k \in Left PROVE walker'.left[k].to <= now /\ walker'.left[k].from >= walker.from
    <3>1. walker.left[k].to <= now /\ walker.left[k].from >= walker.from
      BY <1>1 DEF WalkBounds
    <3> QED BY <1>1, <1>2, <3>1
  <2> QED BY <1>1, <1>2, <2>1 DEF WalkBounds
<1>5. ASSUME NEW i \in Instruments
      PROVE  UpToRequest(i)' \/ UpToHere(i)'
  <2>1. ASSUME NEW h \in walker.heres, GotTo(i, h)
        PROVE  UpToHere(i)'
    <3>1. h \in walker'.heres /\ GotTo(i, h)'
      BY <2>1 DEF GotTo, Got
    <3> QED BY <3>1 DEF UpToHere
  <2>2. ASSUME NEW k \in Left, walker.left[k].instrument = i, GotTo(i, walker.left[k].from),
               k = 1
        PROVE  UpToRequest(i)'
    <3>1. i = History!Request.instrument /\ GotTo(i, History!Request.from)
      BY <1>1, <2>2
    <3>2. GotTo(i, on)'
      BY <3>1 DEF GotTo
    <3> QED BY <1>1, <1>2, <2>2, <3>2 DEF UpToRequest, GotTo
  <2>3. ASSUME NEW k \in Left, walker.left[k].instrument = i, GotTo(i, walker.left[k].from),
               k # 1
        PROVE  UpToRequest(i)'
    <3>1. GotTo(i, walker.left[k].from)'
      BY <1>2, <2>3 DEF GotTo, Got
    <3> QED BY <1>2, <2>3, <3>1 DEF UpToRequest, GotTo
  <2> QED BY <1>1, <2>1, <2>2, <2>3 DEF PagesCover, UpToRequest, UpToHere
<1>6. PagesCover'
  <2>1. \A k \in Left' : walker'.left[k].to = now'
    BY <1>1, <1>2 DEF PagesCover
  <2> QED BY <1>5, <2>1 DEF PagesCover
<1> QED BY <1>3, <1>4, <1>6, HeldStays DEF WalkInv

(* A page is durable as it comes.                                          *)
LEMMA PageIsDurable ==
  ASSUME WalkTypes, History!PageTaken
  PROVE  /\ durable \subseteq durable' /\ \A r \in durable' : r.recv \in 0 .. now
         /\ \A i \in Instruments : \A b \in History!Answer(History!Request) :
              i = History!Request.instrument => Got(i, b)'
<1> DEFINE A == History!Answer(History!Request)
<1>1. durable' = durable \cup {[instrument |-> History!Request.instrument, bar |-> b,
                                recv |-> now] : b \in A}
  BY DEF History!PageTaken, History!Page
<1>2. now \in Nat /\ \A r \in durable : r.recv \in 0 .. now
  BY DEF WalkTypes
<1> HIDE DEF A
<1>3. durable \subseteq durable' /\ \A r \in durable' : r.recv \in 0 .. now
  BY <1>1, <1>2
<1>4. ASSUME NEW i \in Instruments, NEW b \in A, i = History!Request.instrument
      PROVE  Got(i, b)'
  <2> DEFINE r == [instrument |-> History!Request.instrument, bar |-> b, recv |-> now]
  <2>1. r \in durable' /\ r.instrument = i /\ r.bar = b
    BY <1>1, <1>4
  <2> QED BY <2>1 DEF Got
<1> QED BY <1>3, <1>4 DEF A

LEMMA WalkPages ==
  ASSUME WalkParams, WalkInv, History!PageTaken
  PROVE  WalkInv'
<1> DEFINE req == History!Request
           page == History!Answer(History!Request)
<1>1. /\ History!Asking /\ now' = now /\ setup' = setup /\ outcomes' = outcomes
      /\ walker' =
           IF ~setup.forward THEN [walker EXCEPT !.left = Tail(@), !.retries = 0]
           ELSE IF Cardinality(page) < PageRows THEN History!NextInstrument(now)
           ELSE [walker EXCEPT !.left[1].from = History!Max(page) + 1, !.pages = @ + 1,
                               !.retries = 0]
  BY WalkCounts DEF History!PageTaken
<1>2. /\ walker.at = "walking" /\ walker \in Walks /\ WalkTypes /\ WalkBounds /\ now \in Nat
      /\ walker.from \in Int /\ 1 \in Left /\ req = walker.left[1] /\ req \in WalkRequest
      /\ Tail(walker.left) \in Seq(WalkRequest) /\ walker.left \in Seq(WalkRequest)
  BY <1>1, AskingIs, WalkFields
<1>3. /\ durable \subseteq durable' /\ \A r \in durable' : r.recv \in 0 .. now
      /\ \A i \in Instruments : \A b \in page : i = req.instrument => Got(i, b)'
  BY <1>2, PageIsDurable
<1>4. /\ req.to <= now /\ req.from >= walker.from /\ \A f \in walker.failed : f >= walker.from
      /\ req.from \in Int
  BY <1>2 DEF WalkBounds, WalkRequest
<1>5. CASE ~setup.forward
  <2>1. /\ walker' \in Walks /\ walker'.from = walker.from /\ walker'.left = Tail(walker.left)
        /\ walker'.heres = walker.heres /\ walker'.failed = walker.failed
    <3>1. walker' = Moved(Tail(walker.left), walker.pages, 0,
                          walker.capped, walker.heres, walker.failed)
      BY <1>1, <1>2, <1>5 DEF Walks, Moved
    <3>2. /\ walker.pages \in Nat /\ walker.capped \in BOOLEAN
          /\ walker.heres \in SUBSET Int /\ walker.failed \in SUBSET Int
      BY <1>2 DEF Walks
    <3>3. walker \in Walks /\ Tail(walker.left) \in Seq(WalkRequest) /\ 0 \in Nat
      BY <1>2
    <3>4. walker.from \in Int /\ walker.pages \in Nat
      BY <1>2 DEF Walks
    <3>5. walker' \in Walks
      BY <3>1, <3>2, <3>3, <3>4 DEF Moved, Walks
    <3> QED BY <3>1, <3>5 DEF Moved
  <2>2. req.to <= req.from + PageRows
    BY <1>2, <1>5 DEF WalkInv, StepsCover
  <2>3. \A i \in Instruments : \A b \in Int :
          /\ i = req.instrument /\ b >= ListedFrom[i] /\ req.from < b /\ b < req.to
          => Got(i, b)'
    <3> SUFFICES ASSUME NEW i \in Instruments, NEW b \in Int, i = req.instrument,
                        b >= ListedFrom[i], req.from < b, b < req.to
                 PROVE  Got(i, b)'
      OBVIOUS
    <3>1. b \in page
      BY <1>2, <1>4, <1>5, <2>2, StepAnswered
    <3> QED BY <1>3, <3>1
  <2> QED BY <1>1, <1>3, <1>4, <1>5, <2>1, <2>3, StepTaken
<1>6. CASE setup.forward /\ Cardinality(page) < PageRows
  <2>1. walker' = [walker EXCEPT !.left = Tail(@), !.pages = 0, !.retries = 0,
                                 !.heres = @ \cup {now}]
    BY <1>1, <1>6 DEF History!NextInstrument
  <2>2. /\ walker' \in Walks /\ walker'.from = walker.from /\ walker'.left = Tail(walker.left)
        /\ walker'.heres = walker.heres \cup {now} /\ walker'.failed = walker.failed
    <3>1. walker' = Moved(Tail(walker.left), 0, 0,
                          walker.capped, walker.heres \cup {now}, walker.failed)
      BY <1>2, <2>1 DEF Walks, Moved
    <3>2. /\ walker.capped \in BOOLEAN /\ walker.failed \in SUBSET Int
          /\ walker.heres \cup {now} \in SUBSET Int
      BY <1>2 DEF Walks
    <3>3. walker \in Walks /\ Tail(walker.left) \in Seq(WalkRequest) /\ 0 \in Nat
      BY <1>2
    <3>4. walker.from \in Int /\ walker.pages \in Nat
      BY <1>2 DEF Walks
    <3>5. walker' \in Walks
      BY <3>1, <3>2, <3>3, <3>4 DEF Moved, Walks
    <3> QED BY <3>1, <3>5 DEF Moved
  <2>3. req.to = now /\ page = History!Rows(req)
    <3>1. req.to = now
      BY <1>2, <1>6 DEF WalkInv, PagesCover
    <3> QED BY <1>2, <1>6, <3>1, PageAnswered
  <2>4. now >= walker.from - 1 /\ now \in Int
    BY <1>2 DEF WalkBounds
  <2>5. ASSUME NEW i \in Instruments, NEW b \in Int, i = req.instrument, GotTo(i, req.from),
               walker.from < b, b < now, b >= ListedFrom[i]
        PROVE  Got(i, b)'
    <3>1. CASE b < req.from
      BY <1>3, <2>5, <3>1 DEF GotTo, Got
    <3>2. CASE req.from <= b
      <4>1. b \in page
        BY <1>2, <1>4, <1>6, <2>3, <2>5, <3>2, RowsAre
      <4> QED BY <1>3, <2>5, <4>1
    <3> QED BY <1>4, <3>1, <3>2
  <2> QED BY <1>1, <1>3, <1>4, <1>6, <2>2, <2>4, <2>5, InstrumentLeft
<1>7. CASE setup.forward /\ ~(Cardinality(page) < PageRows)
  <2> DEFINE on == History!Max(page) + 1
  <2>1. walker' = [walker EXCEPT !.left[1].from = on, !.pages = @ + 1, !.retries = 0]
    BY <1>1, <1>7
  <2>2. req.to = now
    BY <1>2, <1>7 DEF WalkInv, PagesCover
  <2>3. /\ History!Max(page) \in page
        /\ \A b \in History!Rows(req) : b <= History!Max(page) => b \in page
    BY <1>2, <1>7, <2>2, PageAnswered
  <2>4. /\ History!Rows(req) \subseteq Int /\ page \subseteq History!Rows(req)
        /\ \A b \in History!Rows(req) : req.from <= b /\ b <= now - 1
        /\ \A b \in Int : b >= ListedFrom[req.instrument] /\ req.from <= b /\ b < now
                            => b \in History!Rows(req)
    BY <1>2, <1>4, <1>7, <2>2, RowsAre
  <2>5. History!Max(page) \in Int /\ History!Max(page) >= req.from /\ History!Max(page) <= now - 1
    BY <2>3, <2>4
  <2> DEFINE m == History!Max(page)
  <2> HIDE DEF m
  <2>6. on = m + 1 /\ m \in Int /\ m >= req.from /\ m <= now - 1 /\ on \in Int
    BY <2>5 DEF m
  <2> HIDE DEF on, page
  <2>7. /\ walker' \in Walks /\ walker'.from = walker.from
        /\ walker'.left = [walker.left EXCEPT ![1].from = on]
        /\ walker'.heres = walker.heres /\ walker'.failed = walker.failed
    <3> DEFINE left == [walker.left EXCEPT ![1].from = on]
    <3>1. left \in Seq(WalkRequest)
      <4>1. [walker.left[1] EXCEPT !.from = on] \in WalkRequest
        BY <1>2, <2>6 DEF WalkRequest
      <4> QED BY <1>2, <4>1 DEF Left
    <3>2. walker' = [walker EXCEPT !.left = left, !.pages = @ + 1, !.retries = 0]
      BY <1>2, <2>1 DEF Walks
    <3> HIDE DEF left
    <3>4. walker' = Moved(left, walker.pages + 1, 0, walker.capped, walker.heres, walker.failed)
      BY <1>2, <3>2 DEF Walks, Moved
    <3>5. /\ walker.pages + 1 \in Nat /\ walker.capped \in BOOLEAN
          /\ walker.heres \in SUBSET Int /\ walker.failed \in SUBSET Int
      BY <1>2 DEF Walks
    <3>3. /\ walker' \in Walks /\ walker'.from = walker.from /\ walker'.left = left
          /\ walker'.heres = walker.heres /\ walker'.failed = walker.failed
      BY <1>2, <3>1, <3>4, <3>5, WalkMoved
    <3> QED BY <3>3 DEF left
  <2>8. ASSUME NEW i \in Instruments, NEW b \in Int, i = req.instrument, GotTo(i, req.from),
               walker.from < b, b < on, b >= ListedFrom[i]
        PROVE  Got(i, b)'
    <3>1. CASE b < req.from
      BY <1>3, <2>8, <3>1 DEF GotTo, Got
    <3>2. CASE req.from <= b
      <4>1. b <= m /\ b < now
        BY <1>2, <2>6, <2>8
      <4>2. b \in page
        BY <2>3, <2>4, <2>8, <3>2, <4>1 DEF m
      <4> QED BY <1>3, <2>8, <4>2
    <3> QED BY <1>4, <3>1, <3>2
  <2>9. on >= walker.from
    BY <1>2, <1>4, <2>6
  <2> QED BY <1>1, <1>3, <1>4, <1>7, <2>6, <2>7, <2>8, <2>9, PageOn
<1> QED BY <1>5, <1>6, <1>7

LEMMA WalkStopsAtCap ==
  ASSUME WalkParams, WalkInv, History!StopsAtCap
  PROVE  WalkInv'
<1> DEFINE req == History!Request
           here == req.from - 1
<1>1. /\ History!Asking /\ setup.forward /\ now' = now /\ setup' = setup /\ durable' = durable
      /\ outcomes' = outcomes
      /\ walker' = [[walker EXCEPT !.left = Tail(@), !.pages = 0, !.retries = 0,
                                   !.heres = @ \cup {here}] EXCEPT !.capped = TRUE]
  BY DEF History!StopsAtCap, History!Capped, History!NextInstrument
<1>2. /\ walker \in Walks /\ WalkTypes /\ WalkBounds /\ walker.from \in Int
      /\ 1 \in Left /\ req = walker.left[1] /\ req \in WalkRequest
      /\ Tail(walker.left) \in Seq(WalkRequest) /\ walker.left \in Seq(WalkRequest)
  BY <1>1, AskingIs, WalkFields
<1>3. /\ req.from >= walker.from /\ \A f \in walker.failed : f >= walker.from
      /\ here \in Int /\ here >= walker.from - 1 /\ req.from \in Int
  BY <1>2 DEF WalkBounds, WalkRequest
<1> HIDE DEF req, here
<1>4. /\ walker' \in Walks /\ walker'.from = walker.from /\ walker'.left = Tail(walker.left)
      /\ walker'.heres = walker.heres \cup {here} /\ walker'.failed = walker.failed
  <2>1. walker' = Moved(Tail(walker.left), 0, 0, TRUE, walker.heres \cup {here}, walker.failed)
    BY <1>1, <1>2 DEF Walks, Moved
  <2>2. walker.failed \in SUBSET Int /\ walker.heres \cup {here} \in SUBSET Int
    BY <1>2, <1>3 DEF Walks
  <2>3. walker \in Walks /\ Tail(walker.left) \in Seq(WalkRequest) /\ 0 \in Nat
    BY <1>2
  <2>4. walker' \in Walks
    BY <1>2, <2>1, <2>2, <2>3 DEF Moved, Walks
  <2> QED BY <2>1, <2>4 DEF Moved
<1>5. \A i \in Instruments : \A b \in Int :
        /\ i = req.instrument /\ GotTo(i, req.from)
        /\ walker.from < b /\ b < here /\ b >= ListedFrom[i]
        => Got(i, b)'
  <2>1. \A b \in Int : b < here => b < req.from
    BY <1>3 DEF here
  <2> QED BY <1>1, <2>1 DEF GotTo, Got
<1>6. \A r \in durable' : r.recv \in 0 .. now
  BY <1>1, <1>2 DEF WalkTypes
<1> QED BY <1>1, <1>3, <1>4, <1>5, <1>6, InstrumentLeft DEF req

LEMMA WalkRefused ==
  ASSUME WalkParams, WalkInv, History!Refused
  PROVE  WalkInv'
<1> DEFINE req == History!Request
           here == req.from
           failed == walker.failed \cup {here}
<1>1. /\ History!Asking /\ now' = now /\ setup' = setup /\ durable' = durable
      /\ outcomes' = outcomes
      /\ walker' = [IF setup.forward
                    THEN [walker EXCEPT !.left = Tail(@), !.pages = 0, !.retries = 0,
                                        !.heres = @ \cup {here}]
                    ELSE [walker EXCEPT !.left = Tail(@), !.retries = 0]
                    EXCEPT !.failed = @ \cup {here}]
  BY DEF History!Refused, History!NextInstrument
<1>2. /\ walker \in Walks /\ WalkTypes /\ WalkBounds /\ walker.from \in Int
      /\ 1 \in Left /\ req = walker.left[1] /\ req \in WalkRequest
      /\ Tail(walker.left) \in Seq(WalkRequest) /\ walker.left \in Seq(WalkRequest)
  BY <1>1, AskingIs, WalkFields
<1>3. /\ here >= walker.from /\ (\A f \in failed : f >= walker.from)
      /\ here \in Int /\ failed \in SUBSET Int /\ here >= walker.from - 1
      /\ walker.heres \cup {here} \in SUBSET Int /\ walker.heres \in SUBSET Int
      /\ walker.capped \in BOOLEAN /\ walker.pages \in Nat
  BY <1>2 DEF WalkBounds, WalkRequest, Walks
<1>4. \A r \in durable' : r.recv \in 0 .. now
  BY <1>1, <1>2 DEF WalkTypes
<1>5. CASE setup.forward
  <2>1. walker' = Moved(Tail(walker.left), 0, 0, walker.capped, walker.heres \cup {here}, failed)
    BY <1>1, <1>2, <1>5 DEF Walks, Moved
  <2> HIDE DEF here, failed
  <2>2. /\ walker' \in Walks /\ walker'.from = walker.from /\ walker'.left = Tail(walker.left)
        /\ walker'.heres = walker.heres \cup {here} /\ walker'.failed = failed
    <3>1. walker \in Walks /\ Tail(walker.left) \in Seq(WalkRequest) /\ 0 \in Nat
      BY <1>2
    <3>2. walker' \in Walks
      BY <1>2, <1>3, <2>1, <3>1 DEF Moved, Walks
    <3> QED BY <2>1, <3>2 DEF Moved
  <2>3. \A i \in Instruments : \A b \in Int :
          /\ i = req.instrument /\ GotTo(i, req.from)
          /\ walker.from < b /\ b < here /\ b >= ListedFrom[i]
          => Got(i, b)'
    BY <1>1 DEF GotTo, Got, here
  <2> QED BY <1>1, <1>3, <1>4, <1>5, <2>2, <2>3, InstrumentLeft
<1>6. CASE ~setup.forward
  <2>1. walker' = Moved(Tail(walker.left), walker.pages, 0, walker.capped, walker.heres, failed)
    BY <1>1, <1>2, <1>6 DEF Walks, Moved
  <2>2. here \in failed /\ walker.failed \subseteq failed
    OBVIOUS
  <2> HIDE DEF here, failed
  <2>3. /\ walker' \in Walks /\ walker'.from = walker.from /\ walker'.left = Tail(walker.left)
        /\ walker'.heres = walker.heres /\ walker'.failed = failed
    <3>1. walker \in Walks /\ Tail(walker.left) \in Seq(WalkRequest) /\ 0 \in Nat
      BY <1>2
    <3>2. walker' \in Walks
      BY <1>2, <1>3, <2>1, <3>1 DEF Moved, Walks
    <3> QED BY <2>1, <3>2 DEF Moved
  <2>4. \A i \in Instruments : \A b \in Int :
          /\ i = req.instrument /\ b >= ListedFrom[i] /\ req.from < b /\ b < req.to
          => Got(i, b)' \/ \E f \in walker'.failed : f <= b
    <3>1. \A b \in Int : req.from < b => here <= b
      BY <1>3 DEF here
    <3> QED BY <2>2, <2>3, <3>1
  <2> QED BY <1>1, <1>3, <1>4, <1>6, <2>2, <2>3, <2>4, StepTaken
<1> QED BY <1>5, <1>6

(* What a walk is done with is held from where it began to where it says   *)
(* it reached.                                                             *)
LEMMA WalkEnds ==
  ASSUME WalkParams, WalkInv, History!WalkDone
  PROVE  WalkInv'
<1> DEFINE reached == History!Reached
           o == [from |-> walker.from, reached |-> reached, capped |-> History!IsCapped,
                 failed |-> walker.failed # {}]
<1>1. /\ walker.at = "walking" /\ walker.left = <<>> /\ outcomes' = outcomes \cup {o}
      /\ walker' \in {History!Down, History!Live}
      /\ now' = now /\ setup' = setup /\ durable' = durable
  BY DEF History!WalkDone
<1>2. /\ walker \in Walks /\ WalkTypes /\ WalkBounds /\ now \in Nat /\ walker.from \in Int
      /\ walker.heres \in SUBSET Int /\ walker.failed \in SUBSET Int
  BY <1>1, WalkFields
<1>3. Left = {}
  BY <1>1 DEF Left
<1> DEFINE end == History!Planned
           low == History!Min(walker.failed)
<1>4. walker.failed # {} => low \in walker.failed /\ \A f \in walker.failed : low <= f
  BY <1>2, LeastOf DEF WalkBounds
<1>5. reached = IF walker.failed = {} THEN end
                ELSE History!Sooner(end, History!Later(low, walker.from))
  BY DEF History!Reached
<1>6. end \in Int
  <2>1. CASE setup.forward
    <3>1. end = History!Min(walker.heres)
      BY <2>1 DEF History!Planned
    <3>2. /\ walker.heres # {} /\ walker.from - 1 \in Int
          /\ \A h \in walker.heres : h >= walker.from - 1
      BY <1>2 DEF WalkBounds
    <3>3. History!Min(walker.heres) \in walker.heres
      BY <1>2, <3>2, LeastOf
    <3> QED BY <1>2, <3>1, <3>3
  <2>2. CASE ~setup.forward
    BY <1>1, <2>2 DEF WalkInv, StepsCover
  <2> QED BY <2>1, <2>2
<1> HIDE DEF end, low, reached
<1>7. /\ reached \in Int /\ reached <= end
      /\ \A f \in walker.failed : \A b \in Int : f <= b /\ walker.from < b => reached <= b
  <2>1. CASE walker.failed = {}
    BY <1>5, <1>6, <2>1
  <2>2. CASE walker.failed # {}
    <3> DEFINE least == History!Later(low, walker.from)
    <3>1. low \in Int /\ \A f \in walker.failed : low <= f /\ f \in Int
      BY <1>2, <1>4, <2>2
    <3>2. least \in {low, walker.from}
      BY <1>2, <3>1, LaterSooner
    <3>3. least \in Int
      BY <1>2, <3>1, <3>2
    <3>4. reached = History!Sooner(end, least)
      BY <1>5, <2>2
    <3> HIDE DEF least
    <3>5. reached \in {end, least} /\ reached <= end /\ reached <= least
      BY <1>6, <3>3, <3>4, LaterSooner
    <3>6. \A f \in walker.failed : \A b \in Int : f <= b /\ walker.from < b => least <= b
      BY <1>2, <3>1, <3>2
    <3>7. reached \in Int
      BY <1>6, <3>3, <3>5
    <3> QED BY <3>3, <3>5, <3>6, <3>7
  <2> QED BY <2>1, <2>2
<1>8. ASSUME NEW i \in Instruments, NEW b \in Int, walker.from < b, b < reached,
             b >= ListedFrom[i]
      PROVE  Got(i, b)
  <2>1. b < end
    BY <1>6, <1>7, <1>8
  <2>2. CASE setup.forward
    <3>1. PagesCover
      BY <1>1, <2>2 DEF WalkInv
    <3>2. PICK h \in walker.heres : GotTo(i, h)
      BY <1>3, <3>1 DEF PagesCover, UpToRequest, UpToHere
    <3>3. end <= h /\ h \in Int
      <4>1. end = History!Min(walker.heres)
        BY <2>2 DEF History!Planned, end
      <4>2. walker.from - 1 \in Int /\ \A g \in walker.heres : g >= walker.from - 1
        BY <1>2 DEF WalkBounds
      <4>3. \A y \in walker.heres : History!Min(walker.heres) <= y
        BY <1>2, <4>2, LeastOf
      <4> QED BY <1>2, <4>1, <4>3
    <3>4. b < h
      BY <1>6, <2>1, <3>3
    <3> QED BY <1>8, <3>2, <3>4 DEF GotTo
  <2>3. CASE ~setup.forward
    <3>1. StepsCover
      BY <1>1, <2>3 DEF WalkInv
    <3>2. Accounted(i, b)
      BY <1>8, <2>1, <3>1 DEF StepsCover, end
    <3>3. ~(\E f \in walker.failed : f <= b)
      BY <1>7, <1>8
    <3> QED BY <1>3, <3>2, <3>3 DEF Accounted
  <2> QED BY <2>2, <2>3
<1>9. History!Held(walker.from, reached)
  <2> SUFFICES ASSUME NEW i \in Instruments, NEW b \in walker.from + 1 .. reached - 1,
                      b >= ListedFrom[i]
               PROVE  \E r \in durable : r.instrument = i /\ r.bar = b
    BY DEF History!Held
  <2>1. b \in Int /\ walker.from < b /\ b < reached
    BY <1>2, <1>7
  <2> QED BY <1>8, <2>1 DEF Got
<1>10. History!CoveredIsHeld'
  <2>1. \A p \in outcomes : History!Held(p.from, p.reached)
    BY DEF WalkInv, History!CoveredIsHeld
  <2>2. \A p \in outcomes' : History!Held(p.from, p.reached)
    BY <1>1, <1>9, <2>1
  <2> HIDE DEF o
  <2> QED BY <1>1, <2>2 DEF History!CoveredIsHeld, History!Held
<1>11. WalkTypes'
  BY <1>1, <1>2 DEF WalkTypes
<1>12. walker'.at # "walking"
  BY <1>1 DEF History!Down, History!Live
<1> QED BY <1>10, <1>11, <1>12 DEF WalkInv

LEMMA WalkInvInit ==
  ASSUME WalkParams, History!Init
  PROVE  WalkInv
<1>1. now \in Nat /\ durable = {} /\ outcomes = {} /\ walker = History!Down
  BY DEF History!Init, WalkParams, History!PagesAssumption
<1>2. setup \in Setup
  BY DEF History!Init, WalkParams, History!PagesAssumption, Setup
<1>3. walker.at # "walking"
  BY <1>1 DEF History!Down
<1> QED BY <1>1, <1>2, <1>3 DEF WalkInv, WalkTypes, History!CoveredIsHeld

LEMMA WalkInvNext ==
  ASSUME WalkParams, WalkInv, [History!Next]_(History!vars)
  PROVE  WalkInv'
<1>1. CASE History!Tick
  <2>1. walker' = walker /\ now' = now + 1 /\ setup' = setup /\ outcomes' = outcomes
        /\ durable \subseteq durable' /\ \A r \in durable' : r \in durable \/ r.recv = now + 1
    BY <1>1 DEF History!Tick
  <2>2. walker.at # "walking" /\ now \in Nat
    BY <1>1 DEF History!Tick, WalkInv, WalkTypes
  <2>3. WalkTypes'
    BY <2>1, <2>2 DEF WalkInv, WalkTypes
  <2> QED BY <2>1, <2>2, <2>3, HeldStays DEF WalkInv
<1>2. CASE History!Boot
  BY <1>2, WalkBoots
<1>3. CASE History!PageTaken
  BY <1>3, WalkPages
<1>4. CASE History!StopsAtCap
  BY <1>4, WalkStopsAtCap
<1>5. CASE History!Throttled
  <2>1. /\ History!Asking /\ walker' = [walker EXCEPT !.retries = @ + 1]
        /\ now' = now /\ setup' = setup /\ durable' = durable /\ outcomes' = outcomes
    BY <1>5 DEF History!Throttled
  <2>2. walker.at = "walking" /\ walker \in Walks /\ WalkTypes
    BY <2>1, AskingIs, WalkFields
  <2>3. /\ walker' \in Walks /\ walker'.from = walker.from /\ walker'.left = walker.left
        /\ walker'.heres = walker.heres /\ walker'.failed = walker.failed
        /\ walker'.at = walker.at
    <3>1. /\ walker.left \in Seq(WalkRequest) /\ walker.pages \in Nat
          /\ walker.retries + 1 \in Nat /\ walker.capped \in BOOLEAN
          /\ walker.heres \in SUBSET Int /\ walker.failed \in SUBSET Int
      BY <2>2 DEF Walks
    <3>2. walker' = Moved(walker.left, walker.pages, walker.retries + 1,
                          walker.capped, walker.heres, walker.failed)
      BY <2>1, <2>2 DEF Walks, Moved
    <3>3. walker'.at = walker.at
      BY <2>1, <2>2 DEF Walks
    <3> QED BY <2>2, <3>1, <3>2, <3>3, WalkMoved
  <2>4. WalkTypes'
    BY <2>1, <2>2, <2>3 DEF WalkTypes
  <2>5. WalkBounds'
    BY <2>1, <2>2, <2>3 DEF WalkInv, WalkBounds, Left
  <2>6. ~setup.forward => StepsCover'
    <3> SUFFICES ASSUME ~setup.forward PROVE StepsCover'
      OBVIOUS
    <3>1. History!Planned' = History!Planned
      BY <2>1, <2>3, PlannedStays, PlannedIs
    <3>2. StepsCover
      BY <2>2 DEF WalkInv
    <3>3. Left' = Left
      BY <2>3 DEF Left
    <3>4. \A i \in Instruments : \A b \in Int : Accounted(i, b) => Accounted(i, b)'
      BY <2>1, <2>3, <3>3 DEF Accounted, Got
    <3> QED BY <2>3, <3>1, <3>2, <3>3, <3>4 DEF StepsCover
  <2>7. setup.forward => PagesCover'
    BY <2>1, <2>2, <2>3
    DEF WalkInv, PagesCover, UpToRequest, UpToHere, GotTo, Got, Left
  <2> QED BY <2>1, <2>4, <2>5, <2>6, <2>7, HeldStays DEF WalkInv
<1>6. CASE History!Refused
  BY <1>6, WalkRefused
<1>7. CASE History!WalkDone
  BY <1>7, WalkEnds
<1>8. CASE History!Kill
  <2>1. walker' = History!Down /\ now' = now /\ setup' = setup /\ durable' = durable
        /\ outcomes' = outcomes
    BY <1>8 DEF History!Kill
  <2>2. WalkTypes' /\ walker'.at # "walking"
    BY <2>1 DEF WalkInv, WalkTypes, History!Down
  <2> QED BY <2>1, <2>2, HeldStays DEF WalkInv
<1>9. CASE UNCHANGED History!vars
  <2>1. walker' = walker /\ now' = now /\ setup' = setup /\ durable' = durable
        /\ outcomes' = outcomes
    BY <1>9 DEF History!vars
  <2>2. ~setup.forward => History!Planned' = History!Planned
    BY <2>1, PlannedStays, PlannedIs
  <2>3. WalkTypes' /\ (WalkBounds => WalkBounds')
    BY <2>1 DEF WalkInv, WalkTypes, WalkBounds, Left
  <2>4. ~setup.forward /\ StepsCover => StepsCover'
    BY <2>1, <2>2 DEF StepsCover, Accounted, Got, Left
  <2>5. PagesCover => PagesCover'
    BY <2>1 DEF PagesCover, UpToRequest, UpToHere, GotTo, Got, Left
  <2> QED BY <2>1, <2>3, <2>4, <2>5, HeldStays DEF WalkInv
<1> QED
  BY <1>1, <1>2, <1>3, <1>4, <1>5, <1>6, <1>7, <1>8, <1>9 DEF History!Next

(***************************************************************************)
(* CoveredIsHeld, for any instruments, pages, overlap, caps and reaches of *)
(* a venue (capture/walk.rs, plan, outcome and with_failures;              *)
(* capture/run.rs, walk_steps and walk_forward): whatever was refused,     *)
(* throttled, capped, paged, dropped at an edge of a page or killed, what  *)
(* a walk says it covered the record holds, of every instrument.           *)
(***************************************************************************)
THEOREM WalksAreHeld == PartsSpec => []CoveredIsHeld
<1>1. PartsInit => (part = "walk" => WalkInv)
  BY WalkInvInit, InstancesAssumption DEF PartsInit, WalkInit, WalkParams
<1>2. (part = "walk" => WalkInv) /\ [PartsNext]_partsVars => (part = "walk" => WalkInv)'
  BY OnePartMoves, WalkInvNext, InstancesAssumption DEF WalkParams
<1>3. (part = "walk" => WalkInv) => CoveredIsHeld
  BY DEF WalkInv, CoveredIsHeld
<1> QED BY <1>1, <1>2, <1>3, PTL DEF PartsSpec

-----------------------------------------------------------------------------
(* AccountBook.                                                            *)
Basis == [state : {"flat", "known", "unknown"}, n : Int, d : Int]
Amount == [n : Int, d : Int]
Fill == [id : Nat, signed : Int, price : Int, start : Int, pnl : Amount, copies : 0 .. 2]
Books == [position : Int, basis : Basis, seen : SUBSET Nat, poisonedBy : Nat,
          afterPoison : Nat, realised : Seq(Amount), notHeld : Nat, breaks : SUBSET Nat,
          skews : SUBSET Nat]

Happenings == 1 .. Len(fills)
Recorded == {i \in Happenings : fills[i].copies > 0}
IsLast(i) == i \in Recorded /\ \A k \in Recorded : k <= i
NextTo(i, j) == i < j /\ \A k \in i + 1 .. j - 1 : k \notin Recorded

BookTypes ==
  /\ fills \in Seq(Fill) /\ \A i \in Happenings : fills[i].id = i
  /\ account \in [position : Int, n : Int, d : Int]
  /\ book \in Books

(* The venue states its own position before each fill, and a flat account  *)
(* has cost nothing.                                                       *)
VenueStates ==
  /\ \A i \in Happenings : i + 1 \in Happenings =>
       fills[i + 1].start = fills[i].start + fills[i].signed
  /\ \A i \in Happenings : i + 1 \notin Happenings =>
       account.position = fills[i].start + fills[i].signed
  /\ account.position = 0 => account.n = 0

(* What the fold has seen: what is recorded, until a fill it cannot use.   *)
SeenIsRecorded ==
  /\ book.seen = {i \in Recorded : \A k \in Recorded : k < i => fills[k].signed # 0}
  /\ book.poisonedBy = 0 <=> \A k \in Recorded : fills[k].signed # 0
  /\ book.poisonedBy = 0 => \A i \in Recorded :
       IsLast(i) => book.position = fills[i].start + fills[i].signed
  /\ book.basis.state = "flat" <=> book.position = 0

BreaksAreMoves ==
  book.breaks = {j \in book.seen : fills[j].signed # 0 /\
                   \E i \in Recorded : NextTo(i, j) /\ Book!MovedUnseen(i, j)}

(* While every hole shows in the position, a basis the fold knows is the   *)
(* venue's, and so is what it realises.                                    *)
HolesShow ==
  \A i, j \in Recorded : NextTo(i, j) /\ j > i + 1 => Book!MovedUnseen(i, j)
BasisIsEntry ==
  Book!Usable /\ HolesShow =>
    /\ book.skews = {}
    /\ Len(fills) \in Recorded /\ book.basis.state = "known" => Book!IsEntry(book.basis)

(* A basis is not knowable only while the position first held stands.      *)
NoHoles == \A i \in Recorded : \A j \in i .. Len(fills) : j \in Recorded
UnknownIsOlder ==
  Book!Usable /\ NoHoles /\ book.basis.state = "unknown" =>
    \A i \in Recorded :
      fills[i].start # 0 /\ Book!Sign(fills[i].start) = Book!Sign(book.position)

BookInv ==
  /\ BookTypes /\ VenueStates /\ SeenIsRecorded /\ BreaksAreMoves
  /\ BasisIsEntry /\ UnknownIsOlder

-----------------------------------------------------------------------------
LEMMA HeldAre ==
  ASSUME BookTypes
  PROVE  /\ Book!HeldIds = Recorded /\ Len(fills) \in Nat
         /\ \A i \in Happenings : fills[i] \in Fill /\ fills[i].id = i
         /\ \A i, j \in Recorded : Book!Neighbours(i, j) <=> NextTo(i, j)
<1>1. Len(fills) \in Nat /\ DOMAIN fills = Happenings
  BY DEF BookTypes, Happenings
<1>2. \A i \in Happenings : fills[i] \in Fill /\ fills[i].id = i
  BY DEF BookTypes, Happenings
<1>3. Book!HeldIds = Recorded
  BY <1>1, <1>2 DEF Book!HeldIds, Recorded
<1>4. \A i, j \in Recorded : Book!Neighbours(i, j) <=> NextTo(i, j)
  BY <1>3 DEF Book!Neighbours, NextTo
<1> QED BY <1>1, <1>2, <1>3, <1>4

(* Where a fill finds the book: anchored at its start, unless it was there *)
(* already.                                                                *)
AnchorsAt(old, fill) == old.seen = {} \/ old.position # fill.start
Stands(old, fill) ==
  IF AnchorsAt(old, fill) THEN Book!AnchoredAt(fill.start) ELSE old.basis
Breaks(old, fill) ==
  IF old.seen # {} /\ old.position # fill.start THEN old.breaks \cup {fill.id} ELSE old.breaks
Skews(old, fill) ==
  /\ ~Book!Opens(fill.start, fill) /\ Stands(old, fill).state = "known"
  /\ LET gain == Book!Realised(fill.start, Stands(old, fill), fill)
     IN  gain.n * fill.pnl.d # fill.pnl.n * gain.d

LEMMA Bases ==
  ASSUME NEW position \in Int, NEW basis \in Basis, NEW fill \in Fill
  PROVE  /\ Book!BasisAfter(position, basis, fill) \in Basis
         /\ Book!Realised(position, basis, fill) \in Amount
         /\ Book!AnchoredAt(position) \in Basis
<1>1. /\ fill.signed \in Int /\ fill.price \in Int /\ basis.n \in Int /\ basis.d \in Int
      /\ \A k \in Int : Book!Abs(k) \in Int /\ Book!Sign(k) \in Int
  BY DEF Fill, Basis, Book!Abs, Book!Sign
<1>2. \A n, d \in Int : Book!Known(n, d) \in Basis
  BY DEF Book!Known, Basis
<1>3. Book!Flat \in Basis /\ Book!Unknown \in Basis
  BY DEF Book!Flat, Book!Unknown, Basis
<1>4. Book!Closing(position, fill) \in Int
  BY <1>1 DEF Book!Closing
<1>5. Book!Averaged(basis, Book!Abs(position), fill.price, Book!Abs(fill.signed)) \in Basis
  <2> DEFINE o == Book!Abs(position)  a == Book!Abs(fill.signed)
  <2>1. o \in Int /\ a \in Int
    BY <1>1
  <2> HIDE DEF o, a
  <2>2. o * basis.n + a * fill.price * basis.d \in Int /\ (o + a) * basis.d \in Int
    BY <1>1, <2>1
  <2>3. Book!Averaged(basis, o, fill.price, a) \in Basis
    BY <1>2, <2>2 DEF Book!Averaged
  <2> QED BY <2>3 DEF o, a
<1>6. Book!BasisAfter(position, basis, fill) \in Basis
  BY <1>1, <1>2, <1>3, <1>5 DEF Book!BasisAfter
<1>7. Book!Realised(position, basis, fill) \in Amount
  <2> DEFINE c == Book!Closing(position, fill)  s == Book!Sign(position)
  <2>1. c \in Int /\ s \in Int
    BY <1>1, <1>4
  <2> HIDE DEF c, s
  <2>2. c * (fill.price * basis.d - basis.n) * s \in Int
    BY <1>1, <2>1
  <2> QED BY <1>1, <2>2 DEF Book!Realised, Amount, c, s
<1> QED BY <1>3, <1>6, <1>7 DEF Book!AnchoredAt

LEMMA AnchoredIs ==
  ASSUME NEW old \in Books, NEW fill \in Fill
  PROVE  Book!Anchored(old, fill) =
           [old EXCEPT !.position = fill.start, !.basis = Stands(old, fill),
                       !.breaks = Breaks(old, fill)]
BY DEF Books, Book!Anchored, Stands, AnchorsAt, Breaks

(* A row of a fill not seen before, of a book that is not poisoned.        *)
LEMMA RowMoves ==
  ASSUME NEW old \in Books, NEW fill \in Fill
  PROVE  LET new == Book!Moved(Book!Anchored(old, fill), fill)
         IN  /\ new \in Books /\ new.position = fill.start + fill.signed
             /\ new.basis = Book!BasisAfter(fill.start, Stands(old, fill), fill)
             /\ new.seen = old.seen \cup {fill.id} /\ new.poisonedBy = old.poisonedBy
             /\ new.breaks = Breaks(old, fill)
             /\ new.skews = IF Skews(old, fill) THEN old.skews \cup {fill.id} ELSE old.skews
<1> DEFINE here == Book!Anchored(old, fill)
           new == Book!Moved(here, fill)
           stands == Stands(old, fill)
           breaks == Breaks(old, fill)
           gain == Book!Realised(fill.start, stands, fill)
           after == Book!BasisAfter(fill.start, stands, fill)
<1>1. /\ fill.start \in Int /\ fill.id \in Nat /\ fill.signed \in Int /\ stands \in Basis
      /\ breaks \in SUBSET Nat
  <2>1. fill.start \in Int /\ fill.id \in Nat /\ fill.signed \in Int /\ old.basis \in Basis
        /\ old.breaks \in SUBSET Nat
    BY DEF Fill, Books
  <2>2. stands \in Basis
    BY <2>1, Bases DEF Stands
  <2>3. breaks \in SUBSET Nat
    BY <2>1 DEF Breaks
  <2> QED BY <2>1, <2>2, <2>3
<1>2. gain \in Amount /\ after \in Basis
  BY <1>1, Bases
<1>3. here = [old EXCEPT !.position = fill.start, !.basis = stands, !.breaks = breaks]
  BY AnchoredIs
<1>4. /\ here \in Books /\ here.position = fill.start /\ here.basis = stands
      /\ here.breaks = breaks /\ here.seen = old.seen /\ here.poisonedBy = old.poisonedBy
      /\ here.skews = old.skews
  <2> HIDE DEF stands, breaks, here
  <2> QED BY <1>1, <1>3 DEF Books
<1> DEFINE reduces == ~Book!Opens(fill.start, fill)
           known == stands.state = "known"
           notHeld == IF reduces /\ ~known THEN here.notHeld + 1 ELSE here.notHeld
           realised == IF reduces /\ known THEN Append(here.realised, gain) ELSE here.realised
           skews == IF Skews(old, fill) THEN here.skews \cup {fill.id} ELSE here.skews
<1>5. new = [here EXCEPT !.seen = here.seen \cup {fill.id},
                         !.position = fill.start + fill.signed, !.basis = after,
                         !.notHeld = notHeld, !.realised = realised, !.skews = skews]
  <2> HIDE DEF here
  <2> QED BY <1>4 DEF Book!Moved, Skews, Books
<1>6. /\ here.seen \cup {fill.id} \in SUBSET Nat /\ notHeld \in Nat /\ skews \in SUBSET Nat
      /\ realised \in Seq(Amount) /\ fill.start + fill.signed \in Int
  <2> HIDE DEF here, gain, reduces, known
  <2>1. here.notHeld \in Nat /\ here.realised \in Seq(Amount) /\ here.seen \in SUBSET Nat
        /\ here.skews \in SUBSET Nat
    BY <1>4 DEF Books
  <2>2. realised \in Seq(Amount)
    BY <1>2, <2>1
  <2> QED BY <1>1, <2>1, <2>2
<1> HIDE DEF here, stands, breaks, gain, after, reduces, known, notHeld, realised, skews, new
<1>7. /\ new \in Books /\ new.position = fill.start + fill.signed /\ new.basis = after
      /\ new.seen = here.seen \cup {fill.id} /\ new.poisonedBy = here.poisonedBy
      /\ new.breaks = here.breaks /\ new.skews = skews
  BY <1>2, <1>4, <1>5, <1>6 DEF Books
<1>8. skews = IF Skews(old, fill) THEN old.skews \cup {fill.id} ELSE old.skews
  BY <1>4 DEF skews
<1> QED BY <1>4, <1>7, <1>8 DEF new, here, after, stands, breaks

(* Read again, a row moves nothing.                                        *)
LEMMA ReadIs ==
  ASSUME book \in Books, NEW fill \in Fill, fill.copies > 0, fill.id \notin book.seen,
         book' = Book!Read(fill)
  PROVE  /\ book' \in Books
         /\ book.poisonedBy # 0 =>
              /\ book'.position = book.position /\ book'.basis = book.basis
              /\ book'.seen = book.seen /\ book'.poisonedBy = book.poisonedBy
              /\ book'.breaks = book.breaks /\ book'.skews = book.skews
         /\ book.poisonedBy = 0 /\ fill.signed = 0 /\ fill.id # 0 =>
              /\ book'.position = book.position /\ book'.basis = book.basis
              /\ book'.seen = book.seen \cup {fill.id} /\ book'.poisonedBy = fill.id
              /\ book'.breaks = book.breaks /\ book'.skews = book.skews
         /\ book.poisonedBy = 0 /\ fill.signed # 0 =>
              /\ book'.position = fill.start + fill.signed
              /\ book'.basis = Book!BasisAfter(fill.start, Stands(book, fill), fill)
              /\ book'.seen = book.seen \cup {fill.id} /\ book'.poisonedBy = 0
              /\ book'.breaks = Breaks(book, fill)
              /\ book'.skews = IF Skews(book, fill) THEN book.skews \cup {fill.id} ELSE book.skews
<1> DEFINE once == Book!Applied(book, fill)
           twice == Book!Applied(once, fill)
<1>1. book' \in {once, twice}
  BY DEF Book!Read, Fill
<1>2. CASE book.poisonedBy # 0
  <2>1. once = [book EXCEPT !.afterPoison = @ + 1]
    BY <1>2 DEF Book!Applied
  <2>2. /\ once \in Books /\ once.position = book.position /\ once.basis = book.basis
        /\ once.seen = book.seen /\ once.poisonedBy = book.poisonedBy
        /\ once.breaks = book.breaks /\ once.skews = book.skews
    <3> HIDE DEF once
    <3> QED BY <2>1 DEF Books
  <2>3. twice = [once EXCEPT !.afterPoison = @ + 1]
    <3> HIDE DEF once
    <3> QED BY <1>2, <2>2 DEF Book!Applied
  <2>4. /\ twice \in Books /\ twice.position = once.position /\ twice.basis = once.basis
        /\ twice.seen = once.seen /\ twice.poisonedBy = once.poisonedBy
        /\ twice.breaks = once.breaks /\ twice.skews = once.skews
    <3> HIDE DEF once, twice
    <3> QED BY <2>2, <2>3 DEF Books
  <2> HIDE DEF once, twice
  <2> QED BY <1>1, <1>2, <2>2, <2>4
<1>3. CASE book.poisonedBy = 0 /\ fill.signed = 0
  <2>1. once = [book EXCEPT !.seen = @ \cup {fill.id}, !.poisonedBy = fill.id]
    BY <1>3 DEF Book!Applied
  <2>2. fill.id \in Nat
    BY DEF Fill
  <2>3. /\ once \in Books /\ once.position = book.position /\ once.basis = book.basis
        /\ once.seen = book.seen \cup {fill.id} /\ once.poisonedBy = fill.id
        /\ once.breaks = book.breaks /\ once.skews = book.skews
    <3> HIDE DEF once
    <3> QED BY <2>1, <2>2 DEF Books
  <2>4. CASE fill.id = 0
    <3>1. twice = once
      <4> HIDE DEF once
      <4> QED BY <2>3, <2>4 DEF Book!Applied
    <3> HIDE DEF once, twice
    <3> QED BY <1>1, <1>3, <2>3, <2>4, <3>1
  <2>5. CASE fill.id # 0
    <3>1. twice = [once EXCEPT !.afterPoison = @ + 1]
      <4> HIDE DEF once
      <4> QED BY <2>3, <2>5 DEF Book!Applied
    <3>2. /\ twice \in Books /\ twice.position = once.position /\ twice.basis = once.basis
          /\ twice.seen = once.seen /\ twice.poisonedBy = once.poisonedBy
          /\ twice.breaks = once.breaks /\ twice.skews = once.skews
      <4> HIDE DEF once, twice
      <4> QED BY <2>3, <3>1 DEF Books
    <3> HIDE DEF once, twice
    <3> QED BY <1>1, <1>3, <2>3, <2>5, <3>2
  <2> QED BY <2>4, <2>5
<1>4. CASE book.poisonedBy = 0 /\ fill.signed # 0
  <2>1. once = Book!Moved(Book!Anchored(book, fill), fill)
    BY <1>4 DEF Book!Applied
  <2>2. /\ once \in Books /\ once.position = fill.start + fill.signed
        /\ once.basis = Book!BasisAfter(fill.start, Stands(book, fill), fill)
        /\ once.seen = book.seen \cup {fill.id} /\ once.poisonedBy = book.poisonedBy
        /\ once.breaks = Breaks(book, fill)
        /\ once.skews = IF Skews(book, fill) THEN book.skews \cup {fill.id} ELSE book.skews
    BY <2>1, RowMoves
  <2>3. twice = once
    <3> HIDE DEF once
    <3> QED BY <1>4, <2>2 DEF Book!Applied
  <2> HIDE DEF once, twice
  <2> QED BY <1>1, <1>4, <2>2, <2>3
<1> QED BY <1>2, <1>3, <1>4

-----------------------------------------------------------------------------
(* Fractions: bn/bd is an/(ad * o) as long as these hold.                  *)
LEMMA Increased ==
  ASSUME NEW bn \in Int, NEW bd \in Int, NEW an \in Int, NEW ad \in Int, NEW o \in Int,
         NEW a \in Int, NEW p \in Int, bn * ad * o = an * bd
  PROVE  (o * bn + a * p * bd) * ad * (o + a) = (an + a * p * ad) * ((o + a) * bd)
<1> DEFINE t == o + a  w == a * p
<1>1. t \in Int /\ w \in Int
  OBVIOUS
<1> HIDE DEF t, w
<1>2. (o * bn + w * bd) * ad = bn * ad * o + w * bd * ad
  <2>1. (o * bn + w * bd) * ad = o * bn * ad + w * bd * ad
    BY <1>1
  <2>2. o * bn * ad = bn * ad * o
    OBVIOUS
  <2> QED BY <2>1, <2>2
<1>3. (an + w * ad) * bd = an * bd + w * bd * ad
  <2>1. (an + w * ad) * bd = an * bd + w * ad * bd
    BY <1>1
  <2>2. w * ad * bd = w * bd * ad
    BY <1>1
  <2> QED BY <2>1, <2>2
<1>4. (o * bn + w * bd) * ad = (an + w * ad) * bd
  BY <1>2, <1>3
<1>5. ((an + w * ad) * bd) * t = (an + w * ad) * (t * bd)
  <2> DEFINE x == an + w * ad
  <2>1. x \in Int
    BY <1>1
  <2> HIDE DEF x
  <2>2. x * bd * t = x * (t * bd)
    BY <1>1, <2>1
  <2> QED BY <2>2 DEF x
<1>6. (o * bn + w * bd) * ad * t = ((an + w * ad) * bd) * t
  BY <1>4
<1> QED BY <1>5, <1>6 DEF t, w

LEMMA Gained ==
  ASSUME NEW bn \in Int, NEW bd \in Int, NEW an \in Int, NEW ad \in Int, NEW o \in Int,
         NEW c \in Int, NEW s \in Int, NEW p \in Int, bn * ad * o = an * bd
  PROVE  (c * (p * bd - bn) * s) * (ad * o) = (s * c * (p * ad * o - an)) * bd
<1> DEFINE e == ad * o  k == s * c
<1>1. e \in Int /\ k \in Int /\ p * bd - bn \in Int /\ p * ad * o - an \in Int
  OBVIOUS
<1>2. bn * e = an * bd
  <2>1. bn * (ad * o) = bn * ad * o
    OBVIOUS
  <2> QED BY <2>1
<1>3. p * ad * o = p * e
  OBVIOUS
<1>4. c * (p * bd - bn) * s = k * (p * bd - bn)
  <2> DEFINE x == p * bd - bn
  <2>1. x \in Int
    OBVIOUS
  <2> HIDE DEF x
  <2>2. c * x * s = s * c * x
    BY <2>1
  <2> QED BY <2>2 DEF x
<1> HIDE DEF e, k
<1>5. (p * bd - bn) * e = (p * e - an) * bd
  <2>1. (p * bd - bn) * e = p * bd * e - bn * e
    BY <1>1
  <2>2. (p * e - an) * bd = p * e * bd - an * bd
    BY <1>1
  <2>3. p * bd * e = p * e * bd
    BY <1>1
  <2> QED BY <1>2, <2>1, <2>2, <2>3
<1>6. (k * (p * bd - bn)) * e = (k * (p * e - an)) * bd
  <2> DEFINE x == p * bd - bn  y == p * e - an
  <2>1. x \in Int /\ y \in Int
    BY <1>1
  <2>2. x * e = y * bd
    BY <1>5
  <2> HIDE DEF x, y
  <2>3. (k * x) * e = k * (x * e) /\ (k * y) * bd = k * (y * bd)
    BY <1>1, <2>1
  <2>4. (k * x) * e = (k * y) * bd
    BY <2>2, <2>3
  <2> QED BY <2>4 DEF x, y
<1>7. (k * (p * bd - bn)) * (ad * o) = (k * (p * ad * o - an)) * bd
  BY <1>3, <1>6 DEF e
<1> QED BY <1>4, <1>7 DEF k

(* A trade, by the venue's account: it adds to the position, or takes from *)
(* it, or closes it, or turns it.                                          *)
LEMMA Sides ==
  ASSUME NEW p \in Int, NEW s \in Int, s # 0
  PROVE  /\ Book!Abs(p) \in Nat /\ Book!Abs(s) \in Nat /\ Book!Abs(p + s) \in Nat
         /\ p # 0 /\ Book!Sign(p) = Book!Sign(s) =>
              /\ Book!Abs(p + s) = Book!Abs(p) + Book!Abs(s) /\ p + s # 0
              /\ Book!Sign(p + s) = Book!Sign(p)
         /\ p # 0 /\ Book!Sign(p) # Book!Sign(s) /\ p + s # 0
              /\ Book!Sign(p + s) = Book!Sign(p) => Book!Abs(s) < Book!Abs(p)
         /\ p # 0 /\ Book!Sign(p) # Book!Sign(s) /\ p + s # 0
              /\ Book!Sign(p + s) # Book!Sign(p) => Book!Abs(s) > Book!Abs(p)
         /\ p + s = 0 => Book!Abs(s) = Book!Abs(p) /\ Book!Abs(p + s) = 0
BY DEF Book!Abs, Book!Sign

(* What the fold makes of a fill from where the venue stood is what the    *)
(* venue makes of it.                                                      *)
LEMMA BasisFollows ==
  ASSUME account \in [position : Int, n : Int, d : Int], account.position = 0 => account.n = 0,
         NEW basis \in Basis, basis.state = "flat" <=> account.position = 0,
         NEW fill \in Fill, fill.signed # 0, NEW after,
         after = Book!BasisAfter(account.position, basis, fill),
         NEW known \in BOOLEAN, known => (basis.state = "known" => Book!IsEntry(basis)),
         account' = Book!Traded(fill)
  PROVE  /\ account' \in [position : Int, n : Int, d : Int]
         /\ account'.position = account.position + fill.signed
         /\ account'.position = 0 => account'.n = 0
         /\ after.state = "flat" <=> account'.position = 0
         /\ known /\ after.state = "known" =>
              after.n * account'.d * Book!Abs(account'.position) = account'.n * after.d
         /\ after.state = "unknown" =>
              /\ basis.state = "unknown" /\ account'.position # 0
              /\ Book!Sign(account'.position) = Book!Sign(account.position)
         /\ known /\ ~Book!Opens(account.position, fill) /\ basis.state = "known" =>
              LET gain == Book!Realised(account.position, basis, fill)
              IN  gain.n * Book!ClosedPnl(fill).d = Book!ClosedPnl(fill).n * gain.d
<1> DEFINE p == account.position  s == fill.signed  q == fill.price  left == p + s
           o == Book!Abs(p)  a == Book!Abs(s)
           an == account.n  ad == account.d  bn == basis.n  bd == basis.d
<1>1. /\ p \in Int /\ s \in Int /\ s # 0 /\ q \in Int /\ an \in Int /\ ad \in Int
      /\ bn \in Int /\ bd \in Int /\ basis.state \in {"flat", "known", "unknown"}
      /\ o \in Nat /\ a \in Nat /\ Book!Abs(left) \in Nat /\ left \in Int
  <2>1. /\ p \in Int /\ s \in Int /\ s # 0 /\ q \in Int /\ an \in Int /\ ad \in Int
        /\ bn \in Int /\ bd \in Int /\ basis.state \in {"flat", "known", "unknown"}
    BY DEF Fill, Basis
  <2>2. o \in Nat /\ a \in Nat /\ Book!Abs(left) \in Nat /\ left \in Int
    <3> HIDE DEF p, s
    <3> QED BY <2>1 DEF Book!Abs
  <2> QED BY <2>1, <2>2
<1>2. known /\ basis.state = "known" => bn * ad * o = an * bd
  BY DEF Book!IsEntry
<1>3. CASE p = 0
  <2>1. Book!Opens(p, fill) /\ basis.state = "flat" /\ an = 0
    BY <1>3 DEF Book!Opens
  <2>2. after = [state |-> "known", n |-> q, d |-> 1]
    BY <2>1 DEF Book!BasisAfter, Book!Known
  <2>3. account' = [position |-> left, n |-> an + a * q * ad, d |-> ad]
    BY <2>1 DEF Book!Traded
  <2>4. left = s
    BY <1>1, <1>3
  <2> HIDE DEF p, s, q, an, ad, a, o
  <2>5. q * ad * a = an + a * q * ad
    BY <1>1, <2>1
  <2>6. an + a * q * ad \in Int
    BY <1>1
  <2> HIDE DEF left
  <2>7. /\ account' \in [position : Int, n : Int, d : Int] /\ account'.position = left
        /\ account'.n = an + a * q * ad /\ account'.d = ad /\ left # 0
        /\ after.state = "known" /\ after.n = q /\ after.d = 1
    BY <1>1, <2>2, <2>3, <2>4, <2>6
  <2>8. after.n * account'.d * Book!Abs(account'.position) = account'.n * after.d
    <3>1. Book!Abs(account'.position) = a
      BY <2>4, <2>7 DEF a
    <3>2. (an + a * q * ad) * 1 = an + a * q * ad
      BY <2>6
    <3> QED BY <2>5, <2>7, <3>1, <3>2
  <2> QED BY <2>1, <2>7, <2>8 DEF left, p, s
<1>4. CASE p # 0 /\ Book!Sign(p) = Book!Sign(s)
  <2>1. Book!Opens(p, fill) /\ basis.state # "flat"
    BY <1>4 DEF Book!Opens
  <2>2. account' = [position |-> left, n |-> an + a * q * ad, d |-> ad]
    BY <2>1 DEF Book!Traded
  <2>3. after = IF basis.state = "known"
                THEN [state |-> "known", n |-> o * bn + a * q * bd, d |-> (o + a) * bd]
                ELSE [state |-> "unknown", n |-> 0, d |-> 1]
    BY <1>1, <2>1 DEF Book!BasisAfter, Book!Averaged, Book!Known, Book!Unknown
  <2>4. Book!Abs(left) = o + a /\ left # 0 /\ Book!Sign(left) = Book!Sign(p)
    <3> HIDE DEF p, s
    <3> QED BY <1>1, <1>4, Sides DEF o, a
  <2> HIDE DEF p, s, q, an, ad, a, o, bn, bd, left
  <2>5. an + a * q * ad \in Int
    BY <1>1
  <2>6. /\ account' \in [position : Int, n : Int, d : Int] /\ account'.position = left
        /\ account'.n = an + a * q * ad /\ account'.d = ad
    BY <1>1, <2>2, <2>5
  <2>7. ASSUME known, after.state = "known"
        PROVE  after.n * account'.d * Book!Abs(account'.position) = account'.n * after.d
    <3>1. basis.state = "known" /\ after.n = o * bn + a * q * bd /\ after.d = (o + a) * bd
      BY <2>3, <2>7
    <3>2. (o * bn + a * q * bd) * ad * (o + a) = (an + a * q * ad) * ((o + a) * bd)
      BY <1>1, <1>2, <2>7, <3>1, Increased
    <3> QED BY <2>4, <2>6, <3>1, <3>2
  <2>8. after.state # "flat" /\ (after.state = "unknown" => basis.state = "unknown")
    BY <1>1, <2>1, <2>3
  <2> QED BY <2>1, <2>4, <2>6, <2>7, <2>8 DEF left, p, s
<1>5. CASE p # 0 /\ Book!Sign(p) # Book!Sign(s)
  <2>1. ~Book!Opens(p, fill) /\ basis.state # "flat"
    BY <1>5 DEF Book!Opens
  <2>2. account' = IF a <= o THEN [position |-> left, n |-> an * Book!Abs(left), d |-> ad * o]
                   ELSE [position |-> left, n |-> Book!Abs(left) * q, d |-> 1]
    BY <2>1 DEF Book!Traded
  <2>3. after = IF left = 0 THEN [state |-> "flat", n |-> 0, d |-> 1]
                ELSE IF Book!Sign(left) # Book!Sign(p) THEN [state |-> "known", n |-> q, d |-> 1]
                ELSE basis
    BY <2>1 DEF Book!BasisAfter, Book!Known, Book!Flat
  <2>4. /\ left = 0 => a = o /\ Book!Abs(left) = 0
        /\ left # 0 /\ Book!Sign(left) = Book!Sign(p) => a < o
        /\ left # 0 /\ Book!Sign(left) # Book!Sign(p) => a > o
    <3> HIDE DEF p, s
    <3> QED BY <1>1, <1>5, Sides DEF o, a, left
  <2> DEFINE l == Book!Abs(left)
  <2> HIDE DEF p, s, q, an, ad, a, o, bn, bd, left, l
  <2>5. an * l \in Int /\ ad * o \in Int /\ l * q \in Int /\ l \in Nat
    BY <1>1 DEF l
  <2>6. account' \in [position : Int, n : Int, d : Int] /\ account'.position = left
    BY <1>1, <2>2, <2>5
  <2>7. ASSUME known, after.state = "known"
        PROVE  after.n * account'.d * Book!Abs(account'.position) = account'.n * after.d
    <3>1. left # 0
      BY <2>3, <2>7
    <3>2. CASE Book!Sign(left) # Book!Sign(p)
      <4>1. after.n = q /\ after.d = 1 /\ account'.n = l * q /\ account'.d = 1
        BY <1>1, <2>2, <2>3, <2>4, <3>1, <3>2 DEF l
      <4>2. q * 1 * l = (l * q) * 1
        BY <1>1, <2>5
      <4> QED BY <2>6, <4>1, <4>2 DEF l
    <3>3. CASE Book!Sign(left) = Book!Sign(p)
      <4>1. after = basis /\ account'.n = an * l /\ account'.d = ad * o
        BY <1>1, <2>2, <2>3, <2>4, <3>1, <3>3 DEF l
      <4>2. bn * (ad * o) * l = (an * l) * bd
        <5>1. basis.state = "known"
          BY <2>7, <4>1
        <5>2. bn * ad * o = an * bd
          BY <1>2, <2>7, <5>1
        <5>3. o \in Int /\ l \in Int
          BY <1>1, <2>5
        <5>4. bn \in Int /\ bd \in Int /\ an \in Int /\ ad \in Int
          BY <1>1
        <5>5. bn * (ad * o) * l = (bn * ad * o) * l /\ (an * bd) * l = (an * l) * bd
          BY <5>3, <5>4
        <5> QED BY <5>2, <5>5
      <4> QED BY <2>6, <4>1, <4>2 DEF bn, bd, l
    <3> QED BY <3>2, <3>3
  <2>8. after.state = "flat" <=> left = 0
    BY <2>1, <2>3
  <2>9. after.state = "unknown" => basis.state = "unknown" /\ Book!Sign(left) = Book!Sign(p)
    BY <2>3
  <2>10. left = 0 => account'.n = 0
    BY <1>1, <2>2, <2>4, <2>5 DEF l
  <2>11. ASSUME known, basis.state = "known", NEW gain, gain = Book!Realised(p, basis, fill)
         PROVE  gain.n * Book!ClosedPnl(fill).d = Book!ClosedPnl(fill).n * gain.d
    <3> DEFINE c == Book!Closing(p, fill)  g == Book!Sign(p)
    <3>1. gain.n = c * (q * bd - bn) * g /\ gain.d = bd
      BY <2>11 DEF Book!Realised, q, bd, bn
    <3>2. Book!ClosedPnl(fill) = [n |-> g * c * (q * ad * o - an), d |-> ad * o]
      BY <2>1 DEF Book!ClosedPnl, q, ad, o, an, p
    <3>3. c \in Int /\ g \in Int
      BY <1>1 DEF Book!Closing, Book!Sign, a, o, s
    <3> HIDE DEF c, g
    <3>4. (c * (q * bd - bn) * g) * (ad * o) = (g * c * (q * ad * o - an)) * bd
      BY <1>1, <1>2, <2>11, <3>3, Gained
    <3> QED BY <3>1, <3>2, <3>4
  <2> QED BY <2>1, <2>6, <2>7, <2>8, <2>9, <2>10, <2>11 DEF left, p, s
<1> QED BY <1>3, <1>4, <1>5

-----------------------------------------------------------------------------
(* One fill more, of which the record holds so many copies.                *)
OneMore(fill, n) ==
  /\ fill \in Fill /\ n = Len(fills) + 1 /\ fill.id = n /\ fill.start = account.position
  /\ fills' = Append(fills, fill) /\ book' = Book!Read(fill)

LEMMA FillsGrow ==
  ASSUME BookTypes, NEW fill, NEW n, OneMore(fill, n)
  PROVE  /\ Len(fills) \in Nat /\ n \in Nat /\ n \notin Happenings
         /\ fills' \in Seq(Fill) /\ Len(fills') = n /\ fills'[n] = fill
         /\ Happenings' = Happenings \cup {n}
         /\ \A i \in Happenings : fills'[i] = fills[i] /\ i \in Nat /\ i < n /\ i <= Len(fills)
         /\ \A i \in Happenings' : fills'[i].id = i
         /\ fill.copies > 0 => Recorded' = Recorded \cup {n}
         /\ fill.copies = 0 => Recorded' = Recorded
         /\ Recorded \subseteq Happenings
<1>1. /\ Len(fills) \in Nat /\ fills \in Seq(Fill) /\ fill \in Fill /\ fill.id = n
      /\ n = Len(fills) + 1
      /\ \A i \in Happenings : fills[i].id = i
  BY DEF BookTypes, OneMore
<1>2. /\ fills' \in Seq(Fill) /\ Len(fills') = n /\ fills'[n] = fill
      /\ \A i \in Happenings : fills'[i] = fills[i] /\ i \in Nat /\ i < n /\ i <= Len(fills)
      /\ Happenings' = Happenings \cup {n} /\ n \in Nat /\ n \notin Happenings
  BY <1>1 DEF OneMore, Happenings
<1>3. \A i \in Happenings' : fills'[i].id = i
  BY <1>1, <1>2
<1>4. fill.copies > 0 => Recorded' = Recorded \cup {n}
  BY <1>2 DEF Recorded
<1>5. fill.copies = 0 => Recorded' = Recorded
  BY <1>2 DEF Recorded
<1> QED BY <1>1, <1>2, <1>3, <1>4, <1>5 DEF Recorded

LEMMA PairsStay ==
  ASSUME BookTypes, NEW fill, NEW n, OneMore(fill, n), NEW i \in Recorded, NEW j \in Recorded
  PROVE  /\ NextTo(i, j)' <=> NextTo(i, j)
         /\ Book!MovedUnseen(i, j)' <=> Book!MovedUnseen(i, j)
         /\ fills'[j] = fills[j] /\ j < n /\ j # n
<1>1. /\ i \in Nat /\ j \in Nat /\ j < n /\ fills'[i] = fills[i] /\ fills'[j] = fills[j]
      /\ n \in Nat
  BY FillsGrow
<1>2. \A k \in i + 1 .. j - 1 : k \in Recorded' <=> k \in Recorded
  <2>1. \A k \in i + 1 .. j - 1 : k # n
    BY <1>1
  <2>2. fill.copies > 0 \/ fill.copies = 0
    BY DEF OneMore, Fill
  <2> QED BY <2>1, <2>2, FillsGrow
<1>3. NextTo(i, j)' <=> NextTo(i, j)
  BY <1>2 DEF NextTo
<1>4. Book!MovedUnseen(i, j)' <=> Book!MovedUnseen(i, j)
  BY <1>1 DEF Book!MovedUnseen
<1> QED BY <1>1, <1>3, <1>4

(* The fill before the next is the last recorded.                          *)
LEMMA LastIs ==
  ASSUME BookTypes, NEW fill, NEW n, OneMore(fill, n), fill.copies > 0
  PROVE  /\ Recorded # {} => \E i \in Recorded : IsLast(i)
         /\ \A i \in Recorded : NextTo(i, n)' <=> IsLast(i)
         /\ \A i \in Recorded : IsLast(i) /\ i # Len(fills) => n > i + 1
         /\ \A i \in Recorded' : ~NextTo(n, i)'
         /\ \A i \in Recorded' : IsLast(i)' <=> i = n
<1>1. /\ Len(fills) \in Nat /\ Recorded \subseteq Happenings /\ Recorded' = Recorded \cup {n}
      /\ \A i \in Recorded : i \in Nat /\ i <= Len(fills) /\ i < n
  BY FillsGrow
<1>2. Recorded # {} => \E i \in Recorded : IsLast(i)
  <2> SUFFICES ASSUME Recorded # {} PROVE \E i \in Recorded : IsLast(i)
    OBVIOUS
  <2>1. Recorded \in SUBSET Nat /\ \A k \in Recorded : k <= Len(fills)
    BY <1>1
  <2>2. \E x \in Recorded : \A y \in Recorded : x >= y
    BY <1>1, <2>1, GreatestNat
  <2>3. PICK x \in Recorded : \A y \in Recorded : x >= y
    BY <2>2
  <2>4. \A y \in Recorded : y <= x
    BY <1>1, <2>3
  <2> QED BY <2>4 DEF IsLast
<1>3. ASSUME NEW i \in Recorded
      PROVE  NextTo(i, n)' <=> IsLast(i)
  <2>1. i \in Nat /\ i < n /\ n \in Nat
    BY <1>1, FillsGrow
  <2>2. NextTo(i, n)' <=> \A k \in i + 1 .. n - 1 : k \notin Recorded
    BY <1>1, <2>1 DEF NextTo
  <2>3. (\A k \in i + 1 .. n - 1 : k \notin Recorded) <=> \A k \in Recorded : k <= i
    BY <1>1, <2>1
  <2> QED BY <2>2, <2>3 DEF IsLast
<1>4. \A i \in Recorded : IsLast(i) /\ i # Len(fills) => n > i + 1
  BY <1>1 DEF OneMore
<1>5. ASSUME NEW i \in Recorded'
      PROVE  ~NextTo(n, i)' /\ (IsLast(i)' <=> i = n)
  <2>1. i <= n /\ i \in Nat /\ n \in Nat /\ n \in Recorded' /\ \A k \in Recorded' : k <= n
    BY <1>1, FillsGrow
  <2> QED BY <2>1 DEF NextTo, IsLast
<1> QED BY <1>1, <1>2, <1>3, <1>4, <1>5

LEMMA VenueStatesNext ==
  ASSUME BookTypes, VenueStates, NEW fill, NEW n, OneMore(fill, n),
         account'.position = account.position + fill.signed,
         account'.position = 0 => account'.n = 0
  PROVE  VenueStates'
<1>1. /\ Len(fills) \in Nat /\ Happenings' = Happenings \cup {n} /\ fills'[n] = fill
      /\ n = Len(fills) + 1 /\ fill.start = account.position
      /\ \A i \in Happenings : fills'[i] = fills[i] /\ i \in Nat /\ i < n /\ i <= Len(fills)
      /\ n \notin Happenings /\ Happenings = 1 .. Len(fills)
  BY FillsGrow DEF OneMore, Happenings
<1>2. ASSUME NEW i \in Happenings', i + 1 \in Happenings'
      PROVE  fills'[i + 1].start = fills'[i].start + fills'[i].signed
  <2>1. i \in Happenings
    BY <1>1, <1>2
  <2>2. CASE i + 1 \in Happenings
    BY <1>1, <2>1, <2>2 DEF VenueStates
  <2>3. CASE i + 1 \notin Happenings
    <3>1. i + 1 = n
      BY <1>1, <1>2, <2>3
    <3> QED BY <1>1, <2>1, <2>3, <3>1 DEF VenueStates
  <2> QED BY <2>2, <2>3
<1>3. ASSUME NEW i \in Happenings', i + 1 \notin Happenings'
      PROVE  account'.position = fills'[i].start + fills'[i].signed
  <2>1. i = n
    BY <1>1, <1>3
  <2> QED BY <1>1, <2>1
<1> QED BY <1>2, <1>3 DEF VenueStates

(* A fill that the record does not hold.                                   *)
LEMMA NotRecorded ==
  ASSUME BookInv, NEW fill, NEW n, OneMore(fill, n), fill.copies = 0,
         account' \in [position : Int, n : Int, d : Int],
         account'.position = account.position + fill.signed,
         account'.position = 0 => account'.n = 0
  PROVE  BookInv'
<1>1. BookTypes /\ VenueStates /\ SeenIsRecorded /\ BreaksAreMoves /\ BasisIsEntry /\ UnknownIsOlder
  BY DEF BookInv
<1>2. book' = book
  BY DEF OneMore, Book!Read
<1>3. /\ Recorded' = Recorded /\ n \notin Recorded /\ Len(fills') = n /\ fills' \in Seq(Fill)
      /\ Recorded \subseteq Happenings /\ Happenings' = Happenings \cup {n} /\ n \in Nat
      /\ \A i \in Happenings' : fills'[i].id = i
      /\ \A i \in Happenings : fills'[i] = fills[i] /\ i <= n /\ i \in Nat
  BY <1>1, FillsGrow
<1>4. /\ \A i, j \in Recorded : /\ NextTo(i, j)' <=> NextTo(i, j)
                                /\ Book!MovedUnseen(i, j)' <=> Book!MovedUnseen(i, j)
      /\ \A j \in Recorded : fills'[j] = fills[j]
  BY <1>1, PairsStay
<1>5. BookTypes'
  BY <1>1, <1>2, <1>3 DEF BookTypes
<1>6. VenueStates'
  BY <1>1, VenueStatesNext
<1>7. SeenIsRecorded'
  BY <1>1, <1>2, <1>3, <1>4 DEF SeenIsRecorded, IsLast
<1>8. BreaksAreMoves'
  <2>1. book.seen \subseteq Recorded
    BY <1>1 DEF SeenIsRecorded
  <2> QED BY <1>1, <1>2, <1>3, <1>4, <2>1 DEF BreaksAreMoves
<1>9. Book!Usable' => Book!Usable
  BY <1>1, <1>3 DEF Book!Usable, BookTypes, Happenings
<1>10. BasisIsEntry'
  <2>1. HolesShow' => HolesShow
    BY <1>3, <1>4 DEF HolesShow
  <2> QED BY <1>1, <1>2, <1>3, <1>9, <2>1 DEF BasisIsEntry
<1>11. UnknownIsOlder'
  <2>1. NoHoles' => Recorded = {}
    BY <1>3 DEF NoHoles
  <2> QED BY <1>3, <2>1 DEF UnknownIsOlder
<1> QED BY <1>5, <1>6, <1>7, <1>8, <1>10, <1>11 DEF BookInv

(* A fill once the book is poisoned.                                       *)
LEMMA AfterPoison ==
  ASSUME BookInv, NEW fill, NEW n, OneMore(fill, n), fill.copies > 0, book.poisonedBy # 0,
         account' \in [position : Int, n : Int, d : Int],
         account'.position = account.position + fill.signed,
         account'.position = 0 => account'.n = 0
  PROVE  BookInv'
<1>1. BookTypes /\ VenueStates /\ SeenIsRecorded /\ BreaksAreMoves /\ BasisIsEntry /\ UnknownIsOlder
  BY DEF BookInv
<1>2. /\ Recorded' = Recorded \cup {n} /\ n \notin Recorded /\ Len(fills') = n
      /\ fills' \in Seq(Fill) /\ fills'[n] = fill /\ n = fill.id /\ fill \in Fill
      /\ Recorded \subseteq Happenings /\ Happenings' = Happenings \cup {n} /\ n \in Nat
      /\ \A i \in Happenings' : fills'[i].id = i
      /\ \A i \in Happenings : fills'[i] = fills[i] /\ i < n /\ i \in Nat
  BY <1>1, FillsGrow DEF OneMore
<1>3. /\ \A i, j \in Recorded : /\ NextTo(i, j)' <=> NextTo(i, j)
                                /\ Book!MovedUnseen(i, j)' <=> Book!MovedUnseen(i, j)
      /\ \A j \in Recorded : fills'[j] = fills[j] /\ j < n /\ j # n
  BY <1>1, PairsStay
<1>4. book.seen \subseteq Recorded
  BY <1>1 DEF SeenIsRecorded
<1>5. /\ book' \in Books /\ book'.position = book.position /\ book'.basis = book.basis
      /\ book'.seen = book.seen /\ book'.poisonedBy = book.poisonedBy
      /\ book'.breaks = book.breaks /\ book'.skews = book.skews
  BY <1>1, <1>2, <1>4, ReadIs DEF OneMore, BookTypes
<1>6. PICK bad \in Recorded : fills[bad].signed = 0
  BY <1>1 DEF SeenIsRecorded
<1>7. BookTypes'
  BY <1>1, <1>2, <1>5 DEF BookTypes
<1>8. VenueStates'
  BY <1>1, VenueStatesNext
<1>9. SeenIsRecorded'
  <2>1. book'.seen = {i \in Recorded' : \A k \in Recorded' : k < i => fills'[k].signed # 0}
    <3>1. ~(\A k \in Recorded' : k < n => fills'[k].signed # 0)
      BY <1>2, <1>3, <1>6
    <3>2. \A i \in Recorded : (\A k \in Recorded' : k < i => fills'[k].signed # 0)
                                <=> \A k \in Recorded : k < i => fills[k].signed # 0
      BY <1>2, <1>3
    <3> QED BY <1>1, <1>2, <1>5, <3>1, <3>2 DEF SeenIsRecorded
  <2>2. book'.poisonedBy # 0 /\ ~(\A k \in Recorded' : fills'[k].signed # 0)
    BY <1>2, <1>3, <1>5, <1>6
  <2> QED BY <1>1, <1>5, <2>1, <2>2 DEF SeenIsRecorded
<1>10. BreaksAreMoves'
  <2>1. \A j \in book.seen :
          (\E i \in Recorded' : NextTo(i, j)' /\ Book!MovedUnseen(i, j)')
            <=> \E i \in Recorded : NextTo(i, j) /\ Book!MovedUnseen(i, j)
    BY <1>1, <1>2, <1>3, <1>4, LastIs
  <2> QED BY <1>1, <1>3, <1>4, <1>5, <2>1 DEF BreaksAreMoves
<1>11. ~Book!Usable'
  <2>1. bad \in DOMAIN fills' /\ fills'[bad].signed = 0
    BY <1>2, <1>3, <1>6 DEF Happenings
  <2> QED BY <2>1 DEF Book!Usable
<1>12. BasisIsEntry' /\ UnknownIsOlder'
  BY <1>11 DEF BasisIsEntry, UnknownIsOlder
<1> QED BY <1>7, <1>8, <1>9, <1>10, <1>12 DEF BookInv

(* A fill the fold cannot use.                                             *)
LEMMA Poisons ==
  ASSUME BookInv, NEW fill, NEW n, OneMore(fill, n), fill.copies > 0, book.poisonedBy = 0,
         fill.signed = 0, account' = account
  PROVE  BookInv'
<1>1. BookTypes /\ VenueStates /\ SeenIsRecorded /\ BreaksAreMoves /\ BasisIsEntry /\ UnknownIsOlder
  BY DEF BookInv
<1>2. /\ Recorded' = Recorded \cup {n} /\ n \notin Recorded /\ Len(fills') = n
      /\ fills' \in Seq(Fill) /\ fills'[n] = fill /\ n = fill.id /\ fill \in Fill
      /\ Recorded \subseteq Happenings /\ Happenings' = Happenings \cup {n} /\ n \in Nat
      /\ \A i \in Happenings' : fills'[i].id = i
      /\ \A i \in Happenings : fills'[i] = fills[i] /\ i < n /\ i \in Nat
  BY <1>1, FillsGrow DEF OneMore
<1>3. /\ \A i, j \in Recorded : /\ NextTo(i, j)' <=> NextTo(i, j)
                                /\ Book!MovedUnseen(i, j)' <=> Book!MovedUnseen(i, j)
      /\ \A j \in Recorded : fills'[j] = fills[j] /\ j < n /\ j # n
  BY <1>1, PairsStay
<1>4. book.seen = Recorded /\ \A k \in Recorded : fills[k].signed # 0
  BY <1>1 DEF SeenIsRecorded
<1>5. /\ book' \in Books /\ book'.position = book.position /\ book'.basis = book.basis
      /\ book'.seen = book.seen \cup {n} /\ book'.poisonedBy = n
      /\ book'.breaks = book.breaks /\ book'.skews = book.skews
  <2>1. n # 0
    BY <1>1, FillsGrow DEF OneMore
  <2> QED BY <1>1, <1>2, <1>4, <2>1, ReadIs DEF OneMore, BookTypes
<1>6. BookTypes'
  BY <1>1, <1>2, <1>5 DEF BookTypes
<1>7. VenueStates'
  <2>1. account'.position = account.position + fill.signed
    BY <1>1 DEF BookTypes
  <2> QED BY <1>1, <2>1, VenueStatesNext DEF VenueStates
<1>8. SeenIsRecorded'
  <2>1. \A i \in Recorded' : \A k \in Recorded' : k < i => fills'[k].signed # 0
    BY <1>2, <1>3, <1>4
  <2>2. book'.poisonedBy # 0 /\ ~(\A k \in Recorded' : fills'[k].signed # 0)
    <3>1. n # 0
      BY <1>1, FillsGrow DEF OneMore
    <3> QED BY <1>2, <1>5, <3>1
  <2> QED BY <1>1, <1>2, <1>4, <1>5, <2>1, <2>2 DEF SeenIsRecorded
<1>9. BreaksAreMoves'
  <2>1. \A j \in Recorded :
          (\E i \in Recorded' : NextTo(i, j)' /\ Book!MovedUnseen(i, j)')
            <=> \E i \in Recorded : NextTo(i, j) /\ Book!MovedUnseen(i, j)
    BY <1>1, <1>2, <1>3, LastIs
  <2> QED BY <1>1, <1>2, <1>3, <1>4, <1>5, <2>1 DEF BreaksAreMoves
<1>10. ~Book!Usable'
  <2>1. n \in 1 .. Len(fills')
    BY <1>1, <1>2, FillsGrow DEF OneMore
  <2>2. n \in DOMAIN fills' /\ fills'[n].signed = 0
    BY <1>2, <2>1
  <2> QED BY <2>2 DEF Book!Usable
<1>11. BasisIsEntry' /\ UnknownIsOlder'
  BY <1>10 DEF BasisIsEntry, UnknownIsOlder
<1> QED BY <1>6, <1>7, <1>8, <1>9, <1>11 DEF BookInv

(* A fill that is folded: what the venue makes of it the book makes of it. *)
LEMMA Folds ==
  ASSUME BookInv, NEW fill, NEW n, OneMore(fill, n), fill.copies > 0, book.poisonedBy = 0,
         fill.signed # 0, fill.pnl = Book!ClosedPnl(fill), account' = Book!Traded(fill)
  PROVE  BookInv'
<1>1. /\ BookTypes /\ VenueStates /\ SeenIsRecorded /\ BreaksAreMoves /\ BasisIsEntry
      /\ UnknownIsOlder /\ account \in [position : Int, n : Int, d : Int] /\ book \in Books
  BY DEF BookInv, BookTypes
<1>2. /\ Recorded' = Recorded \cup {n} /\ n \notin Recorded /\ Len(fills') = n
      /\ fills' \in Seq(Fill) /\ fills'[n] = fill /\ n = fill.id /\ fill \in Fill
      /\ Recorded \subseteq Happenings /\ Happenings' = Happenings \cup {n} /\ n \in Nat
      /\ fill.start = account.position /\ n = Len(fills) + 1 /\ Len(fills) \in Nat
      /\ \A i \in Happenings' : fills'[i].id = i
      /\ \A i \in Happenings : fills'[i] = fills[i] /\ i < n /\ i \in Nat
  BY <1>1, FillsGrow DEF OneMore
<1>3. /\ \A i, j \in Recorded : /\ NextTo(i, j)' <=> NextTo(i, j)
                                /\ Book!MovedUnseen(i, j)' <=> Book!MovedUnseen(i, j)
      /\ \A j \in Recorded : fills'[j] = fills[j] /\ j < n /\ j # n
  BY <1>1, PairsStay
<1>4. book.seen = Recorded /\ \A k \in Recorded : fills[k].signed # 0
  BY <1>1 DEF SeenIsRecorded
<1> DEFINE p == account.position
           stands == Stands(book, fill)
           known == Book!Usable' /\ HolesShow'
<1>5. /\ book' \in Books /\ book'.position = p + fill.signed
      /\ book'.basis = Book!BasisAfter(p, stands, fill)
      /\ book'.seen = Recorded \cup {n} /\ book'.poisonedBy = 0
      /\ book'.breaks = Breaks(book, fill)
      /\ book'.skews = IF Skews(book, fill) THEN book.skews \cup {n} ELSE book.skews
  BY <1>1, <1>2, <1>4, ReadIs DEF OneMore
<1>6. p \in Int /\ stands \in Basis /\ (stands.state = "flat" <=> p = 0)
  <2>1. p \in Int /\ book.basis \in Basis /\ Book!AnchoredAt(p) \in Basis
    BY <1>1, <1>2, Bases DEF Books
  <2>2. CASE AnchorsAt(book, fill)
    BY <1>2, <2>1, <2>2 DEF Stands, Book!AnchoredAt, Book!Flat, Book!Unknown
  <2>3. CASE ~AnchorsAt(book, fill)
    BY <1>1, <1>2, <2>1, <2>3 DEF Stands, AnchorsAt, SeenIsRecorded
  <2> QED BY <2>2, <2>3
(* Where the book stood, unless it is anchored here.                       *)
<1>7. ASSUME ~AnchorsAt(book, fill)
      PROVE  \E i \in Recorded : IsLast(i) /\ p = fills[i].start + fills[i].signed
  <2>1. Recorded # {} /\ book.position = p
    BY <1>2, <1>4, <1>7 DEF AnchorsAt
  <2>2. PICK i \in Recorded : IsLast(i)
    BY <1>1, <2>1, LastIs
  <2> QED BY <1>1, <2>1, <2>2 DEF SeenIsRecorded
<1>8. known => Book!Usable /\ HolesShow
  <2>1. Book!Usable' => Book!Usable
    BY <1>1, <1>2 DEF Book!Usable, BookTypes, Happenings
  <2>2. HolesShow' => HolesShow
    BY <1>2, <1>3 DEF HolesShow
  <2> QED BY <2>1, <2>2
<1>9. known => (stands.state = "known" => Book!IsEntry(stands))
  <2> SUFFICES ASSUME known, stands.state = "known"
               PROVE  Book!IsEntry(stands)
    OBVIOUS
  <2>1. ~AnchorsAt(book, fill) /\ stands = book.basis
    BY DEF Stands, Book!AnchoredAt, Book!Flat, Book!Unknown
  <2>2. PICK i \in Recorded : IsLast(i) /\ p = fills[i].start + fills[i].signed
    BY <1>7, <2>1
  <2>3. i = Len(fills)
    <3> SUFFICES ASSUME i # Len(fills) PROVE FALSE
      OBVIOUS
    <3>1. n > i + 1 /\ NextTo(i, n)' /\ i \in Recorded' /\ n \in Recorded'
      BY <1>1, <1>2, <2>2, LastIs
    <3>2. Book!MovedUnseen(i, n)'
      BY <3>1 DEF HolesShow
    <3> QED BY <1>2, <1>3, <2>2, <3>2 DEF Book!MovedUnseen
  <2> QED BY <1>1, <1>8, <2>1, <2>2, <2>3 DEF BasisIsEntry
<1>10. PICK after, seenAs :
         after = Book!BasisAfter(p, stands, fill) /\ seenAs \in BOOLEAN /\ (seenAs <=> known)
  <2> HIDE DEF known
  <2>1. \E a : a = Book!BasisAfter(p, stands, fill)
    OBVIOUS
  <2>2. \E b : b \in BOOLEAN /\ (b <=> known)
    <3>1. CASE known
      BY <3>1
    <3>2. CASE ~known
      BY <3>2
    <3> QED BY <3>1, <3>2
  <2> HIDE DEF stands
  <2> QED BY <2>1, <2>2, Zenon
<1>11. /\ account' \in [position : Int, n : Int, d : Int] /\ account'.position = p + fill.signed
       /\ account'.position = 0 => account'.n = 0
       /\ after.state = "flat" <=> account'.position = 0
       /\ known /\ after.state = "known" =>
            after.n * account'.d * Book!Abs(account'.position) = account'.n * after.d
       /\ after.state = "unknown" =>
            /\ stands.state = "unknown" /\ account'.position # 0
            /\ Book!Sign(account'.position) = Book!Sign(p)
       /\ known => ~Skews(book, fill)
  <2>1. account.position = 0 => account.n = 0
    BY <1>1 DEF VenueStates
  <2>2. seenAs => (stands.state = "known" => Book!IsEntry(stands))
    BY <1>9, <1>10
  <2>3. /\ account' \in [position : Int, n : Int, d : Int]
        /\ account'.position = p + fill.signed
        /\ account'.position = 0 => account'.n = 0
        /\ after.state = "flat" <=> account'.position = 0
        /\ seenAs /\ after.state = "known" =>
             after.n * account'.d * Book!Abs(account'.position) = account'.n * after.d
        /\ after.state = "unknown" =>
             /\ stands.state = "unknown" /\ account'.position # 0
             /\ Book!Sign(account'.position) = Book!Sign(p)
        /\ seenAs /\ ~Book!Opens(p, fill) /\ stands.state = "known" =>
             LET gain == Book!Realised(p, stands, fill)
             IN  gain.n * Book!ClosedPnl(fill).d = Book!ClosedPnl(fill).n * gain.d
    <3> HIDE DEF stands, known
    <3> QED BY <1>1, <1>2, <1>6, <1>10, <2>1, <2>2, BasisFollows
  <2>4. seenAs => ~Skews(book, fill)
    BY <1>2, <2>3 DEF Skews
  <2> QED BY <1>10, <2>3, <2>4
<1> HIDE DEF known
<1>12. BookTypes'
  BY <1>2, <1>5, <1>11 DEF BookTypes
<1>13. VenueStates'
  BY <1>1, <1>11, VenueStatesNext
<1>14. book'.basis = after /\ book'.position = account'.position
  BY <1>5, <1>10, <1>11
<1>15. SeenIsRecorded'
  <2>1. \A k \in Recorded' : fills'[k].signed # 0
    BY <1>2, <1>3, <1>4
  <2>2. book'.seen = {i \in Recorded' : \A k \in Recorded' : k < i => fills'[k].signed # 0}
    BY <1>2, <1>5, <2>1
  <2>3. \A i \in Recorded' : IsLast(i)' => book'.position = fills'[i].start + fills'[i].signed
    BY <1>1, <1>2, <1>5, LastIs
  <2>4. book'.basis.state = "flat" <=> book'.position = 0
    BY <1>11, <1>14
  <2> QED BY <1>5, <2>1, <2>2, <2>3, <2>4 DEF SeenIsRecorded
<1>16. BreaksAreMoves'
  <2>1. \A j \in Recorded :
          (\E i \in Recorded' : NextTo(i, j)' /\ Book!MovedUnseen(i, j)')
            <=> \E i \in Recorded : NextTo(i, j) /\ Book!MovedUnseen(i, j)
    BY <1>1, <1>2, <1>3, LastIs
  <2>2. (\E i \in Recorded' : NextTo(i, n)' /\ Book!MovedUnseen(i, n)')
          <=> book.seen # {} /\ book.position # fill.start
    <3>1. ~NextTo(n, n)'
      BY <1>1, <1>2, LastIs
    <3>2. \A i \in Recorded : NextTo(i, n)' <=> IsLast(i)
      BY <1>1, LastIs
    <3>3. \A i \in Recorded : IsLast(i) => (Book!MovedUnseen(i, n)' <=> fill.start # book.position)
      BY <1>1, <1>2, <1>3 DEF Book!MovedUnseen, SeenIsRecorded
    <3>4. Recorded # {} => \E i \in Recorded : IsLast(i)
      BY <1>1, LastIs
    <3> QED BY <1>2, <1>4, <3>1, <3>2, <3>3, <3>4
  <2>3. \A j \in Recorded : fills'[j].signed # 0 <=> fills[j].signed # 0
    BY <1>3
  <2> QED BY <1>1, <1>2, <1>4, <1>5, <2>1, <2>2, <2>3 DEF BreaksAreMoves, Breaks
<1>17. BasisIsEntry'
  <2> SUFFICES ASSUME known
               PROVE  book'.skews = {} /\ (book'.basis.state = "known" => Book!IsEntry(book.basis)')
    BY DEF BasisIsEntry, known
  <2>1. book'.skews = {}
    BY <1>1, <1>5, <1>8, <1>11 DEF BasisIsEntry
  <2>2. book'.basis.state = "known" => Book!IsEntry(book.basis)'
    BY <1>11, <1>14 DEF Book!IsEntry
  <2> QED BY <2>1, <2>2
<1>18. UnknownIsOlder'
  <2> SUFFICES ASSUME Book!Usable', NoHoles', after.state = "unknown", NEW i \in Recorded'
               PROVE  /\ fills'[i].start # 0
                      /\ Book!Sign(fills'[i].start) = Book!Sign(account'.position)
    BY <1>14 DEF UnknownIsOlder
  <2>1. stands.state = "unknown" /\ Book!Sign(account'.position) = Book!Sign(p) /\ p # 0
    BY <1>6, <1>11
  <2>2. CASE i = n
    BY <1>2, <2>1, <2>2
  <2>3. CASE i \in Recorded
    <3>1. Len(fills) \in Recorded /\ IsLast(Len(fills))
      <4>1. Len(fills) \in i .. n /\ Len(fills) # n
        BY <1>2, <1>3, <2>3
      <4>2. Len(fills) \in Recorded'
        BY <1>2, <2>3, <4>1 DEF NoHoles
      <4>3. \A k \in Recorded : k <= Len(fills)
        BY <1>1, FillsGrow
      <4> QED BY <1>2, <4>1, <4>2, <4>3 DEF IsLast
    <3>2. book.position = p
      <4>1. book.position = fills[Len(fills)].start + fills[Len(fills)].signed
        BY <1>1, <3>1 DEF SeenIsRecorded
      <4>2. Len(fills) \in Happenings /\ Len(fills) + 1 \notin Happenings
        BY <1>2, <3>1 DEF Happenings
      <4> QED BY <1>1, <4>1, <4>2 DEF VenueStates
    <3>3. stands = book.basis
      BY <1>2, <1>4, <2>3, <3>2 DEF Stands, AnchorsAt
    <3>4. NoHoles
      <4>1. \A k \in Recorded : \A j \in k .. Len(fills) : j \in k .. n /\ j # n
        BY <1>2, <1>3
      <4> QED BY <1>2, <4>1 DEF NoHoles
    <3>5. Book!Usable
      BY <1>1, <1>2 DEF Book!Usable, BookTypes, Happenings
    <3>6. fills[i].start # 0 /\ Book!Sign(fills[i].start) = Book!Sign(book.position)
      BY <1>1, <2>1, <2>3, <3>3, <3>4, <3>5 DEF UnknownIsOlder
    <3> QED BY <1>3, <2>1, <2>3, <3>2, <3>6
  <2> QED BY <1>2, <2>2, <2>3
<1> QED BY <1>12, <1>13, <1>15, <1>16, <1>17, <1>18 DEF BookInv

LEMMA BookInvInit == Book!Init => BookInv
<1> SUFFICES ASSUME Book!Init PROVE BookInv
  OBVIOUS
<1>1. fills = <<>> /\ book = Book!NoBook /\ account = [position |-> 0, n |-> 0, d |-> 1]
  BY DEF Book!Init
<1>2. Happenings = {} /\ Recorded = {} /\ Len(fills) = 0
  BY <1>1 DEF Happenings, Recorded
<1>3. /\ book \in Books /\ book.seen = {} /\ book.poisonedBy = 0 /\ book.position = 0
      /\ book.basis.state = "flat" /\ book.breaks = {} /\ book.skews = {}
  <2>1. Book!Flat \in Basis /\ Book!Flat.state = "flat"
    BY DEF Book!Flat, Basis
  <2> QED BY <1>1, <2>1 DEF Book!NoBook, Books
<1>4. BookTypes
  BY <1>1, <1>2, <1>3 DEF BookTypes
<1>5. VenueStates /\ SeenIsRecorded /\ BreaksAreMoves
  BY <1>1, <1>2, <1>3 DEF VenueStates, SeenIsRecorded, BreaksAreMoves
<1>6. BasisIsEntry /\ UnknownIsOlder
  BY <1>2, <1>3 DEF BasisIsEntry, UnknownIsOlder
<1> QED BY <1>4, <1>5, <1>6 DEF BookInv

(* What the venue closes is an amount.                                     *)
LEMMA AmountIs ==
  ASSUME BookTypes, NEW signed \in Int, NEW paid \in Int, NEW trade,
         trade = [signed |-> signed, price |-> paid]
  PROVE  Book!ClosedPnl(trade) \in Amount
<1>1. account.position \in Int /\ account.n \in Int /\ account.d \in Int
  BY DEF BookTypes
<1> DEFINE o == Book!Abs(account.position)  g == Book!Sign(account.position)
           c == Book!Closing(account.position, trade)
<1>2. o \in Int /\ g \in Int /\ c \in Int
  BY <1>1 DEF Book!Abs, Book!Sign, Book!Closing
<1> HIDE DEF o, g, c
<1>3. g * c * (paid * account.d * o - account.n) \in Int /\ account.d * o \in Int
  BY <1>1, <1>2
<1> QED BY <1>3 DEF Book!ClosedPnl, Amount, o, g, c

LEMMA BookTrades ==
  ASSUME BookInv, Book!SizesAssumption, Book!Trade
  PROVE  BookInv'
<1>1. PICK size \in Sizes, side \in {1, -1}, paid \in BookPrices, copies \in 0 .. 2 :
        LET trade == [signed |-> side * size, price |-> paid]
        IN  Book!Happened(trade, Book!ClosedPnl(trade), copies) /\ account' = Book!Traded(trade)
  BY DEF Book!Trade
<1> DEFINE trade == [signed |-> side * size, price |-> paid]
<1>2. /\ side * size \in Int /\ side * size # 0 /\ paid \in Int /\ BookTypes
      /\ account.position \in Int /\ Len(fills) + 1 \in Nat
  <2>1. side * size \in Int /\ side * size # 0 /\ paid \in Int
    <3>1. size \in Nat /\ size # 0 /\ paid \in Nat
      BY DEF Book!SizesAssumption
    <3>2. CASE side = 1
      BY <3>1, <3>2
    <3>3. CASE side = -1
      BY <3>1, <3>3
    <3> QED BY <3>2, <3>3
  <2>2. BookTypes /\ account.position \in Int
    BY DEF BookInv, BookTypes
  <2>3. Len(fills) + 1 \in Nat
    BY <2>2, HeldAre
  <2> QED BY <2>1, <2>2, <2>3
<1> DEFINE fill == [id |-> Len(fills) + 1, signed |-> trade.signed, price |-> trade.price,
                    start |-> account.position, pnl |-> Book!ClosedPnl(trade),
                    copies |-> copies]
<1>3. fills' = Append(fills, fill) /\ book' = Book!Read(fill)
  BY <1>1 DEF Book!Happened
<1>4. Book!ClosedPnl(trade) \in Amount
  BY <1>2, AmountIs
<1>5. /\ Book!Traded(trade) = Book!Traded(fill) /\ Book!ClosedPnl(trade) = Book!ClosedPnl(fill)
      /\ fill.signed = side * size /\ fill.pnl = Book!ClosedPnl(trade)
      /\ fill.id = Len(fills) + 1 /\ fill.start = account.position
  BY DEF Book!Traded, Book!ClosedPnl, Book!Opens, Book!Closing
<1>6. fill \in Fill
  <2> HIDE DEF trade
  <2>1. trade.signed \in Int /\ trade.price \in Int
    BY <1>2 DEF trade
  <2> QED BY <1>2, <1>4, <2>1 DEF Fill
<1> HIDE DEF trade, fill
<1>7. PICK f, n : f = fill /\ n = Len(fills) + 1
  OBVIOUS
<1>8. /\ OneMore(f, n) /\ f.signed # 0 /\ f.pnl = Book!ClosedPnl(f)
      /\ account' = Book!Traded(f) /\ f.copies \in 0 .. 2
  BY <1>1, <1>2, <1>3, <1>5, <1>6, <1>7 DEF OneMore, Fill, trade
<1>9. /\ account' \in [position : Int, n : Int, d : Int]
      /\ account'.position = account.position + f.signed
      /\ account'.position = 0 => account'.n = 0
  <2>1. account \in [position : Int, n : Int, d : Int] /\ (account.position = 0 => account.n = 0)
    BY DEF BookInv, BookTypes, VenueStates
  <2>2. PICK basis : basis = Book!AnchoredAt(account.position)
    OBVIOUS
  <2>3. basis \in Basis /\ (basis.state = "flat" <=> account.position = 0)
    BY <1>2, <2>2 DEF Book!AnchoredAt, Book!Flat, Book!Unknown, Basis
  <2>4. f \in Fill
    BY <1>6, <1>7
  <2>5. PICK after : after = Book!BasisAfter(account.position, basis, f)
    OBVIOUS
  <2>6. PICK none \in BOOLEAN : ~none
    OBVIOUS
  <2> QED BY <1>8, <2>1, <2>3, <2>4, <2>5, <2>6, BasisFollows
<1>10. CASE f.copies = 0
  BY <1>8, <1>9, <1>10, NotRecorded
<1>11. CASE f.copies > 0 /\ book.poisonedBy # 0
  BY <1>8, <1>9, <1>11, AfterPoison
<1>12. CASE f.copies > 0 /\ book.poisonedBy = 0
  BY <1>8, <1>12, Folds
<1> QED BY <1>8, <1>10, <1>11, <1>12

LEMMA BookUnusable ==
  ASSUME BookInv, Book!Unusable
  PROVE  BookInv'
<1> DEFINE fill == [id |-> Len(fills) + 1, signed |-> 0, price |-> 0,
                    start |-> account.position, pnl |-> [n |-> 0, d |-> 1], copies |-> 1]
<1>1. fills' = Append(fills, fill) /\ book' = Book!Read(fill) /\ account' = account
  BY DEF Book!Unusable, Book!Happened
<1>2. /\ account.position \in Int /\ Len(fills) + 1 \in Nat /\ BookTypes /\ VenueStates
      /\ account \in [position : Int, n : Int, d : Int]
  BY HeldAre DEF BookInv, BookTypes
<1>3. fill \in Fill
  BY <1>2 DEF Fill, Amount
<1>4. /\ fill.id = Len(fills) + 1 /\ fill.signed = 0 /\ fill.start = account.position
      /\ fill.copies = 1
  OBVIOUS
<1> HIDE DEF fill
<1>5. PICK f, n : f = fill /\ n = Len(fills) + 1
  OBVIOUS
<1>6. OneMore(f, n) /\ f.signed = 0 /\ f.copies > 0
  BY <1>1, <1>3, <1>4, <1>5 DEF OneMore
<1>7. CASE book.poisonedBy # 0
  <2>1. account'.position = account.position + f.signed /\ (account'.position = 0 => account'.n = 0)
    BY <1>1, <1>2, <1>6 DEF VenueStates
  <2> QED BY <1>1, <1>2, <1>6, <1>7, <2>1, AfterPoison
<1>8. CASE book.poisonedBy = 0
  BY <1>1, <1>6, <1>8, Poisons
<1> QED BY <1>7, <1>8

LEMMA BookInvNext ==
  ASSUME BookInv, Book!SizesAssumption, [Book!Next]_(Book!vars)
  PROVE  BookInv'
<1>1. CASE UNCHANGED Book!vars
  <2>1. fills' = fills /\ book' = book /\ account' = account
    BY <1>1 DEF Book!vars
  <2>2. Recorded' = Recorded /\ Happenings' = Happenings
    BY <2>1 DEF Recorded, Happenings
  <2>3. BookTypes' /\ VenueStates' /\ SeenIsRecorded'
    BY <2>1, <2>2 DEF BookInv, BookTypes, VenueStates, SeenIsRecorded, IsLast
  <2>4. BreaksAreMoves'
    BY <2>1, <2>2 DEF BookInv, BreaksAreMoves, NextTo, Book!MovedUnseen
  <2>5. BasisIsEntry'
    BY <2>1, <2>2
    DEF BookInv, BasisIsEntry, HolesShow, NextTo, Book!MovedUnseen, Book!Usable, Book!IsEntry
  <2>6. UnknownIsOlder'
    BY <2>1, <2>2 DEF BookInv, UnknownIsOlder, NoHoles, Book!Usable
  <2> QED BY <2>3, <2>4, <2>5, <2>6 DEF BookInv
<1> QED BY <1>1, BookTrades, BookUnusable DEF Book!Next

LEMMA BookInvImplies ==
  ASSUME BookInv
  PROVE  Book!FoldIsTheVenues /\ Book!HolesAreBreaks
<1>1. /\ BookTypes /\ VenueStates /\ SeenIsRecorded /\ BreaksAreMoves /\ BasisIsEntry
      /\ UnknownIsOlder
  BY DEF BookInv
<1>2. /\ Book!HeldIds = Recorded /\ Len(fills) \in Nat /\ Recorded \subseteq Happenings
      /\ \A i, j \in Recorded : Book!Neighbours(i, j) <=> NextTo(i, j)
      /\ Happenings = 1 .. Len(fills) /\ book.seen \subseteq Recorded
  BY <1>1, HeldAre DEF Recorded, Happenings, SeenIsRecorded
<1>3. book.breaks = {j \in book.seen : fills[j].signed # 0 /\
                       \E i \in Book!HeldIds : Book!Neighbours(i, j) /\ Book!MovedUnseen(i, j)}
  BY <1>1, <1>2 DEF BreaksAreMoves
<1>4. (\A i, j \in Book!HeldIds :
         Book!Neighbours(i, j) /\ j > i + 1 => Book!MovedUnseen(i, j)) => HolesShow
  BY <1>2 DEF HolesShow
<1>5. \A i, j \in Book!HeldIds : fills[i].signed = 0 /\ i < j => j \notin book.seen
  BY <1>1, <1>2 DEF SeenIsRecorded
<1>6. Book!HolesAreBreaks
  BY <1>1, <1>2, <1>3, <1>4, <1>5 DEF Book!HolesAreBreaks, BasisIsEntry
<1>7. Book!FoldIsTheVenues
  <2> SUFFICES ASSUME Book!OnlyOlderMissing, Recorded # {}, Book!Usable
               PROVE  /\ book.breaks = {} /\ book.skews = {} /\ ~Book!SnapshotDiffers
                      /\ book.basis.state = "flat" <=> account.position = 0
                      /\ book.basis.state = "unknown" =>
                           \A i \in Recorded : /\ fills[i].start # 0
                                               /\ Book!Sign(fills[i].start)
                                                    = Book!Sign(account.position)
    BY <1>2 DEF Book!FoldIsTheVenues
  <2>1. NoHoles
    BY <1>2 DEF Book!OnlyOlderMissing, NoHoles
  <2>2. \A i, j \in Recorded : NextTo(i, j) => j = i + 1
    <3> SUFFICES ASSUME NEW i \in Recorded, NEW j \in Recorded, NextTo(i, j), j # i + 1
                 PROVE  FALSE
      OBVIOUS
    <3>1. i + 1 \in i + 1 .. j - 1 /\ i + 1 \in i .. Len(fills)
      BY <1>2 DEF NextTo
    <3> QED BY <2>1, <3>1 DEF NoHoles, NextTo
  <2>3. Len(fills) \in Recorded /\ IsLast(Len(fills))
    BY <1>2, <2>1 DEF NoHoles, IsLast
  <2>4. \A k \in Recorded : fills[k].signed # 0
    BY <1>1, <1>2 DEF Book!Usable, BookTypes, Happenings
  <2>5. book.position = account.position
    <3>1. book.position = fills[Len(fills)].start + fills[Len(fills)].signed
      BY <1>1, <2>3, <2>4 DEF SeenIsRecorded
    <3>2. Len(fills) + 1 \notin Happenings /\ Len(fills) \in Happenings
      BY <1>2, <2>3
    <3> QED BY <1>1, <3>1, <3>2 DEF VenueStates
  <2>6. book.breaks = {}
    <3>1. \A i, j \in Recorded : NextTo(i, j) => ~Book!MovedUnseen(i, j)
      BY <1>1, <1>2, <2>2 DEF VenueStates, Book!MovedUnseen
    <3> QED BY <1>1, <1>2, <3>1 DEF BreaksAreMoves
  <2>7. HolesShow
    <3>1. \A i, j \in Recorded : NextTo(i, j) => ~(j > i + 1)
      BY <1>2, <2>2
    <3> QED BY <3>1 DEF HolesShow
  <2>8. book.skews = {} /\ (book.basis.state = "known" => Book!IsEntry(book.basis))
    BY <1>1, <2>3, <2>7 DEF BasisIsEntry
  <2>9. ~Book!SnapshotDiffers
    BY <2>5, <2>8 DEF Book!SnapshotDiffers
  <2>10. book.basis.state = "flat" <=> account.position = 0
    BY <1>1, <2>5 DEF SeenIsRecorded
  <2> QED BY <1>1, <2>1, <2>5, <2>6, <2>8, <2>9, <2>10 DEF UnknownIsOlder
<1> QED BY <1>6, <1>7

(***************************************************************************)
(* FoldIsTheVenues, for any sizes and prices (ledger/fold.rs, apply and    *)
(* check_snapshot): of any fills with nothing missing after the first that *)
(* is held, whatever is held twice, the book ends where the venue's        *)
(* account does, with no break and no skew, and with its basis.            *)
(***************************************************************************)
THEOREM FoldsAreTheVenues == PartsSpec => []FoldIsTheVenues
<1>1. PartsInit => (part = "book" => BookInv)
  BY BookInvInit DEF PartsInit, BookInit
<1>2. (part = "book" => BookInv) /\ [PartsNext]_partsVars => (part = "book" => BookInv)'
  BY OnePartMoves, BookInvNext, InstancesAssumption
<1>3. (part = "book" => BookInv) => FoldIsTheVenues
  BY BookInvImplies DEF FoldIsTheVenues
<1> QED BY <1>1, <1>2, <1>3, PTL DEF PartsSpec

(***************************************************************************)
(* HolesAreBreaks, of the same (ledger/fold.rs, apply): a hole among the   *)
(* fills is a break at the fill after it exactly when the position moved   *)
(* in it, a basis is the venue's while every hole is such a one, and a     *)
(* poisoned book takes nothing more.                                       *)
(***************************************************************************)
THEOREM HolesAreFound == PartsSpec => []HolesAreBreaks
<1>1. PartsInit => (part = "book" => BookInv)
  BY BookInvInit DEF PartsInit, BookInit
<1>2. (part = "book" => BookInv) /\ [PartsNext]_partsVars => (part = "book" => BookInv)'
  BY OnePartMoves, BookInvNext, InstancesAssumption
<1>3. (part = "book" => BookInv) => HolesAreBreaks
  BY BookInvImplies DEF HolesAreBreaks
<1> QED BY <1>1, <1>2, <1>3, PTL DEF PartsSpec
=============================================================================
