------------------------ MODULE AccountHistoryProofs ------------------------
(***************************************************************************)
(* Theorems about AccountHistory, for any kinds, any size of a page and    *)
(* any bound: what the record says of a history's reach, that what the     *)
(* venue forgot is dated, and that a history is what the record holds.     *)
(***************************************************************************)
EXTENDS AccountHistory, SequenceTheorems, WellFoundedInduction, TLAPS

WalkPlaces == {"asking", "took", "lost"}
WalkFields == {"at", "turn", "start", "recorded", "first", "page"}

(* Where the process is: a walk and the judging of reaches are at a kind.  *)
RunInv ==
  \/ run = Down
  \/ run = Idle
  \/ run.at \in WalkPlaces /\ DOMAIN run = WalkFields /\ run.turn \in 1 .. Len(Kinds)
  \/ run.at = "judging" /\ DOMAIN run = {"at", "turn"} /\ run.turn \in 1 .. Len(Kinds)
  \/ run.at \in {"folding", "projecting"}

MemoryInv ==
  /\ DOMAIN memory = {"newest", "earliest", "reached", "loaded"}
  /\ run # Down /\ run # Idle => memory.loaded = TRUE

RecordInv == record \in Seq(ToSet(record))

IsReach(row) == row.what = "reach"
ReachRowsHaveKinds == \A i \in DOMAIN record : IsReach(record[i]) => record[i].kind \in KindSet

(***************************************************************************)
(* The strengthening: what a loaded process remembers of the reaches is    *)
(* what the record holds, so none is judged again.                         *)
(***************************************************************************)
ReachedIsRecorded ==
  memory.loaded = TRUE =>
    \A i \in DOMAIN record : IsReach(record[i]) => record[i].kind \in memory.reached

IInv == /\ RunInv /\ MemoryInv /\ RecordInv
        /\ ReachRowsHaveKinds /\ ReachedIsRecorded /\ LostStaysLost

-----------------------------------------------------------------------------
(* A row more: the sequence is as it was up to it.                         *)
LEMMA RowAppended ==
  ASSUME RecordInv, NEW row, record' = Append(record, row)
  PROVE  /\ RecordInv'
         /\ Len(record) \in Nat /\ DOMAIN record = 1 .. Len(record)
         /\ DOMAIN record' = 1 .. Len(record) + 1
         /\ \A i \in DOMAIN record : record'[i] = record[i]
         /\ record'[Len(record) + 1] = row
<1> DEFINE S == ToSet(record) \cup {row}
<1>1. record \in Seq(S) /\ row \in S
  BY DEF RecordInv
<1>2. /\ record' \in Seq(S) /\ Len(record') = Len(record) + 1
      /\ Len(record) \in Nat /\ DOMAIN record = 1 .. Len(record)
      /\ DOMAIN record' = 1 .. Len(record) + 1
      /\ \A i \in DOMAIN record : record'[i] = record[i]
      /\ record'[Len(record) + 1] = row
  BY <1>1
<1>3. record' \in Seq(ToSet(record'))
  BY <1>2 DEF ToSet
<1> QED BY <1>2, <1>3 DEF RecordInv

LEMMA TurnIsAKind ==
  ASSUME NEW i \in 1 .. Len(Kinds)
  PROVE  Kinds[i] \in KindSet
BY KindsAssumption

(* A row that is no reach, or one that says "lost" of a kind then reached, *)
(* or the first of its kind, keeps what the record says.                   *)
LEMMA RowKeeps ==
  ASSUME IInv, NEW row, record' = Append(record, row),
         IsReach(row) =>
           /\ row.kind \in KindSet /\ row.kind \in memory'.reached
           /\ \/ row.reach = "lost"
              \/ \A i \in DOMAIN record : IsReach(record[i]) => record[i].kind # row.kind,
         memory.loaded = TRUE,
         \A k \in memory.reached : k \in memory'.reached
  PROVE  RecordInv' /\ ReachRowsHaveKinds' /\ ReachedIsRecorded' /\ LostStaysLost'
<1>1. /\ RecordInv'
      /\ Len(record) \in Nat /\ DOMAIN record = 1 .. Len(record)
      /\ DOMAIN record' = 1 .. Len(record) + 1
      /\ \A i \in DOMAIN record : record'[i] = record[i]
      /\ record'[Len(record) + 1] = row
  BY RowAppended DEF IInv
<1>2. ReachRowsHaveKinds'
  BY <1>1 DEF IInv, ReachRowsHaveKinds, IsReach
<1>3. ReachedIsRecorded'
  BY <1>1 DEF IInv, ReachedIsRecorded, IsReach
<1>4. LostStaysLost'
  <2> SUFFICES ASSUME NEW i \in DOMAIN record', NEW j \in DOMAIN record', i < j,
                      IsReach(record'[i]), IsReach(record'[j]),
                      record'[i].kind = record'[j].kind, record'[i].reach = "lost"
               PROVE  record'[j].reach = "lost"
    BY DEF LostStaysLost, IsReach
  <2>1. CASE j = Len(record) + 1
    <3>1. i \in DOMAIN record
      BY <1>1, <2>1
    <3> QED BY <1>1, <2>1, <3>1 DEF IsReach
  <2>2. CASE j # Len(record) + 1
    <3>1. i \in DOMAIN record /\ j \in DOMAIN record
      BY <1>1, <2>2
    <3> QED BY <1>1, <3>1 DEF IInv, LostStaysLost, IsReach
  <2> QED BY <2>1, <2>2
<1> QED BY <1>1, <1>2, <1>3, <1>4

(* Where the record, and what is remembered of it, stand still.            *)
LEMMA RecordStands ==
  ASSUME IInv, record' = record,
         memory'.loaded = TRUE =>
           \A i \in DOMAIN record : IsReach(record[i]) => record[i].kind \in memory'.reached
  PROVE  RecordInv' /\ ReachRowsHaveKinds' /\ ReachedIsRecorded' /\ LostStaysLost'
BY DEF IInv, RecordInv, ReachRowsHaveKinds, ReachedIsRecorded, LostStaysLost, IsReach

LEMMA InvInit ==
  ASSUME Init
  PROVE  IInv
<1>1. RunInv /\ MemoryInv
  BY DEF Init, RunInv, MemoryInv, Blank
<1>2. RecordInv
  BY DEF Init, RecordInv, ToSet
<1>3. DOMAIN record = {}
  BY DEF Init
<1> QED
  BY <1>1, <1>2, <1>3 DEF IInv, ReachRowsHaveKinds, ReachedIsRecorded, LostStaysLost

(* The next place of a walk, from one that is at a kind.                   *)
LEMMA AfterWalkIsAPlace ==
  ASSUME run.turn \in 1 .. Len(Kinds), NEW mem, run' = AfterWalk(mem)
  PROVE  RunInv'
<1>1. CASE run.turn < Len(Kinds)
  BY <1>1, KindsAssumption DEF AfterWalk, WalkOf, RunInv, WalkPlaces, WalkFields
<1>2. CASE ~(run.turn < Len(Kinds))
  BY <1>2, KindsAssumption DEF AfterWalk, RunInv
<1> QED BY <1>1, <1>2

LEMMA NotedKeeps ==
  ASSUME IInv, run.at \in {"took", "lost"}, Noted
  PROVE  /\ RunInv' /\ MemoryInv' /\ memory'.loaded = TRUE /\ memory.loaded = TRUE
         /\ \A k \in memory.reached : k \in memory'.reached
         /\ run.at = "lost" => Kind \in memory'.reached
<1>1. /\ DOMAIN run = WalkFields /\ run.turn \in 1 .. Len(Kinds)
      /\ run # Down /\ run # Idle
  BY DEF IInv, RunInv, Down, Idle
<1>2. memory.loaded = TRUE /\ DOMAIN memory = {"newest", "earliest", "reached", "loaded"}
  BY <1>1 DEF IInv, MemoryInv
<1>3. /\ DOMAIN memory' = {"newest", "earliest", "reached", "loaded"}
      /\ memory'.loaded = TRUE
      /\ memory'.reached = memory.reached \cup (IF run.at = "lost" THEN {Kind} ELSE {})
  BY <1>2 DEF Noted
<1>4. RunInv'
  <2> PICK mem : \/ run' = AfterWalk(mem)
                 \/ \E start : run' = [run EXCEPT !.at = "asking", !.start = start, !.first = FALSE]
    BY DEF Noted
  <2>1. CASE run' = AfterWalk(mem)
    BY <1>1, <2>1, AfterWalkIsAPlace
  <2>2. CASE \E start : run' = [run EXCEPT !.at = "asking", !.start = start, !.first = FALSE]
    BY <1>1, <2>2 DEF RunInv, WalkPlaces, WalkFields
  <2> QED BY <2>1, <2>2
<1> QED BY <1>2, <1>3, <1>4 DEF MemoryInv

LEMMA InvNext ==
  ASSUME IInv, [Next]_vars
  PROVE  IInv'
<1> USE DEF Down, Idle
<1>1. CASE Tick \/ \E k \in KindSet : Happens(k) \/ Forgets(k)
  <2>1. UNCHANGED <<record, run, memory>>
    BY <1>1 DEF Tick, Happens, Forgets
  <2>2. RunInv' /\ MemoryInv'
    BY <2>1 DEF IInv, RunInv, MemoryInv
  <2> QED BY <2>1, <2>2, RecordStands DEF IInv, ReachedIsRecorded
<1>2. CASE Boot \/ Kill
  <2>1. /\ record' = record /\ memory' = Blank
        /\ run' = Down \/ run' = Idle
    BY <1>2 DEF Boot, Kill
  <2>2. RunInv' /\ MemoryInv' /\ memory'.loaded = FALSE
    BY <2>1 DEF RunInv, MemoryInv, Blank
  <2> QED BY <2>1, <2>2, RecordStands DEF IInv
<1>3. CASE BeginPass
  <2>1. /\ record' = record /\ memory' = Loaded /\ run' = WalkOf(1, Loaded)
    BY <1>3 DEF BeginPass
  <2>2. RunInv'
    <3>1. 1 \in 1 .. Len(Kinds)
      BY KindsAssumption
    <3> QED BY <2>1, <3>1 DEF WalkOf, RunInv, WalkPlaces, WalkFields
  <2>3. MemoryInv' /\ (memory.loaded = TRUE => memory' = memory)
    BY <2>1 DEF Loaded, IInv, MemoryInv
  <2>4. ASSUME ~(memory.loaded = TRUE), NEW i \in DOMAIN record, IsReach(record[i])
        PROVE  record[i].kind \in memory'.reached
    <3>1. memory'.reached = {k \in KindSet : Verdicts(k) # {}}
      BY <2>1, <2>4 DEF Loaded
    <3>2. record[i] \in Verdicts(record[i].kind) /\ record[i].kind \in KindSet
      BY <2>4 DEF Verdicts, ToSet, IsReach, IInv, ReachRowsHaveKinds
    <3> QED BY <3>1, <3>2
  <2>5. memory'.loaded = TRUE =>
          \A i \in DOMAIN record : IsReach(record[i]) => record[i].kind \in memory'.reached
    BY <2>3, <2>4 DEF IInv, ReachedIsRecorded
  <2> QED BY <2>1, <2>2, <2>3, <2>5, RecordStands DEF IInv
<1>4. CASE AskPage \/ AskRefused
  <2>1. /\ run.at = "asking" /\ memory' = memory
    BY <1>4 DEF AskPage, AskRefused
  <2>2. /\ DOMAIN run = WalkFields /\ run.turn \in 1 .. Len(Kinds)
        /\ memory.loaded = TRUE
    BY <2>1 DEF IInv, RunInv, MemoryInv
  <2>3. \/ run' = AfterWalk(memory)
        \/ \E page : run' = [run EXCEPT !.at = "took", !.page = page]
    BY <1>4 DEF AskPage, AskRefused
  <2>4. RunInv'
    <3>1. CASE run' = AfterWalk(memory)
      BY <2>2, <3>1, AfterWalkIsAPlace
    <3>2. CASE \E page : run' = [run EXCEPT !.at = "took", !.page = page]
      BY <2>2, <3>2 DEF RunInv, WalkPlaces, WalkFields
    <3> QED BY <2>3, <3>1, <3>2
  <2>5. MemoryInv'
    BY <2>1, <2>2 DEF IInv, MemoryInv
  <2>6. CASE record' = record
    BY <2>1, <2>4, <2>5, <2>6, RecordStands DEF IInv, ReachedIsRecorded
  <2>7. CASE AskPage
    <3>1. PICK row : record' = Append(record, row) /\ row.what = "page"
      BY <2>7 DEF AskPage
    <3> QED BY <2>1, <2>2, <2>4, <2>5, <3>1, RowKeeps DEF IsReach, IInv
  <2> QED BY <1>4, <2>6, <2>7 DEF AskRefused
<1>5. CASE TakePage
  <2>1. CASE Noted /\ record' = record
    <3>1. /\ RunInv' /\ MemoryInv' /\ memory.loaded = TRUE
          /\ \A k \in memory.reached : k \in memory'.reached
      BY <1>5, <2>1, NotedKeeps DEF TakePage
    <3> QED BY <2>1, <3>1, RecordStands DEF IInv, ReachedIsRecorded
  <2>2. CASE ~(Noted /\ record' = record)
    <3>1. PICK row : record' = Append(record, row) /\ row.what = "gap"
      BY <1>5, <2>2 DEF TakePage
    <3>2. run.at = "took" /\ run' = [run EXCEPT !.at = "lost"] /\ memory' = memory
      BY <1>5, <2>2 DEF TakePage
    <3>3. DOMAIN run = WalkFields /\ run.turn \in 1 .. Len(Kinds) /\ memory.loaded = TRUE
      BY <3>2 DEF IInv, RunInv, MemoryInv
    <3>4. RunInv' /\ MemoryInv'
      BY <3>2, <3>3 DEF IInv, RunInv, MemoryInv, WalkPlaces, WalkFields
    <3> QED BY <3>1, <3>2, <3>3, <3>4, RowKeeps DEF IsReach, IInv
  <2> QED BY <2>1, <2>2
<1>6. CASE RecordLost
  <2>1. /\ RunInv' /\ MemoryInv' /\ memory.loaded = TRUE
        /\ \A k \in memory.reached : k \in memory'.reached
        /\ Kind \in memory'.reached
    BY <1>6, NotedKeeps DEF RecordLost
  <2>2. Kind \in KindSet
    BY <1>6, TurnIsAKind DEF RecordLost, Kind, IInv, RunInv
  <2>3. PICK row : record' = Append(record, row) /\ row.kind = Kind /\ row.reach = "lost"
    BY <1>6 DEF RecordLost
  <2> QED BY <2>1, <2>2, <2>3, RowKeeps DEF IInv
<1>7. CASE Judge
  <2>1. /\ run.at = "judging" /\ DOMAIN run = {"at", "turn"} /\ run.turn \in 1 .. Len(Kinds)
        /\ memory.loaded = TRUE
    BY <1>7 DEF Judge, IInv, RunInv, MemoryInv, WalkPlaces
  <2>2. RunInv' /\ run' # Down /\ run' # Idle
    <3>1. CASE run.turn < Len(Kinds)
      <4>1. run' = [run EXCEPT !.turn = @ + 1]
        BY <1>7, <3>1 DEF Judge
      <4>2. run'.at = "judging" /\ DOMAIN run' = {"at", "turn"} /\ run'.turn = run.turn + 1
        BY <2>1, <4>1
      <4> QED BY <2>1, <3>1, <4>2, KindsAssumption DEF RunInv
    <3>2. CASE ~(run.turn < Len(Kinds))
      BY <1>7, <3>2 DEF Judge, RunInv
    <3> QED BY <3>1, <3>2
  <2>3. CASE record' = record /\ memory' = memory
    <3>1. MemoryInv'
      BY <2>1, <2>3 DEF IInv, MemoryInv
    <3> QED BY <2>2, <2>3, <3>1, RecordStands DEF IInv, ReachedIsRecorded
  <2>4. CASE ~(record' = record /\ memory' = memory)
    <3>1. ToJudge /\ memory' = [memory EXCEPT !.reached = @ \cup {Kind}]
      BY <1>7, <2>4 DEF Judge
    <3>2. PICK row : record' = Append(record, row) /\ row.kind = Kind
      BY <1>7, <2>4 DEF Judge
    <3>3. MemoryInv' /\ memory'.reached = memory.reached \cup {Kind}
      BY <2>1, <3>1 DEF IInv, MemoryInv
    <3>4. Kind \in KindSet
      BY <2>1, TurnIsAKind DEF Kind
    <3>5. \A i \in DOMAIN record : IsReach(record[i]) => record[i].kind # Kind
      BY <2>1, <3>1 DEF ToJudge, IInv, ReachedIsRecorded
    <3> QED BY <2>1, <2>2, <3>2, <3>3, <3>4, <3>5, RowKeeps DEF IInv
  <2> QED BY <2>3, <2>4
<1>8. CASE Fold \/ FoldUnread \/ Project
  <2>1. /\ run.at \in {"folding", "projecting"} /\ UNCHANGED <<record, memory>>
        /\ run' = Idle \/ run' = [at |-> "projecting"]
    BY <1>8 DEF Fold, FoldUnread, Project, IInv, RunInv
  <2>2. RunInv' /\ MemoryInv'
    BY <2>1 DEF IInv, RunInv, MemoryInv
  <2> QED BY <2>1, <2>2, RecordStands DEF IInv, ReachedIsRecorded
<1>9. CASE UNCHANGED vars
  <2>1. UNCHANGED <<record, run, memory>>
    BY <1>9 DEF vars
  <2>2. RunInv' /\ MemoryInv'
    BY <2>1 DEF IInv, RunInv, MemoryInv
  <2> QED BY <2>1, <2>2, RecordStands DEF IInv, ReachedIsRecorded
<1> QED
  BY <1>1, <1>2, <1>3, <1>4, <1>5, <1>6, <1>7, <1>8, <1>9 DEF Next

(***************************************************************************)
(* run.rs, walk and events_all: once a history was found lost nothing      *)
(* recorded later calls it consistent, whatever is refused, killed and     *)
(* started again.                                                          *)
(***************************************************************************)
THEOREM LostIsFinal == Spec => []LostStaysLost
<1>1. Init => IInv
  BY InvInit
<1>2. IInv /\ [Next]_vars => IInv'
  BY InvNext
<1>3. IInv => LostStaysLost
  BY DEF IInv
<1> QED
  BY <1>1, <1>2, <1>3, PTL DEF Spec
-----------------------------------------------------------------------------
(* A set of naturals that is not empty has a least element.                *)
LEMMA LeastNat ==
  ASSUME NEW S \in SUBSET Nat, S # {}
  PROVE  \E x \in S : \A y \in S : x <= y
<1>1. IsWellFoundedOn(OpToRel(<, Nat), Nat)
  BY NatLessThanWellFounded
<1>2. PICK m \in S : \A k \in S : ~(<<k, m>> \in OpToRel(<, Nat))
  BY <1>1, WFMin
<1>3. \A k \in S : ~(k < m)
  BY <1>2 DEF OpToRel
<1> QED BY <1>3

(* One with an upper bound has a greatest element.                         *)
LEMMA GreatestNat ==
  ASSUME NEW S \in SUBSET Nat, S # {}, NEW b \in Nat, \A k \in S : k <= b
  PROVE  Max(S) \in S /\ \A k \in S : k <= Max(S)
<1> DEFINE Bounds == {u \in Nat : \A k \in S : k <= u}
<1>1. Bounds \in SUBSET Nat /\ Bounds # {}
  OBVIOUS
<1>2. PICK u \in Bounds : \A v \in Bounds : u <= v
  BY <1>1, LeastNat
<1>3. \E x \in S : \A y \in S : x >= y
  <2>1. CASE u \in S
    BY <2>1
  <2>2. CASE u \notin S
    <3>1. \A k \in S : k < u
      BY <2>2
    <3>2. PICK k \in S : TRUE
      OBVIOUS
    <3>3. u - 1 \in Nat /\ \A j \in S : j <= u - 1
      BY <3>1, <3>2
    <3> QED BY <1>2, <3>3
  <2> QED BY <2>1, <2>2
<1>4. Max(S) \in S /\ \A y \in S : Max(S) >= y
  BY <1>3 DEF Max
<1> QED BY <1>4

LEMMA GreaterOfTwo ==
  ASSUME NEW a \in Nat, NEW b \in Nat, a <= b
  PROVE  Max({a, b}) = b
<1>1. {a, b} \in SUBSET Nat /\ \A k \in {a, b} : k <= b
  OBVIOUS
<1>2. Max({a, b}) \in {a, b} /\ b <= Max({a, b})
  BY <1>1, GreatestNat
<1> QED BY <1>2

(* What a row adds to the pages, to the rows of a kind and to its gaps.    *)
LEMMA PagesAppended ==
  ASSUME RecordInv, NEW row, record' = Append(record, row)
  PROVE  /\ row.what # "page" => Pages' = Pages
         /\ row.what = "page" => Pages' = Pages \cup {row}
<1>1. /\ Len(record) \in Nat /\ DOMAIN record = 1 .. Len(record)
      /\ DOMAIN record' = 1 .. Len(record) + 1
      /\ \A i \in DOMAIN record : record'[i] = record[i]
      /\ record'[Len(record) + 1] = row
  BY RowAppended
<1>2. \A i \in DOMAIN record' : i \in DOMAIN record \/ i = Len(record) + 1
  BY <1>1
<1>3. \A i \in DOMAIN record : i \in DOMAIN record'
  BY <1>1
<1> QED BY <1>1, <1>2, <1>3 DEF Pages

LEMMA RowsAppended ==
  ASSUME RecordInv, NEW row, record' = Append(record, row), NEW k
  PROVE  /\ row.what # "page" \/ row.kind # k => RowsOf(k)' = RowsOf(k)
         /\ row.what = "page" /\ row.kind = k => RowsOf(k)' = RowsOf(k) \cup ToSet(row.rows)
         /\ row.what # "gap" => Gaps(k)' = Gaps(k)
         /\ Gaps(k) \subseteq Gaps(k)'
         /\ row.what = "gap" /\ row.kind = k => row \in Gaps(k)'
<1>1. /\ row.what # "page" => Pages' = Pages
      /\ row.what = "page" => Pages' = Pages \cup {row}
  BY PagesAppended
<1>2. ToSet(record)' = ToSet(record) \cup {row}
  <2>1. /\ Len(record) \in Nat /\ DOMAIN record = 1 .. Len(record)
        /\ DOMAIN record' = 1 .. Len(record) + 1
        /\ \A i \in DOMAIN record : record'[i] = record[i]
        /\ record'[Len(record) + 1] = row
    BY RowAppended
  <2>2. /\ \A i \in DOMAIN record' : i \in DOMAIN record \/ i = Len(record) + 1
        /\ \A i \in DOMAIN record : i \in DOMAIN record'
        /\ Len(record) + 1 \in DOMAIN record'
    BY <2>1
  <2> QED BY <2>1, <2>2 DEF ToSet
<1>3. /\ row.what # "page" \/ row.kind # k => RowsOf(k)' = RowsOf(k)
      /\ row.what = "page" /\ row.kind = k => RowsOf(k)' = RowsOf(k) \cup ToSet(row.rows)
  BY <1>1 DEF RowsOf
<1> QED BY <1>2, <1>3 DEF Gaps

LEMMA RecordSame ==
  ASSUME record' = record
  PROVE  Pages' = Pages /\ \A k \in KindSet : RowsOf(k)' = RowsOf(k) /\ Gaps(k)' = Gaps(k)
BY DEF Pages, RowsOf, Gaps

-----------------------------------------------------------------------------
(***************************************************************************)
(* A history is what the record holds.  Every page below the moment the    *)
(* history is through to has been read, and no row is the history's own.   *)
(***************************************************************************)
RowsIn(p) == {[kind |-> p.kind, id |-> e.id] : e \in ToSet(p.rows)}
AllRows == UNION {RowsIn(p) : p \in Pages}

ReceiptsInv ==
  /\ moment \in Nat \ {0}
  /\ \A p \in Pages : p.kind \in KindSet /\ p.recv \in 1 .. moment

HistoryInv ==
  /\ history.through \in 0 .. moment
  /\ history.rows \subseteq AllRows
  /\ \A p \in Pages : p.recv < history.through => RowsIn(p) \subseteq history.rows
  /\ run.at = "projecting" => history.rows = AllRows

LEMMA ReceiptsStep ==
  ASSUME IInv, ReceiptsInv, [Next]_vars
  PROVE  /\ ReceiptsInv' /\ moment <= moment'
         /\ \A p \in Pages' : p \in Pages \/ p.recv = moment
         /\ \A p \in Pages : p \in Pages'
<1>1. moment' \in Nat \ {0} /\ moment <= moment'
  <2>1. moment' = moment \/ moment' = moment + 1
    BY DEF Next, vars, Tick, Happens, Forgets, Boot, BeginPass, AskPage, AskRefused,
           TakePage, RecordLost, Judge, Fold, FoldUnread, Project, Kill
  <2> QED BY <2>1 DEF ReceiptsInv
<1>2. CASE AskPage
  <2>1. PICK page \in Answers(Kind, run.start) :
          record' = Append(record, [what |-> "page", kind |-> Kind,
                                    recv |-> moment, rows |-> page])
    BY <1>2 DEF AskPage
  <2>2. PICK row : /\ record' = Append(record, row) /\ row.what = "page"
                   /\ row.kind = Kind /\ row.recv = moment
    BY <2>1
  <2>3. Kind \in KindSet
    <3>1. run.turn \in 1 .. Len(Kinds)
      BY <1>2 DEF AskPage, IInv, RunInv, Down, Idle
    <3> QED BY <3>1, TurnIsAKind DEF Kind
  <2>4. Pages' = Pages \cup {row}
    BY <2>2, PagesAppended DEF IInv
  <2> QED BY <1>1, <2>2, <2>3, <2>4 DEF ReceiptsInv
<1>3. CASE TakePage \/ RecordLost \/ Judge
  <2>1. CASE record' = record
    BY <1>1, <2>1, RecordSame DEF ReceiptsInv
  <2>2. CASE record' # record
    <3>1. PICK row : record' = Append(record, row) /\ row.what # "page"
      BY <1>3, <2>2 DEF TakePage, RecordLost, Judge
    <3>2. Pages' = Pages
      BY <3>1, PagesAppended DEF IInv
    <3> QED BY <1>1, <3>2 DEF ReceiptsInv
  <2> QED BY <2>1, <2>2
<1>4. CASE record' = record
  BY <1>1, <1>4, RecordSame DEF ReceiptsInv
<1>5. CASE ~(AskPage \/ TakePage \/ RecordLost \/ Judge)
  <2>1. record' = record
    BY <1>5 DEF Next, vars, Tick, Happens, Forgets, Boot, BeginPass, AskRefused, Fold,
                FoldUnread, Project, Kill
  <2> QED BY <1>4, <2>1
<1> QED BY <1>2, <1>3, <1>5

LEMMA HistoryStep ==
  ASSUME IInv, ReceiptsInv, HistoryInv, [Next]_vars
  PROVE  HistoryInv'
<1>1. /\ ReceiptsInv' /\ moment <= moment'
      /\ \A p \in Pages' : p \in Pages \/ p.recv = moment
      /\ \A p \in Pages : p \in Pages'
  BY ReceiptsStep
<1>2. AllRows \subseteq AllRows'
  BY <1>1 DEF AllRows
<1>3. CASE history' = history /\ run'.at # "projecting"
  <2>1. history'.through \in 0 .. moment'
    BY <1>1, <1>3 DEF HistoryInv, ReceiptsInv
  <2>2. ASSUME NEW p \in Pages', p.recv < history.through
        PROVE  RowsIn(p) \subseteq history.rows
    <3>1. p \in Pages
      BY <1>1, <2>2 DEF HistoryInv, ReceiptsInv
    <3> QED BY <2>2, <3>1 DEF HistoryInv
  <2> QED BY <1>2, <1>3, <2>1, <2>2 DEF HistoryInv
<1>4. CASE history' = NoHistory /\ run'.at # "projecting"
  BY <1>1, <1>4 DEF HistoryInv, ReceiptsInv, NoHistory, None
<1>5. CASE Fold
  <2> DEFINE read == {p \in Pages : Since(p)}
  <2>1. record' = record /\ moment' = moment /\ history' = Extended
    BY <1>5 DEF Fold
  <2>2. Pages' = Pages /\ AllRows' = AllRows
    BY <2>1, RecordSame DEF AllRows
  <2>3. history'.rows = history.rows \cup UNION {RowsIn(p) : p \in read}
    BY <2>1 DEF Extended, RowsIn
  <2>4. history'.through \in 0 .. moment
    <3>1. CASE read = {}
      BY <2>1, <3>1 DEF Extended, HistoryInv
    <3>2. CASE read # {}
      <4> DEFINE S == {p.recv : p \in read} \cup {history.through}
      <4>1. history'.through = Max(S)
        BY <2>1, <3>2 DEF Extended
      <4>2. moment \in Nat /\ S \in SUBSET Nat /\ S # {} /\ \A n \in S : n <= moment
        BY DEF HistoryInv, ReceiptsInv
      <4>3. Max(S) \in S
        BY <4>2, GreatestNat
      <4> QED BY <4>1, <4>2, <4>3
    <3> QED BY <3>1, <3>2
  <2>5. AllRows \subseteq history'.rows
    <3>1. \A p \in Pages : p.recv < history.through \/ p \in read
      BY DEF Since, HistoryInv, ReceiptsInv
    <3>2. \A p \in Pages : RowsIn(p) \subseteq history'.rows
      BY <2>3, <3>1 DEF HistoryInv
    <3> QED BY <3>2 DEF AllRows
  <2>6. history'.rows \subseteq AllRows
    BY <2>3 DEF AllRows, HistoryInv
  <2>7. \A p \in Pages : RowsIn(p) \subseteq AllRows
    BY DEF AllRows
  <2> QED BY <2>1, <2>2, <2>4, <2>5, <2>6, <2>7 DEF HistoryInv
<1>6. CASE Tick \/ (\E k \in KindSet : Happens(k) \/ Forgets(k)) \/ AskPage \/ AskRefused
             \/ TakePage \/ RecordLost \/ BeginPass \/ Judge \/ FoldUnread \/ Project
  <2>1. history' = history
    BY <1>6 DEF Tick, Happens, Forgets, AskPage, AskRefused, TakePage, RecordLost, BeginPass,
                Judge, FoldUnread, Project
  <2>2. run'.at # "projecting"
    <3>1. CASE run' = run /\ run.at = "asking"
      BY <3>1
    <3>2. CASE AskPage \/ AskRefused \/ TakePage \/ RecordLost
      <4>1. run.at \in WalkPlaces
        BY <3>2 DEF AskPage, AskRefused, TakePage, RecordLost, WalkPlaces
      <4>2. run.at \in WalkPlaces /\ DOMAIN run = WalkFields
        BY <4>1 DEF WalkPlaces, IInv, RunInv, Down, Idle
      <4>3. \A mem : AfterWalk(mem).at \in {"asking", "judging"}
        BY DEF AfterWalk, WalkOf
      <4>4. Noted => run'.at \in {"asking", "judging"}
        BY <4>2, <4>3 DEF Noted, WalkFields
      <4>5. ASSUME AskPage PROVE run'.at \in {"took", "asking", "judging"}
        <5>1. PICK page \in Answers(Kind, run.start) :
                run' = IF page = <<>> THEN AfterWalk(memory)
                       ELSE [run EXCEPT !.at = "took", !.page = page]
          BY <4>5 DEF AskPage
        <5> QED BY <4>2, <4>3, <5>1 DEF WalkFields
      <4> QED BY <3>2, <4>2, <4>3, <4>4, <4>5 DEF AskRefused, TakePage, RecordLost, WalkFields
    <3>3. CASE BeginPass \/ Judge \/ FoldUnread \/ Project
      BY <3>3 DEF BeginPass, WalkOf, Judge, FoldUnread, Project, Idle, IInv, RunInv, WalkPlaces,
                  Down
    <3>4. CASE Tick \/ \E k \in KindSet : Happens(k) \/ Forgets(k)
      BY <3>1, <3>4 DEF Tick, Happens, Forgets, EnvironmentsTurn
    <3> QED BY <1>6, <3>2, <3>3, <3>4
  <2> QED BY <1>3, <2>1, <2>2
<1>7. CASE Boot \/ Kill
  <2>1. history' = NoHistory /\ run'.at # "projecting"
    BY <1>7 DEF Boot, Kill, Idle, Down
  <2> QED BY <1>4, <2>1
<1>8. CASE UNCHANGED vars
  BY <1>8, RecordSame DEF vars, HistoryInv, AllRows
<1> QED BY <1>5, <1>6, <1>7, <1>8 DEF Next

(***************************************************************************)
(* History::extend: a history read on from its newest receipt, pass by     *)
(* pass, is what a read of the whole record would give, one row for each   *)
(* identity, whatever is killed, refused or will not read.                 *)
(***************************************************************************)
THEOREM HistoryIsTheRecord == Spec => []FoldIsTheRecord
<1>1. Init => IInv /\ ReceiptsInv /\ HistoryInv
  <2> SUFFICES ASSUME Init PROVE IInv /\ ReceiptsInv /\ HistoryInv
    OBVIOUS
  <2>1. Pages = {}
    BY DEF Init, Pages
  <2> QED
    BY <2>1, InvInit DEF Init, ReceiptsInv, HistoryInv, NoHistory, None, Down
<1>2. IInv /\ ReceiptsInv /\ HistoryInv /\ [Next]_vars => (IInv /\ ReceiptsInv /\ HistoryInv)'
  BY InvNext, ReceiptsStep, HistoryStep
<1>3. ReceiptsInv /\ HistoryInv => FoldIsTheRecord
  <2> SUFFICES ASSUME ReceiptsInv, HistoryInv, run.at = "projecting"
               PROVE  history.rows =
                        UNION {{[kind |-> k, id |-> e.id] : e \in RowsOf(k)} : k \in KindSet}
    BY DEF FoldIsTheRecord
  <2>1. \A k \in KindSet : \A e \in RowsOf(k) :
          \E p \in Pages : p.kind = k /\ e \in ToSet(p.rows)
    BY DEF RowsOf
  <2>2. \A p \in Pages : p.kind \in KindSet /\ \A e \in ToSet(p.rows) : e \in RowsOf(p.kind)
    BY DEF RowsOf, ReceiptsInv
  <2>3. AllRows = UNION {{[kind |-> k, id |-> e.id] : e \in RowsOf(k)} : k \in KindSet}
    BY <2>1, <2>2 DEF AllRows, RowsIn
  <2> QED BY <2>3 DEF HistoryInv
<1> QED
  BY <1>1, <1>2, <1>3, PTL DEF Spec

-----------------------------------------------------------------------------
(***************************************************************************)
(* What is forgotten is dated.  Of each kind: what the venue holds does    *)
(* not go back in time, and what it forgot is no later than what it kept,  *)
(* which is at least a page.                                               *)
(***************************************************************************)
HeldBy(k) ==
  LET held == venue[k]
  IN  /\ held \in Seq(ToSet(held))
      /\ \A i \in DOMAIN held : held[i].at \in 1 .. moment
      /\ \A i, j \in DOMAIN held : i <= j => held[i].at <= held[j].at
      /\ \A e \in happened[k] :
           /\ e.at \in 1 .. moment
           /\ \/ e \in ToSet(held)
              \/ Len(held) >= PageSize /\ \A i \in DOMAIN held : e.at <= held[i].at

(* What is remembered as the newest of a kind is the newest recorded.      *)
IsNewest(k, n) ==
  /\ n \in Nat
  /\ \A r \in RowsOf(k) : r.at \in 1 .. moment /\ r.at <= n
  /\ IF RowsOf(k) = {} THEN n = None ELSE n \in Moments(RowsOf(k))

(* But for the page just taken, which starts no earlier than the walk did. *)
OnKind(k) == run.at \in WalkPlaces /\ Kinds[run.turn] = k
Taking(k) == run.at \in {"took", "lost"} /\ Kinds[run.turn] = k
PageTaken(k, n) ==
  LET first == Head(run.page).at
      last == Last(run.page).at
  IN  /\ n \in Nat /\ first \in 1 .. moment /\ last \in 1 .. moment
      /\ run.start = n /\ n <= first /\ first <= last
      /\ first \in Moments(RowsOf(k)) /\ last \in Moments(RowsOf(k))
      /\ \A r \in RowsOf(k) : r.at \in 1 .. moment /\ r.at <= last

(* From a moment on, the venue still holds what the record does not.       *)
Reached(k, from) ==
  \A e \in happened[k] :
    e.at >= from => e \in ToSet(venue[k]) \/ e.at \in Moments(RowsOf(k))

WalkInv(k) ==
  /\ Taking(k) => PageTaken(k, memory.newest[k]) /\ Reached(k, Last(run.page).at)
  /\ OnKind(k) /\ run.at = "asking" =>
       run.start = memory.newest[k] /\ (~run.first => Reached(k, run.start))
  /\ OnKind(k) /\ run.first => run.recorded = memory.newest[k]

(* Dated: in a gap, or in the one the page just taken is about to record.  *)
InGap(k, at) == \E gap \in Gaps(k) : gap.from <= at /\ at <= gap.to
InGapDue(k, at) ==
  /\ run.at = "took" /\ Taking(k)
  /\ run.first /\ run.recorded # None /\ BeyondReach
  /\ run.recorded <= at /\ at <= Head(run.page).at
Dated(k) ==
  \A e \in happened[k] : \A f, g \in RowsOf(k) :
    f.at < e.at /\ e.at < g.at =>
      e.at \in Moments(RowsOf(k)) \/ InGap(k, e.at) \/ InGapDue(k, e.at)

KindInv(k) ==
  /\ HeldBy(k)
  /\ \A r \in RowsOf(k) : r.at \in 1 .. moment
  /\ memory.loaded = TRUE => Taking(k) \/ IsNewest(k, memory.newest[k])
  /\ WalkInv(k)
  /\ Dated(k)

HolesInv ==
  /\ moment \in Nat \ {0}
  /\ DOMAIN venue = KindSet /\ DOMAIN happened = KindSet
  /\ DOMAIN memory.newest = KindSet
  /\ \A k \in KindSet : KindInv(k)

(* No kill falls between a page and its gap, and nothing is forgotten      *)
(* between the pages of a walk.                                            *)
WalksAreWhole == "kill_in_page" \notin Hazards /\ "forgets_in_walk" \notin Hazards

-----------------------------------------------------------------------------
(* A page: what the venue holds from the start on, full where that is so   *)
(* much, with nothing of it left out before the last of the page.          *)
LEMMA AnswerIs ==
  ASSUME NEW k \in KindSet, moment \in Nat, HeldBy(k), NEW start \in Nat,
         NEW page \in Answers(k, start)
  PROVE  /\ page \in Seq(ToSet(venue[k]))
         /\ Len(page) \in Nat /\ DOMAIN page = 1 .. Len(page)
         /\ \A i \in DOMAIN page : page[i] \in ToSet(venue[k]) /\ page[i].at >= start
         /\ \A i, j \in DOMAIN page : i <= j => page[i].at <= page[j].at
         /\ \A e \in ToSet(venue[k]) : \A i \in DOMAIN page :
              e.at >= start /\ e.at < page[i].at => e \in ToSet(page)
         /\ (\A l \in DOMAIN venue[k] : venue[k][l].at >= start) /\ Len(venue[k]) >= PageSize
              => Len(page) >= PageSize
<1> DEFINE held == venue[k]
           n == Len(held)
<1>1. /\ held \in Seq(ToSet(held)) /\ n \in Nat /\ DOMAIN held = 1 .. n
      /\ \A i \in 1 .. n : held[i] \in ToSet(held) /\ held[i].at \in Nat
      /\ \A i, j \in 1 .. n : i <= j => held[i].at <= held[j].at
  BY DEF HeldBy, ToSet
<1>2. PICK i \in 1 .. n + 1 :
        /\ \A l \in DOMAIN held : held[l].at >= start <=> l >= i
        /\ page = SubSeq(held, i, IF n < i + PageSize THEN n ELSE i + PageSize - 1)
  BY DEF Answers
<1> DEFINE to == IF n < i + PageSize THEN n ELSE i + PageSize - 1
<1>3. PageSize \in Nat \ {0} /\ i \in Int /\ to \in Int /\ to <= n /\ i - 1 <= to
  BY <1>1, <1>2, PageAssumption
<1>4. \A j \in i .. to : j \in 1 .. n /\ held[j] \in ToSet(held)
  BY <1>1, <1>2, <1>3
<1> HIDE DEF to, held, n
<1>5. page = SubSeq(held, i, to)
  BY <1>2 DEF to
<1>6. /\ page \in Seq(ToSet(held))
      /\ Len(page) = IF i <= to THEN to - i + 1 ELSE 0
      /\ \A j \in 1 .. to - i + 1 : page[j] = held[i + j - 1]
  BY <1>3, <1>4, <1>5, SubSeqProperties
<1>7. Len(page) = to - i + 1 /\ Len(page) \in Nat /\ DOMAIN page = 1 .. Len(page)
  BY <1>3, <1>6
<1>8. \A j \in DOMAIN page : i + j - 1 \in i .. to /\ page[j] = held[i + j - 1]
  BY <1>3, <1>6, <1>7
<1>9. \A j \in DOMAIN page : page[j] \in ToSet(held) /\ page[j].at >= start
  <2> SUFFICES ASSUME NEW j \in DOMAIN page
               PROVE  page[j] \in ToSet(held) /\ page[j].at >= start
    OBVIOUS
  <2>1. PICK l \in i .. to : page[j] = held[l]
    BY <1>8
  <2>2. l \in DOMAIN held /\ l >= i
    BY <1>1, <1>3, <1>4
  <2> QED BY <1>2, <1>4, <2>1, <2>2
<1>10. \A j, l \in DOMAIN page : j <= l => page[j].at <= page[l].at
  <2> SUFFICES ASSUME NEW j \in DOMAIN page, NEW l \in DOMAIN page, j <= l
               PROVE  page[j].at <= page[l].at
    OBVIOUS
  <2>1. i + j - 1 <= i + l - 1
    BY <1>3, <1>7
  <2>2. /\ i + j - 1 \in 1 .. n /\ page[j] = held[i + j - 1]
        /\ i + l - 1 \in 1 .. n /\ page[l] = held[i + l - 1]
    BY <1>4, <1>8
  <2> QED BY <1>1, <2>1, <2>2
<1>11. ASSUME NEW e \in ToSet(held), NEW j \in DOMAIN page, e.at >= start, e.at < page[j].at
       PROVE  e \in ToSet(page)
  <2>1. PICK l \in 1 .. n : held[l] = e
    BY <1>1 DEF ToSet
  <2>2. l >= i
    BY <1>1, <1>2, <1>11, <2>1
  <2>3. i + j - 1 \in 1 .. n /\ page[j].at = held[i + j - 1].at
    BY <1>4, <1>8
  <2>4. l < i + j - 1
    BY <1>1, <1>3, <1>7, <1>11, <2>1, <2>3
  <2>5. l - i + 1 \in DOMAIN page
    BY <1>1, <1>3, <1>7, <1>8, <2>2, <2>4
  <2>6. page[l - i + 1] = held[l]
    BY <1>1, <1>3, <1>8, <2>5
  <2> QED BY <2>1, <2>5, <2>6 DEF ToSet
<1>12. ASSUME \A l \in DOMAIN held : held[l].at >= start, n >= PageSize
       PROVE  Len(page) >= PageSize
  <2>1. 1 \in DOMAIN held
    BY <1>1, <1>3, <1>12
  <2>2. i = 1
    BY <1>2, <1>3, <1>12, <2>1
  <2>3. to >= PageSize
    BY <1>1, <1>3, <1>12, <2>2 DEF to
  <2> QED BY <1>3, <1>7, <2>2, <2>3
<1> QED BY <1>6, <1>7, <1>9, <1>10, <1>11, <1>12 DEF held, n

-----------------------------------------------------------------------------
(* Where a kind is not being taken from, and neither the venue nor what is *)
(* recorded of it changes: off the walk, or at the start of one.           *)
FreshOrOff(k) ==
  OnKind(k) => /\ run.at = "asking" /\ run.first = TRUE
               /\ run.start = memory.newest[k] /\ run.recorded = memory.newest[k]

LEMMA KindRests ==
  ASSUME NEW k \in KindSet, KindInv(k), moment' = moment,
         venue'[k] = venue[k], happened'[k] = happened[k],
         RowsOf(k)' = RowsOf(k), Gaps(k) \subseteq Gaps(k)',
         \A e \in happened[k] : ~InGapDue(k, e.at),
         ~Taking(k)', FreshOrOff(k)',
         memory'.loaded = TRUE => IsNewest(k, memory'.newest[k])
  PROVE  KindInv(k)'
<1>1. HeldBy(k)'
  BY DEF KindInv, HeldBy
<1>2. Dated(k)'
  BY DEF KindInv, Dated, InGap, Moments
<1>3. WalkInv(k)'
  BY DEF WalkInv, FreshOrOff, OnKind
<1>4. memory'.loaded = TRUE => IsNewest(k, memory.newest[k])'
  BY DEF IsNewest, Moments
<1> QED BY <1>1, <1>2, <1>3, <1>4 DEF KindInv

(* The next place of a walk is the start of one.                           *)
LEMMA AfterWalkIsFresh ==
  ASSUME run.turn \in 1 .. Len(Kinds), NEW mem, run' = AfterWalk(mem),
         memory'.newest = mem.newest, NEW k \in KindSet
  PROVE  ~Taking(k)' /\ FreshOrOff(k)'
<1>1. CASE run.turn < Len(Kinds)
  <2>1. /\ run'.at = "asking" /\ run'.first = TRUE /\ run'.turn = run.turn + 1
        /\ run'.start = mem.newest[Kinds[run.turn + 1]]
        /\ run'.recorded = mem.newest[Kinds[run.turn + 1]]
    BY <1>1 DEF AfterWalk, WalkOf
  <2> QED BY <2>1 DEF Taking, FreshOrOff, OnKind
<1>2. CASE ~(run.turn < Len(Kinds))
  BY <1>2 DEF AfterWalk, Taking, FreshOrOff, OnKind, WalkPlaces
<1> QED BY <1>1, <1>2

-----------------------------------------------------------------------------
(* Time passes; something happens; the venue forgets its oldest.           *)
LEMMA TickKeeps ==
  ASSUME HolesInv, Tick, NEW k \in KindSet
  PROVE  KindInv(k)'
<1>1. /\ moment \in Nat /\ moment' = moment + 1 /\ run.at = "asking"
      /\ UNCHANGED <<venue, happened, record, run, memory>>
  BY DEF HolesInv, Tick, EnvironmentsTurn
<1>2. RowsOf(k)' = RowsOf(k) /\ Gaps(k)' = Gaps(k)
  BY <1>1, RecordSame
<1>3. \A n \in 1 .. moment : n \in 1 .. moment'
  BY <1>1
<1>4. KindInv(k)
  BY DEF HolesInv
<1>5. HeldBy(k)'
  BY <1>1, <1>3, <1>4 DEF KindInv, HeldBy
<1>6. ~Taking(k) /\ ~Taking(k)'
  BY <1>1 DEF Taking
<1>7. Dated(k)'
  BY <1>1, <1>2, <1>4, <1>6 DEF KindInv, Dated, InGap, InGapDue, Moments
<1>8. WalkInv(k)'
  BY <1>1, <1>2, <1>4, <1>6 DEF KindInv, WalkInv, OnKind, Reached, Moments
<1>9. memory'.loaded = TRUE => IsNewest(k, memory.newest[k])'
  BY <1>1, <1>2, <1>3, <1>4, <1>6 DEF KindInv, IsNewest, Moments
<1>10. \A r \in RowsOf(k)' : r.at \in 1 .. moment'
  BY <1>2, <1>3, <1>4 DEF KindInv
<1> QED BY <1>5, <1>7, <1>8, <1>9, <1>10 DEF KindInv

LEMMA HappensKeeps ==
  ASSUME HolesInv, NEW j \in KindSet, Happens(j), NEW k \in KindSet
  PROVE  KindInv(k)'
<1>1. /\ moment \in Nat \ {0} /\ moment' = moment /\ run.at = "asking"
      /\ UNCHANGED <<record, run, memory>>
  BY DEF HolesInv, Happens, EnvironmentsTurn
<1>2. RowsOf(k)' = RowsOf(k) /\ Gaps(k)' = Gaps(k) /\ ~Taking(k) /\ ~Taking(k)'
  BY <1>1, RecordSame DEF Taking
<1>3. KindInv(k)
  BY DEF HolesInv
<1>4. PICK event : /\ event.at = moment
                   /\ venue' = [venue EXCEPT ![j] = Append(@, event)]
                   /\ happened' = [happened EXCEPT ![j] = @ \cup {event}]
  BY DEF Happens
<1>5. \/ k # j /\ venue'[k] = venue[k] /\ happened'[k] = happened[k]
      \/ k = j /\ venue'[k] = Append(venue[k], event)
               /\ happened'[k] = happened[k] \cup {event}
  BY <1>4 DEF HolesInv
<1> DEFINE was == venue[k]
           now == venue'[k]
<1>6. CASE k # j
  <2>1. HeldBy(k)'
    BY <1>1, <1>3, <1>5, <1>6 DEF KindInv, HeldBy
  <2>2. WalkInv(k)'
    BY <1>1, <1>2, <1>3, <1>5, <1>6 DEF KindInv, WalkInv, OnKind, Reached, Moments
  <2>3. Dated(k)'
    BY <1>1, <1>2, <1>3, <1>5, <1>6 DEF KindInv, Dated, InGap, InGapDue, Moments
  <2> QED BY <1>1, <1>2, <1>3, <2>1, <2>2, <2>3 DEF KindInv, IsNewest, Moments
<1>7. CASE k = j
  <2>1. /\ was \in Seq(ToSet(was)) /\ Len(was) \in Nat /\ DOMAIN was = 1 .. Len(was)
        /\ \A i \in DOMAIN was : was[i].at \in 1 .. moment
        /\ \A i, l \in DOMAIN was : i <= l => was[i].at <= was[l].at
    BY <1>3 DEF KindInv, HeldBy
  <2>2. /\ now \in Seq(ToSet(was) \cup {event}) /\ Len(now) = Len(was) + 1
        /\ DOMAIN now = 1 .. Len(was) + 1
        /\ \A i \in DOMAIN was : now[i] = was[i]
        /\ now[Len(was) + 1] = event
    <3>1. was \in Seq(ToSet(was) \cup {event}) /\ event \in ToSet(was) \cup {event}
      BY <2>1
    <3>2. now = Append(was, event)
      BY <1>5, <1>7
    <3> HIDE DEF was, now
    <3> QED BY <2>1, <3>1, <3>2
  <2> HIDE DEF was, now
  <2>3. /\ \A i \in DOMAIN now : i \in DOMAIN was \/ i = Len(was) + 1
        /\ \A i \in DOMAIN was : i \in DOMAIN now
        /\ Len(was) + 1 \in DOMAIN now
    BY <2>1, <2>2
  <2>4. ToSet(now) = ToSet(was) \cup {event}
    BY <2>2, <2>3 DEF ToSet
  <2>5. \A i \in DOMAIN now : now[i].at \in 1 .. moment
    BY <1>1, <1>4, <2>1, <2>2, <2>3
  <2>6. \A i, l \in DOMAIN now : i <= l => now[i].at <= now[l].at
    <3> SUFFICES ASSUME NEW i \in DOMAIN now, NEW l \in DOMAIN now, i <= l
                 PROVE  now[i].at <= now[l].at
      OBVIOUS
    <3>1. CASE l = Len(was) + 1
      BY <1>1, <1>4, <2>2, <2>5, <3>1
    <3>2. CASE l # Len(was) + 1
      <4>1. i \in DOMAIN was /\ l \in DOMAIN was
        BY <2>1, <2>2, <3>2
      <4> QED BY <2>1, <2>2, <4>1
    <3> QED BY <3>1, <3>2
  <2>7. \A e \in happened[k] :
           /\ e.at \in 1 .. moment
           /\ \/ e \in ToSet(was)
              \/ Len(was) >= PageSize /\ \A i \in DOMAIN was : e.at <= was[i].at
    BY <1>3 DEF KindInv, HeldBy, was
  <2>8. ASSUME NEW e \in happened[k] \cup {event}
        PROVE  /\ e.at \in 1 .. moment
               /\ \/ e \in ToSet(now)
                  \/ Len(now) >= PageSize /\ \A i \in DOMAIN now : e.at <= now[i].at
    <3>1. CASE e = event
      BY <1>1, <1>4, <2>4, <3>1
    <3>2. CASE e \in happened[k] /\ e \notin ToSet(was)
      <4>1. Len(now) >= PageSize
        BY <2>1, <2>2, <2>7, <3>2, PageAssumption
      <4>2. \A i \in DOMAIN now : e.at <= now[i].at
        BY <1>1, <1>4, <2>2, <2>3, <2>7, <3>2
      <4> QED BY <2>7, <3>2, <4>1, <4>2
    <3> QED BY <2>4, <2>7, <3>1, <3>2
  <2>9. HeldBy(k)'
    <3>1. now \in Seq(ToSet(now))
      BY <2>2, <2>4
    <3> QED BY <1>1, <1>5, <1>7, <2>5, <2>6, <2>8, <3>1 DEF HeldBy, now
  <2>10. WalkInv(k)'
    BY <1>1, <1>2, <1>3, <1>5, <1>7, <2>4
    DEF KindInv, WalkInv, OnKind, Reached, Moments, was, now
  <2>11. Dated(k)'
    <3> SUFFICES ASSUME NEW e \in happened[k] \cup {event},
                        NEW f \in RowsOf(k), NEW g \in RowsOf(k), f.at < e.at, e.at < g.at
                 PROVE  e.at \in Moments(RowsOf(k)) \/ InGap(k, e.at)
      BY <1>2, <1>5, <1>7 DEF Dated, InGap, Moments
    <3>1. e \in happened[k]
      BY <1>1, <1>3, <1>4 DEF KindInv
    <3> QED BY <1>2, <1>3, <3>1 DEF KindInv, Dated, InGapDue
  <2> QED BY <1>1, <1>2, <1>3, <2>9, <2>10, <2>11 DEF KindInv, IsNewest, Moments
<1> QED BY <1>6, <1>7

LEMMA ForgetsKeeps ==
  ASSUME HolesInv, WalksAreWhole, NEW j \in KindSet, Forgets(j), NEW k \in KindSet
  PROVE  KindInv(k)'
<1>1. /\ moment \in Nat \ {0} /\ moment' = moment /\ run.at = "asking"
      /\ UNCHANGED <<happened, record, run, memory>>
      /\ ~MidWalk(j) /\ Len(venue[j]) > PageSize
      /\ venue' = [venue EXCEPT ![j] = Tail(@)]
  BY DEF HolesInv, Forgets, EnvironmentsTurn, WalksAreWhole, Disturbed
<1>2. RowsOf(k)' = RowsOf(k) /\ Gaps(k)' = Gaps(k) /\ ~Taking(k) /\ ~Taking(k)'
  BY <1>1, RecordSame DEF Taking
<1>3. KindInv(k)
  BY DEF HolesInv
<1>4. Dated(k)'
  BY <1>1, <1>2, <1>3 DEF KindInv, Dated, InGap, InGapDue, Moments
<1>5. CASE k # j
  <2>1. venue'[k] = venue[k]
    BY <1>1, <1>5 DEF HolesInv
  <2>2. HeldBy(k)'
    BY <1>1, <1>3, <2>1 DEF KindInv, HeldBy
  <2>3. WalkInv(k)'
    BY <1>1, <1>2, <1>3, <2>1 DEF KindInv, WalkInv, OnKind, Reached, Moments
  <2> QED BY <1>1, <1>2, <1>3, <1>4, <2>2, <2>3 DEF KindInv, IsNewest, Moments
<1>6. CASE k = j
  <2> DEFINE was == venue[k]
             now == venue'[k]
  <2>1. now = Tail(was) /\ Len(was) > PageSize
    BY <1>1, <1>6 DEF HolesInv
  <2>2. /\ was \in Seq(ToSet(was)) /\ Len(was) \in Nat /\ DOMAIN was = 1 .. Len(was)
        /\ \A i \in DOMAIN was : was[i].at \in 1 .. moment
        /\ \A i, l \in DOMAIN was : i <= l => was[i].at <= was[l].at
        /\ \A e \in happened[k] :
             /\ e.at \in 1 .. moment
             /\ \/ e \in ToSet(was)
                \/ Len(was) >= PageSize /\ \A i \in DOMAIN was : e.at <= was[i].at
    BY <1>3 DEF KindInv, HeldBy
  <2> HIDE DEF was, now
  <2>3. /\ now \in Seq(ToSet(was)) /\ Len(now) = Len(was) - 1 /\ Len(now) \in Nat
        /\ DOMAIN now = 1 .. Len(was) - 1
        /\ \A i \in 1 .. Len(was) - 1 : now[i] = was[i + 1]
    BY <2>1, <2>2, PageAssumption
  <2>4. \A i \in DOMAIN now : i + 1 \in DOMAIN was /\ now[i] = was[i + 1]
    BY <2>2, <2>3
  <2>5. \A i \in DOMAIN now : now[i].at \in 1 .. moment
    BY <2>2, <2>4
  <2>6. \A i, l \in DOMAIN now : i <= l => now[i].at <= now[l].at
    <3> SUFFICES ASSUME NEW i \in DOMAIN now, NEW l \in DOMAIN now, i <= l
                 PROVE  now[i].at <= now[l].at
      OBVIOUS
    <3>1. i + 1 <= l + 1
      BY <2>3
    <3> QED BY <2>2, <2>4, <3>1
  <2>7. \A e \in ToSet(was) : e = was[1] \/ e \in ToSet(now)
    <3> SUFFICES ASSUME NEW e \in ToSet(was), e # was[1]
                 PROVE  e \in ToSet(now)
      OBVIOUS
    <3>1. PICK i \in DOMAIN was : was[i] = e
      BY DEF ToSet
    <3>2. i - 1 \in DOMAIN now /\ now[i - 1] = was[i]
      BY <2>2, <2>3, <3>1
    <3> QED BY <3>1, <3>2 DEF ToSet
  <2>8. 1 \in DOMAIN was /\ \A i \in DOMAIN now : was[1].at <= now[i].at
    <3>1. 1 \in DOMAIN was
      BY <2>1, <2>2, PageAssumption
    <3>2. \A i \in DOMAIN now : 1 <= i + 1
      BY <2>3
    <3> QED BY <2>2, <2>4, <3>1, <3>2
  <2>9. Len(now) >= PageSize
    BY <2>1, <2>2, <2>3, PageAssumption
  <2>10. \A e \in happened[k] :
           \/ e \in ToSet(now)
           \/ Len(now) >= PageSize /\ \A i \in DOMAIN now : e.at <= now[i].at
    BY <2>2, <2>4, <2>7, <2>8, <2>9
  <2>11. HeldBy(k)'
    <3>1. \A i \in DOMAIN now : now[i] \in ToSet(now)
      BY DEF ToSet
    <3>2. now \in Seq(ToSet(now))
      BY <2>3, <3>1
    <3> QED BY <1>1, <2>2, <2>5, <2>6, <2>10, <3>2 DEF HeldBy, now
  <2>12. WalkInv(k)'
    BY <1>1, <1>2, <1>3, <1>6 DEF KindInv, WalkInv, OnKind, MidWalk
  <2> QED BY <1>1, <1>2, <1>3, <1>4, <2>11, <2>12 DEF KindInv, IsNewest, Moments
<1> QED BY <1>5, <1>6

-----------------------------------------------------------------------------
(* An ask, of the kind it is about.                                        *)
LEMMA PageKeeps ==
  ASSUME IInv, HolesInv, run.at = "asking", NEW k \in KindSet, k = Kind,
         NEW page \in Answers(k, run.start), page # <<>>,
         record' = Append(record, [what |-> "page", kind |-> k, recv |-> moment, rows |-> page]),
         run' = [run EXCEPT !.at = "took", !.page = page],
         UNCHANGED <<moment, venue, happened, memory>>
  PROVE  KindInv(k)'
<1> DEFINE n == memory.newest[k]
           first == Head(page).at
           last == Last(page).at
<1>1. KindInv(k) /\ HeldBy(k) /\ Dated(k) /\ moment \in Nat \ {0}
  BY DEF HolesInv, KindInv
<1>2. /\ DOMAIN run = WalkFields /\ run.turn \in 1 .. Len(Kinds) /\ memory.loaded = TRUE
      /\ Kinds[run.turn] = k
  BY DEF IInv, RunInv, MemoryInv, Down, Idle, WalkPlaces, Kind
<1>3. OnKind(k) /\ ~Taking(k)
  BY <1>2 DEF OnKind, Taking, WalkPlaces
<1>4. /\ run.start = n /\ (~run.first => Reached(k, n)) /\ (run.first => run.recorded = n)
      /\ IsNewest(k, n)
  BY <1>1, <1>2, <1>3 DEF KindInv, WalkInv
<1>5. /\ run'.at = "took" /\ run'.page = page /\ run'.turn = run.turn /\ run'.start = run.start
      /\ run'.first = run.first /\ run'.recorded = run.recorded
  BY <1>2 DEF WalkFields
<1>6. Taking(k)' /\ OnKind(k)'
  BY <1>2, <1>5 DEF Taking, OnKind, WalkPlaces
<1>7. RowsOf(k)' = RowsOf(k) \cup ToSet(page) /\ Gaps(k)' = Gaps(k)
  <2> DEFINE row == [what |-> "page", kind |-> k, recv |-> moment, rows |-> page]
  <2>1. row.what = "page" /\ row.kind = k /\ row.rows = page
    OBVIOUS
  <2> HIDE DEF row
  <2>2. record' = Append(record, row)
    BY DEF row
  <2> QED BY <2>1, <2>2, RowsAppended DEF IInv
<1>8. /\ page \in Seq(ToSet(venue[k]))
      /\ Len(page) \in Nat /\ DOMAIN page = 1 .. Len(page)
      /\ \A i \in DOMAIN page : page[i] \in ToSet(venue[k]) /\ page[i].at >= n
      /\ \A i, j \in DOMAIN page : i <= j => page[i].at <= page[j].at
      /\ \A e \in ToSet(venue[k]) : \A i \in DOMAIN page :
           e.at >= n /\ e.at < page[i].at => e \in ToSet(page)
      /\ (\A l \in DOMAIN venue[k] : venue[k][l].at >= n) /\ Len(venue[k]) >= PageSize
           => Len(page) >= PageSize
  <2>1. n \in Nat
    BY <1>4 DEF IsNewest
  <2> QED BY <1>1, <1>4, <2>1, AnswerIs
<1>9. \A r \in ToSet(venue[k]) : r.at \in 1 .. moment
  BY <1>1 DEF HeldBy, ToSet
<1>10. /\ 1 \in DOMAIN page /\ Len(page) \in DOMAIN page
       /\ Head(page) = page[1] /\ Last(page) = page[Len(page)]
  BY <1>8 DEF Last
<1>11. \A r \in ToSet(page) : /\ r \in ToSet(venue[k]) /\ r.at \in 1 .. moment
                              /\ n <= r.at /\ first <= r.at /\ r.at <= last
  <2> SUFFICES ASSUME NEW i \in DOMAIN page
               PROVE  /\ page[i] \in ToSet(venue[k]) /\ page[i].at \in 1 .. moment
                      /\ n <= page[i].at /\ first <= page[i].at /\ page[i].at <= last
    BY DEF ToSet
  <2>1. 1 <= i /\ i <= Len(page)
    BY <1>8
  <2>2. page[i].at \in 1 .. moment /\ n \in Nat
    BY <1>4, <1>8, <1>9 DEF IsNewest
  <2> QED BY <1>8, <1>10, <2>1, <2>2
<1>12. Head(page) \in ToSet(page) /\ Last(page) \in ToSet(page)
  BY <1>10 DEF ToSet
<1> HIDE DEF first, last, n
<1>13. PageTaken(k, n)'
  <2>1. \A r \in RowsOf(k)' : r.at \in 1 .. moment /\ r.at <= last
    <3>1. \A r \in RowsOf(k) : r.at \in 1 .. moment /\ r.at <= n
      BY <1>4 DEF IsNewest
    <3>2. n <= last /\ n \in Nat /\ last \in 1 .. moment
      BY <1>4, <1>11, <1>12 DEF IsNewest, last
    <3> QED BY <1>7, <1>11, <3>1, <3>2
  <2>2. first \in Moments(RowsOf(k))' /\ last \in Moments(RowsOf(k))'
    BY <1>7, <1>12 DEF Moments, first, last
  <2>3. n' = n /\ n \in Nat
    BY <1>4 DEF IsNewest, n
  <2>4. /\ first \in 1 .. moment /\ last \in 1 .. moment /\ n <= first /\ first <= last
        /\ Head(run'.page).at = first /\ Last(run'.page).at = last
    BY <1>5, <1>11, <1>12 DEF first, last
  <2> QED BY <1>4, <1>5, <2>1, <2>2, <2>3, <2>4 DEF PageTaken
<1>14. Reached(k, last)'
  <2> SUFFICES ASSUME NEW e \in happened[k], e.at >= last, e \notin ToSet(venue[k])
               PROVE  e.at \in Moments(RowsOf(k))'
    BY DEF Reached, Moments, last
  <2>1. e.at \in 1 .. moment /\ \A i \in DOMAIN venue[k] : e.at <= venue[k][i].at
    BY <1>1 DEF HeldBy
  <2>2. e.at <= last
    BY <1>11, <1>12, <2>1 DEF ToSet, last
  <2>3. last \in 1 .. moment
    BY <1>11, <1>12 DEF last
  <2>4. e.at = last
    BY <2>1, <2>2, <2>3
  <2> QED BY <1>7, <1>12, <2>4 DEF Moments, last
<1>15. WalkInv(k)'
  <2>1. memory'.newest[k] = n /\ Last(run'.page).at = last
    BY <1>5 DEF n, last
  <2>2. PageTaken(k, memory.newest[k])' /\ Reached(k, Last(run.page).at)'
    BY <1>13, <1>14, <1>5 DEF n, last
  <2> QED BY <1>4, <1>5, <2>1, <2>2 DEF WalkInv
<1>16. Dated(k)'
  <2> SUFFICES ASSUME NEW e \in happened[k], NEW f \in RowsOf(k)', NEW g \in RowsOf(k)',
                      f.at < e.at, e.at < g.at, e.at \notin Moments(RowsOf(k))'
               PROVE  InGap(k, e.at) \/ InGapDue(k, e.at)'
    BY <1>7 DEF Dated, InGap
  <2>1. e.at \in 1 .. moment /\ n \in Nat /\ e.at \notin Moments(RowsOf(k))
    BY <1>1, <1>4, <1>7 DEF HeldBy, IsNewest, Moments
  <2>2. \A r \in RowsOf(k) : r.at \in 1 .. moment /\ r.at <= n
    BY <1>4 DEF IsNewest
  <2>3. CASE e.at < n
    <3>1. f \in RowsOf(k)
      BY <1>7, <1>11, <2>1, <2>3
    <3>2. PICK r \in RowsOf(k) : r.at = n
      BY <1>4, <3>1 DEF IsNewest, Moments
    <3>3. InGap(k, e.at) \/ InGapDue(k, e.at)
      BY <1>1, <2>1, <2>3, <3>1, <3>2 DEF Dated
    <3> QED BY <1>3, <3>3 DEF InGapDue
  <2>4. CASE ~(e.at < n)
    <3>1. g \in ToSet(page)
      BY <1>7, <2>1, <2>2, <2>4
    <3>2. e \notin ToSet(venue[k])
      <4>1. PICK i \in DOMAIN page : page[i] = g
        BY <3>1 DEF ToSet
      <4>2. e \notin ToSet(page)
        BY <1>7 DEF Moments
      <4> QED BY <1>8, <2>1, <2>4, <4>1, <4>2
    <3>3. Len(venue[k]) >= PageSize /\ \A i \in DOMAIN venue[k] : e.at <= venue[k][i].at
      BY <1>1, <3>2 DEF HeldBy
    <3>4. \A r \in ToSet(page) : e.at <= r.at
      BY <1>11, <3>3 DEF ToSet
    <3>5. f \in RowsOf(k) /\ n # None
      <4>1. f \in RowsOf(k)
        BY <1>7, <1>11, <2>1, <3>4
      <4> QED BY <2>2, <4>1 DEF None
    <3>6. run.first /\ run.recorded = n
      BY <1>4, <2>1, <2>4, <3>2 DEF Reached
    <3>7. Len(page) >= PageSize
      <4>1. \A l \in DOMAIN venue[k] : venue[k][l].at >= n
        BY <1>9, <2>1, <2>4, <3>3 DEF ToSet
      <4> QED BY <1>8, <3>3, <4>1
    <3>8. e.at <= first /\ first \in 1 .. moment
      BY <1>11, <1>12, <3>4 DEF first
    <3>9. n < first
      <4>1. first # e.at
        BY <1>7, <1>12 DEF Moments, first
      <4> QED BY <2>1, <2>4, <3>8, <4>1
    <3>10. BeyondReach'
      BY <1>5, <3>6, <3>7, <3>9 DEF BeyondReach, PageFull, first
    <3> QED BY <1>5, <1>6, <2>1, <2>4, <3>5, <3>6, <3>8, <3>10 DEF InGapDue, first
  <2> QED BY <2>3, <2>4
<1>17. HeldBy(k)'
  BY <1>1 DEF HeldBy
<1>18. \A r \in RowsOf(k)' : r.at \in 1 .. moment
  BY <1>4, <1>7, <1>11 DEF IsNewest
<1> QED BY <1>6, <1>15, <1>16, <1>17, <1>18 DEF KindInv

(* An ask that is answered, of any kind; and one that is refused.          *)
LEMMA AskKeeps ==
  ASSUME IInv, HolesInv, AskPage \/ AskRefused, NEW k \in KindSet
  PROVE  KindInv(k)'
<1>1. run.at = "asking" /\ UNCHANGED <<moment, venue, happened, memory>>
  BY DEF AskPage, AskRefused
<1>2. /\ DOMAIN run = WalkFields /\ run.turn \in 1 .. Len(Kinds) /\ memory.loaded = TRUE
  BY <1>1 DEF IInv, RunInv, MemoryInv, Down, Idle, WalkPlaces
<1>3. /\ KindInv(k) /\ ~Taking(k) /\ IsNewest(k, memory.newest[k])
      /\ \A e \in happened[k] : ~InGapDue(k, e.at)
  BY <1>1, <1>2 DEF HolesInv, KindInv, Taking, InGapDue
<1>4. CASE AskRefused
  <2>1. record' = record /\ run' = AfterWalk(memory)
    BY <1>4 DEF AskRefused
  <2>2. RowsOf(k)' = RowsOf(k) /\ Gaps(k)' = Gaps(k)
    BY <2>1, RecordSame
  <2>3. ~Taking(k)' /\ FreshOrOff(k)'
    BY <1>1, <1>2, <2>1, AfterWalkIsFresh
  <2> QED BY <1>1, <1>3, <2>2, <2>3, KindRests
<1>5. CASE AskPage
  <2>1. PICK page \in Answers(Kind, run.start) :
          /\ record' = Append(record, [what |-> "page", kind |-> Kind, recv |-> moment,
                                       rows |-> page])
          /\ run' = IF page = <<>> THEN AfterWalk(memory)
                    ELSE [run EXCEPT !.at = "took", !.page = page]
    BY <1>5 DEF AskPage
  <2>2. CASE page # <<>> /\ k = Kind
    <3>1. run' = [run EXCEPT !.at = "took", !.page = page]
      BY <2>1, <2>2
    <3> QED BY <1>1, <2>1, <2>2, <3>1, PageKeeps
  <2>3. CASE page = <<>> \/ k # Kind
    <3> DEFINE row == [what |-> "page", kind |-> Kind, recv |-> moment, rows |-> page]
    <3>1. /\ record' = Append(record, row)
          /\ row.what = "page" /\ row.kind = Kind /\ row.rows = page
      BY <2>1
    <3> HIDE DEF row
    <3>2. RowsOf(k)' = RowsOf(k) /\ Gaps(k) \subseteq Gaps(k)'
      <4>1. page = <<>> => ToSet(page) = {}
        BY DEF ToSet
      <4> QED BY <2>3, <3>1, <4>1, RowsAppended DEF IInv
    <3>3. ~Taking(k)' /\ FreshOrOff(k)'
      <4>1. CASE page = <<>>
        BY <1>1, <1>2, <2>1, <4>1, AfterWalkIsFresh
      <4>2. CASE page # <<>>
        <5>1. run'.turn = run.turn
          BY <1>2, <2>1, <4>2 DEF WalkFields
        <5>2. Kinds[run'.turn] # k
          BY <2>3, <4>2, <5>1 DEF Kind
        <5> QED BY <5>2 DEF Taking, FreshOrOff, OnKind
      <4> QED BY <4>1, <4>2
    <3> QED BY <1>1, <1>3, <3>2, <3>3, KindRests
  <2> QED BY <2>2, <2>3
<1> QED BY <1>4, <1>5

-----------------------------------------------------------------------------
(* A page is noted, whatever kind it was of, and no gap is due any more.   *)
LEMMA NotedKeepsKind ==
  ASSUME IInv, HolesInv, run.at \in {"took", "lost"}, Noted,
         UNCHANGED <<moment, venue, happened>>, NEW k \in KindSet,
         RowsOf(k)' = RowsOf(k), Gaps(k) \subseteq Gaps(k)',
         \A e \in happened[k] : ~InGapDue(k, e.at)
  PROVE  KindInv(k)'
<1> DEFINE last == Last(run.page).at
           newest == [memory.newest EXCEPT ![Kind] = Max({@, last})]
<1>1. /\ DOMAIN run = WalkFields /\ run.turn \in 1 .. Len(Kinds) /\ memory.loaded = TRUE
      /\ DOMAIN memory = {"newest", "earliest", "reached", "loaded"}
  BY DEF IInv, RunInv, MemoryInv, Down, Idle
<1>2. KindInv(k) /\ DOMAIN memory.newest = KindSet
  BY DEF HolesInv
<1>3. PICK mem : /\ mem.newest = newest
                 /\ run' = IF ~PageFull \/ last <= run.start THEN AfterWalk(mem)
                           ELSE [run EXCEPT !.at = "asking", !.start = last, !.first = FALSE]
  <2> DEFINE first == Head(run.page).at
             mem == [memory EXCEPT
                       !.newest[Kind] = Max({@, last}),
                       !.earliest[Kind] = IF @ = None THEN first ELSE Min({@, first})]
  <2>1. mem.newest = newest
    BY <1>1
  <2>2. run' = IF ~PageFull \/ last <= run.start THEN AfterWalk(mem)
               ELSE [run EXCEPT !.at = "asking", !.start = last, !.first = FALSE]
    BY DEF Noted
  <2> HIDE DEF mem, newest, last
  <2> QED BY <2>1, <2>2
<1>4. memory'.newest = newest
  BY <1>1 DEF Noted
<1> HIDE DEF newest
<1>5. IsNewest(k, newest[k]) /\ (k = Kind => newest[k] = last /\ Reached(k, last))
  <2>1. CASE k # Kind
    <3>1. ~Taking(k)
      BY <2>1 DEF Taking, Kind
    <3>2. newest[k] = memory.newest[k]
      BY <1>2, <2>1 DEF newest
    <3> QED BY <1>1, <1>2, <2>1, <3>1, <3>2 DEF KindInv
  <2>2. CASE k = Kind
    <3>1. PageTaken(k, memory.newest[k]) /\ Reached(k, last)
      BY <1>2, <2>2 DEF KindInv, WalkInv, Taking, Kind
    <3>2. newest[k] = Max({memory.newest[k], last})
      BY <1>2, <2>2 DEF newest
    <3>3. /\ memory.newest[k] \in Nat /\ last \in Nat /\ memory.newest[k] <= last
          /\ last \in Moments(RowsOf(k))
          /\ \A r \in RowsOf(k) : r.at \in 1 .. moment /\ r.at <= last
      <4> DEFINE first == Head(run.page).at
      <4>1. /\ memory.newest[k] \in Nat /\ first \in 1 .. moment /\ last \in 1 .. moment
            /\ memory.newest[k] <= first /\ first <= last
            /\ last \in Moments(RowsOf(k))
            /\ \A r \in RowsOf(k) : r.at \in 1 .. moment /\ r.at <= last
        BY <3>1 DEF PageTaken
      <4> HIDE DEF first, last
      <4> QED BY <4>1
    <3> HIDE DEF last
    <3>4. newest[k] = last
      BY <3>2, <3>3, GreaterOfTwo
    <3> QED BY <3>1, <3>3, <3>4 DEF IsNewest, Moments
  <2> QED BY <2>1, <2>2
<1>6. CASE run' = AfterWalk(mem)
  <2>1. ~Taking(k)' /\ FreshOrOff(k)'
    BY <1>1, <1>3, <1>4, <1>6, AfterWalkIsFresh
  <2> QED BY <1>2, <1>4, <1>5, <2>1, KindRests
<1>7. CASE run' = [run EXCEPT !.at = "asking", !.start = last, !.first = FALSE]
  <2>1. /\ run'.at = "asking" /\ run'.start = last /\ run'.first = FALSE
        /\ run'.turn = run.turn
    BY <1>1, <1>7 DEF WalkFields
  <2>2. ~Taking(k)'
    BY <2>1 DEF Taking
  <2>3. CASE k # Kind
    <3>1. FreshOrOff(k)'
      BY <2>1, <2>3 DEF FreshOrOff, OnKind, Kind
    <3> QED BY <1>2, <1>4, <1>5, <2>2, <3>1, KindRests
  <2>4. CASE k = Kind
    <3>1. WalkInv(k)'
      BY <1>4, <1>5, <2>1, <2>2, <2>4 DEF WalkInv, Reached, Moments
    <3>2. HeldBy(k)' /\ Dated(k)'
      BY <1>2 DEF KindInv, HeldBy, Dated, InGap, Moments
    <3>3. IsNewest(k, memory.newest[k])'
      BY <1>4, <1>5 DEF IsNewest, Moments
    <3> QED BY <1>2, <3>1, <3>2, <3>3 DEF KindInv
  <2> QED BY <2>3, <2>4
<1> QED BY <1>3, <1>6, <1>7

(* A page is taken: its gap is recorded first, and then that it was lost.  *)
LEMMA TakeKeeps ==
  ASSUME IInv, HolesInv, TakePage \/ RecordLost, NEW k \in KindSet
  PROVE  KindInv(k)'
<1>1. run.at \in {"took", "lost"} /\ UNCHANGED <<moment, venue, happened>>
  BY DEF TakePage, RecordLost
<1>2. DOMAIN run = WalkFields /\ memory.loaded = TRUE
  BY <1>1 DEF IInv, RunInv, MemoryInv, Down, Idle
<1>3. KindInv(k)
  BY DEF HolesInv
<1>4. CASE RecordLost
  <2>1. run.at = "lost" /\ Noted
    BY <1>4 DEF RecordLost
  <2>2. PICK row : record' = Append(record, row) /\ row.what = "reach"
    BY <1>4 DEF RecordLost
  <2>3. RowsOf(k)' = RowsOf(k) /\ Gaps(k) \subseteq Gaps(k)'
    BY <2>2, RowsAppended DEF IInv
  <2>4. \A e \in happened[k] : ~InGapDue(k, e.at)
    BY <2>1 DEF InGapDue
  <2> QED BY <1>1, <2>1, <2>3, <2>4, NotedKeepsKind
<1>5. CASE TakePage /\ ~(run.first /\ run.recorded # None /\ BeyondReach)
  <2>1. Noted /\ record' = record
    BY <1>5 DEF TakePage
  <2>2. RowsOf(k)' = RowsOf(k) /\ Gaps(k)' = Gaps(k)
    BY <2>1, RecordSame
  <2>3. \A e \in happened[k] : ~InGapDue(k, e.at)
    BY <1>5 DEF InGapDue
  <2> QED BY <1>1, <2>1, <2>2, <2>3, NotedKeepsKind
<1>6. CASE TakePage /\ run.first /\ run.recorded # None /\ BeyondReach
  <2>1. run.at = "took" /\ memory' = memory /\ run' = [run EXCEPT !.at = "lost"]
    BY <1>6 DEF TakePage
  <2>2. /\ run'.at = "lost" /\ run'.turn = run.turn /\ run'.start = run.start
        /\ run'.first = run.first /\ run'.recorded = run.recorded /\ run'.page = run.page
    BY <1>2, <2>1 DEF WalkFields
  <2>3. PICK row : /\ record' = Append(record, row) /\ row.what = "gap" /\ row.kind = Kind
                   /\ row.from = run.recorded /\ row.to = Head(run.page).at
    BY <1>6 DEF TakePage
  <2>4. /\ RowsOf(k)' = RowsOf(k) /\ Gaps(k) \subseteq Gaps(k)'
        /\ Kind = k => row \in Gaps(k)'
    BY <2>3, RowsAppended DEF IInv
  <2>5. HeldBy(k)' /\ (IsNewest(k, memory.newest[k]) => IsNewest(k, memory.newest[k])')
    BY <1>1, <1>3, <2>1, <2>4 DEF KindInv, HeldBy, IsNewest, Moments
  <2>6. Taking(k)' <=> Taking(k)
    BY <2>1, <2>2 DEF Taking
  <2>7. WalkInv(k)'
    <3>1. PageTaken(k, memory.newest[k]) => PageTaken(k, memory.newest[k])'
      BY <1>1, <2>1, <2>2, <2>4 DEF PageTaken, Moments
    <3>2. Reached(k, Last(run.page).at) => Reached(k, Last(run.page).at)'
      BY <1>1, <2>2, <2>4 DEF Reached, Moments
    <3> QED BY <1>3, <2>1, <2>2, <2>6, <3>1, <3>2 DEF KindInv, WalkInv, OnKind, WalkPlaces
  <2>8. Dated(k)'
    <3> SUFFICES ASSUME NEW e \in happened[k], NEW f \in RowsOf(k), NEW g \in RowsOf(k),
                        f.at < e.at, e.at < g.at, e.at \notin Moments(RowsOf(k))
                 PROVE  InGap(k, e.at)'
      BY <1>1, <2>4 DEF Dated, Moments, InGap
    <3>1. InGap(k, e.at) \/ InGapDue(k, e.at)
      BY <1>3 DEF KindInv, Dated
    <3>2. InGap(k, e.at) => InGap(k, e.at)'
      BY <2>4 DEF InGap
    <3>3. InGapDue(k, e.at) => InGap(k, e.at)'
      BY <2>3, <2>4 DEF InGapDue, Taking, Kind, InGap
    <3> QED BY <3>1, <3>2, <3>3
  <2> QED BY <1>1, <1>3, <2>1, <2>4, <2>5, <2>6, <2>7, <2>8 DEF KindInv
<1> QED BY <1>4, <1>5, <1>6

(* Outside the walks, and where one begins.                                *)
LEMMA PassBegins ==
  ASSUME IInv, HolesInv, BeginPass, NEW k \in KindSet
  PROVE  KindInv(k)' /\ DOMAIN memory'.newest = KindSet
<1>1. /\ run = Idle /\ memory' = Loaded /\ run' = WalkOf(1, Loaded)
      /\ UNCHANGED <<moment, venue, happened, record>>
  BY DEF BeginPass
<1>2. KindInv(k) /\ moment \in Nat \ {0} /\ DOMAIN memory.newest = KindSet
  BY DEF HolesInv
<1>3. ~Taking(k) /\ \A e \in happened[k] : ~InGapDue(k, e.at)
  BY <1>1 DEF Taking, InGapDue, Idle
<1>4. RowsOf(k)' = RowsOf(k) /\ Gaps(k)' = Gaps(k)
  BY <1>1, RecordSame
<1>5. IsNewest(k, memory'.newest[k]) /\ DOMAIN memory'.newest = KindSet
  <2>1. CASE memory.loaded = TRUE
    BY <1>1, <1>2, <1>3, <2>1 DEF Loaded, KindInv
  <2>2. CASE memory.loaded # TRUE
    <3>1. memory'.newest = [j \in KindSet |-> NewestRecorded(j)]
      BY <1>1, <2>2 DEF Loaded, IInv, MemoryInv
    <3>2. IsNewest(k, NewestRecorded(k))
      <4>1. CASE RowsOf(k) = {}
        BY <4>1 DEF NewestRecorded, IsNewest, None
      <4>2. CASE RowsOf(k) # {}
        <5>1. /\ Moments(RowsOf(k)) \in SUBSET Nat /\ Moments(RowsOf(k)) # {}
              /\ moment \in Nat /\ \A n \in Moments(RowsOf(k)) : n <= moment
          BY <1>2, <4>2 DEF KindInv, Moments
        <5>2. /\ Max(Moments(RowsOf(k))) \in Moments(RowsOf(k))
              /\ \A n \in Moments(RowsOf(k)) : n <= Max(Moments(RowsOf(k)))
          BY <5>1, GreatestNat
        <5>3. NewestRecorded(k) = Max(Moments(RowsOf(k)))
          BY <4>2 DEF NewestRecorded
        <5>4. \A r \in RowsOf(k) : r.at \in 1 .. moment /\ r.at \in Moments(RowsOf(k))
          BY <1>2 DEF KindInv, Moments
        <5> QED BY <4>2, <5>1, <5>2, <5>3, <5>4 DEF IsNewest
      <4> QED BY <4>1, <4>2
    <3> QED BY <3>1, <3>2
  <2> QED BY <2>1, <2>2
<1>6. ~Taking(k)' /\ FreshOrOff(k)'
  BY <1>1 DEF WalkOf, Taking, FreshOrOff, OnKind
<1> QED BY <1>1, <1>2, <1>3, <1>4, <1>5, <1>6, KindRests

LEMMA ElsewhereKeeps ==
  ASSUME IInv, HolesInv, WalksAreWhole,
         Judge \/ Fold \/ FoldUnread \/ Project \/ Boot \/ Kill, NEW k \in KindSet
  PROVE  KindInv(k)' /\ DOMAIN memory'.newest = KindSet
<1>1. /\ run.at \notin {"took", "lost"} /\ UNCHANGED <<moment, venue, happened>>
      /\ run'.at \notin WalkPlaces
  <2>1. CASE Judge \/ Fold \/ FoldUnread \/ Project
    <3>1. /\ run.at \in {"judging", "folding", "projecting"}
          /\ UNCHANGED <<moment, venue, happened>>
          /\ run' \in {[run EXCEPT !.turn = @ + 1], [at |-> "folding"],
                       [at |-> "projecting"], Idle}
          /\ run' = [run EXCEPT !.turn = @ + 1] => run.at = "judging"
      BY <2>1 DEF Judge, Fold, FoldUnread, Project, Idle
    <3>2. run.at = "judging" => DOMAIN run = {"at", "turn"}
      BY DEF IInv, RunInv, WalkPlaces, Down, Idle
    <3> QED BY <3>1, <3>2 DEF WalkPlaces, Idle
  <2>2. CASE Boot
    BY <2>2 DEF Boot, Down, Idle, WalkPlaces
  <2>3. CASE Kill
    BY <2>3 DEF Kill, Down, WalkPlaces, WalksAreWhole, Disturbed
  <2> QED BY <2>1, <2>2, <2>3
<1>2. KindInv(k) /\ DOMAIN memory.newest = KindSet
  BY DEF HolesInv
<1>3. ~Taking(k) /\ \A e \in happened[k] : ~InGapDue(k, e.at)
  BY <1>1 DEF Taking, InGapDue
<1>4. ~Taking(k)' /\ FreshOrOff(k)'
  BY <1>1 DEF Taking, FreshOrOff, OnKind, WalkPlaces
<1>5. RowsOf(k)' = RowsOf(k) /\ Gaps(k) \subseteq Gaps(k)'
  <2>1. CASE record' = record
    BY <2>1, RecordSame
  <2>2. CASE record' # record
    <3>1. PICK row : record' = Append(record, row) /\ row.what = "reach"
      BY <2>2 DEF Judge, Fold, FoldUnread, Project, Boot, Kill
    <3> QED BY <3>1, RowsAppended DEF IInv
  <2> QED BY <2>1, <2>2
<1>6. memory' = Blank \/ (memory'.newest = memory.newest /\ memory'.loaded = memory.loaded)
  <2>1. CASE Judge
    BY <2>1 DEF Judge, IInv, MemoryInv
  <2>2. CASE ~Judge
    BY <2>2 DEF Fold, FoldUnread, Project, Boot, Kill
  <2> QED BY <2>1, <2>2
<1>7. /\ memory'.loaded = TRUE => IsNewest(k, memory'.newest[k])
      /\ DOMAIN memory'.newest = KindSet
  BY <1>2, <1>3, <1>6 DEF KindInv, Blank
<1> QED BY <1>1, <1>2, <1>3, <1>4, <1>5, <1>7, KindRests

LEMMA HolesStep ==
  ASSUME IInv, HolesInv, WalksAreWhole, [Next]_vars
  PROVE  HolesInv'
<1>1. /\ moment' \in Nat \ {0} /\ DOMAIN venue' = KindSet /\ DOMAIN happened' = KindSet
  <2>1. moment' = moment \/ moment' = moment + 1
    BY DEF Next, vars, Tick, Happens, Forgets, Boot, BeginPass, AskPage, AskRefused,
           TakePage, RecordLost, Judge, Fold, FoldUnread, Project, Kill
  <2>2. DOMAIN venue' = DOMAIN venue /\ DOMAIN happened' = DOMAIN happened
    BY DEF Next, vars, Tick, Happens, Forgets, Boot, BeginPass, AskPage, AskRefused,
           TakePage, RecordLost, Judge, Fold, FoldUnread, Project, Kill
  <2> QED BY <2>1, <2>2 DEF HolesInv
<1>2. CASE Tick \/ \E j \in KindSet : Happens(j) \/ Forgets(j)
  <2>1. memory' = memory
    BY <1>2 DEF Tick, Happens, Forgets
  <2> QED BY <1>1, <1>2, <2>1, TickKeeps, HappensKeeps, ForgetsKeeps DEF HolesInv
<1>3. CASE AskPage \/ AskRefused
  <2>1. memory' = memory
    BY <1>3 DEF AskPage, AskRefused
  <2> QED BY <1>1, <1>3, <2>1, AskKeeps DEF HolesInv
<1>4. CASE TakePage \/ RecordLost
  <2>1. DOMAIN memory'.newest = KindSet
    <3>1. DOMAIN memory = {"newest", "earliest", "reached", "loaded"}
      BY DEF IInv, MemoryInv
    <3>2. Noted => DOMAIN memory'.newest = DOMAIN memory.newest
      BY <3>1 DEF Noted
    <3> QED BY <1>4, <3>2 DEF TakePage, RecordLost, HolesInv
  <2> QED BY <1>1, <1>4, <2>1, TakeKeeps DEF HolesInv
<1>5. KindSet # {}
  BY KindsAssumption DEF KindSet, ToSet
<1>6. CASE BeginPass
  BY <1>1, <1>5, <1>6, PassBegins DEF HolesInv
<1>7. CASE Judge \/ Fold \/ FoldUnread \/ Project \/ Boot \/ Kill
  BY <1>1, <1>5, <1>7, ElsewhereKeeps DEF HolesInv
<1>8. CASE UNCHANGED vars
  <2>1. ASSUME NEW k \in KindSet PROVE KindInv(k)'
    <3>1. KindInv(k) /\ RowsOf(k)' = RowsOf(k) /\ Gaps(k)' = Gaps(k)
      BY <1>8, RecordSame DEF HolesInv, vars
    <3> QED BY <1>8, <3>1
      DEF vars, KindInv, HeldBy, IsNewest, WalkInv, PageTaken, Reached, OnKind, Taking, Dated,
          InGap, InGapDue, BeyondReach, PageFull, Moments
  <2> QED BY <1>1, <1>8, <2>1 DEF HolesInv, vars
<1> QED BY <1>2, <1>3, <1>4, <1>6, <1>7, <1>8 DEF Next

(***************************************************************************)
(* beyond_reach: whatever the venue forgets between two walks, over asks   *)
(* that are refused, restarts and walks of any number of pages, an event   *)
(* between two recorded ones is recorded, or its moment is, or it lies in  *)
(* a gap; unless a kill falls between a page and its gap.                  *)
(***************************************************************************)
THEOREM ForgottenIsDated ==
  ASSUME WalksAreWhole
  PROVE  Spec => []HolesAreDated
<1>1. Init => IInv /\ HolesInv
  <2> SUFFICES ASSUME Init PROVE IInv /\ HolesInv
    OBVIOUS
  <2>1. /\ moment = 1 /\ venue = [k \in KindSet |-> <<>>]
        /\ happened = [k \in KindSet |-> {}] /\ run = Down /\ memory = Blank
    BY DEF Init
  <2>2. ASSUME NEW k \in KindSet PROVE KindInv(k)
    <3>1. RowsOf(k) = {}
      BY DEF Init, RowsOf, Pages
    <3>2. HeldBy(k)
      BY <2>1 DEF HeldBy, ToSet
    <3>3. WalkInv(k) /\ Dated(k)
      BY <2>1, <3>1 DEF WalkInv, Dated, Taking, OnKind, WalkPlaces, Down
    <3> QED BY <2>1, <3>1, <3>2, <3>3 DEF KindInv, Blank
  <2> QED BY <2>1, <2>2, InvInit DEF HolesInv, Blank
<1>2. IInv /\ HolesInv /\ [Next]_vars => (IInv /\ HolesInv)'
  BY InvNext, HolesStep
<1>3. HolesInv => HolesAreDated
  BY DEF HolesInv, KindInv, Dated, HolesAreDated, InGap, InGapDue
<1> QED
  BY <1>1, <1>2, <1>3, PTL DEF Spec
=============================================================================
