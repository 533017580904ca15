-------------------------- MODULE ChainCursorProofs -------------------------
(***************************************************************************)
(* Proofs about capture by position over a chain that forks: for any depth *)
(* of the trail no reorganisation is invented, and with a trail deeper     *)
(* than finality by a widest step none is missed.                          *)
(***************************************************************************)
EXTENDS ChainCursor, FiniteSetTheorems, WellFoundedInduction, TLAPS

-----------------------------------------------------------------------------
(* The parameters: any depth of the trail, any finality, span and node.    *)
Params == DepthAssumption /\ PagingAssumption /\ BoundsAssumption

(* BlockTrail::new: "more than the measured finality lag, not exactly it". *)
(* More by the widest step, of whose blocks between the first and the last *)
(* no hash is held.                                                        *)
DeepTrail == Depth >= Lag + MaxSpan

LogRow == [blocks : UNION {[D -> Nat] : D \in SUBSET Nat}, reorg : {FALSE}]
ReorgRow == [from : Nat, to : Nat, reorg : {TRUE}]
InPass == at \in {"logs", "first", "last"}

TypeInv ==
  /\ Newest \in Nat /\ chain \in [0 .. Newest -> Nat]
  /\ final \in Nat /\ forks \in Nat /\ faults \in Nat
  /\ cursor \in Nat \cup {Cold}
  /\ DOMAIN trail \subseteq Nat /\ trail \in [DOMAIN trail -> Nat]
  /\ span \in 1 .. MaxSpan
  /\ at \in {"idle", "stopped", "logs", "first", "last", "search"}
  /\ pass \in [from : Nat, goal : Nat] /\ claim \in [from : Nat, to : Nat]
  /\ record \in Seq(LogRow \cup ReorgRow)
  /\ kept \subseteq 1 .. Len(record) /\ boot \in 0 .. Len(record)

(* How far a pass has come, and that nothing it holds is above a head.     *)
PlanInv ==
  /\ InPass => /\ pass.from <= pass.goal /\ pass.goal <= final + Lag
               /\ cursor # Cold => pass.from = cursor + 1
  /\ at = "last" => pass.from < StepTo
  /\ at \in {"first", "last"} => 1 <= Len(record)
HeadInv == Newest <= final + Lag /\ final <= Newest /\ cursor <= final + Lag

(* The trail ends at the cursor, or at the header just read.               *)
TopInv ==
  /\ at \notin {"last", "search"} => \A h \in DOMAIN trail : h <= cursor
  /\ at = "last" => \A h \in DOMAIN trail : h <= pass.from
  /\ at = "search" => /\ claim.from <= claim.to /\ claim.from <= final + Lag
                      /\ cursor # Cold => claim.from <= cursor + 1

(* A hash is as old as the fork that made it, and what was cut off is not  *)
(* made again.                                                             *)
HashInv ==
  /\ \A b \in DOMAIN chain : chain[b] <= forks
  /\ \A h \in DOMAIN trail : trail[h] <= forks /\ (h \notin DOMAIN chain => trail[h] < forks)

BaseInv == TypeInv /\ PlanInv /\ HeadInv /\ TopInv /\ HashInv

-----------------------------------------------------------------------------
(* The chain still has the block whose hash is held.                       *)
Matches(h) == h \in DOMAIN chain /\ chain[h] = trail[h]

(* No reorganisation is invented.  A block from which on the trail holds   *)
(* nothing that the chain still has, and below which it holds something,   *)
(* was replaced once more than the record says: a claim of it can be made  *)
(* once.  In a search, so were all from the claim on.                      *)
Claims(b) == {j \in Reorgs : record[j].from <= b /\ b <= record[j].to}
Spare(b) == Cardinality(Claims(b)) + 1 <= forks
ReplacedFrom(S, b) ==
  (\E l \in S : l <= b) /\ \A g \in S : b <= g => ~Matches(g)

ReorgInv ==
  /\ \A b \in Nat : Cardinality(Claims(b)) <= forks
  /\ at # "search" =>
       \A t \in DOMAIN trail : \A b \in 0 .. t : ReplacedFrom(DOMAIN trail, b) => Spare(b)
  /\ at = "search" =>
       \A b \in 0 .. claim.to : claim.from <= b \/ ReplacedFrom(Held, b) => Spare(b)

-----------------------------------------------------------------------------
(* None is missed, while the chain holds still within a step, headers are  *)
(* read and reorganisations recorded.  The rows of this process that the   *)
(* cursor advanced over, and of each the blocks that no reorganisation     *)
(* contradicts.                                                            *)
Kept == Read \cap kept
LiveRow(i, b) == i \in Kept /\ b \in DOMAIN record[i].blocks /\ ~Superseded(i, b)
(* The hashes in use: in a search those it may still ask about.  A block   *)
(* below the cursor by the lag is final, as the genesis block is.          *)
Trailed == IF at = "search" THEN Held ELSE DOMAIN trail
Settled(h) == h = 0 \/ h <= cursor - Lag

(* A step in hand: its blocks are there, and its row is the record's last. *)
StepInv ==
  /\ InPass => pass.goal \in DOMAIN chain
  /\ at \in {"first", "last"} =>
       /\ Len(record) \in LogsRead /\ boot < Len(record)
       /\ record[Len(record)].blocks = [b \in pass.from .. StepTo |-> chain[b]]
  /\ at = "search" => claim.to = cursor /\ 1 <= claim.from /\ claim.from <= Newest
  /\ cursor = Cold => Kept = {}

(* From any block captured to the cursor, every block has a row that       *)
(* stands.                                                                 *)
LiveInv ==
  /\ \A i \in Kept : DOMAIN record[i].blocks # {}
  /\ \A i \in Kept : \A b \in DOMAIN record[i].blocks :
       LiveRow(i, b) => b <= cursor
  /\ \A i \in Kept : \A m \in DOMAIN record[i].blocks : \A b \in m .. cursor :
       \E k \in Kept : LiveRow(k, b)

NoneLive == \A i \in Kept : \A b \in DOMAIN record[i].blocks : ~LiveRow(i, b)
CurrentTo(h) ==
  \A i \in Kept : \A b \in DOMAIN record[i].blocks :
    LiveRow(i, b) /\ b <= h => ~Stale(i, b)

(* Between steps the trail ends at the cursor; once the first header of a  *)
(* step agreed, all that is held and captured is of the chain as it is.    *)
EndInv ==
  /\ at \notin {"last", "search"} =>
       IF DOMAIN trail = {} THEN NoneLive ELSE cursor \in DOMAIN trail
  /\ at = "last" => /\ pass.from \in DOMAIN trail
                    /\ \A h \in DOMAIN trail : Matches(h)
                    /\ CurrentTo(cursor)

(* A held hash that the chain still has vouches for all below it.          *)
LinkInv ==
  \A h \in Trailed : Matches(h) =>
    (\A g \in Trailed : g < h => Matches(g)) /\ CurrentTo(h)

SettledInv == \A h \in Trailed : Settled(h) => Matches(h)

(* The trail has two hashes a step: no gap is wider than a span.           *)
GapInv ==
  \A h, l \in Trailed : l < h => \E g \in Trailed : g < h /\ h - MaxSpan <= g

(* A search comes to a held hash that stands, or runs out below every row: *)
(* what trim drops is never all there was to hold on to.                   *)
Under(a) == \A i \in Kept : \A b \in DOMAIN record[i].blocks : LiveRow(i, b) => a <= b
AnchorInv ==
  \/ NoneLive
  \/ \E a \in Trailed : Under(a) \/ (a <= final /\ Matches(a))
  \/ at = "search" /\ Under(claim.from)

MainInv == StepInv /\ LiveInv /\ EndInv /\ LinkInv /\ SettledInv /\ GapInv /\ AnchorInv

CursorInv == BaseInv /\ (Undisturbed => MainInv)

-----------------------------------------------------------------------------
(* A set of naturals that is not empty has a least element.                *)
LEMMA LeastNat ==
  ASSUME NEW S \in SUBSET Nat, S # {}
  PROVE  \E x \in S : \A y \in S : x <= y
<1>1. IsWellFoundedOn(OpToRel(<, Nat), Nat)
  BY NatLessThanWellFounded
<1>2. PICK m \in S : \A k \in S : ~(<<k, m>> \in OpToRel(<, Nat))
  BY <1>1, WFMin
<1>3. \A k \in S : ~(k < m)
  BY <1>2 DEF OpToRel
<1> QED BY <1>3

(* One with an upper bound has a greatest element.                         *)
LEMMA GreatestNat ==
  ASSUME NEW S \in SUBSET Nat, S # {}, NEW b \in Nat, \A k \in S : k <= b
  PROVE  Max(S) \in S /\ \A k \in S : k <= Max(S)
<1> DEFINE Bounds == {u \in Nat : \A k \in S : k <= u}
<1>1. Bounds \in SUBSET Nat /\ Bounds # {}
  OBVIOUS
<1>2. PICK u \in Bounds : \A v \in Bounds : u <= v
  BY <1>1, LeastNat
<1>3. \E x \in S : \A y \in S : x >= y
  <2>1. CASE u \in S
    BY <2>1
  <2>2. CASE u \notin S
    <3>1. \A k \in S : k < u
      BY <2>2
    <3>2. PICK k \in S : TRUE
      OBVIOUS
    <3>3. u - 1 \in Nat /\ \A j \in S : j <= u - 1
      BY <3>1, <3>2
    <3> QED BY <1>2, <3>3
  <2> QED BY <2>1, <2>2
<1>4. Max(S) \in S /\ \A y \in S : Max(S) >= y
  BY <1>3 DEF Max
<1> QED BY <1>4

LEMMA MaxIs ==
  ASSUME NEW S \in SUBSET Nat, NEW n \in S, \A k \in S : k <= n
  PROVE  Max(S) = n
<1>1. Max(S) \in S /\ \A k \in S : k <= Max(S)
  BY GreatestNat
<1>2. Max(S) <= n /\ n <= Max(S) /\ n \in Nat /\ Max(S) \in Nat
  BY <1>1
<1> QED BY <1>2

LEMMA RangeMax == ASSUME NEW n \in Nat PROVE Max(0 .. n) = n
BY MaxIs

-----------------------------------------------------------------------------
(* What the invariant says of the numbers alone.                           *)
LEMMA Nats ==
  ASSUME Params, BaseInv
  PROVE  /\ Lag \in Nat /\ Depth \in Nat /\ MaxSpan \in Nat /\ 1 <= MaxSpan
         /\ Newest \in Nat /\ final \in Nat /\ forks \in Nat
         /\ cursor \in Int /\ -1 <= cursor /\ (cursor # Cold => cursor \in Nat)
         /\ span \in Nat /\ 1 <= span /\ span <= MaxSpan
         /\ pass.from \in Nat /\ pass.goal \in Nat
         /\ claim.from \in Nat /\ claim.to \in Nat
         /\ Newest <= final + Lag /\ final <= Newest /\ cursor <= final + Lag
<1>1. Lag \in Nat /\ Depth \in Nat /\ MaxSpan \in Nat /\ 1 <= MaxSpan
  BY DEF Params, DepthAssumption, PagingAssumption
<1>2. Newest \in Nat /\ final \in Nat /\ forks \in Nat
  BY DEF BaseInv, TypeInv
<1>3. cursor \in Int /\ -1 <= cursor /\ (cursor # Cold => cursor \in Nat)
  BY DEF BaseInv, TypeInv, Cold
<1>4. span \in Nat /\ 1 <= span /\ span <= MaxSpan
  BY <1>1 DEF BaseInv, TypeInv
<1>5. /\ pass.from \in Nat /\ pass.goal \in Nat
      /\ claim.from \in Nat /\ claim.to \in Nat
  BY DEF BaseInv, TypeInv
<1>6. Newest <= final + Lag /\ final <= Newest /\ cursor <= final + Lag
  BY DEF BaseInv, HeadInv
<1> QED BY <1>1, <1>2, <1>3, <1>4, <1>5, <1>6

LEMMA Maps ==
  ASSUME BaseInv
  PROVE  /\ Newest \in Nat /\ chain \in [0 .. Newest -> Nat]
         /\ DOMAIN chain = 0 .. Newest
         /\ \A h \in DOMAIN trail : h \in Nat /\ trail[h] \in Nat
         /\ \A b \in DOMAIN chain : b \in Nat /\ chain[b] \in Nat
<1>1. Newest \in Nat /\ chain \in [0 .. Newest -> Nat]
  BY DEF BaseInv, TypeInv
<1>2. DOMAIN trail \subseteq Nat /\ trail \in [DOMAIN trail -> Nat]
  BY DEF BaseInv, TypeInv
<1> QED BY <1>1, <1>2

-----------------------------------------------------------------------------
(* The operators of the loop.                                              *)
LEMMA StepToRange ==
  ASSUME Params, TypeInv, PlanInv, InPass
  PROVE  /\ StepTo \in Nat /\ pass.from <= StepTo /\ StepTo <= pass.goal
         /\ StepTo < pass.from + MaxSpan
<1>1. pass.from \in Nat /\ pass.goal \in Nat /\ pass.from <= pass.goal
  BY DEF TypeInv, PlanInv
<1>2. MaxSpan \in Nat /\ span \in 1 .. MaxSpan
  BY DEF Params, PagingAssumption, TypeInv
<1> QED BY <1>1, <1>2 DEF StepTo, Smaller

LEMMA SpansInRange ==
  ASSUME Params, TypeInv
  PROVE  Widened \in 1 .. MaxSpan
<1>1. MaxSpan \in Nat /\ span \in 1 .. MaxSpan
  BY DEF Params, PagingAssumption, TypeInv
<1> QED BY <1>1 DEF Widened, Smaller

(* Every hash held is below the header that is asked for.                  *)
LEMMA HeldBelowAsked ==
  ASSUME Params, BaseInv, at \in {"first", "last"}
  PROVE  \A h \in DOMAIN trail : h \in Nat /\ h < Asked
<1> SUFFICES ASSUME NEW h \in DOMAIN trail PROVE h \in Nat /\ h < Asked
  OBVIOUS
<1>1. h \in Nat /\ InPass /\ pass.from \in Nat /\ cursor \in Int
  BY Maps, Nats DEF InPass
<1>2. CASE at = "first"
  <2>1. h <= cursor
    BY <1>2 DEF BaseInv, TopInv
  <2>2. cursor # Cold
    BY <1>1, <2>1 DEF Cold
  <2>3. pass.from = cursor + 1 /\ Asked = pass.from
    BY <1>1, <1>2, <2>2 DEF BaseInv, PlanInv, Asked
  <2> QED BY <1>1, <2>1, <2>3
<1>3. CASE at = "last"
  <2>1. h <= pass.from /\ pass.from < StepTo /\ Asked = StepTo
    BY <1>3 DEF BaseInv, TopInv, PlanInv, Asked
  <2>2. StepTo \in Nat
    BY <1>1, StepToRange DEF BaseInv
  <2> QED BY <1>1, <2>1, <2>2
<1> QED BY <1>2, <1>3

(* trim keeps the newest height and those no more than the depth below it. *)
LEMMA TrimIs ==
  ASSUME Params, NEW T, DOMAIN T \subseteq Nat, NEW n \in DOMAIN T, \A h \in DOMAIN T : h <= n
  PROVE  Trim(T) = [h \in {g \in DOMAIN T : g >= n - Depth} |-> T[h]]
<1>1. Max(DOMAIN T) = n
  BY MaxIs
<1> QED BY <1>1 DEF Trim

(* A header that is linked, or is not known not to be, extends the trail.  *)
LEMMA AgreedTrail ==
  ASSUME Params, BaseInv, at \in {"first", "last"}, Asked \in DOMAIN chain,
         ~Disagrees(trail, Header(Asked))
  PROVE  LET new == Advance(trail, Header(Asked))
         IN  /\ new \in [DOMAIN new -> Nat]
             /\ DOMAIN new = {g \in DOMAIN trail : g >= Asked - Depth} \cup {Asked}
             /\ \A h \in DOMAIN trail : h < Asked /\ (h \in DOMAIN new => new[h] = trail[h])
             /\ new[Asked] = chain[Asked]
<1> DEFINE T == Extended(trail, Header(Asked))
<1>1. Asked \in Nat /\ chain[Asked] \in Nat
  BY DEF BaseInv, TypeInv
<1>2. \A h \in DOMAIN trail : h < Asked
  BY HeldBelowAsked
<1>3. /\ DOMAIN T = DOMAIN trail \cup {Asked} /\ T[Asked] = chain[Asked]
      /\ \A h \in DOMAIN trail : T[h] = trail[h]
  BY <1>1, <1>2 DEF Extended, Header, BaseInv, TypeInv
<1>4. Advance(trail, Header(Asked)) = Trim(T)
  BY DEF Advance
<1>5. DOMAIN T \subseteq Nat /\ Asked \in DOMAIN T /\ \A h \in DOMAIN T : h <= Asked
  BY <1>1, <1>2, <1>3 DEF BaseInv, TypeInv
<1> HIDE DEF T
<1>6. Trim(T) = [h \in {g \in DOMAIN T : g >= Asked - Depth} |-> T[h]]
  BY <1>5, TrimIs
<1>7. \A h \in DOMAIN T : T[h] \in Nat
  BY <1>1, <1>3 DEF BaseInv, TypeInv
<1>8. Asked >= Asked - Depth
  BY <1>1 DEF Params, DepthAssumption
<1> QED BY <1>1, <1>2, <1>3, <1>4, <1>6, <1>7, <1>8

(* A header that contradicts it leaves what is below the parent, and the   *)
(* claim is of the parent's height alone.                                  *)
LEMMA ContradictedTrail ==
  ASSUME Params, BaseInv, at \in {"first", "last"}, Asked \in DOMAIN chain,
         Disagrees(trail, Header(Asked))
  PROVE  LET new == Advance(trail, Header(Asked))
         IN  /\ Asked \in Nat /\ 1 <= Asked
             /\ Asked - 1 \in DOMAIN trail /\ \A h \in DOMAIN trail : h <= Asked - 1
             /\ ~Matches(Asked - 1)
             /\ Claim(trail, Header(Asked)) = [from |-> Asked - 1, to |-> Asked - 1]
             /\ new \in [DOMAIN new -> Nat]
             /\ DOMAIN new = {g \in DOMAIN trail : g < Asked - 1 /\ g >= Asked - Depth}
                               \cup {Asked}
             /\ \A h \in DOMAIN trail : h \in DOMAIN new => new[h] = trail[h]
             /\ new[Asked] = chain[Asked]
<1> DEFINE F == ForgetFrom(trail, Asked - 1)
           T == Extended(F, Header(Asked))
<1>1. Asked \in Nat /\ chain[Asked] \in Nat /\ Header(Asked).number = Asked
  BY DEF BaseInv, TypeInv, Header
<1>2. Asked - 1 \in DOMAIN trail /\ 1 <= Asked /\ trail[Asked - 1] # Header(Asked).parent
  BY <1>1 DEF Disagrees, BaseInv, TypeInv
<1>3. ~Matches(Asked - 1)
  BY <1>1, <1>2 DEF Matches, Header
<1>4. \A h \in DOMAIN trail : h <= Asked - 1
  BY <1>1, HeldBelowAsked
<1>5. Max(DOMAIN trail) = Asked - 1
  BY <1>2, <1>4, MaxIs DEF BaseInv, TypeInv
<1>6. Claim(trail, Header(Asked)) = [from |-> Asked - 1, to |-> Asked - 1]
  BY <1>1, <1>5 DEF Claim
<1>7. /\ DOMAIN T = {g \in DOMAIN trail : g < Asked - 1} \cup {Asked} /\ T[Asked] = chain[Asked]
      /\ \A h \in DOMAIN trail : h < Asked - 1 => T[h] = trail[h]
  BY <1>1, <1>4 DEF Extended, Header, ForgetFrom, BaseInv, TypeInv
<1>8. Advance(trail, Header(Asked)) = Trim(T)
  BY <1>1 DEF Advance
<1>9. DOMAIN T \subseteq Nat /\ Asked \in DOMAIN T /\ \A h \in DOMAIN T : h <= Asked
  BY <1>1, <1>4, <1>7 DEF BaseInv, TypeInv
<1> HIDE DEF T
<1>10. Trim(T) = [h \in {g \in DOMAIN T : g >= Asked - Depth} |-> T[h]]
  BY <1>9, TrimIs
<1>11. \A h \in DOMAIN T : T[h] \in Nat
  BY <1>1, <1>7 DEF BaseInv, TypeInv
<1>12. Asked >= Asked - Depth
  BY <1>1 DEF Params, DepthAssumption
<1>13. /\ DOMAIN Trim(T) = {g \in DOMAIN trail : g < Asked - 1 /\ g >= Asked - Depth} \cup {Asked}
       /\ \A h \in DOMAIN Trim(T) : Trim(T)[h] = T[h]
  BY <1>7, <1>10, <1>12
<1>14. Trim(T) \in [DOMAIN Trim(T) -> Nat]
  BY <1>7, <1>10, <1>11
<1>15. \A h \in DOMAIN trail : h \in DOMAIN Trim(T) => Trim(T)[h] = trail[h]
  BY <1>1, <1>4, <1>7, <1>13 DEF BaseInv, TypeInv
<1> QED BY <1>1, <1>2, <1>3, <1>4, <1>6, <1>7, <1>8, <1>13, <1>14, <1>15

-----------------------------------------------------------------------------
(* The chain and the loop keep to the heads there have been.               *)
LEMMA ChainNewest ==
  ASSUME NEW n \in Nat, DOMAIN chain = 0 .. n
  PROVE  Newest = n
BY RangeMax DEF Newest

LEMMA BaseInit ==
  ASSUME Params, Init
  PROVE  BaseInv
<1>1. Newest = Start /\ Start \in Nat
  BY ChainNewest DEF Init, Params, BoundsAssumption
<1>2. TypeInv
  BY <1>1 DEF Init, Params, PagingAssumption, TypeInv, Larger, Cold, EmptyTrail, NoPass, NoClaim
<1>3. PlanInv
  BY DEF Init, PlanInv, InPass
<1>4. HeadInv
  BY <1>1 DEF Init, Params, PagingAssumption, HeadInv, Larger, Cold
<1>5. TopInv /\ HashInv
  BY <1>1 DEF Init, TopInv, HashInv, EmptyTrail
<1> QED BY <1>2, <1>3, <1>4, <1>5 DEF BaseInv

LEMMA MineBase ==
  ASSUME Params, BaseInv, Mine
  PROVE  BaseInv' /\ Newest' = Newest + 1 /\ final <= final'
<1> DEFINE n == Newest
<1> HIDE DEF n
<1>1. n \in Nat /\ DOMAIN chain = 0 .. n /\ n = Newest
  BY DEF BaseInv, TypeInv, n
<1>2. chain' = [b \in 0 .. n + 1 |-> IF b <= n THEN chain[b] ELSE forks]
  BY <1>1 DEF Mine
<1>3. /\ chain' \in [0 .. n + 1 -> Nat]
      /\ \A b \in 0 .. n : chain'[b] = chain[b]
      /\ chain'[n + 1] = forks
  <2>1. forks \in Nat /\ chain \in [0 .. n -> Nat]
    BY <1>1 DEF BaseInv, TypeInv
  <2> QED BY <1>1, <1>2, <2>1
<1>4. Newest' = n + 1
  <2>1. DOMAIN chain' = 0 .. n + 1 /\ n + 1 \in Nat
    BY <1>1, <1>3
  <2> QED BY <2>1, RangeMax DEF Newest
<1>5. final' \in Nat /\ final <= final' /\ n + 1 <= final' + Lag /\ final' <= n + 1
  <2>1. final' = Final(n + 1)
    BY <1>1 DEF Mine
  <2>2. final \in Nat /\ Lag \in Nat /\ final <= n /\ n <= final + Lag
    BY <1>1, Nats
  <2> QED BY <1>1, <2>1, <2>2 DEF Final, Larger
<1>6. UNCHANGED <<forks, mishaps, loop, record, boot>>
  BY DEF Mine
<1>7. TypeInv'
  BY <1>1, <1>3, <1>4, <1>5, <1>6 DEF BaseInv, TypeInv, loop, mishaps
<1>8. UNCHANGED <<cursor, trail, span, at, pass, claim, record>>
  BY <1>6 DEF loop
<1>9. PlanInv'
  <2>1. UNCHANGED <<InPass, StepTo>>
    BY <1>8 DEF InPass, StepTo, Smaller
  <2> QED BY <1>5, <1>8, <2>1, Nats DEF BaseInv, PlanInv
<1>10. HeadInv' /\ TopInv'
  <2>1. HeadInv'
    BY <1>4, <1>5, <1>8, Nats DEF HeadInv
  <2>2. TopInv'
    BY <1>5, <1>8, Nats DEF BaseInv, TopInv
  <2> QED BY <2>1, <2>2
<1>11. HashInv'
  <2>1. \A b \in DOMAIN chain' : chain'[b] <= forks
    <3>1. \A b \in 0 .. n : chain[b] <= forks
      BY <1>1 DEF BaseInv, HashInv
    <3>2. DOMAIN chain' = 0 .. n + 1 /\ forks <= forks
      BY <1>3, Nats
    <3>3. \A b \in 0 .. n + 1 : b \in 0 .. n \/ b = n + 1
      BY <1>1
    <3> QED BY <1>3, <3>1, <3>2, <3>3
  <2>2. trail' = trail /\ forks' = forks
    BY <1>6 DEF loop
  <2>3. \A h \in DOMAIN trail : h \notin DOMAIN chain' => h \notin DOMAIN chain
    BY <1>1, <1>3
  <2>4. \A h \in DOMAIN trail : trail[h] <= forks /\ (h \notin DOMAIN chain => trail[h] < forks)
    BY DEF BaseInv, HashInv
  <2> QED BY <2>1, <2>2, <2>3, <2>4 DEF HashInv
<1> QED BY <1>1, <1>4, <1>5, <1>7, <1>9, <1>10, <1>11 DEF BaseInv

(* The chain after a fork: new from some height above finality on.         *)
LEMMA ForkBase ==
  ASSUME Params, BaseInv, Fork
  PROVE  /\ BaseInv' /\ final <= final'
         /\ \E from \in Nat : \E tip \in Nat :
              /\ final < from /\ from <= tip /\ tip <= Newest
              /\ DOMAIN chain' = 0 .. tip
              /\ \A b \in 0 .. tip : chain'[b] = IF b < from THEN chain[b] ELSE forks + 1
              /\ \/ at \in {"idle", "stopped"}
                 \/ at = "logs" /\ pass.goal <= tip
                 \/ "fork_in_pass" \in struck'
<1> DEFINE n == Newest
<1> HIDE DEF n
<1>1. n \in Nat /\ DOMAIN chain = 0 .. n /\ n = Newest
  BY DEF BaseInv, TypeInv, n
<1>2. PICK from \in final + 1 .. n : \E tip \in from .. n :
       /\ IF at \in {"idle", "stopped"} \/ (at = "logs" /\ pass.goal <= tip)
          THEN UNCHANGED struck
          ELSE "fork_in_pass" \in Hazards /\ struck' = struck \cup {"fork_in_pass"}
       /\ chain' = [b \in 0 .. tip |-> IF b < from THEN chain[b] ELSE forks + 1]
       /\ final' = Final(tip)
  BY <1>1 DEF Fork
<1>3. PICK tip \in from .. n :
       /\ IF at \in {"idle", "stopped"} \/ (at = "logs" /\ pass.goal <= tip)
          THEN UNCHANGED struck
          ELSE "fork_in_pass" \in Hazards /\ struck' = struck \cup {"fork_in_pass"}
       /\ chain' = [b \in 0 .. tip |-> IF b < from THEN chain[b] ELSE forks + 1]
       /\ final' = Final(tip)
  BY <1>2
<1>4. from \in Nat /\ tip \in Nat /\ final < from /\ from <= tip /\ tip <= n
  BY <1>1, <1>2, <1>3 DEF BaseInv, TypeInv
<1>5. forks \in Nat /\ forks' = forks + 1 /\ chain \in [0 .. n -> Nat]
  BY <1>1 DEF Fork, BaseInv, TypeInv
<1>6. /\ chain' \in [0 .. tip -> Nat] /\ DOMAIN chain' = 0 .. tip
      /\ \A b \in 0 .. tip : chain'[b] = IF b < from THEN chain[b] ELSE forks + 1
  <2>1. chain' = [b \in 0 .. tip |-> IF b < from THEN chain[b] ELSE forks + 1]
    BY <1>3
  <2>2. \A b \in 0 .. tip : b \in 0 .. n /\ chain[b] \in Nat
    BY <1>1, <1>4, <1>5
  <2> QED BY <1>5, <2>1, <2>2
<1>7. Newest' = tip
  BY <1>4, <1>6, RangeMax DEF Newest
<1>8. final' \in Nat /\ final <= final' /\ tip <= final' + Lag /\ final' <= tip
  <2>1. final' = Final(tip)
    BY <1>3
  <2>2. final \in Nat /\ Lag \in Nat
    BY Nats
  <2> QED BY <1>4, <2>1, <2>2 DEF Final, Larger
<1>9. UNCHANGED <<faults, loop, record, boot>>
  BY DEF Fork
<1>n. UNCHANGED <<cursor, trail, span, at, pass, claim, record, kept, boot, faults>>
  BY <1>9 DEF loop
<1>10. TypeInv'
  <2>1. /\ Newest' \in Nat /\ chain' \in [0 .. Newest' -> Nat]
        /\ final' \in Nat /\ forks' \in Nat
    BY <1>4, <1>5, <1>6, <1>7, <1>8
  <2> QED BY <1>n, <2>1 DEF BaseInv, TypeInv
<1>11. PlanInv'
  <2>1. UNCHANGED <<InPass, StepTo>>
    BY <1>n DEF InPass, StepTo, Smaller
  <2>2. final <= final' /\ final \in Nat /\ final' \in Nat /\ Lag \in Nat /\ pass.goal \in Nat
    BY <1>8, Nats
  <2> QED BY <1>n, <2>1, <2>2 DEF BaseInv, PlanInv
<1>12. HeadInv'
  BY <1>7, <1>8, <1>n, Nats DEF HeadInv
<1>13. TopInv'
  BY <1>8, <1>n, Nats DEF BaseInv, TopInv
<1>14. HashInv'
  <2>1. \A b \in DOMAIN chain' : chain'[b] <= forks'
    <3> SUFFICES ASSUME NEW b \in 0 .. tip
                 PROVE  chain'[b] <= forks'
      BY <1>6
    <3>1. b \in DOMAIN chain
      BY <1>1, <1>4
    <3>2. chain[b] <= forks /\ chain[b] \in Nat
      BY <3>1, Maps DEF BaseInv, HashInv
    <3> QED BY <1>5, <1>6, <3>2
  <2>2. trail' = trail
    BY <1>9 DEF loop
  <2>3. \A h \in DOMAIN trail : trail[h] <= forks /\ trail[h] \in Nat
    BY DEF BaseInv, TypeInv, HashInv
  <2>4. \A h \in DOMAIN trail : trail[h] <= forks' /\ trail[h] < forks'
    BY <1>5, <2>3
  <2> QED BY <2>1, <2>2, <2>4 DEF HashInv
<1>15. \/ at \in {"idle", "stopped"}
       \/ at = "logs" /\ pass.goal <= tip
       \/ "fork_in_pass" \in struck'
  BY <1>3
<1> QED BY <1>1, <1>4, <1>6, <1>8, <1>10, <1>11, <1>12, <1>13, <1>14, <1>15 DEF BaseInv

-----------------------------------------------------------------------------
(* Appending to the record.                                                *)
RecordRows == Seq(LogRow \cup ReorgRow)
RecordOK == /\ record \in RecordRows
            /\ kept \subseteq 1 .. Len(record) /\ boot \in 0 .. Len(record)

LEMMA RowTypes ==
  ASSUME BaseInv, NEW from \in Nat, NEW to \in Nat
  PROVE  Logs(from, to) \in LogRow /\ Reorg(from, to) \in ReorgRow
<1>1. (from .. to) \cap DOMAIN chain \in SUBSET Nat
  BY Maps
<1>2. [b \in (from .. to) \cap DOMAIN chain |-> chain[b]] \in
        [(from .. to) \cap DOMAIN chain -> Nat]
  BY Maps
<1>3. [b \in (from .. to) \cap DOMAIN chain |-> chain[b]] \in
        UNION {[D -> Nat] : D \in SUBSET Nat}
  BY <1>1, <1>2
<1> QED BY <1>3 DEF Logs, Reorg, LogRow, ReorgRow

LEMMA Appended ==
  ASSUME RecordOK, NEW row \in LogRow \cup ReorgRow
  PROVE  LET longer == Append(record, row)
         IN  /\ longer \in RecordRows /\ Len(longer) = Len(record) + 1
             /\ Len(record) \in Nat /\ DOMAIN record = 1 .. Len(record)
             /\ DOMAIN longer = 1 .. Len(record) + 1
             /\ \A i \in DOMAIN record : longer[i] = record[i]
             /\ longer[Len(record) + 1] = row
             /\ kept \subseteq 1 .. Len(longer) /\ boot \in 0 .. Len(longer)
<1>1. record \in Seq(LogRow \cup ReorgRow)
  BY DEF RecordOK, RecordRows
<1>2. Len(record) \in Nat /\ DOMAIN record = 1 .. Len(record)
  BY <1>1
<1>3. /\ Append(record, row) \in Seq(LogRow \cup ReorgRow)
      /\ Len(Append(record, row)) = Len(record) + 1
  BY <1>1
<1>4. /\ \A i \in 1 .. Len(record) : Append(record, row)[i] = record[i]
      /\ Append(record, row)[Len(record) + 1] = row
  BY <1>1
<1>5. DOMAIN Append(record, row) = 1 .. Len(record) + 1
  BY <1>2, <1>3
<1> QED BY <1>2, <1>3, <1>4, <1>5 DEF RecordOK, RecordRows

-----------------------------------------------------------------------------
(* The loop's steps keep to the chain as it is.                            *)
LEMMA LoopHash ==
  ASSUME BaseInv, UNCHANGED node,
         \A h \in DOMAIN trail' :
           \/ h \in DOMAIN trail /\ trail'[h] = trail[h]
           \/ h \in DOMAIN chain /\ trail'[h] = chain[h]
  PROVE  HashInv'
<1>1. chain' = chain /\ forks' = forks
  BY DEF node
<1>2. /\ \A b \in DOMAIN chain : chain[b] <= forks
      /\ \A h \in DOMAIN trail : trail[h] <= forks /\ (h \notin DOMAIN chain => trail[h] < forks)
  BY DEF BaseInv, HashInv
<1> QED BY <1>1, <1>2 DEF HashInv

LEMMA EndsBase ==
  ASSUME Params, BaseInv, UNCHANGED node, faults' \in Nat,
         NEW s \in 1 .. MaxSpan, Ends(s),
         trail' \in [DOMAIN trail' -> Nat], DOMAIN trail' \subseteq DOMAIN trail,
         \A h \in DOMAIN trail' : trail'[h] = trail[h] /\ h <= cursor',
         cursor' \in Nat \cup {Cold}, cursor' <= final + Lag, RecordOK'
  PROVE  BaseInv'
<1>1. chain' = chain /\ forks' = forks /\ final' = final /\ Newest' = Newest
  BY DEF node, Newest
<1>2. at' = "idle" /\ pass' = NoPass /\ claim' = NoClaim /\ span' = s
  BY DEF Ends
<1>3. DOMAIN trail' \subseteq Nat
  BY Maps
<1>4. TypeInv'
  BY <1>1, <1>2, <1>3 DEF BaseInv, TypeInv, NoPass, NoClaim, RecordOK, RecordRows
<1>5. PlanInv' /\ HeadInv'
  BY <1>1, <1>2 DEF BaseInv, PlanInv, InPass, HeadInv
<1>6. TopInv'
  BY <1>2 DEF TopInv
<1>7. HashInv'
  BY LoopHash
<1> QED BY <1>4, <1>5, <1>6, <1>7 DEF BaseInv

LEMMA BaseRecord == ASSUME BaseInv PROVE RecordOK
BY DEF BaseInv, TypeInv, RecordOK, RecordRows

LEMMA StrikesFaults == ASSUME Params, BaseInv, NEW h, Strikes(h) PROVE faults' \in Nat
BY DEF Strikes, BaseInv, TypeInv

LEMMA TrailBelowCursor ==
  ASSUME BaseInv, at \notin {"last", "search"}
  PROVE  /\ trail \in [DOMAIN trail -> Nat] /\ \A h \in DOMAIN trail : h <= cursor
         /\ cursor \in Nat \cup {Cold} /\ cursor <= final + Lag
         /\ faults \in Nat /\ span \in 1 .. MaxSpan
BY DEF BaseInv, TypeInv, TopInv, HeadInv

LEMMA StartPassBase ==
  ASSUME Params, BaseInv, StartPass
  PROVE  BaseInv'
<1>1. UNCHANGED <<node, mishaps, cursor, trail, kept, record, boot>> /\ at = "idle"
  BY DEF StartPass
<1>2. UNCHANGED <<faults, RecordOK>> /\ RecordOK
  BY <1>1, BaseRecord DEF mishaps, RecordOK
<1>3. CASE Ends(Widened)
  <2>1. Widened \in 1 .. MaxSpan
    BY SpansInRange DEF BaseInv
  <2> QED BY <1>1, <1>2, <1>3, <2>1, EndsBase, TrailBelowCursor
<1>4. CASE ~Ends(Widened)
  <2> DEFINE from == IF cursor = Cold THEN Larger(Newest - Backfill, 0) ELSE cursor + 1
  <2>1. /\ from <= Newest /\ at' = "logs" /\ pass' = [from |-> from, goal |-> Newest]
        /\ UNCHANGED <<span, claim>>
    <3>1. from \in Int
      BY Nats DEF Params, PagingAssumption, Larger
    <3> QED BY <1>4, <3>1, Nats DEF StartPass
  <2>2. from \in Nat /\ (cursor # Cold => from = cursor + 1)
    BY Nats DEF Params, PagingAssumption, Larger
  <2>3. chain' = chain /\ forks' = forks /\ final' = final /\ Newest' = Newest
    BY <1>1 DEF node, Newest
  <2>4. pass' \in [from : Nat, goal : Nat] /\ pass'.from = from /\ pass'.goal = Newest
    BY <2>1, <2>2, Nats
  <2> HIDE DEF from
  <2>5. TypeInv'
    BY <1>1, <1>2, <2>1, <2>3, <2>4 DEF BaseInv, TypeInv, RecordOK, RecordRows
  <2>6. PlanInv' /\ HeadInv'
    BY <1>1, <2>1, <2>2, <2>3, <2>4, Nats DEF PlanInv, InPass, HeadInv
  <2>7. TopInv'
    BY <1>1, <2>1 DEF BaseInv, TopInv
  <2>8. HashInv'
    BY <1>1, LoopHash
  <2> QED BY <2>5, <2>6, <2>7, <2>8 DEF BaseInv
<1> QED BY <1>3, <1>4

(* From its logs the loop goes on to the headers, or stops.                *)
LEMMA LogsBase ==
  ASSUME Params, BaseInv, UNCHANGED <<node, cursor, trail, span, pass, claim, kept, boot>>,
         faults' \in Nat, RecordOK', at = "logs", at' \in {"first", "stopped"},
         at' = "first" => 1 <= Len(record')
  PROVE  BaseInv'
<1>1. chain' = chain /\ forks' = forks /\ final' = final /\ Newest' = Newest
  BY DEF node, Newest
<1>2. TypeInv'
  BY <1>1 DEF BaseInv, TypeInv, RecordOK, RecordRows
<1>3. PlanInv' /\ HeadInv'
  BY <1>1 DEF BaseInv, PlanInv, InPass, HeadInv
<1>4. TopInv'
  BY <1>1 DEF BaseInv, TopInv
<1>5. HashInv'
  BY LoopHash
<1> QED BY <1>2, <1>3, <1>4, <1>5 DEF BaseInv

LEMMA LogsTakenBase ==
  ASSUME Params, BaseInv, LogsTaken
  PROVE  BaseInv' /\ StepTo \in Nat
<1>1. StepTo \in Nat /\ pass.from \in Nat
  <2>1. InPass
    BY DEF LogsTaken, InPass
  <2> QED BY <2>1, StepToRange, Nats DEF BaseInv
<1>2. Logs(pass.from, StepTo) \in LogRow \cup ReorgRow
  BY <1>1, RowTypes
<1>3. RecordOK' /\ 1 <= Len(record')
  BY <1>2, BaseRecord, Appended DEF LogsTaken, RecordOK
<1>4. faults' \in Nat
  BY DEF LogsTaken, mishaps, BaseInv, TypeInv
<1>5. /\ UNCHANGED <<node, cursor, trail, span, pass, claim, kept, boot>>
      /\ at = "logs" /\ at' = "first"
  BY DEF LogsTaken
<1> QED BY <1>1, <1>3, <1>4, <1>5, LogsBase

LEMMA LogsRefusedBase ==
  ASSUME Params, BaseInv, LogsRefused
  PROVE  BaseInv'
<1>1. UNCHANGED <<node, cursor, trail, kept, record, boot>> /\ at = "logs"
  BY DEF LogsRefused
<1>2. faults' \in Nat
  BY StrikesFaults DEF LogsRefused, mishaps, BaseInv, TypeInv
<1>3. RecordOK'
  BY <1>1, BaseRecord DEF RecordOK
<1>4. CASE span <= 1
  BY <1>1, <1>2, <1>3, <1>4, LogsBase DEF LogsRefused
<1>5. CASE ~(span <= 1)
  <2>1. /\ StepTo \in Nat /\ pass.from \in Nat /\ pass.from <= StepTo
        /\ StepTo < pass.from + MaxSpan
    <3>1. InPass
      BY <1>1 DEF InPass
    <3> QED BY <3>1, StepToRange, Nats DEF BaseInv
  <2>2. Narrowed(StepTo - pass.from + 1) \in 1 .. MaxSpan
    BY <2>1, Nats DEF Narrowed, Larger
  <2>3. Ends(Narrowed(StepTo - pass.from + 1))
    BY <1>5 DEF LogsRefused
  <2> QED BY <1>1, <1>2, <1>3, <2>2, <2>3, EndsBase, TrailBelowCursor
<1> QED BY <1>4, <1>5

LEMMA PassFailsBase ==
  ASSUME Params, BaseInv, PassFails
  PROVE  BaseInv'
<1>1. UNCHANGED <<node, cursor, trail, kept, boot>> /\ at = "logs" /\ Ends(span)
  BY DEF PassFails
<1>2. faults' \in Nat
  BY StrikesFaults DEF PassFails
<1>3. StepTo \in Nat /\ pass.from \in Nat
  <2>1. InPass
    BY <1>1 DEF InPass
  <2> QED BY <2>1, StepToRange, Nats DEF BaseInv
<1>4. Logs(pass.from, StepTo) \in LogRow \cup ReorgRow
  BY <1>3, RowTypes
<1>5. record' = record \/ record' = Append(record, Logs(pass.from, StepTo))
  BY DEF PassFails
<1>6. RecordOK'
  BY <1>1, <1>4, <1>5, BaseRecord, Appended DEF RecordOK
<1> QED BY <1>1, <1>2, <1>6, EndsBase, TrailBelowCursor

LEMMA HeaderDoneBase ==
  ASSUME Params, BaseInv, UNCHANGED <<node, record, boot>>, faults' \in Nat,
         at \in {"first", "last"}, HeaderDone, trail' \in [DOMAIN trail' -> Nat],
         \A h \in DOMAIN trail' :
           /\ h \in Nat /\ h <= Asked
           /\ \/ h \in DOMAIN trail /\ trail'[h] = trail[h]
              \/ h \in DOMAIN chain /\ trail'[h] = chain[h]
  PROVE  BaseInv'
<1>1. chain' = chain /\ forks' = forks /\ final' = final /\ Newest' = Newest
  BY DEF node, Newest
<1>2. DOMAIN trail' \subseteq Nat /\ HashInv'
  BY LoopHash
<1>3. /\ StepTo \in Nat /\ pass.from <= StepTo /\ StepTo <= pass.goal
      /\ pass.goal <= final + Lag
  <2>1. InPass
    BY DEF InPass
  <2> QED BY <2>1, StepToRange DEF BaseInv, PlanInv
<1>4. RecordOK /\ 1 <= Len(record) /\ Len(record) \in Nat
  BY BaseRecord DEF BaseInv, TypeInv, PlanInv
<1>5. CASE at = "first" /\ pass.from # StepTo
  <2>1. at' = "last" /\ UNCHANGED <<cursor, span, pass, claim, kept>> /\ StepTo' = StepTo
    BY <1>5 DEF HeaderDone, StepTo, Smaller
  <2>2. TypeInv'
    BY <1>1, <1>2, <2>1 DEF BaseInv, TypeInv
  <2>3. PlanInv' /\ HeadInv'
    BY <1>1, <1>3, <1>4, <1>5, <2>1, Nats DEF BaseInv, PlanInv, InPass, HeadInv
  <2>4. TopInv'
    BY <1>5, <2>1 DEF TopInv, Asked
  <2> QED BY <1>2, <2>2, <2>3, <2>4 DEF BaseInv
<1>6. CASE ~(at = "first" /\ pass.from # StepTo)
  <2>1. /\ cursor' = StepTo /\ kept' = kept \cup {Len(record)}
        /\ IF StepTo >= pass.goal
           THEN Ends(Widened)
           ELSE /\ at' = "logs" /\ pass' = [pass EXCEPT !.from = StepTo + 1]
                /\ UNCHANGED <<span, claim>>
    BY <1>6 DEF HeaderDone
  <2>2. Asked = StepTo
    BY <1>6 DEF Asked
  <2>3. RecordOK'
    BY <1>4, <2>1 DEF RecordOK
  <2>4. \A h \in DOMAIN trail' : h <= cursor'
    BY <2>1, <2>2
  <2>5. CASE StepTo >= pass.goal
    <3>1. Widened \in 1 .. MaxSpan
      BY SpansInRange DEF BaseInv
    <3>2. at' = "idle" /\ pass' = NoPass /\ claim' = NoClaim /\ span' = Widened
      BY <2>1, <2>5 DEF Ends
    <3>3. TypeInv'
      BY <1>1, <1>2, <1>3, <2>1, <2>3, <3>1, <3>2
      DEF BaseInv, TypeInv, NoPass, NoClaim, RecordOK, RecordRows
    <3>4. PlanInv' /\ HeadInv'
      BY <1>1, <1>3, <2>1, <3>2, Nats DEF PlanInv, InPass, HeadInv
    <3>5. TopInv'
      BY <2>4, <3>2 DEF TopInv
    <3> QED BY <1>2, <3>3, <3>4, <3>5 DEF BaseInv
  <2>6. CASE ~(StepTo >= pass.goal)
    <3>1. at' = "logs" /\ pass' = [pass EXCEPT !.from = StepTo + 1] /\ UNCHANGED <<span, claim>>
      BY <2>1, <2>6
    <3>2. pass' \in [from : Nat, goal : Nat] /\ pass'.from = StepTo + 1 /\ pass'.goal = pass.goal
      <4>1. pass \in [from : Nat, goal : Nat]
        BY DEF BaseInv, TypeInv
      <4> QED BY <1>3, <3>1, <4>1
    <3>3. TypeInv'
      BY <1>1, <1>2, <1>3, <2>1, <2>3, <3>1, <3>2 DEF BaseInv, TypeInv, RecordOK, RecordRows
    <3>4. PlanInv' /\ HeadInv'
      <4>1. StepTo + 1 <= pass.goal /\ pass.goal \in Nat
        BY <1>3, <2>6, Nats
      <4>2. PlanInv'
        BY <1>1, <1>3, <2>1, <3>1, <3>2, <4>1 DEF PlanInv, InPass
      <4>3. HeadInv'
        BY <1>1, <1>3, <2>1, Nats DEF HeadInv
      <4> QED BY <4>2, <4>3
    <3>5. TopInv'
      BY <2>4, <3>1 DEF TopInv
    <3> QED BY <1>2, <3>3, <3>4, <3>5 DEF BaseInv
  <2> QED BY <2>5, <2>6
<1> QED BY <1>5, <1>6

LEMMA HeaderAgreesBase ==
  ASSUME Params, BaseInv, HeaderAgrees
  PROVE  BaseInv'
<1>1. /\ UNCHANGED <<node, mishaps, record, boot>> /\ at \in {"first", "last"}
      /\ Asked \in DOMAIN chain /\ ~Disagrees(trail, Header(Asked))
      /\ trail' = Advance(trail, Header(Asked)) /\ HeaderDone
  BY DEF HeaderAgrees
<1>2. /\ trail' \in [DOMAIN trail' -> Nat]
      /\ DOMAIN trail' = {g \in DOMAIN trail : g >= Asked - Depth} \cup {Asked}
      /\ \A h \in DOMAIN trail : h < Asked /\ (h \in DOMAIN trail' => trail'[h] = trail[h])
      /\ trail'[Asked] = chain[Asked]
  BY <1>1, AgreedTrail
<1>3. faults' \in Nat /\ Asked \in Nat
  BY <1>1, Maps DEF mishaps, BaseInv, TypeInv
<1>4. \A h \in DOMAIN trail' :
        /\ h \in Nat /\ h <= Asked
        /\ \/ h \in DOMAIN trail /\ trail'[h] = trail[h]
           \/ h \in DOMAIN chain /\ trail'[h] = chain[h]
  BY <1>1, <1>2, <1>3, Maps
<1> QED BY <1>1, <1>2, <1>3, <1>4, HeaderDoneBase

LEMMA HeaderUnreadBase ==
  ASSUME Params, BaseInv, HeaderUnread
  PROVE  BaseInv'
<1>1. UNCHANGED <<node, trail, record, boot>> /\ at \in {"first", "last"} /\ HeaderDone
  BY DEF HeaderUnread
<1>2. faults' \in Nat
  BY StrikesFaults DEF HeaderUnread, mishaps, BaseInv, TypeInv
<1>3. trail \in [DOMAIN trail -> Nat]
  BY DEF BaseInv, TypeInv
<1>4. \A h \in DOMAIN trail : h \in Nat /\ h <= Asked
  <2>1. InPass /\ pass.from \in Nat
    BY <1>1, Nats DEF InPass
  <2>2. Asked \in Nat
    BY <2>1, StepToRange DEF BaseInv, Asked
  <2> QED BY <1>1, <2>2, HeldBelowAsked
<1> QED BY <1>1, <1>2, <1>3, <1>4, HeaderDoneBase

LEMMA HeaderDisagreesBase ==
  ASSUME Params, BaseInv, HeaderDisagrees
  PROVE  BaseInv'
<1>1. /\ UNCHANGED <<node, mishaps, cursor, span, pass, kept, record, boot>>
      /\ at \in {"first", "last"}
      /\ Asked \in DOMAIN chain /\ Disagrees(trail, Header(Asked)) /\ at' = "search"
      /\ trail' = Advance(trail, Header(Asked)) /\ claim' = Claim(trail, Header(Asked))
  BY DEF HeaderDisagrees
<1>2. /\ Asked \in Nat /\ 1 <= Asked
      /\ Asked - 1 \in DOMAIN trail /\ \A h \in DOMAIN trail : h <= Asked - 1
      /\ claim' = [from |-> Asked - 1, to |-> Asked - 1]
      /\ trail' \in [DOMAIN trail' -> Nat]
      /\ DOMAIN trail' = {g \in DOMAIN trail : g < Asked - 1 /\ g >= Asked - Depth} \cup {Asked}
      /\ \A h \in DOMAIN trail : h \in DOMAIN trail' => trail'[h] = trail[h]
      /\ trail'[Asked] = chain[Asked]
  BY <1>1, ContradictedTrail
<1>3. chain' = chain /\ forks' = forks /\ final' = final /\ Newest' = Newest
  BY <1>1 DEF node, Newest
<1>4. DOMAIN trail' \subseteq Nat
  BY <1>2, Maps
<1>5. TypeInv'
  <2>1. Asked - 1 \in Nat /\ claim' \in [from : Nat, to : Nat] /\ faults' = faults
    BY <1>1, <1>2 DEF mishaps
  <2> QED BY <1>1, <1>2, <1>3, <1>4, <2>1 DEF BaseInv, TypeInv
<1>6. PlanInv' /\ HeadInv'
  BY <1>1, <1>3 DEF BaseInv, PlanInv, InPass, HeadInv
<1>7. TopInv'
  <2>1. Asked - 1 <= final + Lag
    BY <1>1, <1>2, Maps, Nats
  <2>2. cursor # Cold => Asked - 1 <= cursor + 1
    <3>1. InPass
      BY <1>1 DEF InPass
    <3>2. CASE at = "first"
      BY <3>1, <3>2, <1>2, Nats DEF BaseInv, PlanInv, Asked
    <3>3. CASE at = "last"
      BY <3>1, <3>3, <1>2, Nats DEF BaseInv, PlanInv, TopInv
    <3> QED BY <1>1, <3>2, <3>3
  <2> QED BY <1>1, <1>2, <1>3, <2>1, <2>2, Nats DEF TopInv
<1>8. HashInv'
  BY <1>1, <1>2, LoopHash
<1> QED BY <1>5, <1>6, <1>7, <1>8 DEF BaseInv

LEMMA RewindBase ==
  ASSUME Params, BaseInv, at = "search", faults' \in Nat, RecordOK',
         NEW low \in Nat, low <= claim.from, Rewind(low)
  PROVE  BaseInv'
<1>1. /\ trail' = ForgetFrom(trail, low) /\ cursor' = RewindTo(low)
      /\ Ends(Widened) /\ UNCHANGED <<node, kept, boot>>
  BY DEF Rewind
<1>2. /\ DOMAIN trail' = {g \in DOMAIN trail : g < low}
      /\ \A h \in DOMAIN trail' : trail'[h] = trail[h]
      /\ trail' \in [DOMAIN trail' -> Nat]
  BY <1>1, Maps DEF ForgetFrom
<1>3. /\ claim.from <= final + Lag /\ (cursor # Cold => claim.from <= cursor + 1)
  BY DEF BaseInv, TopInv
<1>4. /\ cursor' \in Nat /\ cursor' <= final + Lag
      /\ \A h \in DOMAIN trail' : h <= cursor'
  <2>1. cursor' = RewindTo(low) /\ claim.from \in Nat /\ cursor \in Int /\ -1 <= cursor
        /\ final \in Nat /\ Lag \in Nat /\ cursor <= final + Lag
    BY <1>1, Nats
  <2>2. cursor' \in Nat /\ cursor' <= final + Lag
    BY <1>3, <2>1 DEF RewindTo, Smaller, Larger, Cold
  <2>3. \A h \in Nat : h < low => h <= cursor'
    BY <1>3, <2>1 DEF RewindTo, Smaller, Larger, Cold
  <2> QED BY <1>2, <2>2, <2>3, Maps
<1>5. Widened \in 1 .. MaxSpan
  BY SpansInRange DEF BaseInv
<1> QED BY <1>1, <1>2, <1>4, <1>5, EndsBase

(* The heights a search may still ask for, newest first.                   *)
LEMMA HeldHeights ==
  ASSUME BaseInv
  PROVE  /\ Held = {h \in DOMAIN trail : h < claim.from}
         /\ Held # {} => /\ Max(Held) \in Held /\ Max(Held) \in Nat /\ Max(Held) < claim.from
                         /\ \A h \in Held : h <= Max(Held)
<1>1. Held = {h \in DOMAIN trail : h < claim.from}
  BY DEF Held, HeldBelow
<1>2. claim.from \in Nat /\ Held \in SUBSET Nat /\ \A h \in Held : h <= claim.from
  BY <1>1, Maps DEF BaseInv, TypeInv
<1>3. Held # {} => Max(Held) \in Held /\ \A h \in Held : h <= Max(Held)
  BY <1>2, GreatestNat
<1> QED BY <1>1, <1>2, <1>3

LEMMA StillReplacedBase ==
  ASSUME Params, BaseInv, StillReplaced
  PROVE  BaseInv'
<1>1. /\ at = "search" /\ Readable /\ claim' = [claim EXCEPT !.from = Max(Held)]
      /\ UNCHANGED <<node, mishaps, cursor, trail, span, at, pass, kept, record, boot>>
  BY DEF StillReplaced
<1>2. Max(Held) \in Nat /\ Max(Held) < claim.from
  BY <1>1, HeldHeights DEF Readable
<1>3. claim' \in [from : Nat, to : Nat] /\ claim'.from = Max(Held) /\ claim'.to = claim.to
  BY <1>1, <1>2 DEF BaseInv, TypeInv
<1>4. chain' = chain /\ forks' = forks /\ final' = final /\ Newest' = Newest /\ faults' = faults
  BY <1>1 DEF node, Newest, mishaps
<1>5. TypeInv'
  BY <1>1, <1>3, <1>4 DEF BaseInv, TypeInv
<1>6. PlanInv' /\ HeadInv'
  BY <1>1, <1>4 DEF BaseInv, PlanInv, InPass, HeadInv
<1>7. TopInv'
  BY <1>1, <1>2, <1>3, <1>4, Nats DEF BaseInv, TopInv
<1>8. HashInv'
  BY <1>1, LoopHash
<1> QED BY <1>5, <1>6, <1>7, <1>8 DEF BaseInv

LEMMA RecordedOK ==
  ASSUME Params, BaseInv, NEW low \in Nat, RecordedOrNot(low), UNCHANGED <<kept, boot>>
  PROVE  RecordOK' /\ faults' \in Nat
<1>1. RecordOK /\ Reorg(low, claim.to) \in LogRow \cup ReorgRow
  BY RowTypes, BaseRecord, Nats
<1>2. CASE Recorded(low)
  BY <1>1, <1>2, Appended DEF Recorded, RecordOK, mishaps, BaseInv, TypeInv
<1>3. CASE Strikes("reorg_unrecorded") /\ UNCHANGED record
  BY <1>1, <1>3, StrikesFaults DEF RecordOK
<1> QED BY <1>2, <1>3 DEF RecordedOrNot

LEMMA ForkFoundBase ==
  ASSUME Params, BaseInv, ForkFound
  PROVE  BaseInv'
<1>1. /\ at = "search" /\ Readable /\ RecordedOrNot(Max(Held) + 1) /\ Rewind(Max(Held) + 1)
  BY DEF ForkFound
<1>2. Max(Held) + 1 \in Nat /\ Max(Held) + 1 <= claim.from
  BY <1>1, HeldHeights, Nats DEF Readable
<1>3. RecordOK' /\ faults' \in Nat
  BY <1>1, <1>2, RecordedOK DEF Rewind
<1> QED BY <1>1, <1>2, <1>3, RewindBase

LEMMA SearchEndsBase ==
  ASSUME Params, BaseInv, SearchEnds
  PROVE  BaseInv'
<1>1. /\ at = "search" /\ Rewind(claim.from) /\ claim.from \in Nat /\ claim.to \in Nat
  BY Nats DEF SearchEnds
<1>2. CASE RecordedOrNot(claim.from)
  <2>1. RecordOK' /\ faults' \in Nat
    BY <1>1, <1>2, RecordedOK DEF Rewind
  <2> QED BY <1>1, <2>1, RewindBase
<1>3. CASE Strikes("header_error") /\ record' = Append(record, Reorg(claim.from, claim.to))
  <2>1. Reorg(claim.from, claim.to) \in LogRow \cup ReorgRow
    BY <1>1, RowTypes
  <2>2. RecordOK'
    BY <1>1, <1>3, <2>1, BaseRecord, Appended DEF RecordOK, Rewind
  <2>3. faults' \in Nat
    BY <1>3, StrikesFaults
  <2> QED BY <1>1, <2>2, <2>3, RewindBase
<1> QED BY <1>2, <1>3 DEF SearchEnds

LEMMA RestartBase ==
  ASSUME Params, BaseInv, Restart
  PROVE  BaseInv'
<1>1. /\ UNCHANGED <<node, kept, record>> /\ boot' = Len(record) /\ cursor' = Cold
      /\ trail' = EmptyTrail /\ Ends(MaxSpan)
  BY DEF Restart
<1>2. faults' \in Nat
  BY StrikesFaults DEF Restart
<1>3. RecordOK'
  <2>1. RecordOK /\ Len(record) \in Nat
    BY BaseRecord DEF BaseInv, TypeInv
  <2> QED BY <1>1, <2>1 DEF RecordOK
<1>4. DOMAIN trail' = {} /\ trail' \in [DOMAIN trail' -> Nat]
  BY <1>1 DEF EmptyTrail
<1>5. MaxSpan \in 1 .. MaxSpan /\ cursor' \in Nat \cup {Cold} /\ cursor' <= final + Lag
  BY <1>1, Nats DEF Cold
<1> QED BY <1>1, <1>2, <1>3, <1>4, <1>5, EndsBase

LEMMA BaseNext ==
  ASSUME Params, BaseInv, [Next]_vars
  PROVE  BaseInv'
<1>1. CASE UNCHANGED vars
  <2>1. /\ UNCHANGED <<chain, final, forks, faults, cursor, trail, span, at, pass, claim,
                       record, kept, boot>>
        /\ UNCHANGED <<Newest, InPass, StepTo>>
    BY <1>1 DEF vars, node, mishaps, loop, Newest, InPass, StepTo, Smaller
  <2> QED BY <2>1 DEF BaseInv, TypeInv, PlanInv, HeadInv, TopInv, HashInv
<1>2. CASE Mine
  BY <1>2, MineBase
<1>3. CASE Fork
  BY <1>3, ForkBase
<1>4. CASE Loop
  BY <1>4, StartPassBase, LogsTakenBase, LogsRefusedBase, PassFailsBase, HeaderAgreesBase,
     HeaderUnreadBase, HeaderDisagreesBase, StillReplacedBase, ForkFoundBase, SearchEndsBase
  DEF Loop
<1>5. CASE Restart
  BY <1>5, RestartBase
<1> QED BY <1>1, <1>2, <1>3, <1>4, <1>5 DEF Next

-----------------------------------------------------------------------------
(* How many reorganisations of a block the record has.                     *)
LEMMA ClaimsFinite ==
  ASSUME BaseInv, NEW b
  PROVE  IsFiniteSet(Claims(b)) /\ Cardinality(Claims(b)) \in Nat
<1>1. Len(record) \in Nat /\ DOMAIN record = 1 .. Len(record)
  BY DEF BaseInv, TypeInv
<1>2. IsFiniteSet(1 .. Len(record))
  BY <1>1, FS_Interval
<1>3. Claims(b) \subseteq 1 .. Len(record)
  BY <1>1 DEF Claims, Reorgs
<1> QED BY <1>2, <1>3, FS_Subset, FS_CardinalityType

LEMMA ClaimsSame ==
  ASSUME UNCHANGED record
  PROVE  \A b : Claims(b)' = Claims(b)
BY DEF Claims, Reorgs

LEMMA ClaimsOfLogs ==
  ASSUME BaseInv, NEW from \in Nat, NEW to \in Nat,
         record' = Append(record, Logs(from, to)), UNCHANGED <<kept, boot>>
  PROVE  \A b : Claims(b)' = Claims(b)
<1>1. Logs(from, to) \in LogRow \cup ReorgRow /\ Logs(from, to).reorg = FALSE
  BY RowTypes DEF Logs
<1>2. /\ Len(record) \in Nat /\ DOMAIN record = 1 .. Len(record)
      /\ DOMAIN record' = 1 .. Len(record) + 1
      /\ \A i \in DOMAIN record : record'[i] = record[i]
      /\ record'[Len(record) + 1] = Logs(from, to)
  BY <1>1, BaseRecord, Appended
<1>3. Reorgs' = Reorgs
  BY <1>1, <1>2 DEF Reorgs
<1> QED BY <1>2, <1>3 DEF Claims, Reorgs

LEMMA ClaimsOfReorg ==
  ASSUME BaseInv, NEW low \in Nat,
         record' = Append(record, Reorg(low, claim.to)), UNCHANGED <<kept, boot>>,
         NEW b \in Nat
  PROVE  /\ Cardinality(Claims(b)') <= Cardinality(Claims(b)) + 1
         /\ Cardinality(Claims(b)') \in Nat
         /\ ~(low <= b /\ b <= claim.to) => Claims(b)' = Claims(b)
<1>1. claim.to \in Nat
  BY DEF BaseInv, TypeInv
<1>2. /\ Reorg(low, claim.to) \in LogRow \cup ReorgRow /\ Reorg(low, claim.to).reorg
      /\ Reorg(low, claim.to).from = low /\ Reorg(low, claim.to).to = claim.to
  BY <1>1, RowTypes DEF Reorg
<1>3. /\ Len(record) \in Nat /\ DOMAIN record = 1 .. Len(record)
      /\ DOMAIN record' = 1 .. Len(record) + 1
      /\ \A i \in DOMAIN record : record'[i] = record[i]
      /\ record'[Len(record) + 1] = Reorg(low, claim.to)
  BY <1>2, BaseRecord, Appended
<1>4. Reorgs' = Reorgs \cup {Len(record) + 1}
  BY <1>2, <1>3 DEF Reorgs
<1>5. \A j \in Reorgs : record'[j] = record[j]
  BY <1>3 DEF Reorgs
<1>6. Claims(b)' = {j \in Reorgs' : record'[j].from <= b /\ b <= record'[j].to}
  BY DEF Claims
<1>7. CASE ~(low <= b /\ b <= claim.to)
  <2>a. ~(record'[Len(record) + 1].from <= b /\ b <= record'[Len(record) + 1].to)
    BY <1>2, <1>3, <1>7
  <2>1. Claims(b)' = Claims(b)
    BY <1>4, <1>5, <1>6, <2>a DEF Claims
  <2>2. Cardinality(Claims(b)) \in Nat
    BY ClaimsFinite
  <2> QED BY <1>7, <2>1, <2>2
<1>8. CASE low <= b /\ b <= claim.to
  <2>a. \A j \in Reorgs : (record'[j].from <= b /\ b <= record'[j].to) <=> j \in Claims(b)
    BY <1>5 DEF Claims
  <2>b. record'[Len(record) + 1].from <= b /\ b <= record'[Len(record) + 1].to
    BY <1>2, <1>3, <1>8
  <2>c. Claims(b) \subseteq Reorgs
    BY DEF Claims
  <2>1. Claims(b)' = Claims(b) \cup {Len(record) + 1}
    BY <1>4, <1>6, <2>a, <2>b, <2>c
  <2>2. /\ IsFiniteSet(Claims(b)) /\ Cardinality(Claims(b)) \in Nat
    BY ClaimsFinite
  <2>3. \/ Cardinality(Claims(b)') = Cardinality(Claims(b))
        \/ Cardinality(Claims(b)') = Cardinality(Claims(b)) + 1
    BY <2>1, <2>2, FS_AddElement
  <2> QED BY <1>8, <2>2, <2>3
<1> QED BY <1>7, <1>8

-----------------------------------------------------------------------------
(* Every reorganisation has a fork of its own.                             *)
LEMMA ReorgInit ==
  ASSUME Params, Init
  PROVE  ReorgInv
<1>1. \A b \in Nat : Claims(b) = {}
  BY DEF Init, Claims, Reorgs
<1>2. forks = 0 /\ at = "idle" /\ DOMAIN trail = {}
  BY DEF Init, EmptyTrail
<1> QED BY <1>1, <1>2, FS_EmptySet DEF ReorgInv

LEMMA QuietReorg ==
  ASSUME BaseInv, ReorgInv, UNCHANGED <<chain, forks, trail>>,
         \A b : Claims(b)' = Claims(b), at # "search", at' # "search"
  PROVE  ReorgInv'
<1>1. \A b : Spare(b)' <=> Spare(b)
  BY DEF Spare
<1>2. \A b : ReplacedFrom(DOMAIN trail, b)' <=> ReplacedFrom(DOMAIN trail, b)
  BY DEF ReplacedFrom, Matches
<1> QED BY <1>1, <1>2 DEF ReorgInv

(* Blocks that are added replace none.                                     *)
LEMMA MineReorg ==
  ASSUME Params, BaseInv, ReorgInv, Mine
  PROVE  ReorgInv'
<1>1. /\ UNCHANGED <<forks, trail, at, claim, record>>
      /\ chain' = [b \in 0 .. Newest + 1 |-> IF b <= Newest THEN chain[b] ELSE forks]
  BY DEF Mine, loop
<1>2. \A h : Matches(h) => Matches(h)'
  <2> SUFFICES ASSUME NEW h, Matches(h) PROVE Matches(h)'
    OBVIOUS
  <2>1. h \in 0 .. Newest /\ Newest \in Nat /\ chain[h] = trail[h]
    BY Maps DEF Matches
  <2>2. h \in 0 .. Newest + 1 /\ h <= Newest
    BY <2>1
  <2> QED BY <1>1, <2>1, <2>2 DEF Matches
<1>3. \A b : Spare(b)' <=> Spare(b)
  BY <1>1, ClaimsSame DEF Spare
<1>4. Held' = Held
  BY <1>1 DEF Held, HeldBelow
<1>5. \A b : /\ ReplacedFrom(DOMAIN trail, b)' => ReplacedFrom(DOMAIN trail, b)
             /\ ReplacedFrom(Held, b)' => ReplacedFrom(Held, b)
  BY <1>1, <1>2, <1>4 DEF ReplacedFrom
<1> QED BY <1>1, <1>3, <1>5, ClaimsSame DEF ReorgInv

LEMMA ForkReorg ==
  ASSUME Params, BaseInv, ReorgInv, Fork
  PROVE  ReorgInv'
<1>1. UNCHANGED record /\ forks' = forks + 1 /\ forks \in Nat
  BY Nats DEF Fork
<1>2. \A b \in Nat : Cardinality(Claims(b)') <= forks /\ Cardinality(Claims(b)') \in Nat
  BY <1>1, ClaimsSame, ClaimsFinite DEF ReorgInv
<1>3. \A b \in Nat : Spare(b)' /\ Cardinality(Claims(b)') <= forks'
  BY <1>1, <1>2 DEF Spare
<1>4. BaseInv'
  BY ForkBase
<1>5. claim'.to \in Nat /\ \A t \in DOMAIN trail' : t \in Nat
  BY <1>4 DEF BaseInv, TypeInv
<1>6. \A n \in Nat : \A b \in 0 .. n : b \in Nat
  OBVIOUS
<1> QED BY <1>3, <1>5, <1>6 DEF ReorgInv

LEMMA AgreesReorg ==
  ASSUME Params, BaseInv, ReorgInv, HeaderAgrees
  PROVE  ReorgInv'
<1>1. /\ UNCHANGED <<node, mishaps, record, boot>> /\ at \in {"first", "last"}
      /\ Asked \in DOMAIN chain /\ ~Disagrees(trail, Header(Asked))
      /\ trail' = Advance(trail, Header(Asked)) /\ HeaderDone
  BY DEF HeaderAgrees
<1>2. /\ DOMAIN trail' = {g \in DOMAIN trail : g >= Asked - Depth} \cup {Asked}
      /\ \A h \in DOMAIN trail : h < Asked
      /\ trail'[Asked] = chain[Asked] /\ Asked \in Nat
  BY <1>1, AgreedTrail, Maps
<1>3. at' # "search"
  BY <1>1 DEF HeaderDone, Ends
<1>4. chain' = chain /\ forks' = forks
  BY <1>1 DEF node
<1>5. \A t \in DOMAIN trail' : \A b \in 0 .. t : ~ReplacedFrom(DOMAIN trail, b)'
  <2> SUFFICES ASSUME NEW t \in DOMAIN trail', NEW b \in 0 .. t
               PROVE  ~ReplacedFrom(DOMAIN trail, b)'
    OBVIOUS
  <2>1. t \in Nat /\ t <= Asked
    BY <1>2, Maps
  <2>2. b <= Asked
    BY <1>2, <2>1
  <2>3. chain'[Asked] = trail'[Asked] /\ Asked \in DOMAIN chain'
    BY <1>1, <1>2, <1>4
  <2> QED BY <1>2, <2>2, <2>3 DEF ReplacedFrom, Matches
<1> QED BY <1>1, <1>3, <1>4, <1>5, ClaimsSame DEF ReorgInv

(* A block that was not in reach of the trail's replaced part is not now.  *)
LEMMA DisagreesReorg ==
  ASSUME Params, BaseInv, ReorgInv, HeaderDisagrees
  PROVE  ReorgInv'
<1>1. /\ UNCHANGED <<node, record>> /\ at \in {"first", "last"} /\ at' = "search"
      /\ Asked \in DOMAIN chain /\ Disagrees(trail, Header(Asked))
      /\ trail' = Advance(trail, Header(Asked)) /\ claim' = Claim(trail, Header(Asked))
  BY DEF HeaderDisagrees
<1> DEFINE n == Asked
<1>2. /\ n \in Nat /\ 1 <= n
      /\ n - 1 \in DOMAIN trail /\ \A h \in DOMAIN trail : h <= n - 1
      /\ ~Matches(n - 1)
      /\ claim'.from = n - 1 /\ claim'.to = n - 1
      /\ DOMAIN trail' = {g \in DOMAIN trail : g < n - 1 /\ g >= n - Depth} \cup {n}
      /\ \A h \in DOMAIN trail : h \in DOMAIN trail' => trail'[h] = trail[h]
  BY <1>1, ContradictedTrail
<1> HIDE DEF n
<1>3. chain' = chain /\ forks' = forks
  BY <1>1 DEF node
<1>4. \A b : Spare(b)' <=> Spare(b)
  BY <1>1, <1>3, ClaimsSame DEF Spare
<1>5. Held' \subseteq DOMAIN trail
  BY <1>2 DEF Held, HeldBelow
<1>6. \A b \in 0 .. n - 1 : ReplacedFrom(DOMAIN trail, b) => Spare(b)
  BY <1>1, <1>2 DEF ReorgInv
<1>7. ReplacedFrom(DOMAIN trail, n - 1)
  <2>1. \A g \in DOMAIN trail : n - 1 <= g => g = n - 1
    BY <1>2, Maps
  <2> QED BY <1>2, <2>1 DEF ReplacedFrom
<1>8. \A b \in 0 .. n - 1 : b < n - 1 /\ ReplacedFrom(Held, b)' => ReplacedFrom(DOMAIN trail, b)
  <2> SUFFICES ASSUME NEW b \in 0 .. n - 1, b < n - 1, ReplacedFrom(Held, b)'
               PROVE  ReplacedFrom(DOMAIN trail, b)
    OBVIOUS
  <2>1. PICK l \in Held' : l <= b
    BY DEF ReplacedFrom
  <2>2. l \in DOMAIN trail' /\ l < n - 1 /\ l \in DOMAIN trail /\ l \in Nat /\ l >= n - Depth
    BY <1>2, <2>1, Maps DEF Held, HeldBelow
  <2> SUFFICES ASSUME NEW g \in DOMAIN trail, b <= g PROVE ~Matches(g)
    BY <2>1, <2>2 DEF ReplacedFrom
  <2>3. CASE g = n - 1
    BY <1>2, <2>3
  <2>4. CASE g # n - 1
    <3>a. g \in Nat /\ g <= n - 1 /\ g # n - 1 /\ n \in Nat /\ Depth \in Nat /\ b \in Nat
      BY <1>2, <2>4, Maps, Nats
    <3>b. l \in Nat /\ l <= b /\ b <= g /\ l >= n - Depth
      BY <2>1, <2>2
    <3>1. g \in Nat /\ g < n - 1 /\ g >= n - Depth
      BY <3>a, <3>b
    <3>2. g \in DOMAIN trail' /\ g \in Held' /\ trail'[g] = trail[g]
      BY <1>2, <3>1 DEF Held, HeldBelow
    <3>3. ~Matches(g)'
      BY <3>2 DEF ReplacedFrom
    <3> QED BY <1>3, <3>2, <3>3 DEF Matches
  <2> QED BY <2>3, <2>4
<1>9. \A b \in 0 .. claim'.to : claim'.from <= b \/ ReplacedFrom(Held, b)' => Spare(b)'
  <2> SUFFICES ASSUME NEW b \in 0 .. n - 1, n - 1 <= b \/ ReplacedFrom(Held, b)'
               PROVE  Spare(b)
    BY <1>2, <1>4
  <2>1. CASE b = n - 1
    BY <1>6, <1>7, <2>1
  <2>2. CASE b < n - 1
    BY <1>2, <1>6, <1>8, <2>2
  <2> QED BY <1>2, <2>1, <2>2
<1>10. \A b \in Nat : Cardinality(Claims(b)') <= forks'
  BY <1>1, <1>3, ClaimsSame DEF ReorgInv
<1> QED BY <1>1, <1>9, <1>10 DEF ReorgInv

LEMMA StillReorg ==
  ASSUME Params, BaseInv, ReorgInv, StillReplaced
  PROVE  ReorgInv'
<1>1. /\ at = "search" /\ Readable /\ claim' = [claim EXCEPT !.from = Max(Held)]
      /\ chain[Max(Held)] # trail[Max(Held)]
      /\ UNCHANGED <<node, trail, at, record>>
  BY DEF StillReplaced
<1> DEFINE m == Max(Held)
<1>2. /\ m \in Held /\ m \in Nat /\ m < claim.from /\ \A h \in Held : h <= m
      /\ Held = {h \in DOMAIN trail : h < claim.from} /\ ~Matches(m)
  BY <1>1, HeldHeights DEF Readable, Matches
<1>3. claim'.from = m /\ claim'.to = claim.to
  <2>1. claim \in [from : Nat, to : Nat]
    BY DEF BaseInv, TypeInv
  <2> QED BY <1>1, <2>1
<1> HIDE DEF m
<1>4. chain' = chain /\ forks' = forks /\ trail' = trail /\ at' = "search"
  BY <1>1 DEF node
<1>5. \A b : Spare(b)' <=> Spare(b)
  BY <1>1, <1>4, ClaimsSame DEF Spare
<1>6. Held' = {h \in DOMAIN trail : h < m}
  BY <1>3, <1>4 DEF Held, HeldBelow
<1>7. \A b \in 0 .. claim.to : claim.from <= b \/ ReplacedFrom(Held, b) => Spare(b)
  BY <1>1 DEF ReorgInv
<1>8. \A b \in Nat : b < claim.from /\ m <= b => ReplacedFrom(Held, b)
  BY <1>2 DEF ReplacedFrom, Matches
<1>9. \A b \in Nat : ReplacedFrom(Held, b)' => ReplacedFrom(Held, b)
  <2> SUFFICES ASSUME NEW b \in Nat, ReplacedFrom(Held, b)'
               PROVE  ReplacedFrom(Held, b)
    OBVIOUS
  <2>0. claim.from \in Nat /\ \A g \in DOMAIN trail : g \in Nat
    BY Maps, Nats
  <2>1. \A g \in Held' : g \in Held
    BY <1>2, <1>6, <2>0
  <2>2. \A g \in Held : g = m \/ g \in Held'
    BY <1>2, <1>6, <2>0
  <2>3. \A g \in Held' : b <= g => ~Matches(g)
    BY <1>4 DEF ReplacedFrom, Matches
  <2> QED BY <1>2, <2>1, <2>2, <2>3 DEF ReplacedFrom
<1>10. \A b \in 0 .. claim'.to : claim'.from <= b \/ ReplacedFrom(Held, b)' => Spare(b)'
  <2> SUFFICES ASSUME NEW b \in 0 .. claim.to, m <= b \/ ReplacedFrom(Held, b)'
               PROVE  Spare(b)
    BY <1>3, <1>5
  <2>1. b \in Nat /\ claim.from \in Nat
    BY Nats
  <2> QED BY <1>7, <1>8, <1>9, <2>1
<1>11. \A b \in Nat : Cardinality(Claims(b)') <= forks'
  BY <1>1, <1>4, ClaimsSame DEF ReorgInv
<1> QED BY <1>4, <1>10, <1>11 DEF ReorgInv

(* The record takes one reorganisation of what the search proved replaced. *)
LEMMA RecordReorg ==
  ASSUME Params, BaseInv, ReorgInv, UNCHANGED <<node, kept, boot>>, at = "search",
         NEW low \in Nat, record' \in {record, Append(record, Reorg(low, claim.to))},
         \A b \in 0 .. claim.to : low <= b => Spare(b)
  PROVE  /\ \A b \in Nat : Cardinality(Claims(b)') <= forks'
         /\ \A b \in Nat : b < low => Claims(b)' = Claims(b)
<1>1. forks' = forks /\ forks \in Nat /\ claim.to \in Nat
  BY Nats DEF node
<1>2. \A b \in Nat : Cardinality(Claims(b)) <= forks /\ Cardinality(Claims(b)) \in Nat
  BY ClaimsFinite DEF ReorgInv
<1>3. CASE record' = record
  BY <1>1, <1>2, <1>3, ClaimsSame
<1>4. CASE record' = Append(record, Reorg(low, claim.to))
  <2> SUFFICES ASSUME NEW b \in Nat
               PROVE  /\ Cardinality(Claims(b)') <= forks
                      /\ b < low => Claims(b)' = Claims(b)
    BY <1>1
  <2>1. /\ Cardinality(Claims(b)') <= Cardinality(Claims(b)) + 1
        /\ Cardinality(Claims(b)') \in Nat
        /\ ~(low <= b /\ b <= claim.to) => Claims(b)' = Claims(b)
    BY <1>4, ClaimsOfReorg
  <2>2. CASE low <= b /\ b <= claim.to
    <3>1. Cardinality(Claims(b)) + 1 <= forks
      BY <1>1, <2>2 DEF Spare
    <3> QED BY <1>1, <1>2, <2>1, <2>2, <3>1
  <2>3. CASE ~(low <= b /\ b <= claim.to)
    BY <1>2, <2>1, <2>3
  <2> QED BY <2>2, <2>3
<1> QED BY <1>3, <1>4

LEMMA ForkFoundReorg ==
  ASSUME Params, BaseInv, ReorgInv, ForkFound
  PROVE  ReorgInv'
<1>1. /\ at = "search" /\ Readable /\ RecordedOrNot(Max(Held) + 1) /\ Rewind(Max(Held) + 1)
      /\ chain[Max(Held)] = trail[Max(Held)]
  BY DEF ForkFound
<1> DEFINE m == Max(Held)
<1>2. /\ m \in Held /\ m \in Nat /\ m < claim.from /\ \A h \in Held : h <= m
      /\ Held = {h \in DOMAIN trail : h < claim.from} /\ Matches(m)
  BY <1>1, HeldHeights DEF Readable, Matches
<1>3. record' \in {record, Append(record, Reorg(m + 1, claim.to))}
  BY <1>1 DEF RecordedOrNot, Recorded
<1>4. /\ trail' = ForgetFrom(trail, m + 1) /\ at' = "idle" /\ UNCHANGED <<node, kept, boot>>
  BY <1>1 DEF Rewind, Ends
<1> HIDE DEF m
<1>5. \A b \in 0 .. claim.to : m + 1 <= b => Spare(b)
  <2>1. \A b \in Nat : m + 1 <= b => ReplacedFrom(Held, b)
    BY <1>2, Maps DEF ReplacedFrom
  <2> QED BY <1>1, <2>1 DEF ReorgInv
<1>6. m + 1 \in Nat
  BY <1>2
<1>7. \A b \in Nat : Cardinality(Claims(b)') <= forks'
  BY <1>1, <1>3, <1>4, <1>5, <1>6, RecordReorg
<1>8. chain' = chain
  BY <1>4 DEF node
<1>9. /\ m \in DOMAIN trail' /\ trail'[m] = trail[m] /\ \A h \in DOMAIN trail' : h <= m
  BY <1>2, <1>4, Maps DEF ForgetFrom
<1>10. \A t \in DOMAIN trail' : \A b \in 0 .. t : ~ReplacedFrom(DOMAIN trail, b)'
  <2> SUFFICES ASSUME NEW t \in DOMAIN trail', NEW b \in 0 .. t
               PROVE  ~ReplacedFrom(DOMAIN trail, b)'
    OBVIOUS
  <2>1. t \in Nat /\ b <= m
    BY <1>2, <1>4, <1>9, Maps DEF ForgetFrom
  <2> QED BY <1>2, <1>8, <1>9, <2>1 DEF ReplacedFrom, Matches
<1> QED BY <1>4, <1>7, <1>10 DEF ReorgInv

LEMMA SearchEndsReorg ==
  ASSUME Params, BaseInv, ReorgInv, SearchEnds
  PROVE  ReorgInv'
<1>1. /\ at = "search" /\ Rewind(claim.from) /\ claim.from \in Nat /\ claim.to \in Nat
  BY Nats DEF SearchEnds
<1>2. record' \in {record, Append(record, Reorg(claim.from, claim.to))}
  BY DEF SearchEnds, RecordedOrNot, Recorded
<1>3. /\ trail' = ForgetFrom(trail, claim.from) /\ at' = "idle" /\ UNCHANGED <<node, kept, boot>>
  BY <1>1 DEF Rewind, Ends
<1>4. \A b \in 0 .. claim.to : claim.from <= b \/ ReplacedFrom(Held, b) => Spare(b)
  BY <1>1 DEF ReorgInv
<1>5. /\ \A b \in Nat : Cardinality(Claims(b)') <= forks'
      /\ \A b \in Nat : b < claim.from => Claims(b)' = Claims(b)
  BY <1>1, <1>2, <1>3, <1>4, RecordReorg
<1>6. chain' = chain /\ forks' = forks
  BY <1>3 DEF node
<1>7. /\ DOMAIN trail' = Held /\ \A h \in Held : trail'[h] = trail[h]
      /\ \A h \in Held : h \in Nat /\ h < claim.from
  BY <1>3, HeldHeights, Maps DEF ForgetFrom
<1>8. claim.from <= claim.to
  BY <1>1 DEF BaseInv, TopInv
<1>9. \A t \in DOMAIN trail' : \A b \in 0 .. t : ReplacedFrom(DOMAIN trail, b)' => Spare(b)'
  <2> SUFFICES ASSUME NEW t \in Held, NEW b \in 0 .. t, ReplacedFrom(DOMAIN trail, b)'
               PROVE  Spare(b)'
    BY <1>7
  <2>1. b \in Nat /\ b < claim.from /\ b \in 0 .. claim.to
    BY <1>1, <1>7, <1>8
  <2>2. ReplacedFrom(Held, b)
    BY <1>6, <1>7 DEF ReplacedFrom, Matches
  <2>3. Spare(b)
    BY <1>4, <2>1, <2>2
  <2> QED BY <1>5, <1>6, <2>1, <2>3 DEF Spare
<1> QED BY <1>3, <1>5, <1>9 DEF ReorgInv

LEMMA RestartReorg ==
  ASSUME Params, BaseInv, ReorgInv, Restart
  PROVE  ReorgInv'
<1>1. UNCHANGED <<node, record>> /\ at' = "idle" /\ DOMAIN trail' = {}
  BY DEF Restart, Ends, EmptyTrail
<1>2. forks' = forks
  BY <1>1 DEF node
<1> QED BY <1>1, <1>2, ClaimsSame DEF ReorgInv

(* The steps that say nothing of the chain.                                *)
LEMMA OtherReorg ==
  ASSUME Params, BaseInv, ReorgInv,
         StartPass \/ LogsTaken \/ LogsRefused \/ PassFails \/ HeaderUnread
  PROVE  ReorgInv'
<1>1. UNCHANGED <<node, trail, boot>> /\ at # "search"
  BY DEF StartPass, LogsTaken, LogsRefused, PassFails, HeaderUnread
<1>2. at' # "search"
  BY DEF StartPass, LogsTaken, LogsRefused, PassFails, HeaderUnread, HeaderDone, Ends
<1>3. chain' = chain /\ forks' = forks
  BY <1>1 DEF node
<1>4. \A b : Claims(b)' = Claims(b)
  <2>1. CASE StartPass \/ LogsRefused \/ HeaderUnread
    <3>1. UNCHANGED record
      BY <2>1 DEF StartPass, LogsRefused, HeaderUnread
    <3> QED BY <3>1, ClaimsSame
  <2>2. CASE LogsTaken \/ PassFails
    <3>1. /\ record' \in {record, Append(record, Logs(pass.from, StepTo))}
          /\ InPass /\ UNCHANGED <<kept, boot>>
      BY <2>2 DEF LogsTaken, PassFails, InPass
    <3>2. pass.from \in Nat /\ StepTo \in Nat
      BY <3>1, StepToRange, Nats DEF BaseInv
    <3>3. CASE record' = record
      BY <3>3, ClaimsSame
    <3>4. CASE record' = Append(record, Logs(pass.from, StepTo))
      BY <3>1, <3>2, <3>4, ClaimsOfLogs
    <3> QED BY <3>1, <3>3, <3>4
  <2> QED BY <2>1, <2>2
<1> QED BY <1>1, <1>2, <1>3, <1>4, QuietReorg

LEMMA ReorgNext ==
  ASSUME Params, BaseInv, ReorgInv, [Next]_vars
  PROVE  ReorgInv'
<1>1. CASE UNCHANGED vars
  <2>1. UNCHANGED <<chain, forks, trail, at, claim, record>>
    BY <1>1 DEF vars, node, loop
  <2>2. \A b : Claims(b)' = Claims(b) /\ (Spare(b)' <=> Spare(b))
    BY <2>1, ClaimsSame DEF Spare
  <2>3. Held' = Held /\ \A h : Matches(h)' <=> Matches(h)
    BY <2>1 DEF Held, HeldBelow, Matches
  <2>4. \A b : /\ ReplacedFrom(DOMAIN trail, b)' <=> ReplacedFrom(DOMAIN trail, b)
               /\ ReplacedFrom(Held, b)' <=> ReplacedFrom(Held, b)
    BY <2>1, <2>3 DEF ReplacedFrom
  <2> QED BY <2>1, <2>2, <2>4 DEF ReorgInv
<1>2. CASE Mine
  BY <1>2, MineReorg
<1>3. CASE Fork
  BY <1>3, ForkReorg
<1>4. CASE Loop
  BY <1>4, OtherReorg, AgreesReorg, DisagreesReorg, StillReorg, ForkFoundReorg, SearchEndsReorg
  DEF Loop
<1>5. CASE Restart
  BY <1>5, RestartReorg
<1> QED BY <1>1, <1>2, <1>3, <1>4, <1>5 DEF Next

(* The chain and the loop as they are for any parameters: types, how far a *)
(* pass has come, that no height held, planned or captured is above the    *)
(* heads there have been, and that a hash a fork cut off is never made     *)
(* again.                                                                  *)
THEOREM CursorTypes == ASSUME Params PROVE Spec => []BaseInv
<1>1. Init => BaseInv
  BY BaseInit
<1>2. BaseInv /\ [Next]_vars => BaseInv'
  BY BaseNext
<1> QED BY <1>1, <1>2, PTL DEF Spec

(* trail.rs, Advance::Reorganised, and cursor.rs, fork_point: the claim is *)
(* what the evidence supports.  Whatever the depth of the trail, whatever  *)
(* fails and however often capture restarts, no block is recorded as       *)
(* replaced more often than the chain forked.                              *)
THEOREM ReorgsAreForks ==
  ASSUME Params
  PROVE  Spec => []NoReorgInvented
<1>1. Init => BaseInv /\ ReorgInv
  BY BaseInit, ReorgInit
<1>2. BaseInv /\ ReorgInv /\ [Next]_vars => BaseInv' /\ ReorgInv'
  BY BaseNext, ReorgNext
<1>3. BaseInv /\ ReorgInv => NoReorgInvented
  BY DEF ReorgInv, Claims, NoReorgInvented
<1> QED BY <1>1, <1>2, <1>3, PTL DEF Spec

-----------------------------------------------------------------------------
(* The rows of this process, when a step leaves them alone.                *)
LEMMA KeptRows ==
  ASSUME Params, BaseInv
  PROVE  /\ \A i \in Kept : i \in DOMAIN record /\ i \in kept /\ i \in Nat /\ ~record[i].reorg
         /\ \A i \in Kept : DOMAIN record[i].blocks \subseteq Nat
         /\ \A i, b : LiveRow(i, b) => i \in Kept /\ b \in DOMAIN record[i].blocks /\ b \in Nat
<1>1. record \in Seq(LogRow \cup ReorgRow)
  BY DEF BaseInv, TypeInv
<1>2. \A i \in DOMAIN record : record[i] \in LogRow \cup ReorgRow /\ i \in Nat
  BY <1>1
<1>3. \A i \in Kept : i \in DOMAIN record /\ i \in kept /\ ~record[i].reorg
  BY DEF Kept, Read, LogsRead
<1>4. \A i \in Kept : record[i] \in LogRow
  BY <1>2, <1>3 DEF ReorgRow
<1>5. \A i \in Kept : DOMAIN record[i].blocks \subseteq Nat
  BY <1>4 DEF LogRow
<1> QED BY <1>2, <1>3, <1>5 DEF LiveRow

SameRows ==
  /\ Kept' = Kept /\ \A i \in Kept : record'[i] = record[i]
  /\ \A i, b : LiveRow(i, b)' <=> LiveRow(i, b)

LEMMA RecordKept ==
  ASSUME Params, BaseInv, UNCHANGED <<kept, boot>>, record' = record
  PROVE  SameRows
BY DEF SameRows, Kept, Read, LogsRead, LiveRow, Superseded, Reorgs, Contradicts

LEMMA LogsAppended ==
  ASSUME Params, BaseInv, UNCHANGED <<kept, boot>>, NEW from \in Nat, NEW to \in Nat,
         record' = Append(record, Logs(from, to))
  PROVE  /\ SameRows /\ Len(record') = Len(record) + 1
         /\ record'[Len(record')] = Logs(from, to)
         /\ Len(record') \in LogsRead' /\ boot < Len(record')
<1>1. Logs(from, to) \in LogRow \cup ReorgRow /\ Logs(from, to).reorg = FALSE
  BY RowTypes DEF Logs
<1>2. /\ Len(record) \in Nat /\ DOMAIN record = 1 .. Len(record)
      /\ DOMAIN record' = 1 .. Len(record) + 1 /\ Len(record') = Len(record) + 1
      /\ \A i \in DOMAIN record : record'[i] = record[i]
      /\ record'[Len(record) + 1] = Logs(from, to)
  BY <1>1, BaseRecord, Appended
<1>3. LogsRead' = LogsRead \cup {Len(record) + 1} /\ Reorgs' = Reorgs
  BY <1>1, <1>2 DEF LogsRead, Reorgs
<1>4. kept \subseteq 1 .. Len(record) /\ boot \in 0 .. Len(record)
  BY DEF BaseInv, TypeInv
<1>5. Len(record) + 1 \notin kept /\ boot < Len(record) + 1
  BY <1>2, <1>4
<1>6. Kept' = Kept
  BY <1>3, <1>5 DEF Kept, Read
<1>7. \A i \in Kept : record'[i] = record[i]
  BY <1>2 DEF Kept, Read, LogsRead
<1>8. \A j \in Reorgs : record'[j] = record[j]
  BY <1>2 DEF Reorgs
<1>9. \A i, b : Superseded(i, b)' <=> Superseded(i, b)
  BY <1>3, <1>8 DEF Superseded, Contradicts
<1>10. \A i, b : LiveRow(i, b)' <=> LiveRow(i, b)
  BY <1>6, <1>7, <1>9 DEF LiveRow
<1> QED BY <1>2, <1>3, <1>5, <1>6, <1>7, <1>10 DEF SameRows

LEMMA SameLive ==
  ASSUME SameRows
  PROVE  /\ NoneLive' <=> NoneLive
         /\ \A a : Under(a)' <=> Under(a)
         /\ cursor' = cursor => (LiveInv' <=> LiveInv)
         /\ chain' = chain => \A h : CurrentTo(h)' <=> CurrentTo(h)
<1>1. NoneLive' <=> NoneLive
  BY DEF SameRows, NoneLive
<1>2. \A a : Under(a)' <=> Under(a)
  BY DEF SameRows, Under
<1>3. ASSUME cursor' = cursor PROVE LiveInv' <=> LiveInv
  BY <1>3 DEF SameRows, LiveInv
<1>4. ASSUME chain' = chain PROVE \A h : CurrentTo(h)' <=> CurrentTo(h)
  BY <1>4 DEF SameRows, CurrentTo, Stale
<1> QED BY <1>1, <1>2, <1>3, <1>4

(* Outside a search a step that moves neither the cursor nor the trail     *)
(* nor the chain.                                                          *)
LEMMA QuietMain ==
  ASSUME Params, BaseInv, MainInv, SameRows, UNCHANGED <<node, cursor, trail>>,
         at \notin {"last", "search"}, at' \notin {"last", "search"}, StepInv'
  PROVE  MainInv'
<1>1. /\ chain' = chain /\ final' = final /\ cursor' = cursor /\ trail' = trail
      /\ Trailed' = DOMAIN trail /\ Trailed = DOMAIN trail
  BY DEF node, Trailed
<1>2. \A h : (Matches(h)' <=> Matches(h)) /\ (Settled(h)' <=> Settled(h))
  BY <1>1 DEF Matches, Settled
<1>3. LiveInv' /\ EndInv'
  BY <1>1, SameLive DEF MainInv, EndInv
<1>4. LinkInv' /\ SettledInv' /\ GapInv'
  BY <1>1, <1>2, SameLive DEF MainInv, LinkInv, SettledInv, GapInv
<1>5. AnchorInv'
  BY <1>1, <1>2, SameLive DEF MainInv, AnchorInv
<1> QED BY <1>3, <1>4, <1>5 DEF MainInv

LEMMA MainInit ==
  ASSUME Params, Init
  PROVE  MainInv
<1>1. Kept = {} /\ DOMAIN trail = {} /\ Trailed = {} /\ at = "idle"
  BY DEF Init, Kept, Read, LogsRead, EmptyTrail, Trailed
<1>2. StepInv
  BY <1>1 DEF StepInv, InPass
<1>3. NoneLive /\ LiveInv
  BY <1>1 DEF NoneLive, LiveInv
<1>4. EndInv /\ LinkInv /\ SettledInv /\ GapInv /\ AnchorInv
  BY <1>1, <1>3 DEF EndInv, LinkInv, SettledInv, GapInv, AnchorInv
<1> QED BY <1>2, <1>3, <1>4 DEF MainInv

LEMMA StartPassMain ==
  ASSUME Params, BaseInv, MainInv, StartPass
  PROVE  MainInv'
<1>1. UNCHANGED <<node, mishaps, cursor, trail, kept, record, boot>> /\ at = "idle"
  BY DEF StartPass
<1>2. SameRows
  BY <1>1, RecordKept
<1>3. Newest \in DOMAIN chain
  BY Maps
<1>4. at' = "idle" \/ (at' = "logs" /\ pass'.goal = Newest)
  BY DEF StartPass, Ends
<1>5. StepInv'
  BY <1>1, <1>2, <1>3, <1>4 DEF MainInv, StepInv, InPass, node, SameRows
<1> QED BY <1>1, <1>2, <1>4, <1>5, QuietMain

LEMMA StepMain ==
  ASSUME Params, BaseInv, MainInv, InPass
  PROVE  /\ StepTo \in Nat /\ pass.from \in Nat /\ pass.from <= StepTo
         /\ StepTo < pass.from + MaxSpan /\ StepTo <= final + Lag
         /\ pass.from .. StepTo \subseteq DOMAIN chain
<1>1. /\ StepTo \in Nat /\ pass.from <= StepTo /\ StepTo <= pass.goal
      /\ StepTo < pass.from + MaxSpan
  BY StepToRange DEF BaseInv
<1>2. pass.goal <= Newest /\ pass.goal <= final + Lag
  BY Maps DEF MainInv, StepInv, BaseInv, PlanInv
<1>3. pass.from \in Nat /\ pass.goal \in Nat /\ final \in Nat /\ Lag \in Nat /\ Newest \in Nat
  BY Nats
<1>4. pass.from .. StepTo \subseteq 0 .. Newest
  BY <1>1, <1>2, <1>3
<1>5. StepTo <= final + Lag
  BY <1>1, <1>2, <1>3
<1> QED BY <1>1, <1>3, <1>4, <1>5, Maps

LEMMA LogsMain ==
  ASSUME Params, BaseInv, MainInv, LogsTaken \/ LogsRefused \/ PassFails
  PROVE  MainInv'
<1>1. /\ UNCHANGED <<node, cursor, trail, kept, boot>> /\ at = "logs" /\ InPass
      /\ record' \in {record, Append(record, Logs(pass.from, StepTo))}
  BY DEF LogsTaken, LogsRefused, PassFails, InPass
<1>2. /\ pass.from \in Nat /\ StepTo \in Nat /\ pass.from .. StepTo \subseteq DOMAIN chain
  BY <1>1, StepMain
<1>3. SameRows
  BY <1>1, <1>2, RecordKept, LogsAppended
<1>4. chain' = chain /\ cursor' = cursor /\ Kept' = Kept
  BY <1>1, <1>3 DEF node, SameRows
<1>5. CASE LogsTaken
  <2>1. /\ at' = "first" /\ UNCHANGED <<pass, span>> /\ StepTo' = StepTo
        /\ record' = Append(record, Logs(pass.from, StepTo))
    BY <1>5 DEF LogsTaken, StepTo, Smaller
  <2>2. /\ Len(record') \in LogsRead' /\ boot' < Len(record')
        /\ record'[Len(record')] = Logs(pass.from, StepTo)
    BY <1>1, <1>2, <2>1, LogsAppended
  <2>3. Logs(pass.from, StepTo).blocks = [b \in pass.from .. StepTo |-> chain[b]]
    BY <1>2 DEF Logs
  <2>4. StepInv'
    BY <1>1, <1>4, <2>1, <2>2, <2>3 DEF MainInv, StepInv, InPass
  <2> QED BY <1>1, <1>3, <2>1, <2>4, QuietMain
<1>6. CASE LogsRefused \/ PassFails
  <2>1. at' \in {"idle", "stopped"}
    BY <1>6 DEF LogsRefused, PassFails, Ends
  <2>2. StepInv'
    BY <1>4, <2>1 DEF MainInv, StepInv, InPass
  <2> QED BY <1>1, <1>3, <2>1, <2>2, QuietMain
<1> QED BY <1>5, <1>6

(* No header goes unread unless one is refused, or the chain forks.        *)
LEMMA UnreadMain ==
  ASSUME Params, BaseInv, MainInv, Undisturbed', HeaderUnread
  PROVE  FALSE
<1>1. InPass
  BY DEF HeaderUnread, InPass
<1>2. Asked \in DOMAIN chain
  BY <1>1, StepMain DEF Asked
<1>3. "header_error" \in struck'
  BY <1>2 DEF HeaderUnread, Strikes
<1> QED BY <1>3 DEF Undisturbed

LEMMA RestartMain ==
  ASSUME Params, BaseInv, Restart
  PROVE  MainInv'
<1>1. /\ boot' = Len(record) /\ UNCHANGED <<record, kept>>
      /\ DOMAIN trail' = {} /\ at' = "idle"
  BY DEF Restart, Ends, EmptyTrail
<1>2. record \in Seq(LogRow \cup ReorgRow)
  BY DEF BaseInv, TypeInv
<1>3. Kept' = {}
  BY <1>1, <1>2 DEF Kept, Read, LogsRead
<1>4. Trailed' = {}
  BY <1>1 DEF Trailed
<1>5. StepInv'
  BY <1>1, <1>3 DEF StepInv, InPass
<1>6. NoneLive' /\ LiveInv'
  BY <1>3 DEF NoneLive, LiveInv
<1>7. EndInv' /\ LinkInv' /\ SettledInv' /\ GapInv' /\ AnchorInv'
  BY <1>1, <1>4, <1>6 DEF EndInv, LinkInv, SettledInv, GapInv, AnchorInv
<1> QED BY <1>5, <1>6, <1>7 DEF MainInv

-----------------------------------------------------------------------------
(* The chain grows and forks.                                              *)
LEMMA MineMain ==
  ASSUME Params, BaseInv, MainInv, Mine
  PROVE  MainInv'
<1>1. /\ UNCHANGED <<forks, cursor, trail, span, at, pass, claim, kept, record, boot>>
      /\ chain' = [b \in 0 .. Newest + 1 |-> IF b <= Newest THEN chain[b] ELSE forks]
  BY DEF Mine, loop
<1>2. /\ Newest \in Nat /\ DOMAIN chain = 0 .. Newest /\ forks \in Nat
      /\ DOMAIN chain' = 0 .. Newest + 1 /\ chain'[Newest + 1] = forks
      /\ \A b \in 0 .. Newest : b \in DOMAIN chain' /\ chain'[b] = chain[b]
  <2>1. Newest \in Nat /\ DOMAIN chain = 0 .. Newest /\ forks \in Nat
    BY Maps, Nats
  <2>2. PICK n \in Nat : n = Newest
    BY <2>1
  <2>3. chain' = [b \in 0 .. n + 1 |-> IF b <= n THEN chain[b] ELSE forks]
    BY <1>1, <2>2
  <2> QED BY <2>1, <2>2, <2>3
<1>3. Newest' = Newest + 1 /\ final <= final' /\ final' \in Nat /\ final \in Nat
  BY MineBase, Nats DEF BaseInv, TypeInv
<1>4. SameRows
  BY <1>1, RecordKept
<1>5. \A h \in DOMAIN trail : Matches(h)' <=> Matches(h)
  <2> SUFFICES ASSUME NEW h \in DOMAIN trail PROVE Matches(h)' <=> Matches(h)
    OBVIOUS
  <2>1. h \in Nat /\ trail[h] \in Nat /\ (h \notin 0 .. Newest => trail[h] < forks)
    BY <1>2, Maps DEF BaseInv, HashInv
  <2>2. CASE h \in 0 .. Newest
    BY <1>1, <1>2, <2>2 DEF Matches
  <2>3. CASE h \notin 0 .. Newest
    <3>1. ~Matches(h)
      BY <1>2, <2>3 DEF Matches
    <3>2. h \in DOMAIN chain' => h = Newest + 1
      BY <1>2, <2>1, <2>3
    <3>3. ~Matches(h)'
      BY <1>1, <1>2, <2>1, <2>3, <3>2 DEF Matches
    <3> QED BY <3>1, <3>3
  <2> QED BY <2>2, <2>3
<1>6. \A h : CurrentTo(h) => CurrentTo(h)'
  BY <1>2, <1>4 DEF SameRows, CurrentTo, Stale
<1>7. Trailed' = Trailed /\ Trailed \subseteq DOMAIN trail
  BY <1>1 DEF Trailed, Held, HeldBelow
<1>8. \A h : Settled(h)' <=> Settled(h)
  BY <1>1 DEF Settled
<1>9. InPass' = InPass /\ StepTo' = StepTo /\ LogsRead' = LogsRead
  BY <1>1 DEF InPass, StepTo, Smaller, LogsRead
<1>10. StepInv'
  <2>1. InPass => pass'.goal \in DOMAIN chain'
    BY <1>1, <1>2 DEF MainInv, StepInv
  <2>2. ASSUME at \in {"first", "last"}
        PROVE  record'[Len(record')].blocks = [b \in pass'.from .. StepTo' |-> chain'[b]]
    <3>1. InPass
      BY <2>2 DEF InPass
    <3>2. pass.from .. StepTo \subseteq 0 .. Newest
      BY <1>2, <3>1, StepMain
    <3>3. [b \in pass.from .. StepTo |-> chain'[b]] = [b \in pass.from .. StepTo |-> chain[b]]
      BY <1>2, <3>2
    <3> QED BY <1>1, <1>9, <2>2, <3>3 DEF MainInv, StepInv
  <2>3. at = "search" => claim'.to = cursor' /\ 1 <= claim'.from /\ claim'.from <= Newest'
    BY <1>1, <1>3, Nats DEF MainInv, StepInv
  <2> QED BY <1>1, <1>4, <1>9, <2>1, <2>2, <2>3 DEF MainInv, StepInv, SameRows
<1>11. LiveInv'
  BY <1>1, <1>4, SameLive DEF MainInv
<1>12. EndInv'
  BY <1>1, <1>4, <1>5, <1>6, SameLive DEF MainInv, EndInv
<1>13. LinkInv' /\ SettledInv' /\ GapInv'
  BY <1>5, <1>6, <1>7, <1>8 DEF MainInv, LinkInv, SettledInv, GapInv
<1>14. AnchorInv'
  <2>1. \A a \in Trailed : a <= final /\ Matches(a) => a <= final' /\ Matches(a)'
    BY <1>3, <1>5, <1>7, Maps
  <2> QED BY <1>1, <1>4, <1>7, <2>1, SameLive DEF MainInv, AnchorInv
<1> QED BY <1>10, <1>11, <1>12, <1>13, <1>14 DEF MainInv

(* Above the fork nothing held or read matches any more; below it all does *)
(* that did.                                                               *)
LEMMA ForkMain ==
  ASSUME Params, BaseInv, MainInv, Undisturbed', Fork
  PROVE  MainInv'
<1>1. UNCHANGED <<cursor, trail, span, at, pass, claim, kept, record, boot>> /\ forks' = forks + 1
  BY DEF Fork, loop
<1>2. PICK from \in Nat : \E tip \in Nat :
        /\ final < from /\ from <= tip /\ tip <= Newest
        /\ DOMAIN chain' = 0 .. tip
        /\ \A b \in 0 .. tip : chain'[b] = IF b < from THEN chain[b] ELSE forks + 1
        /\ \/ at \in {"idle", "stopped"}
           \/ at = "logs" /\ pass.goal <= tip
           \/ "fork_in_pass" \in struck'
  BY ForkBase
<1>3. PICK tip \in Nat :
        /\ final < from /\ from <= tip /\ tip <= Newest
        /\ DOMAIN chain' = 0 .. tip
        /\ \A b \in 0 .. tip : chain'[b] = IF b < from THEN chain[b] ELSE forks + 1
        /\ \/ at \in {"idle", "stopped"}
           \/ at = "logs" /\ pass.goal <= tip
           \/ "fork_in_pass" \in struck'
  BY <1>2
<1>4. at \in {"idle", "stopped"} \/ (at = "logs" /\ pass.goal <= tip)
  BY <1>3 DEF Undisturbed
<1>5. /\ Newest \in Nat /\ final \in Nat /\ forks \in Nat /\ DOMAIN chain = 0 .. Newest
      /\ Lag \in Nat /\ cursor \in Int /\ cursor <= final + Lag /\ pass.goal \in Nat
  BY Maps, Nats
<1>6. final <= final' /\ final' \in Nat
  BY ForkBase DEF BaseInv, TypeInv
<1>7. SameRows
  BY <1>1, RecordKept
<1>8. Trailed' = DOMAIN trail /\ Trailed = DOMAIN trail
  BY <1>1, <1>4 DEF Trailed
<1>9. \A h \in DOMAIN trail : Matches(h)' <=> Matches(h) /\ h < from
  <2> SUFFICES ASSUME NEW h \in DOMAIN trail PROVE Matches(h)' <=> Matches(h) /\ h < from
    OBVIOUS
  <2>1. h \in Nat /\ trail[h] \in Nat /\ trail[h] <= forks
    BY Maps DEF BaseInv, HashInv
  <2>2. CASE h < from
    <3>1. h \in 0 .. tip /\ h \in 0 .. Newest
      BY <1>3, <1>5, <2>1, <2>2
    <3> QED BY <1>1, <1>3, <1>5, <2>2, <3>1 DEF Matches
  <2>3. CASE ~(h < from)
    <3>1. h \in 0 .. tip => chain'[h] # trail[h]
      BY <1>3, <1>5, <2>1, <2>3
    <3> QED BY <1>1, <1>3, <2>3, <3>1 DEF Matches
  <2> QED BY <2>2, <2>3
<1>10. \A h \in Nat : CurrentTo(h) /\ h < from => CurrentTo(h)'
  <2> SUFFICES ASSUME NEW h \in Nat, CurrentTo(h), h < from,
                      NEW i \in Kept, NEW b \in DOMAIN record[i].blocks,
                      LiveRow(i, b), b <= h
               PROVE  ~Stale(i, b)'
    BY <1>7 DEF SameRows, CurrentTo
  <2>1. b \in Nat /\ ~Stale(i, b)
    BY KeptRows DEF CurrentTo
  <2>2. b \in 0 .. tip /\ b \in 0 .. Newest /\ b < from
    BY <1>3, <1>5, <2>1
  <2> QED BY <1>1, <1>3, <2>1, <2>2 DEF Stale
<1>11. StepInv'
  <2>1. InPass' => pass'.goal \in DOMAIN chain'
    <3>1. InPass' => pass.goal <= tip
      BY <1>1, <1>4 DEF InPass
    <3> QED BY <1>1, <1>3, <1>5, <3>1
  <2> QED BY <1>1, <1>4, <1>7, <2>1 DEF MainInv, StepInv, SameRows
<1>12. LiveInv' /\ EndInv'
  BY <1>1, <1>4, <1>7, SameLive DEF MainInv, EndInv
<1>13. LinkInv'
  <2>1. \A h, g \in DOMAIN trail : g < h /\ h < from => g < from
    BY Maps
  <2>2. \A h \in DOMAIN trail : Matches(h) =>
          CurrentTo(h) /\ \A g \in DOMAIN trail : g < h => Matches(g)
    BY <1>8 DEF MainInv, LinkInv
  <2> QED BY <1>8, <1>9, <1>10, <2>1, <2>2, Maps DEF LinkInv
<1>14. SettledInv' /\ GapInv'
  <2>1. \A h \in DOMAIN trail : Settled(h)' => Settled(h) /\ h < from
    BY <1>1, <1>3, <1>5, Maps DEF Settled
  <2> QED BY <1>8, <1>9, <2>1 DEF MainInv, SettledInv, GapInv
<1>15. AnchorInv'
  <2>1. \A a \in DOMAIN trail : a <= final /\ Matches(a) => a <= final' /\ Matches(a)'
    BY <1>3, <1>5, <1>6, <1>9, Maps
  <2> QED BY <1>4, <1>7, <1>8, <2>1, SameLive DEF MainInv, AnchorInv
<1> QED BY <1>11, <1>12, <1>13, <1>14, <1>15 DEF MainInv

-----------------------------------------------------------------------------
(* Headers.  What a header in agreement is linked to stands: everything    *)
(* the trail holds, and every row the cursor advanced over.                *)
LEMMA AgreedSound ==
  ASSUME Params, BaseInv, MainInv, at \in {"first", "last"}, Asked \in DOMAIN chain,
         ~Disagrees(trail, Header(Asked))
  PROVE  (\A h \in DOMAIN trail : Matches(h)) /\ CurrentTo(cursor)
<1>1. CASE at = "last"
  BY <1>1 DEF MainInv, EndInv
<1>2. CASE at = "first"
  <2>1. CASE DOMAIN trail = {}
    <3>1. NoneLive
      BY <1>2, <2>1 DEF MainInv, EndInv
    <3> QED BY <2>1, <3>1 DEF NoneLive, CurrentTo
  <2>2. CASE DOMAIN trail # {}
    <3>1. cursor \in DOMAIN trail /\ \A h \in DOMAIN trail : h <= cursor
      BY <1>2, <2>2 DEF MainInv, EndInv, BaseInv, TopInv
    <3>2. cursor \in Nat /\ Asked = cursor + 1
      <4>1. cursor \in Nat
        BY <3>1, Maps
      <4>2. InPass /\ cursor # Cold
        BY <1>2, <4>1 DEF InPass, Cold
      <4> QED BY <1>2, <4>1, <4>2 DEF BaseInv, PlanInv, Asked
    <3>3. cursor \in DOMAIN chain /\ chain[cursor] = trail[cursor]
      <4>1. cursor + 1 \in 0 .. Newest
        BY <3>2, Maps
      <4>2. cursor \in 0 .. Newest
        BY <3>2, <4>1, Nats
      <4>3. Header(Asked).number - 1 = cursor /\ Header(Asked).parent = chain[cursor]
        BY <3>2 DEF Header
      <4> QED BY <3>1, <4>2, <4>3, Maps DEF Disagrees
    <3>4. Trailed = DOMAIN trail /\ Matches(cursor)
      BY <1>2, <3>3 DEF Trailed, Matches
    <3>5. \A h \in DOMAIN trail : h < cursor => Matches(h)
      BY <3>1, <3>4 DEF MainInv, LinkInv
    <3>6. \A h \in DOMAIN trail : h = cursor \/ h < cursor
      BY <3>1, <3>2, Maps
    <3> QED BY <3>1, <3>4, <3>5, <3>6 DEF MainInv, LinkInv
  <2> QED BY <2>1, <2>2
<1> QED BY <1>1, <1>2

(* The trail reaches up to within a step of the header asked for.          *)
LEMMA TrailNear ==
  ASSUME Params, BaseInv, MainInv, at \in {"first", "last"}, DOMAIN trail # {}
  PROVE  /\ Asked \in Nat /\ Asked <= final + Lag
         /\ \E e \in DOMAIN trail : Asked - MaxSpan <= e /\ e < Asked
         /\ at = "first" => Asked = cursor + 1 /\ cursor \in DOMAIN trail
<1>1. InPass
  BY DEF InPass
<1>2. /\ StepTo \in Nat /\ pass.from \in Nat /\ pass.from <= StepTo
      /\ StepTo < pass.from + MaxSpan /\ StepTo <= final + Lag
  BY <1>1, StepMain
<1>3. Asked \in Nat /\ Asked <= final + Lag
  BY <1>2, Nats DEF Asked
<1>4. CASE at = "last"
  <2>1. pass.from \in DOMAIN trail /\ Asked = StepTo /\ pass.from < StepTo
    BY <1>4 DEF MainInv, EndInv, BaseInv, PlanInv, Asked
  <2>2. Asked - MaxSpan <= pass.from /\ pass.from < Asked
    BY <1>2, <2>1, Nats
  <2> QED BY <1>3, <1>4, <2>1, <2>2
<1>5. CASE at = "first"
  <2>1. cursor \in DOMAIN trail /\ Asked = pass.from
    BY <1>5 DEF MainInv, EndInv, Asked
  <2>2. cursor \in Nat
    BY <2>1, Maps
  <2>3. Asked = cursor + 1
    BY <1>1, <2>1, <2>2 DEF BaseInv, PlanInv, Cold
  <2>4. Asked - MaxSpan <= cursor /\ cursor < Asked
    BY <2>2, <2>3, Nats
  <2> QED BY <1>3, <2>1, <2>3, <2>4
<1> QED BY <1>4, <1>5

(* What trim drops leaves a settled height in its place.                   *)
LEMMA TrimAnchor ==
  ASSUME Params, DeepTrail, BaseInv, MainInv, at \in {"first", "last"},
         NEW a \in DOMAIN trail, a < Asked - Depth
  PROVE  \E m \in DOMAIN trail :
           /\ Asked - Depth <= m /\ m < Asked - Lag /\ m <= final
<1>1. PICK e \in DOMAIN trail : Asked - MaxSpan <= e /\ e < Asked
  BY TrailNear
<1>2. /\ Asked \in Nat /\ Asked <= final + Lag /\ a \in Nat /\ e \in Nat /\ final \in Nat
      /\ Lag \in Nat /\ Depth \in Nat /\ MaxSpan \in Nat /\ Depth >= Lag + MaxSpan
  BY TrailNear, Maps, Nats DEF DeepTrail
<1> DEFINE S == {h \in DOMAIN trail : Asked - Depth <= h}
<1>3. S \in SUBSET Nat /\ e \in S
  BY <1>1, <1>2, Maps
<1>4. PICK m \in S : \A y \in S : m <= y
  BY <1>3, LeastNat
<1>5. m \in DOMAIN trail /\ m \in Nat /\ Asked - Depth <= m /\ a < m
  BY <1>2, <1>3, <1>4
<1>6. Trailed = DOMAIN trail
  BY DEF Trailed
<1>7. PICK g \in DOMAIN trail : g < m /\ m - MaxSpan <= g
  BY <1>5, <1>6 DEF MainInv, GapInv
<1>8. g \in Nat /\ g < Asked - Depth
  <2>1. g \in Nat
    BY Maps
  <2>2. g \in S => m <= g
    BY <1>4
  <2> QED BY <1>2, <1>5, <1>7, <2>1, <2>2
<1>9. m < Asked - Lag /\ m <= final
  BY <1>2, <1>5, <1>7, <1>8
<1> QED BY <1>5, <1>9

(* No gap of the trail is opened by trimming it.                           *)
LEMMA TrimGaps ==
  ASSUME Params, BaseInv, MainInv, at \in {"first", "last"},
         NEW h \in DOMAIN trail, NEW l \in DOMAIN trail, l < h, NEW low \in Int, low <= l
  PROVE  \E g \in DOMAIN trail : low <= g /\ g < h /\ h - MaxSpan <= g
<1>1. Trailed = DOMAIN trail
  BY DEF Trailed
<1>2. PICK g \in DOMAIN trail : g < h /\ h - MaxSpan <= g
  BY <1>1 DEF MainInv, GapInv
<1>3. g \in Nat /\ l \in Nat /\ h \in Nat /\ MaxSpan \in Nat
  BY Maps, Nats
<1>4. CASE l <= g
  BY <1>2, <1>3, <1>4
<1>5. CASE ~(l <= g)
  <2>1. h - MaxSpan <= l
    BY <1>2, <1>3, <1>5
  <2> QED BY <2>1
<1> QED BY <1>4, <1>5

LEMMA AgreesMain ==
  ASSUME Params, DeepTrail, BaseInv, MainInv, HeaderAgrees
  PROVE  MainInv'
<1>1. /\ UNCHANGED <<node, mishaps, record, boot>> /\ at \in {"first", "last"}
      /\ Asked \in DOMAIN chain /\ ~Disagrees(trail, Header(Asked))
      /\ trail' = Advance(trail, Header(Asked)) /\ HeaderDone
  BY DEF HeaderAgrees
<1> DEFINE n == Asked
<1>2. /\ DOMAIN trail' = {g \in DOMAIN trail : g >= n - Depth} \cup {n}
      /\ \A h \in DOMAIN trail : h < n /\ (h \in DOMAIN trail' => trail'[h] = trail[h])
      /\ trail'[n] = chain[n] /\ n \in DOMAIN chain /\ n \in Nat
  BY <1>1, AgreedTrail, Maps
<1>3. chain' = chain /\ final' = final /\ Newest' = Newest
  BY <1>1 DEF node, Newest
<1>4. (\A h \in DOMAIN trail : Matches(h)) /\ CurrentTo(cursor)
  BY <1>1, AgreedSound
<1>5. \A h \in DOMAIN trail' : Matches(h)'
  BY <1>2, <1>3, <1>4 DEF Matches
<1>6. /\ StepTo \in Nat /\ pass.from \in Nat /\ pass.from <= StepTo
      /\ StepTo < pass.from + MaxSpan /\ StepTo <= final + Lag
      /\ pass.from .. StepTo \subseteq DOMAIN chain
      /\ pass.goal \in DOMAIN chain
      /\ cursor # Cold => pass.from = cursor + 1
  <2>1. InPass
    BY <1>1 DEF InPass
  <2> QED BY <2>1, StepMain DEF MainInv, StepInv, BaseInv, PlanInv
<1>7. n = (IF at = "first" THEN pass.from ELSE StepTo)
  BY DEF Asked
<1>8. at = "last" => pass.from \in DOMAIN trail
  BY DEF MainInv, EndInv
<1>9. at' # "search" /\ Trailed' = DOMAIN trail'
  BY <1>1 DEF HeaderDone, Ends, Trailed
<1>10. Depth \in Nat /\ MaxSpan \in Nat /\ 1 <= MaxSpan /\ MaxSpan <= Depth /\ Lag \in Nat
  BY Nats DEF DeepTrail
<1>11. /\ \A i \in Kept : \A b \in DOMAIN record[i].blocks :
             LiveRow(i, b) => b <= cursor /\ ~Stale(i, b)
       /\ \A i \in Kept : \A b \in DOMAIN record[i].blocks : LiveRow(i, b) => b < pass.from
  <2>1. \A i \in Kept : \A b \in DOMAIN record[i].blocks :
             LiveRow(i, b) => b <= cursor /\ ~Stale(i, b)
    BY <1>4 DEF MainInv, LiveInv, CurrentTo
  <2>2. cursor # Cold \/ Kept = {}
    BY DEF MainInv, StepInv
  <2>3. ASSUME NEW i \in Kept, NEW b \in DOMAIN record[i].blocks, LiveRow(i, b)
        PROVE  b < pass.from
    <3>1. b <= cursor /\ b \in Nat /\ pass.from = cursor + 1 /\ cursor \in Int
      BY <1>6, <2>1, <2>2, <2>3, KeptRows, Nats
    <3> QED BY <3>1
  <2> QED BY <2>1, <2>3
<1> HIDE DEF n
(* The trail's own part does not depend on whether the step is done.       *)
<1>12. SettledInv' /\ GapInv'
  <2>1. SettledInv'
    BY <1>5, <1>9 DEF SettledInv
  <2>2. ASSUME NEW h \in DOMAIN trail', NEW l \in DOMAIN trail', l < h
        PROVE  \E g \in DOMAIN trail' : g < h /\ h - MaxSpan <= g
    <3>1. l \in DOMAIN trail /\ n - Depth <= l /\ n - Depth \in Int
      <4>1. h \in Nat /\ l \in Nat /\ h <= n
        BY <1>2, <2>2, Maps
      <4>2. l # n
        BY <1>2, <2>2, <4>1
      <4>3. l \in DOMAIN trail /\ l >= n - Depth
        BY <1>2, <2>2, <4>2
      <4> QED BY <1>2, <1>10, <4>1, <4>3
    <3>2. CASE h = n
      <4>1. PICK e \in DOMAIN trail : n - MaxSpan <= e /\ e < n
        BY <1>1, <3>1, TrailNear DEF n
      <4>2. n - Depth <= e
        BY <1>2, <1>10, <4>1, Maps
      <4> QED BY <1>2, <3>2, <4>1, <4>2
    <3>3. CASE h # n
      <4>1. h \in DOMAIN trail
        BY <1>2, <3>3
      <4>2. PICK g \in DOMAIN trail : n - Depth <= g /\ g < h /\ h - MaxSpan <= g
        BY <1>1, <2>2, <3>1, <4>1, TrimGaps
      <4> QED BY <1>2, <4>2
    <3> QED BY <3>2, <3>3
  <2>3. GapInv'
    BY <1>9, <2>2 DEF GapInv
  <2> QED BY <2>1, <2>3
<1>13. ASSUME NEW a \in DOMAIN trail
       PROVE  a \in DOMAIN trail' \/ \E m \in DOMAIN trail' : m <= final
  <2>1. CASE n - Depth <= a
    BY <1>2, <2>1, Maps, Nats
  <2>2. CASE a < n - Depth
    <3>1. PICK m \in DOMAIN trail : n - Depth <= m /\ m <= final
      BY <1>1, <2>2, TrimAnchor DEF n
    <3> QED BY <1>2, <3>1, Maps, Nats
  <2> QED BY <1>2, <1>10, <2>1, <2>2, Maps
<1>14. CASE at = "first" /\ pass.from # StepTo
  <2>1. at' = "last" /\ UNCHANGED <<cursor, span, pass, claim, kept>>
    BY <1>1, <1>14 DEF HeaderDone
  <2>2. SameRows
    BY <1>1, <2>1, RecordKept
  <2>3. StepTo' = StepTo /\ LogsRead' = LogsRead /\ InPass /\ InPass'
    BY <1>1, <2>1 DEF StepTo, Smaller, LogsRead, InPass
  <2>4. StepInv'
    BY <1>1, <1>3, <2>1, <2>2, <2>3 DEF MainInv, StepInv, SameRows
  <2>5. LiveInv'
    BY <2>1, <2>2, SameLive DEF MainInv
  <2>6. pass'.from \in DOMAIN trail'
    BY <1>2, <1>7, <1>14, <2>1
  <2>7. CurrentTo(cursor)'
    BY <1>3, <1>4, <2>1, <2>2 DEF SameRows, CurrentTo, Stale
  <2>8. EndInv'
    BY <1>5, <2>1, <2>6, <2>7 DEF EndInv
  <2>9. \A h : CurrentTo(h)
    BY <1>11 DEF CurrentTo
  <2>10. LinkInv'
    BY <1>3, <1>5, <1>9, <2>2, <2>9, SameLive DEF LinkInv
  <2>11. AnchorInv'
    <3>1. CASE NoneLive
      BY <2>2, <3>1, SameLive DEF AnchorInv
    <3>2. CASE \E a \in DOMAIN trail : Under(a) \/ (a <= final /\ Matches(a))
      <4>1. PICK a \in DOMAIN trail : Under(a) \/ (a <= final /\ Matches(a))
        BY <3>2
      <4>2. \A m : Under(m)' <=> Under(m)
        BY <2>2, SameLive
      <4> QED BY <1>3, <1>5, <1>9, <1>13, <4>1, <4>2 DEF AnchorInv
    <3> QED BY <1>1, <3>1, <3>2 DEF MainInv, AnchorInv, Trailed
  <2> QED BY <1>12, <2>4, <2>5, <2>8, <2>10, <2>11 DEF MainInv
<1>15. CASE ~(at = "first" /\ pass.from # StepTo)
  <2>1. /\ cursor' = StepTo /\ kept' = kept \cup {Len(record)}
        /\ \/ at' = "idle"
           \/ at' = "logs" /\ pass'.goal = pass.goal
    <3>1. pass \in [from : Nat, goal : Nat]
      BY DEF BaseInv, TypeInv
    <3> QED BY <1>1, <1>15, <3>1 DEF HeaderDone, Ends
  <2>2. n = StepTo
    BY <1>7, <1>15
  <2>0. PICK new : new = Len(record)
    OBVIOUS
  <2>3. /\ new \in LogsRead /\ boot < new
        /\ record[new].blocks = [b \in pass.from .. StepTo |-> chain[b]]
    BY <1>1, <2>0 DEF MainInv, StepInv
  <2>4. Kept' = Kept \cup {new} /\ record' = record
    BY <1>1, <2>0, <2>1, <2>3 DEF Kept, Read, LogsRead
  <2>5. \A b : ~Superseded(new, b)
    <3>1. record \in Seq(LogRow \cup ReorgRow)
      BY DEF BaseInv, TypeInv
    <3>2. \A j \in Reorgs : j \in 1 .. new /\ new \in Nat
      BY <2>0, <3>1 DEF Reorgs
    <3> QED BY <3>2 DEF Superseded, Contradicts
  <2>6. \A i, b : Superseded(i, b)' <=> Superseded(i, b)
    BY <2>4 DEF Superseded, Reorgs, Contradicts
  <2>7. /\ DOMAIN record[new].blocks = pass.from .. StepTo
        /\ \A b \in pass.from .. StepTo : LiveRow(new, b)' /\ record[new].blocks[b] = chain[b]
    <3>1. /\ DOMAIN record[new].blocks = pass.from .. StepTo
          /\ \A b \in pass.from .. StepTo : record[new].blocks[b] = chain[b]
      BY <2>3
    <3>2. record'[new] = record[new] /\ new \in Kept'
      BY <2>4
    <3>3. \A b : ~Superseded(new, b)'
      BY <2>5, <2>6
    <3>4. \A b \in pass.from .. StepTo :
            new \in Kept' /\ b \in DOMAIN record'[new].blocks /\ ~Superseded(new, b)'
      BY <3>1, <3>2, <3>3
    <3> QED BY <3>1, <3>4 DEF LiveRow
  <2>8. /\ \A i, b : LiveRow(i, b) => LiveRow(i, b)'
        /\ \A i, b : LiveRow(i, b)' => LiveRow(i, b) \/ (i = new /\ b \in pass.from .. StepTo)
    BY <2>4, <2>6, <2>7 DEF LiveRow
  <2>9. \A h : CurrentTo(h)'
    <3> SUFFICES ASSUME NEW i, NEW b, LiveRow(i, b)' PROVE ~Stale(i, b)'
      BY DEF CurrentTo
    <3>1. CASE LiveRow(i, b)
      <4>1. ~Stale(i, b)
        BY <1>11, <3>1 DEF LiveRow
      <4> QED BY <1>3, <2>4, <4>1 DEF Stale
    <3>2. CASE i = new /\ b \in pass.from .. StepTo
      BY <1>3, <1>6, <2>4, <2>7, <3>2 DEF Stale
    <3> QED BY <2>8, <3>1, <3>2
  <2>10. StepInv'
    <3>1. cursor' # Cold
      BY <1>6, <2>1 DEF Cold
    <3> QED BY <1>3, <1>6, <2>1, <3>1 DEF StepInv, InPass
  <2>11. LiveInv'
    <3>1. \A i \in Kept' : DOMAIN record'[i].blocks # {}
      BY <1>6, <2>4, <2>7 DEF MainInv, LiveInv
    <3>2. \A i \in Kept' : \A b \in DOMAIN record'[i].blocks : LiveRow(i, b)' => b <= cursor'
      <4> SUFFICES ASSUME NEW i, NEW b, LiveRow(i, b)' PROVE b <= StepTo
        BY <2>1
      <4>1. CASE LiveRow(i, b)
        <5>1. b < pass.from /\ b \in Nat
          BY <1>11, <4>1, KeptRows DEF LiveRow
        <5> QED BY <1>6, <5>1
      <4>2. CASE b \in pass.from .. StepTo
        BY <4>2
      <4> QED BY <2>8, <4>1, <4>2
    <3>3. ASSUME NEW i \in Kept', NEW m \in DOMAIN record'[i].blocks, NEW b \in m .. cursor'
          PROVE  \E k \in Kept' : LiveRow(k, b)'
      <4>1. new \in Kept'
        BY <2>4
      <4>2. CASE b \in pass.from .. StepTo
        <5>1. LiveRow(new, b)'
          BY <2>7, <4>2
        <5> QED BY <4>1, <5>1
      <4>3. CASE b \notin pass.from .. StepTo
        <5>1. i # new
          <6>1. ASSUME i = new PROVE FALSE
            <7>1. m \in pass.from .. StepTo
              BY <2>4, <2>7, <6>1
            <7> QED BY <1>6, <2>1, <3>3, <4>3, <7>1
          <6> QED BY <6>1
        <5>2. i \in Kept /\ m \in DOMAIN record[i].blocks /\ m \in Nat
          BY <2>4, <3>3, <5>1, KeptRows
        <5>3. cursor # Cold
          BY <5>2 DEF MainInv, StepInv
        <5>4. pass.from = cursor + 1 /\ cursor \in Nat
          BY <1>6, <5>3, Nats
        <5>5. b \in m .. cursor
          BY <1>6, <2>1, <4>3, <5>2, <5>4
        <5>6. PICK k \in Kept : LiveRow(k, b)
          BY <5>2, <5>5 DEF MainInv, LiveInv
        <5> QED BY <2>4, <2>8, <5>6
      <4> QED BY <4>2, <4>3
    <3> QED BY <3>1, <3>2, <3>3 DEF LiveInv
  <2>12. EndInv'
    <3>1. n \in DOMAIN trail'
      BY <1>2
    <3> QED BY <2>1, <2>2, <3>1 DEF EndInv
  <2>13. LinkInv'
    BY <1>5, <1>9, <2>9 DEF LinkInv
  <2>14. AnchorInv'
    <3>1. ASSUME NEW a \in Nat, a <= pass.from, Under(a) \/ NoneLive
          PROVE  Under(a)'
      <4> SUFFICES ASSUME NEW i, NEW b, LiveRow(i, b)' PROVE a <= b
        BY DEF Under
      <4>1. CASE LiveRow(i, b)
        BY <3>1, <4>1 DEF Under, NoneLive, LiveRow
      <4>2. CASE b \in pass.from .. StepTo
        BY <1>6, <3>1, <4>2
      <4> QED BY <2>8, <4>1, <4>2
    <3>2. pass.from \in DOMAIN trail'
      <4>1. CASE at = "first"
        BY <1>2, <1>7, <4>1
      <4>2. CASE at = "last"
        <5>1. pass.from \in DOMAIN trail /\ n = StepTo
          BY <1>7, <1>8, <4>2
        <5>2. pass.from >= n - Depth
          BY <1>6, <1>10, <5>1
        <5> QED BY <1>2, <5>1, <5>2
      <4> QED BY <1>1, <4>1, <4>2
    <3>3. CASE NoneLive
      BY <1>6, <1>9, <3>1, <3>2, <3>3 DEF AnchorInv
    <3>4. CASE \E a \in DOMAIN trail : Under(a) \/ (a <= final /\ Matches(a))
      <4>1. PICK a \in DOMAIN trail : Under(a) \/ (a <= final /\ Matches(a))
        BY <3>4
      <4>2. a \in Nat /\ a <= pass.from
        <5>1. CASE at = "first"
          BY <1>2, <1>6, <1>7, <4>1, <5>1, Maps
        <5>2. CASE at = "last"
          BY <4>1, <5>2, Maps DEF BaseInv, TopInv
        <5> QED BY <1>1, <5>1, <5>2
      <4>3. Under(a) => Under(a)'
        BY <3>1, <4>2
      <4> QED BY <1>3, <1>5, <1>9, <1>13, <4>1, <4>3 DEF AnchorInv
    <3> QED BY <1>1, <3>3, <3>4 DEF MainInv, AnchorInv, Trailed
  <2> QED BY <1>12, <2>10, <2>11, <2>12, <2>13, <2>14 DEF MainInv
<1> QED BY <1>14, <1>15

(* Only the block under the cursor is contradicted, by the first header of *)
(* the step after it; below it the search is sure to find what is settled. *)
LEMMA DisagreesMain ==
  ASSUME Params, DeepTrail, BaseInv, MainInv, HeaderDisagrees
  PROVE  MainInv'
<1>1. /\ UNCHANGED <<node, cursor, kept, record, boot>> /\ at \in {"first", "last"}
      /\ Asked \in DOMAIN chain /\ Disagrees(trail, Header(Asked)) /\ at' = "search"
      /\ trail' = Advance(trail, Header(Asked)) /\ claim' = Claim(trail, Header(Asked))
  BY DEF HeaderDisagrees
<1> DEFINE n == Asked
<1>2. /\ n \in Nat /\ 1 <= n /\ n \in DOMAIN chain
      /\ n - 1 \in DOMAIN trail /\ \A h \in DOMAIN trail : h <= n - 1
      /\ ~Matches(n - 1)
      /\ claim'.from = n - 1 /\ claim'.to = n - 1
      /\ DOMAIN trail' = {g \in DOMAIN trail : g < n - 1 /\ g >= n - Depth} \cup {n}
      /\ \A h \in DOMAIN trail : h \in DOMAIN trail' => trail'[h] = trail[h]
  BY <1>1, ContradictedTrail
<1>3. at = "first"
  <2>1. at = "last" => Matches(n - 1)
    BY <1>2 DEF MainInv, EndInv
  <2> QED BY <1>1, <1>2, <2>1
<1>4. cursor = n - 1 /\ cursor \in Nat
  <2>1. n = cursor + 1 /\ cursor \in DOMAIN trail
    BY <1>1, <1>2, <1>3, TrailNear
  <2> QED BY <2>1, Maps
<1> HIDE DEF n
<1>5. /\ chain' = chain /\ final' = final /\ cursor' = cursor /\ Newest' = Newest
  BY <1>1 DEF node, Newest
<1>6. SameRows
  BY <1>1, RecordKept
<1>7. Trailed = DOMAIN trail
  BY <1>3 DEF Trailed
<1>8. Held' = {h \in DOMAIN trail : h < cursor /\ h >= n - Depth} /\ Trailed' = Held'
  <2>1. Held' = {h \in DOMAIN trail' : h < cursor}
    BY <1>2, <1>4 DEF Held, HeldBelow
  <2> QED BY <1>1, <1>2, <1>4, <2>1 DEF Trailed
<1>9. \A h \in Held' : /\ h \in DOMAIN trail /\ (Matches(h)' <=> Matches(h))
                       /\ (Settled(h)' <=> Settled(h))
  BY <1>2, <1>4, <1>5, <1>8 DEF Matches, Settled
<1>10. Lag \in Nat /\ Depth \in Nat /\ MaxSpan \in Nat /\ 1 <= MaxSpan /\ Newest \in Nat
  BY Nats
<1>11. StepInv'
  <2>1. cursor # 0
    <3>1. cursor \in Trailed /\ (cursor = 0 => Settled(cursor))
      BY <1>2, <1>4, <1>7 DEF Settled
    <3> QED BY <1>2, <1>4, <3>1 DEF MainInv, SettledInv
  <2>2. n - 1 <= Newest
    <3>1. n \in 0 .. Newest
      BY <1>2, Maps
    <3> QED BY <1>10, <3>1
  <2> QED BY <1>1, <1>2, <1>4, <1>5, <2>1, <2>2 DEF StepInv, InPass, Cold
<1>12. LiveInv' /\ EndInv'
  BY <1>1, <1>5, <1>6, SameLive DEF MainInv, EndInv
<1>13. LinkInv' /\ SettledInv'
  <2>1. \A h \in Held' : Matches(h) =>
          CurrentTo(h) /\ \A g \in DOMAIN trail : g < h => Matches(g)
    BY <1>7, <1>9 DEF MainInv, LinkInv
  <2>2. LinkInv'
    BY <1>5, <1>6, <1>8, <1>9, <2>1, SameLive DEF LinkInv
  <2>3. SettledInv'
    BY <1>7, <1>8, <1>9 DEF MainInv, SettledInv
  <2> QED BY <2>2, <2>3
<1>14. GapInv'
  <2>1. ASSUME NEW h \in Held', NEW l \in Held', l < h
        PROVE  \E g \in Held' : g < h /\ h - MaxSpan <= g
    <3>1. n - Depth \in Int /\ n - Depth <= l /\ h < cursor
      BY <1>2, <1>8, <1>10
    <3>2. PICK g \in DOMAIN trail : n - Depth <= g /\ g < h /\ h - MaxSpan <= g
      BY <1>1, <1>9, <2>1, <3>1, TrimGaps
    <3>3. g < cursor
      BY <1>4, <1>9, <3>1, <3>2, Maps
    <3> QED BY <1>8, <3>2, <3>3
  <2> QED BY <1>8, <2>1 DEF GapInv
<1>15. AnchorInv'
  <2>1. CASE NoneLive
    BY <1>6, <2>1, SameLive DEF AnchorInv
  <2>2. CASE \E a \in DOMAIN trail : Under(a) \/ (a <= final /\ Matches(a))
    <3>1. PICK a \in DOMAIN trail : Under(a) \/ (a <= final /\ Matches(a))
      BY <2>2
    <3>2. a \in Nat /\ a <= cursor
      BY <1>2, <1>4, Maps
    <3>3. CASE a = cursor
      <4>1. Under(cursor)
        BY <1>2, <1>4, <3>1, <3>3
      <4> QED BY <1>1, <1>2, <1>4, <1>6, <4>1, SameLive DEF AnchorInv
    <3>4. CASE a < cursor /\ a >= n - Depth
      <4>1. a \in Held'
        BY <1>8, <3>4
      <4>2. Under(a)' \/ (a <= final' /\ Matches(a)')
        BY <1>5, <1>6, <1>9, <3>1, <4>1, SameLive
      <4> QED BY <1>8, <4>1, <4>2 DEF AnchorInv
    <3>5. CASE a < n - Depth
      <4>1. PICK m \in DOMAIN trail : n - Depth <= m /\ m < n - Lag /\ m <= final
        BY <1>1, <3>5, TrimAnchor DEF n
      <4>2. m \in Nat /\ m <= cursor - Lag
        BY <1>2, <1>4, <1>10, <4>1, Maps
      <4>3. Matches(m)
        BY <1>7, <4>2 DEF MainInv, SettledInv, Settled
      <4>4. m # cursor
        BY <1>2, <1>4, <4>3
      <4>5. m \in Held'
        BY <1>2, <1>4, <1>8, <1>10, <4>1, <4>2, <4>4
      <4> QED BY <1>5, <1>8, <1>9, <4>1, <4>3, <4>5 DEF AnchorInv
    <3> QED BY <1>2, <1>4, <1>10, <3>2, <3>3, <3>4, <3>5
  <2> QED BY <1>3, <1>7, <2>1, <2>2 DEF MainInv, AnchorInv
<1> QED BY <1>11, <1>12, <1>13, <1>14, <1>15 DEF MainInv

-----------------------------------------------------------------------------
(* The search.                                                             *)
LEMMA StillMain ==
  ASSUME Params, BaseInv, MainInv, StillReplaced
  PROVE  MainInv'
<1>1. /\ at = "search" /\ Readable /\ claim' = [claim EXCEPT !.from = Max(Held)]
      /\ chain[Max(Held)] # trail[Max(Held)] /\ Max(Held) \in DOMAIN chain
      /\ UNCHANGED <<node, trail, at, cursor, kept, record, boot>>
  BY DEF StillReplaced, Readable
<1> DEFINE m == Max(Held)
<1>2. /\ m \in Held /\ m \in Nat /\ m < claim.from /\ \A h \in Held : h <= m
      /\ Held = {h \in DOMAIN trail : h < claim.from} /\ ~Matches(m) /\ m \in DOMAIN chain
  BY <1>1, HeldHeights DEF Readable, Matches
<1>3. claim'.from = m /\ claim'.to = claim.to
  <2>1. claim \in [from : Nat, to : Nat]
    BY DEF BaseInv, TypeInv
  <2> QED BY <1>1, <2>1
<1> HIDE DEF m
<1>4. /\ chain' = chain /\ trail' = trail /\ at' = "search" /\ cursor' = cursor
      /\ final' = final /\ Newest' = Newest
  BY <1>1 DEF node, Newest
<1>5. SameRows
  BY <1>1, RecordKept
<1>6. /\ Trailed' = {h \in DOMAIN trail : h < m} /\ Trailed = Held
      /\ \A h \in DOMAIN trail : h \in Nat /\ (h < m => h \in Held)
      /\ claim.from \in Nat
  <2>1. \A h \in DOMAIN trail : h \in Nat
    BY Maps
  <2>2. claim.from \in Nat
    BY Nats
  <2> QED BY <1>1, <1>2, <1>3, <1>4, <2>1, <2>2 DEF Trailed, Held, HeldBelow
<1>7. \A h : (Matches(h)' <=> Matches(h)) /\ (Settled(h)' <=> Settled(h))
  BY <1>4 DEF Matches, Settled
<1>8. StepInv'
  <2>1. m # 0
    BY <1>2, <1>6 DEF MainInv, SettledInv, Settled
  <2>2. m <= Newest
    BY <1>2, Maps
  <2> QED BY <1>1, <1>2, <1>3, <1>4, <1>5, <2>1, <2>2 DEF MainInv, StepInv, InPass, SameRows
<1>9. LiveInv' /\ EndInv'
  BY <1>4, <1>5, SameLive DEF MainInv, EndInv
<1>10. LinkInv' /\ SettledInv'
  BY <1>4, <1>5, <1>6, <1>7, SameLive DEF MainInv, LinkInv, SettledInv
<1>11. GapInv'
  <2>1. ASSUME NEW h \in DOMAIN trail, NEW l \in DOMAIN trail, h < m, l < h, l < m
        PROVE  \E g \in DOMAIN trail : g < m /\ g < h /\ h - MaxSpan <= g
    <3>1. PICK g \in Held : g < h /\ h - MaxSpan <= g
      BY <1>6, <2>1 DEF MainInv, GapInv
    <3> QED BY <1>2, <1>6, <2>1, <3>1
  <2> QED BY <1>6, <2>1 DEF GapInv
<1>12. AnchorInv'
  <2>1. CASE NoneLive
    BY <1>5, <2>1, SameLive DEF AnchorInv
  <2>2. CASE Under(claim.from)
    <3>1. Under(m)
      <4> SUFFICES ASSUME NEW i \in Kept, NEW b \in DOMAIN record[i].blocks, LiveRow(i, b)
                   PROVE  m <= b
        BY DEF Under
      <4>1. claim.from <= b /\ b \in Nat
        BY <2>2, KeptRows DEF Under
      <4> QED BY <1>2, <1>6, <4>1
    <3> QED BY <1>3, <1>4, <1>5, <3>1, SameLive DEF AnchorInv
  <2>3. CASE \E a \in Held : Under(a) \/ (a <= final /\ Matches(a))
    <3>1. PICK a \in Held : Under(a) \/ (a <= final /\ Matches(a))
      BY <2>3
    <3>2. a \in Nat /\ a <= m /\ a \in DOMAIN trail
      BY <1>2, <1>6
    <3>3. CASE a = m
      BY <1>2, <1>3, <1>4, <1>5, <3>1, <3>3, SameLive DEF AnchorInv
    <3>4. CASE a < m
      BY <1>4, <1>5, <1>6, <1>7, <3>1, <3>2, <3>4, SameLive DEF AnchorInv
    <3> QED BY <1>2, <3>2, <3>3, <3>4
  <2> QED BY <1>6, <2>1, <2>2, <2>3 DEF MainInv, AnchorInv
<1> QED BY <1>8, <1>9, <1>10, <1>11, <1>12 DEF MainInv

(* A recorded reorganisation contradicts the rows of its blocks, and no    *)
(* other.                                                                  *)
LEMMA ReorgAppended ==
  ASSUME Params, BaseInv, UNCHANGED <<kept, boot>>, NEW low \in Nat,
         record' = Append(record, Reorg(low, claim.to))
  PROVE  /\ Kept' = Kept /\ \A i \in Kept : record'[i] = record[i]
         /\ \A i, b : LiveRow(i, b)' <=> LiveRow(i, b) /\ ~(low <= b /\ b <= claim.to)
<1>1. claim.to \in Nat
  BY Nats
<1>2. /\ Reorg(low, claim.to) \in LogRow \cup ReorgRow /\ Reorg(low, claim.to).reorg
      /\ Reorg(low, claim.to).from = low /\ Reorg(low, claim.to).to = claim.to
  BY <1>1, RowTypes DEF Reorg
<1>3. /\ Len(record) \in Nat /\ DOMAIN record = 1 .. Len(record)
      /\ DOMAIN record' = 1 .. Len(record) + 1
      /\ \A i \in DOMAIN record : record'[i] = record[i]
      /\ record'[Len(record) + 1] = Reorg(low, claim.to)
  BY <1>2, BaseRecord, Appended
<1>4. PICK new : new = Len(record) + 1
  OBVIOUS
<1>5. Reorgs' = Reorgs \cup {new} /\ LogsRead' = LogsRead
  BY <1>2, <1>3, <1>4 DEF Reorgs, LogsRead
<1>6. Kept' = Kept
  BY <1>5 DEF Kept, Read
<1>7. \A i \in Kept : i \in DOMAIN record /\ i < new
  BY <1>3, <1>4 DEF Kept, Read, LogsRead
<1>8. \A j \in Reorgs : record'[j] = record[j]
  BY <1>3 DEF Reorgs
<1>9. \A i \in Kept : \A b : Superseded(i, b)' <=> Superseded(i, b) \/ (low <= b /\ b <= claim.to)
  <2>1. \A i \in Kept : \A b : Superseded(i, b)' <=>
          \E j \in Reorgs \cup {new} : record'[j].from <= b /\ b <= record'[j].to /\ i < j
    BY <1>5 DEF Superseded, Contradicts
  <2>2. record'[new].from = low /\ record'[new].to = claim.to
    BY <1>2, <1>3, <1>4
  <2> QED BY <1>7, <1>8, <2>1, <2>2 DEF Superseded, Contradicts
<1>10. \A i \in Kept : record'[i] = record[i]
  BY <1>3, <1>7
<1> QED BY <1>6, <1>9, <1>10 DEF LiveRow

(* A rewind keeps the blocks up to the height it goes back to.             *)
LEMMA RewindRows ==
  ASSUME Params, BaseInv, MainInv, at = "search", NEW low \in Nat, 1 <= low, low <= claim.from,
         record' = Append(record, Reorg(low, claim.to)), UNCHANGED <<chain, kept, boot>>,
         cursor' = RewindTo(low)
  PROVE  /\ cursor' = low - 1 /\ Kept' = Kept
         /\ \A i \in Kept : record'[i] = record[i]
         /\ \A i, b : LiveRow(i, b)' <=> LiveRow(i, b) /\ b < low
         /\ LiveInv' /\ (NoneLive => NoneLive') /\ \A h : CurrentTo(h) => CurrentTo(h)'
         /\ \A a : Under(a) => Under(a)'
<1>1. /\ claim.to = cursor /\ claim.from <= claim.to /\ cursor \in Int
      /\ claim.from \in Nat /\ claim.to \in Nat
  BY Nats DEF MainInv, StepInv, BaseInv, TopInv
<1>2. cursor' = low - 1
  BY <1>1 DEF RewindTo, Smaller, Larger, Cold
<1>3. /\ Kept' = Kept /\ \A i \in Kept : record'[i] = record[i]
      /\ \A i, b : LiveRow(i, b)' <=> LiveRow(i, b) /\ ~(low <= b /\ b <= claim.to)
  BY ReorgAppended
<1>4. \A i, b : LiveRow(i, b) =>
        i \in Kept /\ b \in DOMAIN record[i].blocks /\ b \in Nat /\ b <= cursor
  BY KeptRows DEF MainInv, LiveInv
<1>5. \A i, b : LiveRow(i, b)' <=> LiveRow(i, b) /\ b < low
  BY <1>1, <1>3, <1>4
<1>6. LiveInv'
  <2>1. \A i \in Kept : \A b \in DOMAIN record[i].blocks : LiveRow(i, b)' => b <= low - 1
    BY <1>4, <1>5
  <2>2. ASSUME NEW i \in Kept, NEW m \in DOMAIN record[i].blocks, NEW b \in m .. low - 1
        PROVE  \E k \in Kept : LiveRow(k, b)'
    <3>1. m \in Nat
      BY KeptRows
    <3>2. b \in m .. cursor /\ b < low
      BY <1>1, <3>1
    <3>3. PICK k \in Kept : LiveRow(k, b)
      BY <3>2 DEF MainInv, LiveInv
    <3> QED BY <1>5, <3>2, <3>3
  <2> QED BY <1>2, <1>3, <2>1, <2>2 DEF MainInv, LiveInv
<1>7. NoneLive => NoneLive'
  BY <1>3, <1>5 DEF NoneLive
<1>8. \A h : CurrentTo(h) => CurrentTo(h)'
  <2>1. \A i \in Kept : \A b : Stale(i, b)' <=> Stale(i, b)
    BY <1>3 DEF Stale
  <2> QED BY <1>3, <1>5, <2>1 DEF CurrentTo
<1>9. \A a : Under(a) => Under(a)'
  BY <1>3, <1>5 DEF Under
<1> QED BY <1>2, <1>3, <1>5, <1>6, <1>7, <1>8, <1>9

LEMMA ForkFoundMain ==
  ASSUME Params, BaseInv, MainInv, Undisturbed', ForkFound
  PROVE  MainInv'
<1>1. /\ at = "search" /\ Readable /\ RecordedOrNot(Max(Held) + 1) /\ Rewind(Max(Held) + 1)
      /\ chain[Max(Held)] = trail[Max(Held)]
  BY DEF ForkFound
<1>0. PICK m : m = Max(Held)
  OBVIOUS
<1>2. /\ m \in Held /\ m \in Nat /\ m < claim.from /\ \A h \in Held : h <= m
      /\ Held = {h \in DOMAIN trail : h < claim.from} /\ Matches(m)
  BY <1>0, <1>1, HeldHeights DEF Readable, Matches
<1>3. record' = Append(record, Reorg(m + 1, claim.to))
  BY <1>0, <1>1 DEF RecordedOrNot, Recorded, Strikes, Undisturbed
<1>4. /\ trail' = ForgetFrom(trail, m + 1) /\ cursor' = RewindTo(m + 1)
      /\ at' = "idle" /\ UNCHANGED <<node, kept, boot>>
  BY <1>0, <1>1 DEF Rewind, Ends
<1>5. chain' = chain /\ final' = final
  BY <1>4 DEF node
<1>6. m + 1 \in Nat /\ 1 <= m + 1 /\ m + 1 <= claim.from /\ claim.from \in Nat
  BY <1>2, Nats
<1>7. /\ cursor' = m /\ Kept' = Kept
      /\ \A i, b : LiveRow(i, b)' <=> LiveRow(i, b) /\ b < m + 1
      /\ LiveInv' /\ (NoneLive => NoneLive') /\ \A h : CurrentTo(h) => CurrentTo(h)'
      /\ \A a : Under(a) => Under(a)'
  <2>1. chain' = chain /\ kept' = kept /\ boot' = boot
    BY <1>4, <1>5
  <2>2. PICK low \in Nat : low = m + 1
    BY <1>6
  <2>3. /\ 1 <= low /\ low <= claim.from /\ cursor' = RewindTo(low)
        /\ record' = Append(record, Reorg(low, claim.to))
    BY <1>3, <1>4, <1>6, <2>2
  <2>4. /\ cursor' = low - 1 /\ Kept' = Kept
        /\ \A i, b : LiveRow(i, b)' <=> LiveRow(i, b) /\ b < low
        /\ LiveInv' /\ (NoneLive => NoneLive') /\ \A h : CurrentTo(h) => CurrentTo(h)'
        /\ \A a : Under(a) => Under(a)'
    BY <1>1, <2>1, <2>3, RewindRows
  <2> QED BY <1>2, <2>2, <2>4
<1>8. DOMAIN trail' = Held /\ Trailed' = Held /\ Trailed = Held
      /\ \A h \in Held : trail'[h] = trail[h] /\ h \in Nat /\ h <= m
  <2>1. /\ DOMAIN trail' = {h \in DOMAIN trail : h < m + 1}
        /\ \A h \in DOMAIN trail' : trail'[h] = trail[h]
    BY <1>4 DEF ForgetFrom
  <2>2. \A h \in DOMAIN trail : h \in Nat /\ (h < m + 1 <=> h \in Held)
    BY <1>2, <1>6, Maps
  <2>3. DOMAIN trail' = Held
    BY <1>2, <2>1, <2>2
  <2> QED BY <1>1, <1>2, <1>4, <2>1, <2>2, <2>3 DEF Trailed
<1>9. \A h \in Held : Matches(h)' <=> Matches(h)
  BY <1>5, <1>8, <1>2 DEF Matches
<1>10. StepInv'
  BY <1>2, <1>4, <1>7 DEF StepInv, InPass, Cold
<1>11. EndInv'
  BY <1>2, <1>4, <1>7, <1>8 DEF EndInv
<1>12. LinkInv' /\ GapInv'
  BY <1>7, <1>8, <1>9 DEF MainInv, LinkInv, GapInv
<1>13. SettledInv'
  <2>1. m <= cursor /\ cursor \in Int /\ Lag \in Nat
    BY <1>1, <1>2, Nats DEF MainInv, StepInv, BaseInv, TopInv
  <2>2. \A h \in Held : Settled(h)' => Settled(h)
    BY <1>2, <1>7, <1>8, <2>1 DEF Settled
  <2> QED BY <1>8, <1>9, <2>2 DEF MainInv, SettledInv
<1>14. AnchorInv'
  <2>1. CASE NoneLive
    BY <1>7, <2>1 DEF AnchorInv
  <2>2. CASE \E a \in Held : Under(a) \/ (a <= final /\ Matches(a))
    BY <1>5, <1>7, <1>8, <1>9, <2>2 DEF AnchorInv
  <2>3. CASE Under(claim.from)
    <3>1. \A i, b : ~LiveRow(i, b)'
      <4> SUFFICES ASSUME NEW i, NEW b, LiveRow(i, b), b < m + 1 PROVE FALSE
        BY <1>7
      <4>1. i \in Kept /\ b \in DOMAIN record[i].blocks /\ b \in Nat
        BY KeptRows
      <4>2. claim.from <= b
        BY <2>3, <4>1 DEF Under
      <4> QED BY <1>2, <1>6, <4>1, <4>2
    <3>2. NoneLive'
      BY <3>1 DEF NoneLive
    <3> QED BY <3>2 DEF AnchorInv
  <2> QED BY <1>8, <2>1, <2>2, <2>3 DEF MainInv, AnchorInv
<1> QED BY <1>7, <1>10, <1>11, <1>12, <1>13, <1>14 DEF MainInv

(* No held height is left: every row the cursor advanced over is from the  *)
(* claim on.                                                               *)
LEMMA SearchEndsMain ==
  ASSUME Params, BaseInv, MainInv, Undisturbed', SearchEnds
  PROVE  MainInv'
<1>1. /\ at = "search" /\ Rewind(claim.from) /\ claim.from \in Nat
      /\ 1 <= claim.from /\ claim.from <= Newest
  BY Nats DEF SearchEnds, MainInv, StepInv
<1>2. ~Readable /\ record' = Append(record, Reorg(claim.from, claim.to))
  BY DEF SearchEnds, RecordedOrNot, Recorded, Strikes, Undisturbed
<1>3. Held = {}
  <2>1. ASSUME Held # {} PROVE Readable
    <3>1. Max(Held) \in Nat /\ Max(Held) < claim.from
      BY <2>1, HeldHeights
    <3>2. Max(Held) \in 0 .. Newest
      BY <1>1, <3>1, Nats
    <3> QED BY <2>1, <3>2, Maps DEF Readable
  <2> QED BY <1>2, <2>1
<1>4. /\ DOMAIN trail' = {} /\ cursor' = RewindTo(claim.from)
      /\ at' = "idle" /\ UNCHANGED <<node, kept, boot>>
  BY <1>1, <1>3 DEF Rewind, Ends, ForgetFrom, Held, HeldBelow
<1>5. chain' = chain
  BY <1>4 DEF node
<1>6. /\ cursor' = claim.from - 1 /\ Kept' = Kept
      /\ \A i, b : LiveRow(i, b)' <=> LiveRow(i, b) /\ b < claim.from
      /\ LiveInv' /\ (NoneLive => NoneLive')
  BY <1>1, <1>2, <1>4, <1>5, RewindRows
<1>7. NoneLive'
  <2>1. CASE NoneLive
    BY <1>6, <2>1
  <2>2. CASE Under(claim.from)
    <3> SUFFICES ASSUME NEW i, NEW b, LiveRow(i, b), b < claim.from PROVE FALSE
      BY <1>6 DEF NoneLive
    <3>1. i \in Kept /\ b \in DOMAIN record[i].blocks /\ b \in Nat
      BY KeptRows
    <3> QED BY <1>1, <2>2, <3>1 DEF Under
  <2> QED BY <1>1, <1>3, <2>1, <2>2 DEF MainInv, AnchorInv, Trailed
<1>8. Trailed' = {}
  BY <1>4 DEF Trailed
<1>9. StepInv'
  BY <1>1, <1>4, <1>6 DEF StepInv, InPass, Cold
<1>10. EndInv' /\ LinkInv' /\ SettledInv' /\ GapInv' /\ AnchorInv'
  BY <1>4, <1>7, <1>8 DEF EndInv, LinkInv, SettledInv, GapInv, AnchorInv
<1> QED BY <1>6, <1>9, <1>10 DEF MainInv

LEMMA MainNext ==
  ASSUME Params, DeepTrail, BaseInv, Undisturbed => MainInv, [Next]_vars
  PROVE  Undisturbed' => MainInv'
<1> SUFFICES ASSUME Undisturbed' PROVE MainInv'
  OBVIOUS
<1>1. CASE UNCHANGED vars
  <2>1. /\ UNCHANGED <<chain, final, cursor, trail, span, at, pass, claim, record, kept, boot,
                       struck>>
        /\ UNCHANGED <<Newest, InPass, StepTo, Held, Trailed, LogsRead>>
    BY <1>1 DEF vars, node, mishaps, loop, Newest, InPass, StepTo, Smaller, Held, HeldBelow,
       Trailed, LogsRead
  <2>2. SameRows
    BY <2>1, RecordKept
  <2>3. MainInv
    BY <2>1 DEF Undisturbed
  <2>4. \A h : (Matches(h)' <=> Matches(h)) /\ (Settled(h)' <=> Settled(h))
    BY <2>1 DEF Matches, Settled
  <2>5. StepInv' /\ LiveInv' /\ EndInv'
    BY <2>1, <2>2, <2>3, <2>4, SameLive DEF MainInv, StepInv, EndInv, SameRows
  <2>6. LinkInv' /\ SettledInv' /\ GapInv' /\ AnchorInv'
    BY <2>1, <2>2, <2>3, <2>4, SameLive DEF MainInv, LinkInv, SettledInv, GapInv, AnchorInv
  <2> QED BY <2>5, <2>6 DEF MainInv
<1>2. CASE Next
  <2>1. struck \subseteq struck'
    BY <1>2 DEF Next, Mine, Fork, Loop, Restart, StartPass, LogsTaken, LogsRefused, PassFails,
       HeaderAgrees, HeaderUnread, HeaderDisagrees, StillReplaced, ForkFound, SearchEnds,
       RecordedOrNot, Recorded, Strikes, mishaps
  <2>2. MainInv
    BY <2>1 DEF Undisturbed
  <2>3. CASE Mine \/ Fork
    BY <2>2, <2>3, MineMain, ForkMain
  <2>4. CASE Loop
    BY <2>2, <2>4, StartPassMain, LogsMain, AgreesMain, UnreadMain, DisagreesMain, StillMain,
       ForkFoundMain, SearchEndsMain DEF Loop
  <2>5. CASE Restart
    BY <2>5, RestartMain
  <2> QED BY <1>2, <2>3, <2>4, <2>5 DEF Next
<1> QED BY <1>1, <1>2

-----------------------------------------------------------------------------
(* What the invariant comes to between passes.                             *)
LEMMA SeenBetweenPasses ==
  ASSUME Params, BaseInv, MainInv
  PROVE  ForksAreSeen
<1> SUFFICES ASSUME at = "idle", NEW i \in Read \cap kept, NEW b \in DOMAIN record[i].blocks,
                    Stale(i, b), ~Superseded(i, b)
             PROVE  ForkPending
  BY DEF ForksAreSeen
<1>1. i \in Kept /\ LiveRow(i, b)
  BY DEF LiveRow, Kept
<1>2. b <= cursor
  BY <1>1 DEF MainInv, LiveInv
<1>3. cursor \in DOMAIN trail
  BY <1>1 DEF MainInv, EndInv, NoneLive
<1>4. ~CurrentTo(cursor)
  BY <1>1, <1>2 DEF CurrentTo
<1>5. ~Matches(cursor)
  BY <1>3, <1>4 DEF MainInv, LinkInv, Trailed
<1> QED BY <1>3, <1>5 DEF ForkPending, Matches

LEMMA CapturedBetweenPasses ==
  ASSUME Params, BaseInv, MainInv, at = "idle", ~ForkPending, Kept # {}
  PROVE  \A b \in Min(DOMAIN record[Min(Kept)].blocks) .. cursor :
           \E i \in Read : b \in DOMAIN record[i].blocks /\ ~Stale(i, b) /\ ~Superseded(i, b)
<1>1. Kept \in SUBSET Nat
  BY KeptRows
<1>2. Min(Kept) \in Kept
  <2>1. \E x \in Kept : \A y \in Kept : x <= y
    BY <1>1, LeastNat
  <2> QED BY <2>1 DEF Min
<1>3. PICK i \in Kept : i = Min(Kept)
  BY <1>2
<1>4. DOMAIN record[i].blocks \in SUBSET Nat /\ DOMAIN record[i].blocks # {}
  BY KeptRows DEF MainInv, LiveInv
<1>5. Min(DOMAIN record[i].blocks) \in DOMAIN record[i].blocks
  <2>1. \E x \in DOMAIN record[i].blocks : \A y \in DOMAIN record[i].blocks : x <= y
    BY <1>4, LeastNat
  <2> QED BY <2>1 DEF Min
<1>6. PICK m \in DOMAIN record[i].blocks : m = Min(DOMAIN record[i].blocks)
  BY <1>5
<1> SUFFICES ASSUME NEW b \in m .. cursor
             PROVE  \E k \in Read :
                      b \in DOMAIN record[k].blocks /\ ~Stale(k, b) /\ ~Superseded(k, b)
  BY <1>3, <1>6
<1>7. PICK k \in Kept : LiveRow(k, b)
  BY DEF MainInv, LiveInv
<1>8. b \in DOMAIN record[k].blocks /\ ~Superseded(k, b) /\ k \in Read
  BY <1>7 DEF LiveRow, Kept
<1>9. cursor \in DOMAIN trail
  BY <1>7, <1>8 DEF MainInv, EndInv, NoneLive
<1>10. Matches(cursor)
  BY <1>9 DEF ForkPending, Matches
<1>11. CurrentTo(cursor)
  BY <1>9, <1>10 DEF MainInv, LinkInv, Trailed
<1>12. b <= cursor
  BY <1>7, <1>8 DEF MainInv, LiveInv
<1> QED BY <1>7, <1>8, <1>11, <1>12 DEF CurrentTo

(* cursor.rs, one_pass: a fork shows at the next boundary, however deep.   *)
(* With a trail deeper than finality by a widest step, every row the       *)
(* cursor advanced over whose block was replaced is contradicted by a      *)
(* recorded reorganisation, or the next header will contradict it, unless  *)
(* the chain moves within a step or a header or a record fails.            *)
THEOREM ForksAreSuperseded ==
  ASSUME Params, DeepTrail
  PROVE  Spec => []ReplacedIsSuperseded
<1>1. Init => CursorInv
  BY BaseInit, MainInit DEF CursorInv
<1>2. CursorInv /\ [Next]_vars => CursorInv'
  BY BaseNext, MainNext DEF CursorInv
<1>3. CursorInv => ReplacedIsSuperseded
  BY SeenBetweenPasses DEF CursorInv, ReplacedIsSuperseded
<1> QED BY <1>1, <1>2, <1>3, PTL DEF Spec

(* cursor.rs, one_pass: the cursor moves only over what was read.  Between *)
(* passes every block from the first one this process captured to the      *)
(* cursor has a row of the chain as it is, over narrowed spans, failures   *)
(* and rewinds.                                                            *)
THEOREM CapturedStaysCurrent ==
  ASSUME Params, DeepTrail
  PROVE  Spec => []CapturedIsCurrent
<1>1. Init => CursorInv
  BY BaseInit, MainInit DEF CursorInv
<1>2. CursorInv /\ [Next]_vars => CursorInv'
  BY BaseNext, MainNext DEF CursorInv
<1>3. CursorInv => CapturedIsCurrent
  BY CapturedBetweenPasses DEF CursorInv, CapturedIsCurrent, Kept
<1> QED BY <1>1, <1>2, <1>3, PTL DEF Spec
=============================================================================
