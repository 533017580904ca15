------------------------------ MODULE AccountBook ------------------------------
(***************************************************************************)
(* ledger/fold.rs: one book (a dex and a ticker) folded from the fills the *)
(* record holds, and checked against what the venue says of each fill and  *)
(* against a snapshot.                                                     *)
(*                                                                         *)
(* The record holds a fill not at all, once, or twice (fetched again); the *)
(* fold reads rows in the order of venue time, so a fill more is a row or  *)
(* two more to read.  Sizes and prices are integers, a basis is a fraction *)
(* and the tolerances are zero: Num is exact here.  Fees and funding,      *)
(* which are sums, and the cash of ledger updates are left out.            *)
(***************************************************************************)
EXTENDS Integers, Sequences

CONSTANTS Sizes, Prices,
          MaxFills, MaxFaults   \* bounds: of fills, and of fills not held just once

SizesAssumption == Sizes \subseteq Nat \ {0} /\ Prices \subseteq Nat \ {0}

VARIABLES
  fills,       \* what happened, in the order of venue time: each fill as the venue states it
  book,        \* the fold's book of the rows so far
  account,     \* the venue's book: its position, and what it cost
  faults

vars == <<fills, book, account, faults>>

Abs(n) == IF n < 0 THEN -n ELSE n
Sign(n) == IF n < 0 THEN -1 ELSE 1

(* A basis: no position, the average entry n/d, or not knowable.           *)
Flat == [state |-> "flat", n |-> 0, d |-> 1]
Known(n, d) == [state |-> "known", n |-> n, d |-> d]
Unknown == [state |-> "unknown", n |-> 0, d |-> 1]
AnchoredAt(position) == IF position = 0 THEN Flat ELSE Unknown

(* The weighted average of what was open and what is added.                *)
Averaged(basis, open, price, added) ==
  Known(open * basis.n + added * price * basis.d, (open + added) * basis.d)

(* One fill of a book that is not poisoned, past its anchor.               *)
Opens(position, fill) == position = 0 \/ Sign(position) = Sign(fill.signed)
Closing(position, fill) ==
  IF Abs(fill.signed) < Abs(position) THEN Abs(fill.signed) ELSE Abs(position)
BasisAfter(position, basis, fill) ==
  LET left == position + fill.signed
  IN  IF Opens(position, fill)
      THEN CASE basis.state = "flat" -> Known(fill.price, 1)
             [] basis.state = "known" ->
                  Averaged(basis, Abs(position), fill.price, Abs(fill.signed))
             [] OTHER -> Unknown
      ELSE CASE left = 0 -> Flat
             [] left # 0 /\ Sign(left) # Sign(position) -> Known(fill.price, 1)   \* a flip
             [] OTHER -> basis

(* What a reducing fill realises, as a fraction of the basis's d.          *)
RealisedWhole(position, basis, fill) ==     \* mutant: a flip realises its whole size
  [n |-> Abs(fill.signed) * (fill.price * basis.d - basis.n) * Sign(position), d |-> basis.d]
Realised(position, basis, fill) ==
  [n |-> Closing(position, fill) * (fill.price * basis.d - basis.n) * Sign(position),
   d |-> basis.d]

-----------------------------------------------------------------------------
(* The fold's book: nothing read, and then one row more.                   *)
NoBook ==
  [position |-> 0, basis |-> Flat, seen |-> {}, poisonedBy |-> 0, afterPoison |-> 0,
   realised |-> <<>>, notHeld |-> 0, breaks |-> {}, skews |-> {}]

(* apply, first half: the first fill anchors a book where the venue says   *)
(* it stood, and a later one that disagrees is a break, and anchors again. *)
AnchoredKeepingBasis(old, fill) ==       \* mutant: a break keeps the basis
  IF old.seen = {} THEN [old EXCEPT !.position = fill.start, !.basis = AnchoredAt(fill.start)]
  ELSE IF old.position = fill.start THEN old
  ELSE [old EXCEPT !.position = fill.start, !.breaks = @ \cup {fill.id}]
Anchored(old, fill) ==
  IF old.seen = {} THEN [old EXCEPT !.position = fill.start, !.basis = AnchoredAt(fill.start)]
  ELSE IF old.position = fill.start THEN old
  ELSE [old EXCEPT !.position = fill.start, !.basis = AnchoredAt(fill.start),
                    !.breaks = @ \cup {fill.id}]

(* Second half: the position, the basis, and what it realises against what *)
(* the venue says it did.                                                  *)
Moved(old, fill) ==
  LET p == old.position  b == old.basis
      gain == Realised(p, b, fill)
      reduces == ~Opens(p, fill)
  IN  [old EXCEPT
        !.seen = @ \cup {fill.id},
        !.position = p + fill.signed,
        !.basis = BasisAfter(p, b, fill),
        !.notHeld = IF reduces /\ b.state # "known" THEN @ + 1 ELSE @,
        !.realised = IF reduces /\ b.state = "known" THEN Append(@, gain) ELSE @,
        !.skews = IF reduces /\ b.state = "known" /\ gain.n * fill.pnl.d # fill.pnl.n * gain.d
                  THEN @ \cup {fill.id} ELSE @]

Applied(old, fill) ==
  CASE old.poisonedBy # 0 -> [old EXCEPT !.afterPoison = @ + 1]
    [] old.poisonedBy = 0 /\ fill.id \in old.seen -> old
    [] old.poisonedBy = 0 /\ fill.id \notin old.seen /\ fill.signed = 0 ->
         [old EXCEPT !.seen = @ \cup {fill.id}, !.poisonedBy = fill.id]
    [] OTHER -> Moved(Anchored(old, fill), fill)
Read(fill) ==
  CASE fill.copies = 0 -> book
    [] fill.copies = 1 -> Applied(book, fill)
    [] OTHER -> Applied(Applied(book, fill), fill)

-----------------------------------------------------------------------------
(* The venue: trades, and states of each fill the position before it and   *)
(* what it closed (closedPnl).  It keeps what the open position cost.      *)
Init ==
  /\ fills = <<>> /\ book = NoBook /\ faults = 0
  /\ account = [position |-> 0, n |-> 0, d |-> 1]     \* cost n/d

Traded(fill) ==
  LET p == account.position
      left == p + fill.signed
  IN  CASE Opens(p, fill) ->
             [position |-> left, n |-> account.n + Abs(fill.signed) * fill.price * account.d,
              d |-> account.d]
        [] ~Opens(p, fill) /\ Abs(fill.signed) <= Abs(p) ->
             [position |-> left, n |-> account.n * Abs(left), d |-> account.d * Abs(p)]
        [] OTHER -> [position |-> left, n |-> Abs(left) * fill.price, d |-> 1]
ClosedPnl(fill) ==
  LET p == account.position
  IN  IF Opens(p, fill) THEN [n |-> 0, d |-> 1]
      ELSE [n |-> Sign(p) * Closing(p, fill) * (fill.price * account.d * Abs(p) - account.n),
            d |-> account.d * Abs(p)]

Happened(trade, pnl, copies) ==
  LET fill == [id |-> Len(fills) + 1, signed |-> trade.signed, price |-> trade.price,
               start |-> account.position, pnl |-> pnl, copies |-> copies]
  IN  fills' = Append(fills, fill) /\ book' = Read(fill)

Trade ==
  /\ Len(fills) < MaxFills
  /\ \E size \in Sizes, side \in {1, -1}, price \in Prices, copies \in 0 .. 2 :
       LET trade == [signed |-> side * size, price |-> price]
       IN  /\ faults' = IF copies = 1 THEN faults ELSE faults + 1
           /\ faults' <= MaxFaults
           /\ Happened(trade, ClosedPnl(trade), copies)
           /\ account' = Traded(trade)

(* A fill the fold cannot use: no size, or no price.                       *)
Unusable ==
  /\ Len(fills) < MaxFills /\ faults < MaxFaults
  /\ faults' = faults + 1
  /\ Happened([signed |-> 0, price |-> 0], [n |-> 0, d |-> 1], 1)
  /\ UNCHANGED account

Next == Trade \/ Unusable

-----------------------------------------------------------------------------
(* check_snapshot, of a snapshot the venue gives now.                      *)
IsEntry(basis) == basis.n * account.d * Abs(account.position) = account.n * basis.d
SnapshotDiffers ==
  \/ book.position # account.position
  \/ book.basis.state = "known" /\ account.position # 0 /\ ~IsEntry(book.basis)

-----------------------------------------------------------------------------
HeldIds == {fills[i].id : i \in {j \in DOMAIN fills : fills[j].copies > 0}}
OnlyOlderMissing == \A i \in HeldIds : \A j \in i .. Len(fills) : j \in HeldIds
Usable == \A i \in DOMAIN fills : fills[i].signed # 0
(* How far the venue's position moved between two fills of the record in a *)
(* row, unseen.                                                            *)
MovedUnseen(i, j) == fills[j].start # fills[i].start + fills[i].signed
Neighbours(i, j) == i < j /\ \A k \in i + 1 .. j - 1 : k \notin HeldIds

(* fold.rs: where only what is older than the first held fill is missing,  *)
(* whatever is held twice, the book is the venue's: its position, every    *)
(* realised figure, and its basis from the moment it was last flat on.     *)
FoldIsTheVenues ==
  (OnlyOlderMissing /\ HeldIds # {} /\ Usable) =>
    /\ book.breaks = {} /\ book.skews = {} /\ ~SnapshotDiffers
    /\ book.basis.state = "flat" <=> account.position = 0
    /\ book.basis.state = "unknown" =>
         \A i \in HeldIds : fills[i].start # 0 /\ Sign(fills[i].start) = Sign(account.position)

(* Continuity: a hole among the fills is a break at the first fill after   *)
(* it exactly when the position moved in it; a basis the fold knows is the *)
(* venue's unless fills went missing that left the position as it was; and *)
(* from an unusable fill on, nothing held is applied.                      *)
HolesAreBreaks ==
  /\ book.breaks = {j \in book.seen : fills[j].signed # 0 /\
                      \E i \in HeldIds : Neighbours(i, j) /\ MovedUnseen(i, j)}
  /\ (/\ book.basis.state = "known" /\ Len(fills) \in HeldIds /\ Usable
      /\ \A i, j \in HeldIds : Neighbours(i, j) /\ j > i + 1 => MovedUnseen(i, j))
       => IsEntry(book.basis)
  /\ \A i, j \in HeldIds : fills[i].signed = 0 /\ i < j => j \notin book.seen
=============================================================================
