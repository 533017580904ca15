-------------------------------- MODULE Grid --------------------------------
(***************************************************************************)
(* The returns grid of derive/mod.rs, for one instrument: a venue whose    *)
(* price moves, a tape that hears its bars while they form, when they are  *)
(* done, or long after, in any order and more than once, and the returns   *)
(* read off that tape at any moment.                                       *)
(*                                                                         *)
(* A price is a small number and a return the pair of closes its logarithm *)
(* is taken of.  Volatility and correlation are arithmetic over the        *)
(* returns and are left out, with the share that was heard late.           *)
(***************************************************************************)
EXTENDS Integers, FiniteSets, FiniteSetsExt

CONSTANTS
  Bucket, Widths,       \* ticks: of a slot, and of the bars the venue makes
  From, To,             \* the window, [From, To)
  Prices,
  MaxTime, MaxBars      \* bounds

WidthsAssumption == Bucket \in Nat \ {0} /\ Widths \subseteq Nat \ {0}

VARIABLES
  price,       \* the venue's price at each moment so far
  bars         \* the tape: what was heard

vars == <<price, bars>>
Now == Max(DOMAIN price)
End(bar) == bar.start + bar.width

Init == price \in [{0} -> Prices] /\ bars = {}

(* The venue trades on.                                                    *)
Trade ==
  /\ Now < MaxTime
  /\ \E p \in Prices : price' = [t \in 0..(Now + 1) |-> IF t > Now THEN p ELSE price[t]]
  /\ UNCHANGED bars

(* The last bar that can still matter is heard as it stands: done, or with *)
(* the price of the moment.  A bar still open may be filed as final, as    *)
(* adapters did.                                                           *)
Hear ==
  /\ Cardinality(bars) < MaxBars
  /\ \E width \in Widths, start \in 0..Now, filed \in BOOLEAN :
       /\ start % width = 0
       /\ bars' = bars \cup
            {[start |-> start, width |-> width, recv |-> Now, final |-> filed,
              close |-> price[Min({start + width, Now})]]}
  /\ UNCHANGED price

Next == Trade \/ Hear
Spec == Init /\ [][Next]_vars

-----------------------------------------------------------------------------
AdmittedOpen(bar) ==                           \* mutant: filed final is final
  /\ bar.final
  /\ Bucket % bar.width = 0
  /\ bar.start >= From /\ End(bar) <= To
  /\ End(bar) % Bucket = 0
(* The closing bar of a slot: final, heard no sooner than it ended, of a   *)
(* width that divides the bucket, and ending where the bucket does.        *)
Admitted(bar) ==
  /\ bar.final /\ bar.recv >= End(bar)
  /\ Bucket % bar.width = 0
  /\ bar.start >= From /\ End(bar) <= To
  /\ End(bar) % Bucket = 0

Closing(slot) == {bar \in bars : Admitted(bar) /\ bar.start \div Bucket = slot}
Slots == {bar.start \div Bucket : bar \in {b \in bars : Admitted(b)}}
(* Among the closing bars of a slot, one of the last heard.                *)
LastHeard(slot) ==
  CHOOSE bar \in Closing(slot) : \A other \in Closing(slot) : other.recv <= bar.recv

Follows(earlier, later) == earlier + 1 = later
Returns ==
  {[slot |-> pair[2], from |-> LastHeard(pair[1]).close, to |-> LastHeard(pair[2]).close] :
     pair \in {p \in Slots \X Slots : Follows(p[1], p[2])}}

-----------------------------------------------------------------------------
(* derive/mod.rs, returns: "every return is between two real prices        *)
(* exactly one bucket apart, never interpolated", whatever was heard       *)
(* early, late, twice or never.                                            *)
ReturnsAreReal ==
  \A r \in Returns :
    LET end == (r.slot + 1) * Bucket IN
    end <= Now /\ r.from = price[end - Bucket] /\ r.to = price[end]
=============================================================================
