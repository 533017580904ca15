------------------------------- MODULE MCTape -------------------------------
(* An instance of Tape for TLC: two venues, a dataset, and payloads as  *)
(* a stream and a walk bring them.                                         *)
EXTENDS Tape

CONSTANTS hyperliquid, chain, candles, marks, flow, hand

TwoVenues == <<hyperliquid, chain>>
OneVenue == <<hyperliquid>>
Streamed(k) == [kind |-> k, back |-> 0]
Walked(k) == [kind |-> k, back |-> 1]
Receipts == <<[venue |-> hyperliquid, carries |-> {Walked(candles), Streamed(candles)}],
              [venue |-> chain, carries |-> {Streamed(candles)}],
              [venue |-> hyperliquid, carries |-> {Streamed(candles)}]>>
StreamThenWalk == <<[venue |-> hyperliquid, carries |-> {Streamed(candles)}],
                    [venue |-> hyperliquid, carries |-> {Walked(candles)}]>>
Declared == {{candles}}
Old == {[kind |-> candles, date |-> 0, first |-> 1, last |-> 1, venue |-> NoVenue, src |-> 0,
         seqs |-> {1}]}
=============================================================================
