---------------------------- MODULE CaptureProofs ---------------------------
EXTENDS Capture, FiniteSetTheorems, WellFoundedInduction, TLAPS

(* A non-empty set of naturals has a least element.                        *)
LEMMA LeastNat ==
  ASSUME NEW S \in SUBSET Nat, S # {}
  PROVE  \E m \in S : \A k \in S : m <= k
<1>1. IsWellFoundedOn(OpToRel(<, Nat), Nat)
  BY NatLessThanWellFounded
<1>2. PICK m \in S : \A k \in S : ~(<<k, m>> \in OpToRel(<, Nat))
  BY <1>1, WFMin
<1>3. \A k \in S : ~(k < m)
  BY <1>2 DEF OpToRel
<1> QED BY <1>3

(* A non-empty set of naturals with an upper bound has a greatest element. *)
LEMMA GreatestNat ==
  ASSUME NEW S \in SUBSET Nat, S # {}, NEW b \in Nat, \A k \in S : k <= b
  PROVE  \E m \in S : \A k \in S : k <= m
<1> DEFINE Bounds == {u \in Nat : \A k \in S : k <= u}
<1>1. Bounds \in SUBSET Nat /\ Bounds # {}
  OBVIOUS
<1>2. PICK u \in Bounds : \A v \in Bounds : u <= v
  BY <1>1, LeastNat
<1>3. CASE u \in S
  BY <1>3
<1>4. CASE u \notin S
  <2>1. \A k \in S : k < u
    BY <1>4
  <2>2. PICK k \in S : TRUE
    OBVIOUS
  <2>3. u - 1 \in Nat /\ \A j \in S : j <= u - 1
    BY <2>1, <2>2
  <2> QED BY <1>2, <2>3
<1> QED BY <1>3, <1>4

-----------------------------------------------------------------------------
(* Every receipt on disk is a moment of the clock.                         *)
LEMMA DurableTimes ==
  ASSUME TypeOK
  PROVE  Durable \subseteq Times
BY DEF TypeOK, Durable, Receipts, Payload, GapRow

(* last_durable is the youngest receipt on disk.                           *)
LEMMA LastDurableIs ==
  ASSUME TypeOK, Durable # {}
  PROVE  LastDurable \in Durable /\ \A t \in Durable : t <= LastDurable
<1>1. Durable \in SUBSET Nat /\ MaxTime \in Nat /\ \A t \in Durable : t <= MaxTime
  BY DurableTimes, BoundsAssumption DEF Times
<1>2. \E m \in Durable : \A t \in Durable : t <= m
  BY <1>1, GreatestNat
<1> QED BY <1>2 DEF LastDurable, LastOf

(* restart_window never starts after the last durable receipt, nor after the *)
(* marker's moment.                                                        *)
LEMMA WindowFromIs ==
  ASSUME TypeOK
  PROVE  /\ WindowFrom \in Moment
         /\ WindowFrom <= LastDurable
         /\ unflushed # Never => WindowFrom <= unflushed
         /\ LastDurable \in Moment
         /\ LastDurable # Never => Durable # {} /\ WindowFrom \in Nat
<1>1. LastDurable \in Moment
  BY DurableTimes, LastDurableIs, BoundsAssumption DEF LastDurable, Moment, Times
<1>2. unflushed \in Moment
  BY DEF TypeOK
<1>3. LastDurable # Never => Durable # {}
  BY DEF LastDurable
<1> QED BY <1>1, <1>2, <1>3 DEF WindowFrom, Moment, Never

(* What mark_unflushed writes is a receipt no later than any still held.   *)
LEMMA FirstOfReceipts ==
  ASSUME NEW rows \in SUBSET Payload, rows # {}
  PROVE  FirstOf(Receipts(rows)) \in Times /\ \A r \in rows : FirstOf(Receipts(rows)) <= r.recv
<1>1. Receipts(rows) \in SUBSET Nat /\ Receipts(rows) # {} /\ Receipts(rows) \subseteq Times
  BY BoundsAssumption DEF Receipts, Payload, Times
<1>2. \E m \in Receipts(rows) : \A k \in Receipts(rows) : m <= k
  BY <1>1, LeastNat
<1>3. /\ FirstOf(Receipts(rows)) \in Receipts(rows)
      /\ \A k \in Receipts(rows) : FirstOf(Receipts(rows)) <= k
  BY <1>2 DEF FirstOf
<1> QED BY <1>1, <1>3 DEF Receipts

-----------------------------------------------------------------------------
(* What the coverage operators return.                                     *)
Gap == [pair : Pairs, from : Times, to : Times, cause : Causes]
AllKnown(ledgerOf) == \A p \in Pairs : ledgerOf[p].last # Never

(* Ledger::known is total on the pairs it is given, and leaves gaps alone. *)
LEMMA KnownType ==
  ASSUME NEW L \in Ledgers, NEW pairs, NEW at \in Nat
  PROVE  /\ Known(L, pairs, at) \in Ledgers
         /\ AllKnown(L) => AllKnown(Known(L, pairs, at))
         /\ Pairs \subseteq pairs => AllKnown(Known(L, pairs, at))
         /\ \A p \in Pairs : /\ p \in pairs => Known(L, pairs, at)[p].last = at
                           /\ Known(L, pairs, at)[p].end = L[p].end
BY DEF Known, Ledgers, Entry, AllKnown, Moment, Never

(* A process starts with a well-formed ledger.                             *)
LEMMA UntouchedType == Untouched \in Ledgers
BY DEF Untouched, Ledgers, Entry, Moment, Never, Causes

(* A gap starts no earlier than its pair was covered or last gapped.       *)
LEMMA GapFromType ==
  ASSUME NEW e \in Entry
  PROVE  /\ GapFrom(e) \in Moment /\ e.last <= GapFrom(e) /\ e.end <= GapFrom(e)
         /\ e.last # Never => GapFrom(e) \in Nat
         /\ e.end = Never => GapFrom(e) = e.last
BY DEF GapFrom, Later, Entry, Moment, Never

(* Coverage::gaps_for dates every gap from a moment.                       *)
LEMMA GapsForType ==
  ASSUME NEW L \in Ledgers, NEW to \in Times, NEW cause \in Causes
  PROVE  GapsFor(L, Pairs, to, cause) \subseteq Gap
<1> SUFFICES ASSUME NEW p \in Pairs, L[p].last # Never, GapFrom(L[p]) < to
             PROVE  [pair |-> p, from |-> GapFrom(L[p]), to |-> to, cause |-> cause] \in Gap
  BY DEF GapsFor
<1>1. L[p] \in Entry
  BY DEF Ledgers
<1>2. GapFrom(L[p]) \in Times
  BY <1>1, GapFromType, BoundsAssumption DEF Times
<1> QED BY <1>2 DEF Gap

(* Publishing gaps keeps the ledger well formed and forgets no pair.       *)
LEMMA AfterGapsForType ==
  ASSUME NEW L \in Ledgers, NEW to \in Times, NEW cause \in Causes
  PROVE  /\ AfterGapsFor(L, Pairs, to, cause) \in Ledgers
         /\ AllKnown(L) => AllKnown(AfterGapsFor(L, Pairs, to, cause))
<1> to \in Moment
  BY BoundsAssumption DEF Times, Moment
<1> QED BY DEF AfterGapsFor, NoteGapped, Ledgers, Entry, AllKnown

(* Coverage::asked_again dates every tail from a moment and forgets no pair. *)
LEMMA TailsType ==
  ASSUME NEW L \in Ledgers, NEW at \in Times
  PROVE  /\ Tails(L, Pairs, at) \subseteq Gap
         /\ AfterAskedAgain(L, Pairs, at) \in Ledgers
         /\ AllKnown(L) => AllKnown(AfterAskedAgain(L, Pairs, at))
<1> at \in Moment /\ at \in Nat /\ MaxTime \in Nat /\ at <= MaxTime
  BY BoundsAssumption DEF Times, Moment
<1>1. Tails(L, Pairs, at) \subseteq Gap
  <2> SUFFICES ASSUME NEW p \in Pairs, L[p].last < L[p].end, L[p].end < at
               PROVE  [pair |-> p, from |-> L[p].end, to |-> at, cause |-> L[p].cause] \in Gap
    BY DEF Tails
  <2>1. L[p].last \in Moment /\ L[p].end \in Moment /\ L[p].cause \in Causes
    BY DEF Ledgers, Entry
  <2>2. L[p].end \in Times
    BY <2>1 DEF Times, Moment, Never
  <2> QED BY <2>1, <2>2 DEF Gap
<1>2. AfterAskedAgain(L, Pairs, at) \in Ledgers
  BY DEF AfterAskedAgain, Ledgers, Entry
<1>3. AllKnown(L) => AllKnown(AfterAskedAgain(L, Pairs, at))
  BY DEF AfterAskedAgain, Ledgers, Entry, AllKnown
<1> QED BY <1>1, <1>2, <1>3

-----------------------------------------------------------------------------
(* A first start is well typed.                                            *)
LEMMA TypeInit == Init => TypeOK
<1> SUFFICES ASSUME Init PROVE TypeOK
  OBVIOUS
<1>1. now \in Times /\ unflushed \in Moment /\ phase \in Phases /\ ledger \in Ledgers
  BY UntouchedType, BoundsAssumption DEF Init, Times, Moment, Phases
<1>2. phase = "down" /\ booted \in Nat /\ nextSeq \in Nat
  BY DEF Init
<1> QED BY <1>1, <1>2 DEF Init, TypeOK

(* The one path makes payloads.                                            *)
LEMMA NewPayloadType ==
  ASSUME TypeOK, NEW f \in Frames, NEW parsed \in BOOLEAN
  PROVE  NewPayload(f, parsed) \in Payload
BY FramesAssumption DEF TypeOK, NewPayload, Payload

(* Losing the process leaves what is on disk well typed.                   *)
LEMMA GoneType ==
  ASSUME TypeOK, Gone, clean' \in BOOLEAN, unflushed' \in Moment
  PROVE  TypeOK'
BY UntouchedType DEF TypeOK, Gone, record, Phases, Payload, GapRow

(* Every step, failures included, keeps the types.                         *)
LEMMA TypeNext ==
  ASSUME TypeOK, [Next]_vars
  PROVE  TypeOK'
<1> MaxTime \in Nat /\ SeqPerTick \in Nat
  BY BoundsAssumption
<1> now \in Times /\ now \in Nat /\ now \in Moment
  BY DEF TypeOK, Times, Moment
<1> Never \in Moment /\ Gap = [pair : Pairs, from : Times, to : Times, cause : Causes]
  BY DEF Moment, Gap
<1> ledger \in Ledgers /\ (phase # "down" => AllKnown(ledger))
  BY DEF TypeOK, AllKnown
<1>1. CASE Tick
  BY <1>1 DEF Tick, TypeOK, Times, process, archive, session, record, markers
<1>3. CASE Boot
  <2>1. Seed \in Nat
    BY DEF Seed
  <2>2. CASE HasWindow
    <3>1. WindowFrom \in Nat
      BY <2>2, WindowFromIs DEF HasWindow
    <3>2. WindowCause \in Causes
      BY DEF WindowCause, Causes
    <3> DEFINE K == Known(Untouched, Pairs, WindowFrom)
    <3>3. K \in Ledgers /\ AllKnown(K)
      BY <3>1, KnownType, UntouchedType
    <3>4. /\ GapsFor(K, Pairs, now, WindowCause) \subseteq Gap
          /\ AfterGapsFor(K, Pairs, now, WindowCause) \in Ledgers
          /\ AllKnown(AfterGapsFor(K, Pairs, now, WindowCause))
      BY <3>2, <3>3, GapsForType, AfterGapsForType
    <3> HIDE DEF K
    <3>5. /\ pending' \subseteq Gap /\ ledger' \in Ledgers /\ AllKnown(ledger)'
          /\ phase' = "reporting" /\ UNCHANGED markers
      BY <1>3, <2>2, <3>4 DEF Boot, K, AllKnown
    <3> QED BY <1>3, <2>1, <3>5
          DEF Boot, TypeOK, AllKnown, Phases, clock, record, markers
  <2>3. CASE ~HasWindow
    <3>1. Known(Untouched, Pairs, now) \in Ledgers /\ AllKnown(Known(Untouched, Pairs, now))
      BY KnownType, UntouchedType
    <3>2. /\ pending' = {} /\ ledger' \in Ledgers /\ AllKnown(ledger)'
          /\ phase' = "running" /\ clean' = FALSE /\ unflushed' = Never
      BY <1>3, <2>3, <3>1 DEF Boot, ClearMarkers, AllKnown
    <3> QED BY <1>3, <2>1, <3>2
          DEF Boot, TypeOK, AllKnown, Phases, clock, record
  <2> QED BY <2>2, <2>3
<1>4. CASE RecordGap
  <2> PICK g \in pending :
         /\ pending' = pending \ {g} /\ nextSeq' = nextSeq + 1
         /\ \/ gaps' = gaps \cup {[seq |-> nextSeq, recv |-> g.to, by |-> booted,
                                   pair |-> g.pair, from |-> g.from, to |-> g.to,
                                   cause |-> g.cause]}
            \/ UNCHANGED gaps
    BY <1>4 DEF RecordGap
  <2>1. [seq |-> nextSeq, recv |-> g.to, by |-> booted, pair |-> g.pair,
         from |-> g.from, to |-> g.to, cause |-> g.cause] \in GapRow
    BY DEF TypeOK, GapRow
  <2>2. gaps' \subseteq GapRow
    BY <2>1 DEF TypeOK
  <2> QED BY <1>4, <2>2 DEF RecordGap, TypeOK, clock, process, markers
<1>5. CASE GapsRecorded
  BY <1>5 DEF GapsRecorded, ClearMarkers, TypeOK, Phases, clock, process, archive, session,
              record, markers
<1>6. ASSUME NEW f \in Frames, NEW parsed \in BOOLEAN,
             TakeStreamed(f, parsed) \/ TakeFetched(f, parsed)
      PROVE  TypeOK'
  <2> DEFINE r == NewPayload(f, parsed)
  <2>1. r \in Payload /\ r.pairs \subseteq Pairs
    BY NewPayloadType, FramesAssumption DEF NewPayload
  <2>2. phase = "running" /\ phase' = phase /\ Take(r)
    BY <1>6 DEF TakeStreamed, TakeFetched, Take
  <2>3. ledger' \in Ledgers /\ AllKnown(ledger)'
    <3>1. Known(ledger, r.pairs, now) \in Ledgers /\ AllKnown(Known(ledger, r.pairs, now))
      BY <2>2, KnownType
    <3> HIDE DEF r
    <3> QED BY <2>2, <3>1 DEF Take, Received, AllKnown
  <2>4. /\ taken' \subseteq Payload /\ failures' \subseteq Payload /\ nextSeq' \in Nat
    <3> HIDE DEF r
    <3> QED BY <2>1, <2>2 DEF Take, TypeOK
  <2>5. buffered' \subseteq Payload /\ disk' \subseteq Payload
    BY <1>6, <2>1 DEF TakeStreamed, TakeFetched, TypeOK, record
  <2> HIDE DEF r
  <2>6. UNCHANGED <<now, slept, booted, stopping, connected, pending, failDisk, gaps,
                    clean, unflushed>>
    BY <1>6 DEF TakeStreamed, TakeFetched, clock, process, record, markers
  <2> QED BY <2>2, <2>3, <2>4, <2>5, <2>6 DEF TypeOK, AllKnown
<1>7. CASE Flush
  BY <1>7 DEF Flush, TypeOK, Phases, clock, archive, session, record, markers
<1>8. CASE FlushPayloads
  BY <1>8 DEF FlushPayloads, FirstGroup, TypeOK, clock, process, session, markers
<1>9. CASE FlushFailures
  BY <1>9 DEF FlushFailures, FirstGroup, TypeOK, clock, process, archive, session, markers
<1>10. CASE FlushDone
  BY <1>10, UntouchedType DEF FlushDone, TypeOK, Phases, record
<1>11. CASE FlushFails
  <2>1. buffered \cup failures \in SUBSET Payload /\ buffered \cup failures # {}
    BY <1>11 DEF FlushFails, TypeOK
  <2>2. FirstOf(Receipts(buffered \cup failures)) \in Moment
    BY <2>1, FirstOfReceipts DEF Times, Moment
  <2>3. unflushed' \in Moment /\ clean' \in BOOLEAN /\ Gone
    BY <1>11, <2>2 DEF FlushFails, TypeOK
  <2> QED BY <2>3, GoneType
<1>12. CASE Kill
  BY <1>12, GoneType DEF Kill, TypeOK, markers
<1>13. CASE Connect
  <2>1. /\ pending' \subseteq Gap /\ ledger' \in Ledgers /\ AllKnown(ledger)'
    BY <1>13, TailsType DEF Connect, AllKnown
  <2> QED BY <1>13, <2>1 DEF Connect, TypeOK, AllKnown, Phases, clock, process, archive,
                             record, markers
<1>14. CASE SessionLost
  <2>1. "session_lost" \in Causes
    BY DEF Causes
  <2>2. /\ pending' \subseteq Gap /\ ledger' \in Ledgers /\ AllKnown(ledger)'
    BY <1>14, <2>1, GapsForType, AfterGapsForType DEF SessionLost, GapsForAll, AllKnown
  <2> QED BY <1>14, <2>2 DEF SessionLost, TypeOK, AllKnown, Phases, clock, process, archive,
                             record, markers
<1>15. CASE Handover
  <2>1. ledger' \in Ledgers /\ AllKnown(ledger)'
    BY <1>15, KnownType DEF Handover, HandoverCompleted, AllKnown
  <2> QED BY <1>15, <2>1 DEF Handover, TypeOK, AllKnown, clock, process, archive, record,
                             markers
<1>16. CASE UNCHANGED vars
  BY <1>16 DEF vars, TypeOK, clock, process, archive, session, record, markers
<1> QED BY <1>1, <1>3, <1>4, <1>5, <1>6, <1>7, <1>8, <1>9, <1>10, <1>11, <1>12,
           <1>13, <1>14, <1>15, <1>16 DEF Next

(* Type correctness: whatever fails, no gap is dated from a moment that is *)
(* not one, and a running process has a covered moment for every pair.     *)
THEOREM TypeCorrect == Spec => []TypeOK
BY TypeInit, TypeNext, PTL DEF Spec

-----------------------------------------------------------------------------
(* A failure row not yet written names a payload still buffered or already *)
(* durable; it is written only once nothing is buffered.                   *)
FailureInv ==
  /\ FailureNamesItsPayload
  /\ failures \subseteq disk \cup buffered

(* No step writes a failure row ahead of its payload.                      *)
LEMMA FailureInvNext ==
  ASSUME FailureInv, [Next]_vars
  PROVE  FailureInv'
<1> USE DEF FailureInv, FailureNamesItsPayload
<1>1. CASE UNCHANGED vars
  BY <1>1 DEF vars, archive, record
<1>2. CASE Tick \/ Boot \/ GapsRecorded \/ Flush
  BY <1>2 DEF Tick, Boot, GapsRecorded, Flush, archive, record
<1>3. CASE RecordGap
  BY <1>3 DEF RecordGap
<1>4. ASSUME NEW f \in Frames, NEW parsed \in BOOLEAN, TakeStreamed(f, parsed)
      PROVE  FailureInv'
  BY <1>4 DEF TakeStreamed, Take, record
<1>5. ASSUME NEW f \in Frames, NEW parsed \in BOOLEAN, TakeFetched(f, parsed)
      PROVE  FailureInv'
  BY <1>5 DEF TakeFetched, Take
<1>6. CASE FlushPayloads
  BY <1>6 DEF FlushPayloads
<1>7. CASE FlushFailures
  BY <1>7 DEF FlushFailures, FirstGroup, archive
<1>8. CASE FlushDone
  BY <1>8 DEF FlushDone, record
<1>9. CASE FlushFails \/ Kill
  BY <1>9 DEF FlushFails, Kill, Gone, record
<1>10. CASE Connect \/ SessionLost \/ Handover
  BY <1>10 DEF Connect, SessionLost, Handover, archive, record
<1> QED BY <1>1, <1>2, <1>3, <1>4, <1>5, <1>6, <1>7, <1>8, <1>9, <1>10 DEF Next

(* Wherever a kill or a failed write falls, with any hazard allowed, a     *)
(* durable failure row joins a durable payload.                            *)
THEOREM FailuresJoin == Spec => []FailureNamesItsPayload
<1>1. Init => FailureInv
  BY DEF Init, FailureInv, FailureNamesItsPayload
<1>2. FailureInv => FailureNamesItsPayload
  BY DEF FailureInv
<1> QED BY <1>1, <1>2, FailureInvNext, PTL DEF Spec

-----------------------------------------------------------------------------
IInv == TypeOK /\ RestartInv /\ NoSilentLoss

(* What Orderly rules out.                                                 *)
LEMMA OrderlyFacts ==
  ASSUME Orderly
  PROVE  /\ Hazards \cap {"kill_in_report", "marker_error", "gap_error", "fetch",
                          "session_loss"} = {}
         /\ "kill_in_flush" \in Hazards => \A f, g \in Frames : f.kind = g.kind
BY DEF Orderly, QuietHazards

(* Nothing durable is dated after the clock.                               *)
LEMMA DurableNotFuture ==
  ASSUME TypeOK, WhereRowsAre
  PROVE  \A t \in Durable : t <= now
BY DEF WhereRowsAre, Durable, Receipts

(* A non-empty set of rows of one kind is one group.                       *)
LEMMA OneGroup ==
  ASSUME NEW rows \in SUBSET Payload, rows # {}, \A f, g \in Frames : f.kind = g.kind
  PROVE  FirstGroup(rows) = rows
<1>1. {r.seq : r \in rows} \in SUBSET Nat /\ {r.seq : r \in rows} # {}
  BY DEF Payload
<1>2. PICK m \in {r.seq : r \in rows} : \A k \in {r.seq : r \in rows} : m <= k
  BY <1>1, LeastNat
<1>3. PICK first \in rows : FirstGroup(rows) = {r \in rows : r.kind = first.kind}
  <2>1. \E r \in rows : \A s \in rows : r.seq <= s.seq
    BY <1>2
  <2> QED BY <2>1 DEF FirstGroup
<1>4. \A r \in rows : r.kind = first.kind
  BY DEF Payload
<1> QED BY <1>3, <1>4

(* The next window reaches back to everything a dying process held.        *)
LEMMA GoneIsDated ==
  ASSUME TypeOK, RestartInv, NoSilentLoss, Gone, phase \in {"running", "flushing"},
         \A r \in buffered : Claimed(r)' => WindowFrom' <= r.recv
  PROVE  (RestartInv /\ NoSilentLoss)'
<1> USE DEF Gone, record
<1>1. WhereRowsAre'
  BY DEF RestartInv, WhereRowsAre
<1>2. SinceBoot'
  BY DEF SinceBoot
<1>3. HeldIsNewest'
  BY DEF HeldIsNewest
<1>4. \A r \in Lost' : r \in Lost \/ r \in buffered
  BY DEF Lost
<1>5. \A r : (Claimed(r)' <=> Claimed(r)) /\ (Reported(r)' <=> Reported(r))
  BY DEF Claimed, Reported, Durable
<1>6. LossIsDated'
  BY <1>4, <1>5 DEF LossIsDated, NoSilentLoss
<1> QED BY <1>1, <1>2, <1>3, <1>6 DEF RestartInv, NoSilentLoss

(* A start computes the gaps of every loss before it clears anything.      *)
LEMMA RestartBoot ==
  ASSUME IInv, Boot
  PROVE  (RestartInv /\ NoSilentLoss)'
<1> USE DEF IInv, RestartInv
<1>1. now \in Nat /\ \A t \in Durable : t < now
  BY DurableTimes DEF Boot, TypeOK, Times, WhereRowsAre, Durable, Receipts
<1>2. buffered = {} /\ UNCHANGED <<now, slept, buffered, failures, connected, taken>>
      /\ UNCHANGED <<disk, failDisk, gaps>> /\ booted' = now /\ phase' # "down"
  BY DEF Boot, HeldIsNewest, clock, record
<1>3. WhereRowsAre'
  BY <1>2 DEF WhereRowsAre
<1>4. Lost' = Lost /\ \A r : (Claimed(r)' <=> Claimed(r)) /\ (Reported(r)' <=> Reported(r))
  BY <1>2 DEF Lost, Claimed, Reported, Durable
<1>5. \A r \in Lost : r \in Payload /\ r.recv < now
  BY DEF Boot, WhereRowsAre, Receipts, Lost, TypeOK
<1>6. CASE HasWindow
  <2> DEFINE K == Known(Untouched, Pairs, WindowFrom)
  <2>1. WindowFrom \in Nat /\ WindowFrom < now
    BY <1>6, WindowFromIs DEF HasWindow
  <2>2. K \in Ledgers /\ \A p \in Pairs : K[p].last = WindowFrom /\ K[p].end = Never
    <3>1. \A p \in Pairs : Untouched[p].end = Never
      BY DEF Untouched
    <3>2. /\ K \in Ledgers
          /\ \A p \in Pairs : K[p].last = WindowFrom /\ K[p].end = Untouched[p].end
      BY <2>1, KnownType, UntouchedType
    <3> QED BY <3>1, <3>2
  <2>3. ASSUME NEW p \in Pairs
        PROVE  GapFrom(K[p]) = WindowFrom /\ K[p].last # Never
    <3>1. K[p].last = WindowFrom /\ K[p].end = Never
      BY <2>2
    <3> HIDE DEF K
    <3> QED BY <2>1, <3>1 DEF GapFrom, Later, Never
  <2> HIDE DEF K
  <2>4. pending' = GapsFor(K, Pairs, now, WindowCause) /\ phase' = "reporting"
    BY <1>6 DEF Boot, K
  <2>5. pending' = {[pair |-> p, from |-> WindowFrom, to |-> now, cause |-> WindowCause] :
                       p \in Pairs}
    BY <2>1, <2>3, <2>4 DEF GapsFor
  <2>6. SinceBoot'
    BY <1>1, <1>2, <1>4, <1>5, <2>5 DEF SinceBoot
  <2>7. HeldIsNewest'
    BY <1>2, <2>4 DEF HeldIsNewest
  <2>8. LossIsDated'
    <3> SUFFICES ASSUME NEW r \in Lost, Claimed(r), NEW p \in r.pairs
                 PROVE  \E g \in gaps' \cup pending' :
                          g.pair = p /\ g.from <= r.recv /\ r.recv <= g.to
      BY <1>2, <1>4, <2>4 DEF LossIsDated
    <3>1. p \in Pairs /\ r.recv \in Nat
      BY <1>5, BoundsAssumption DEF Payload, Times
    <3>2. CASE Reported(r)
      BY <1>2, <3>2 DEF Reported
    <3>3. CASE WindowFrom <= r.recv
      <4>1. [pair |-> p, from |-> WindowFrom, to |-> now, cause |-> WindowCause] \in pending'
        BY <2>5, <3>1
      <4> QED BY <4>1, <1>1, <1>5, <3>1, <3>3
    <3> QED BY <3>2, <3>3 DEF LossIsDated, Boot
  <2> QED BY <1>3, <2>4, <2>6, <2>7, <2>8 DEF NoSilentLoss
<1>7. CASE ~HasWindow
  <2>1. phase' = "running" /\ pending' = {} /\ unflushed' = Never
    BY <1>7 DEF Boot, ClearMarkers
  <2>2. Durable = {}
    <3> SUFFICES ASSUME Durable # {} PROVE FALSE
      OBVIOUS
    <3>1. LastDurable \in Durable /\ WindowFrom <= LastDurable /\ WindowFrom \in Moment
      BY LastDurableIs, WindowFromIs
    <3>2. LastDurable \in Nat /\ LastDurable < now
      BY <1>1, <3>1, DurableTimes, BoundsAssumption DEF Times
    <3> QED BY <1>1, <1>7, <3>1, <3>2 DEF HasWindow, Never, Moment
  <2>3. \A r \in Lost : ~Claimed(r)
    BY <2>2 DEF Claimed
  <2>4. SinceBoot'
    BY <1>1, <1>2, <1>4, <1>5, <2>1 DEF SinceBoot
  <2>5. HeldIsNewest'
    BY <1>2, <2>1 DEF HeldIsNewest
  <2> QED BY <1>3, <1>4, <2>1, <2>3, <2>4, <2>5 DEF LossIsDated, NoSilentLoss
<1> QED BY <1>6, <1>7

(* What is durable grows only by rows younger than every loss.             *)
LEMMA YoungRowsClaimNothing ==
  ASSUME TypeOK, SinceBoot, phase # "down", Lost' = Lost, gaps \subseteq gaps',
         \A t \in Durable' \ Durable : booted <= t /\ t \in Nat
  PROVE  \A r \in Lost : /\ Claimed(r)' => Claimed(r)
                         /\ Reported(r) => Reported(r)'
<1>1. booted \in Nat /\ \A r \in Lost : r.recv \in Nat /\ r.recv < booted
  BY BoundsAssumption DEF TypeOK, SinceBoot, Lost, Payload, Times
<1>2. ASSUME NEW r \in Lost, Claimed(r)' PROVE Claimed(r)
  BY <1>1, <1>2 DEF Claimed
<1>3. ASSUME NEW r \in Lost, Reported(r) PROVE Reported(r)'
  BY <1>3 DEF Reported
<1> QED BY <1>2, <1>3

(* Recording one gap of a restart claims nothing that is not reported.     *)
LEMMA RestartRecordGap ==
  ASSUME Orderly, IInv, RecordGap
  PROVE  (RestartInv /\ NoSilentLoss)'
<1> USE DEF IInv, RestartInv
<1> DEFINE Row(g) == [seq |-> nextSeq, recv |-> g.to, by |-> booted, pair |-> g.pair,
                      from |-> g.from, to |-> g.to, cause |-> g.cause]
<1>0. PICK g \in pending : pending' = pending \ {g} /\ gaps' = gaps \cup {Row(g)}
  BY OrderlyFacts DEF RecordGap
<1> DEFINE row == Row(g)
<1>1. /\ pending' = pending \ {g} /\ gaps' = gaps \cup {row}
      /\ row.recv = g.to /\ row.pair = g.pair /\ row.from = g.from /\ row.to = g.to
  BY <1>0
<1> HIDE DEF row, Row
<1>2. /\ phase \in {"reporting", "gapping"} /\ phase' = phase /\ buffered = {}
      /\ UNCHANGED <<now, slept, booted, buffered, failures, connected, disk, failDisk,
                     unflushed, taken>>
  BY DEF RecordGap, HeldIsNewest, clock, process, markers
<1>3. booted <= g.to /\ g.to <= now /\ g.to \in Nat
  BY <1>2, BoundsAssumption DEF SinceBoot, TypeOK, Times
<1>4. Lost' = Lost
  BY <1>2 DEF Lost
<1>5. Durable' = Durable \cup {g.to}
  BY <1>1, <1>2 DEF Durable, Receipts
<1>6. \A r \in Lost : /\ Claimed(r)' => Claimed(r)
                      /\ Reported(r) => Reported(r)'
  <2>1. gaps \subseteq gaps' /\ \A t \in Durable' \ Durable : booted <= t /\ t \in Nat
    BY <1>1, <1>3, <1>5
  <2> QED BY <1>2, <1>4, <2>1, YoungRowsClaimNothing
<1>7. WhereRowsAre'
  BY <1>1, <1>2, <1>3 DEF WhereRowsAre
<1>8. SinceBoot'
  BY <1>1, <1>2, <1>4 DEF SinceBoot
<1>9. HeldIsNewest'
  BY <1>2 DEF HeldIsNewest
<1>10. LossIsDated'
  <2> SUFFICES ASSUME phase = "reporting", NEW r \in Lost, Claimed(r), NEW p \in r.pairs
               PROVE  \E h \in gaps' \cup pending' :
                        h.pair = p /\ h.from <= r.recv /\ r.recv <= h.to
    BY <1>2, <1>4, <1>6 DEF LossIsDated
  <2>1. PICK h \in gaps \cup pending : h.pair = p /\ h.from <= r.recv /\ r.recv <= h.to
    BY DEF LossIsDated
  <2> QED BY <1>1, <2>1
<1> QED BY <1>2, <1>4, <1>6, <1>7, <1>8, <1>9, <1>10 DEF NoSilentLoss

(* A streamed frame is younger than everything durable.                    *)
LEMMA RestartTakeStreamed ==
  ASSUME IInv, NEW f \in Frames, NEW parsed \in BOOLEAN, TakeStreamed(f, parsed)
  PROVE  (RestartInv /\ NoSilentLoss)'
<1> DEFINE r == NewPayload(f, parsed)
<1> USE DEF IInv, RestartInv
<1>1. r.recv = now
  BY DEF NewPayload
<1> HIDE DEF r
<1>2. /\ phase = "running" /\ phase' = phase /\ connected
      /\ taken' = taken \cup {r} /\ buffered' = buffered \cup {r}
      /\ failures' \subseteq failures \cup {r}
      /\ UNCHANGED <<now, slept, booted, connected, pending, disk, failDisk, gaps, unflushed>>
  BY DEF TakeStreamed, Take, clock, process, record, markers, r
<1>3. now \in Nat /\ \A t \in Durable : t <= now
  BY DurableNotFuture, BoundsAssumption DEF TypeOK, Times
<1>4. Lost' \subseteq Lost
  BY <1>2 DEF Lost
<1>5. Durable' = Durable /\ \A s : (Claimed(s)' <=> Claimed(s)) /\ (Reported(s)' <=> Reported(s))
  BY <1>2 DEF Claimed, Reported, Durable
<1>6. WhereRowsAre'
  BY <1>1, <1>2, <1>3 DEF WhereRowsAre
<1>7. SinceBoot'
  BY <1>1, <1>2, <1>4 DEF SinceBoot
<1>8. HeldIsNewest'
  BY <1>1, <1>2, <1>3, <1>5 DEF HeldIsNewest
<1> QED BY <1>2, <1>4, <1>5, <1>6, <1>7, <1>8 DEF LossIsDated, NoSilentLoss

(* A flush writes nothing younger than what it leaves in the buffer.       *)
LEMMA RestartFlushPayloads ==
  ASSUME Orderly, IInv, FlushPayloads
  PROVE  (RestartInv /\ NoSilentLoss)'
<1> USE DEF IInv, RestartInv
<1> DEFINE group == FirstGroup(buffered)
<1>1. group \subseteq buffered
  BY DEF FirstGroup
<1> HIDE DEF group
<1>2. /\ phase = "flushing" /\ phase' = phase
      /\ disk' = disk \cup group /\ buffered' = buffered \ group
      /\ UNCHANGED <<now, slept, booted, failures, connected, pending, failDisk, gaps,
                     unflushed, taken>>
  BY DEF FlushPayloads, group, clock, process, session, markers
<1>3. Lost' = Lost
  BY <1>1, <1>2 DEF Lost
<1>4. \A r \in Lost : (Claimed(r)' => Claimed(r)) /\ (Reported(r) => Reported(r)')
  <2>1. Durable' = Durable \cup Receipts(group)
    BY <1>2 DEF Durable, Receipts
  <2>2. \A t \in Receipts(group) : booted <= t /\ t \in Nat
    BY <1>1, <1>2, BoundsAssumption DEF Receipts, SinceBoot, TypeOK, Payload, Times
  <2>3. \A t \in Durable' \ Durable : booted <= t /\ t \in Nat
    BY <2>1, <2>2
  <2> QED BY <1>2, <1>3, <2>3, YoungRowsClaimNothing
<1>5. WhereRowsAre'
  BY <1>1, <1>2 DEF WhereRowsAre
<1>6. SinceBoot'
  BY <1>1, <1>2, <1>3 DEF SinceBoot
<1>7. HeldIsNewest'
  <2>1. CASE "kill_in_flush" \in Hazards
    <3>1. group = buffered
      BY <2>1, OrderlyFacts, OneGroup DEF FlushPayloads, TypeOK, group
    <3> QED BY <1>2, <3>1 DEF HeldIsNewest
  <2>2. CASE "kill_in_flush" \notin Hazards
    BY <1>1, <1>2, <2>2 DEF HeldIsNewest
  <2> QED BY <2>1, <2>2
<1> QED BY <1>2, <1>3, <1>4, <1>5, <1>6, <1>7 DEF LossIsDated, NoSilentLoss

(* A failed flush leaves its mark no later than what it lost.              *)
LEMMA RestartFlushFails ==
  ASSUME Orderly, IInv, FlushFails
  PROVE  (RestartInv /\ NoSilentLoss)'
<1> USE DEF IInv, RestartInv
<1> DEFINE first == FirstOf(Receipts(buffered \cup failures))
<1>1. unflushed' = first /\ Gone /\ phase = "flushing" /\ clean' \in BOOLEAN
  BY OrderlyFacts DEF FlushFails, TypeOK
<1>2. first \in Times /\ \A r \in buffered \cup failures : first <= r.recv
  <2>1. buffered \cup failures \in SUBSET Payload /\ buffered \cup failures # {}
    BY DEF FlushFails, TypeOK
  <2> QED BY <2>1, FirstOfReceipts
<1> HIDE DEF first
<1>3. first \in Nat /\ first \in Moment
  BY <1>2, BoundsAssumption DEF Times, Moment
<1>4. TypeOK'
  BY <1>1, <1>3, GoneType
<1>5. WindowFrom' <= first /\ WindowFrom' \in Moment
  <2>1. unflushed' # Never /\ UNCHANGED <<disk, failDisk, gaps>>
    BY <1>1, <1>3 DEF Never, Gone, record
  <2>2. LastDurable' = LastDurable /\ LastDurable \in Moment
    BY <2>1, WindowFromIs DEF LastDurable, Durable
  <2>3. LastDurable' <= first \/ unflushed' < LastDurable'
    BY <1>1, <1>3, <2>2 DEF Moment, Never
  <2> QED BY <1>1, <1>3, <2>1, <2>2, <2>3 DEF WindowFrom, Moment, Never
<1>6. \A r \in buffered : WindowFrom' <= r.recv
  <2>1. \A r \in buffered : r.recv \in Nat
    BY BoundsAssumption DEF TypeOK, Payload, Times
  <2> QED BY <1>2, <1>3, <1>5, <2>1 DEF Moment, Never
<1> QED BY <1>1, <1>6, GoneIsDated

(* A kill loses only what the next window reaches back to.                 *)
LEMMA RestartKill ==
  ASSUME Orderly, IInv, Kill
  PROVE  (RestartInv /\ NoSilentLoss)'
<1> USE DEF IInv, RestartInv
<1>1. /\ Gone /\ UNCHANGED unflushed
      /\ phase = "running" \/ (phase = "flushing" /\ "kill_in_flush" \in Hazards)
  BY OrderlyFacts DEF Kill, TypeOK, Phases, markers
<1>2. unflushed = Never /\ \A r \in buffered, t \in Durable : t <= r.recv
  BY <1>1 DEF HeldIsNewest
<1>3. Durable' = Durable /\ WindowFrom' = LastDurable
  BY <1>1, <1>2 DEF Gone, record, Durable, WindowFrom, LastDurable
<1>4. ASSUME NEW r \in buffered, Claimed(r)' PROVE WindowFrom' <= r.recv
  <2>1. LastDurable \in Durable
    BY <1>3, <1>4, LastDurableIs DEF Claimed
  <2> QED BY <1>2, <1>3, <2>1
<1> QED BY <1>1, <1>4, GoneIsDated

(* Every step keeps the strengthened invariant.                            *)
LEMMA RestartNext ==
  ASSUME Orderly, IInv, [Next]_vars
  PROVE  (RestartInv /\ NoSilentLoss)'
<1> USE DEF IInv, RestartInv
<1>1. CASE Tick
  <2>1. now \in Nat /\ now' = now + 1
    BY <1>1, BoundsAssumption DEF Tick, TypeOK, Times
  <2>2. UNCHANGED <<phase, booted, buffered, failures, connected, pending, disk, failDisk,
                    gaps, unflushed, taken>>
    BY <1>1 DEF Tick, process, archive, session, record, markers
  <2>3. WhereRowsAre'
    <3>1. \A r \in taken : r.recv \in Nat
      BY BoundsAssumption DEF TypeOK, Payload, Times
    <3>2. \A g \in gaps : g.to \in Nat
      BY BoundsAssumption DEF TypeOK, GapRow, Times
    <3> QED BY <2>1, <2>2, <3>1, <3>2 DEF WhereRowsAre, Receipts
  <2>4. Lost' = Lost
    BY <2>2 DEF Lost
  <2>5. SinceBoot'
    <3>1. booted \in Nat /\ \A g \in pending : g.to \in Nat
      BY BoundsAssumption DEF TypeOK, Times
    <3> QED BY <2>1, <2>2, <2>4, <3>1 DEF SinceBoot
  <2>6. /\ Durable' = Durable /\ WindowFrom' = WindowFrom
        /\ \A r : (Claimed(r)' <=> Claimed(r)) /\ (Reported(r)' <=> Reported(r))
    BY <2>2 DEF Durable, WindowFrom, LastDurable, Claimed, Reported
  <2>7. HeldIsNewest'
    BY <2>2, <2>6 DEF HeldIsNewest
  <2> QED BY <2>2, <2>3, <2>4, <2>5, <2>6, <2>7 DEF LossIsDated, NoSilentLoss
<1>2. CASE Boot
  BY <1>2, RestartBoot
<1>3. CASE RecordGap
  BY <1>3, RestartRecordGap
<1>4. CASE GapsRecorded
  <2>1. /\ phase' = "running" /\ pending = {} /\ buffered = {} /\ unflushed' = Never
        /\ phase \in {"reporting", "gapping"}
        /\ UNCHANGED <<now, slept, booted, buffered, failures, connected, pending, disk,
                       failDisk, gaps, taken>>
    BY <1>4 DEF GapsRecorded, ClearMarkers, HeldIsNewest, clock, process, archive, session,
                record, markers
  <2>2. Lost' = Lost /\ \A r : (Claimed(r)' <=> Claimed(r)) /\ (Reported(r)' <=> Reported(r))
    BY <2>1 DEF Lost, Claimed, Reported, Durable
  <2>3. WhereRowsAre' /\ SinceBoot' /\ HeldIsNewest'
    BY <2>1, <2>2 DEF WhereRowsAre, SinceBoot, HeldIsNewest
  <2>4. \A r \in Lost : Claimed(r) => Reported(r)
    BY <2>1 DEF LossIsDated, NoSilentLoss, Reported
  <2> QED BY <2>1, <2>2, <2>3, <2>4 DEF LossIsDated, NoSilentLoss
<1>5. ASSUME NEW f \in Frames, NEW parsed \in BOOLEAN, TakeStreamed(f, parsed)
      PROVE  (RestartInv /\ NoSilentLoss)'
  BY <1>5, RestartTakeStreamed
<1>6. CASE Flush
  <2>1. /\ phase = "running" /\ phase' = "flushing"
        /\ UNCHANGED <<now, slept, booted, buffered, failures, connected, pending, disk,
                       failDisk, gaps, unflushed, taken>>
    BY <1>6 DEF Flush, clock, archive, session, record, markers
  <2>2. /\ Lost' = Lost /\ Durable' = Durable
        /\ \A r : (Claimed(r)' <=> Claimed(r)) /\ (Reported(r)' <=> Reported(r))
    BY <2>1 DEF Lost, Claimed, Reported, Durable
  <2>3. WhereRowsAre' /\ SinceBoot' /\ HeldIsNewest'
    BY <2>1, <2>2 DEF WhereRowsAre, SinceBoot, HeldIsNewest
  <2> QED BY <2>1, <2>2, <2>3 DEF LossIsDated, NoSilentLoss
<1>7. CASE FlushPayloads
  BY <1>7, RestartFlushPayloads
<1>8. CASE FlushFailures
  <2>1. /\ phase = "flushing" /\ phase' = phase /\ buffered = {}
        /\ failDisk' \subseteq failDisk \cup failures
        /\ failDisk \subseteq failDisk'
        /\ UNCHANGED <<now, slept, booted, buffered, failures, connected, pending, disk,
                       gaps, unflushed, taken>>
    BY <1>8 DEF FlushFailures, FirstGroup, clock, process, archive, session, markers
  <2>2. Durable' = Durable
    <3>1. failDisk' \subseteq disk /\ failDisk \subseteq failDisk'
      BY <2>1 DEF WhereRowsAre
    <3> QED BY <2>1, <3>1 DEF Durable, Receipts
  <2>3. Lost' = Lost /\ \A r : (Claimed(r)' <=> Claimed(r)) /\ (Reported(r)' <=> Reported(r))
    BY <2>1, <2>2 DEF Lost, Claimed, Reported
  <2>4. WhereRowsAre' /\ SinceBoot' /\ HeldIsNewest'
    BY <2>1, <2>2, <2>3 DEF WhereRowsAre, SinceBoot, HeldIsNewest
  <2> QED BY <2>1, <2>3, <2>4 DEF LossIsDated, NoSilentLoss
<1>9. CASE FlushDone
  <2>1. /\ phase = "flushing" /\ phase' \in {"down", "running"}
        /\ phase' = "down" => slept' = FALSE
        /\ phase' = "running" => UNCHANGED connected
        /\ buffered = {} /\ failures' = {} /\ unflushed' = Never
        /\ UNCHANGED <<now, booted, buffered, pending, disk, failDisk, gaps, taken>>
    BY <1>9 DEF FlushDone, record
  <2>2. Lost' = Lost /\ \A r : (Claimed(r)' <=> Claimed(r)) /\ (Reported(r)' <=> Reported(r))
    BY <2>1 DEF Lost, Claimed, Reported, Durable
  <2>3. WhereRowsAre' /\ SinceBoot' /\ HeldIsNewest'
    BY <2>1, <2>2 DEF WhereRowsAre, SinceBoot, HeldIsNewest
  <2> QED BY <2>1, <2>2, <2>3 DEF LossIsDated, NoSilentLoss
<1>10. CASE FlushFails
  BY <1>10, RestartFlushFails
<1>11. CASE Kill
  BY <1>11, RestartKill
<1>12. CASE Connect
  <2>1. \A g \in pending' : g.to = now
    BY <1>12 DEF Connect, Tails
  <2>2. /\ phase = "running" /\ phase' = "gapping" /\ buffered = {}
        /\ UNCHANGED <<now, slept, booted, buffered, failures, disk, failDisk, gaps,
                       unflushed, taken>>
    BY <1>12 DEF Connect, HeldIsNewest, clock, process, archive, record, markers
  <2>3. Lost' = Lost /\ \A r : (Claimed(r)' <=> Claimed(r)) /\ (Reported(r)' <=> Reported(r))
    BY <2>2 DEF Lost, Claimed, Reported, Durable
  <2>4. now \in Nat /\ now <= now
    BY BoundsAssumption DEF TypeOK, Times
  <2>5. WhereRowsAre' /\ SinceBoot' /\ HeldIsNewest'
    BY <2>1, <2>2, <2>3, <2>4 DEF WhereRowsAre, SinceBoot, HeldIsNewest
  <2> QED BY <2>2, <2>3, <2>5 DEF LossIsDated, NoSilentLoss
<1>13. ~SessionLost /\ ~Handover
  BY OrderlyFacts DEF SessionLost, Handover
<1>14. \A f \in Frames, parsed \in BOOLEAN : ~TakeFetched(f, parsed)
  BY OrderlyFacts DEF TakeFetched
<1>15. CASE UNCHANGED vars
  <2>1. UNCHANGED <<now, slept, phase, booted, buffered, failures, connected, pending, disk,
                    failDisk, gaps, unflushed, taken>>
    BY <1>15 DEF vars, clock, process, archive, session, record, markers
  <2>2. /\ Lost' = Lost /\ Durable' = Durable /\ WindowFrom' = WindowFrom
        /\ \A r : (Claimed(r)' <=> Claimed(r)) /\ (Reported(r)' <=> Reported(r))
    BY <2>1 DEF Lost, Claimed, Reported, Durable, WindowFrom, LastDurable
  <2>3. WhereRowsAre' /\ SinceBoot' /\ HeldIsNewest'
    BY <2>1, <2>2 DEF WhereRowsAre, SinceBoot, HeldIsNewest
  <2> QED BY <2>1, <2>2, <2>3 DEF LossIsDated, NoSilentLoss
<1> QED BY <1>1, <1>2, <1>3, <1>4, <1>5, <1>6, <1>7, <1>8, <1>9, <1>10, <1>11, <1>12,
           <1>13, <1>14, <1>15 DEF Next

(* restart_window, for every set of pairs and frames and every clock: once *)
(* a restart has reported, whatever was received and lost lies in a        *)
(* recorded gap, as long as no gap or page becomes durable ahead of the    *)
(* buffer and no kill splits a flush of several partitions.                *)
THEOREM LossReported == ASSUME Orderly PROVE Spec => []NoSilentLoss
<1>1. Init => IInv
  <2> SUFFICES ASSUME Init PROVE RestartInv /\ NoSilentLoss
    BY TypeInit DEF IInv
  <2>1. Lost = {}
    BY DEF Init, Lost
  <2> QED BY <2>1 DEF Init, RestartInv, WhereRowsAre, SinceBoot, HeldIsNewest, LossIsDated,
                      NoSilentLoss, Receipts
<1>2. IInv /\ [Next]_vars => IInv'
  BY RestartNext, TypeNext DEF IInv
<1>3. IInv => NoSilentLoss
  BY DEF IInv
<1> QED BY <1>1, <1>2, <1>3, PTL DEF Spec

-----------------------------------------------------------------------------
(* The gaps this process has published or is about to.                     *)
Ours == {g \in gaps : g.by = booted}

(***************************************************************************)
(* The strengthening under which GapsDisjoint is inductive: a process is   *)
(* told apart by when it started, and no gap of it ends after where the    *)
(* ledger says the pair's last one did.                                    *)
(***************************************************************************)
ProcessesApart ==
  /\ booted <= now
  /\ \A g \in gaps : g.by <= booted
  /\ phase = "down" /\ slept => \A g \in gaps : g.by < now

GapsFollow ==
  phase # "down" =>
    /\ \A g \in Ours \cup pending : g.to <= ledger[g.pair].end
    /\ \A g \in pending : g.from <= g.to
    /\ \A g, h \in pending : g.pair = h.pair => g = h
    /\ \A g \in Ours, h \in pending : g.pair = h.pair => g.to <= h.from
    /\ phase \notin {"reporting", "gapping"} => pending = {}

GapInv == TypeOK /\ ProcessesApart /\ GapsFollow /\ GapsDisjoint

(* Gaps dated from a ledger start where its last ones ended, one a pair.   *)
LEMMA NewGapsFollow ==
  ASSUME NEW L \in Ledgers, NEW to \in Times, NEW cause \in Causes
  PROVE  /\ \A g \in GapsFor(L, Pairs, to, cause) :
              /\ g.pair \in Pairs /\ L[g.pair].end <= g.from /\ g.from <= g.to
              /\ g.to <= AfterGapsFor(L, Pairs, to, cause)[g.pair].end
         /\ \A g, h \in GapsFor(L, Pairs, to, cause) : g.pair = h.pair => g = h
         /\ \A p \in Pairs : L[p].end <= AfterGapsFor(L, Pairs, to, cause)[p].end
<1> DEFINE G == GapsFor(L, Pairs, to, cause)
<1> DEFINE A == AfterGapsFor(L, Pairs, to, cause)
<1>1. to \in Nat
  BY BoundsAssumption DEF Times
<1>2. ASSUME NEW p \in Pairs
      PROVE  L[p] \in Entry /\ GapFrom(L[p]) \in Moment /\ L[p].end <= GapFrom(L[p])
  BY DEF Ledgers, Entry, GapFrom, Later, Moment, Never
<1>3. ASSUME NEW g \in G
      PROVE  /\ g.pair \in Pairs /\ g.from = GapFrom(L[g.pair]) /\ g.to = to
             /\ g.from < to /\ g.cause = cause
             /\ g = [pair |-> g.pair, from |-> g.from, to |-> g.to, cause |-> g.cause]
  BY DEF GapsFor
<1>4. ASSUME NEW p \in Pairs
      PROVE  A[p].end = IF p \in {g.pair : g \in G} THEN to ELSE L[p].end
  BY <1>2 DEF AfterGapsFor, NoteGapped, Entry
<1> HIDE DEF G, A
<1>5. ASSUME NEW p \in Pairs
      PROVE  L[p].end <= A[p].end
  <2>1. CASE p \in {g.pair : g \in G}
    <3>1. PICK g \in G : g.pair = p
      BY <2>1
    <3>2. L[p].end \in Moment /\ GapFrom(L[p]) \in Moment
      BY <1>2 DEF Entry
    <3> QED BY <1>1, <1>2, <1>3, <1>4, <2>1, <3>1, <3>2 DEF Moment, Never
  <2>2. CASE p \notin {g.pair : g \in G}
    <3>1. L[p].end \in Moment
      BY <1>2 DEF Entry
    <3> QED BY <1>4, <2>2, <3>1 DEF Moment, Never
  <2> QED BY <2>1, <2>2
<1>6. ASSUME NEW g \in G
      PROVE  /\ g.pair \in Pairs /\ L[g.pair].end <= g.from /\ g.from <= g.to
             /\ g.to <= A[g.pair].end
  <2>1. A[g.pair].end = to
    BY <1>3, <1>4
  <2>2. GapFrom(L[g.pair]) \in Moment
    BY <1>2, <1>3
  <2> QED BY <1>1, <1>2, <1>3, <2>1, <2>2 DEF Moment, Never
<1>7. \A g, h \in G : g.pair = h.pair => g = h
  BY <1>3
<1> QED BY <1>5, <1>6, <1>7 DEF G, A

(* And so do the tails of those still open.                                *)
LEMMA TailsFollow ==
  ASSUME NEW L \in Ledgers, NEW at \in Times
  PROVE  /\ \A g \in Tails(L, Pairs, at) :
              /\ g.pair \in Pairs /\ L[g.pair].end <= g.from /\ g.from <= g.to
              /\ g.to <= AfterAskedAgain(L, Pairs, at)[g.pair].end
         /\ \A g, h \in Tails(L, Pairs, at) : g.pair = h.pair => g = h
         /\ \A p \in Pairs : L[p].end <= AfterAskedAgain(L, Pairs, at)[p].end
<1> DEFINE G == Tails(L, Pairs, at)
<1> DEFINE A == AfterAskedAgain(L, Pairs, at)
<1>1. at \in Nat
  BY BoundsAssumption DEF Times
<1>2. ASSUME NEW p \in Pairs
      PROVE  L[p] \in Entry /\ L[p].end \in Moment
  BY DEF Ledgers, Entry
<1>3. ASSUME NEW g \in G
      PROVE  /\ g.pair \in Pairs /\ g.from = L[g.pair].end /\ g.to = at
             /\ g.from < at /\ g.cause = L[g.pair].cause
             /\ g = [pair |-> g.pair, from |-> g.from, to |-> g.to, cause |-> g.cause]
  BY DEF Tails
<1>4. ASSUME NEW p \in Pairs
      PROVE  A[p].end = IF p \in {g.pair : g \in G} THEN at ELSE L[p].end
  BY <1>2 DEF AfterAskedAgain, Entry
<1> HIDE DEF G, A
<1>5. ASSUME NEW p \in Pairs
      PROVE  L[p].end <= A[p].end
  <2>1. CASE p \in {g.pair : g \in G}
    <3>1. PICK g \in G : g.pair = p
      BY <2>1
    <3> QED BY <1>1, <1>2, <1>3, <1>4, <2>1, <3>1 DEF Moment, Never
  <2>2. CASE p \notin {g.pair : g \in G}
    BY <1>2, <1>4, <2>2 DEF Moment, Never
  <2> QED BY <2>1, <2>2
<1>6. ASSUME NEW g \in G
      PROVE  /\ g.pair \in Pairs /\ L[g.pair].end <= g.from /\ g.from <= g.to
             /\ g.to <= A[g.pair].end
  <2>1. A[g.pair].end = at /\ L[g.pair].end \in Moment
    BY <1>2, <1>3, <1>4
  <2> QED BY <1>1, <1>3, <2>1 DEF Moment, Never
<1>7. \A g, h \in G : g.pair = h.pair => g = h
  BY <1>3
<1> QED BY <1>5, <1>6, <1>7 DEF G, A

(* Where a running process with nothing to record publishes gaps.          *)
LEMMA PublishedFollow ==
  ASSUME GapInv, phase # "down", pending = {}, UNCHANGED <<now, booted, gaps>>,
         phase' # "down", phase' \in {"gapping", "reporting"},
         \A g \in pending' : /\ g.pair \in Pairs /\ ledger[g.pair].end <= g.from /\ g.from <= g.to
                             /\ g.to <= ledger'[g.pair].end /\ g.from \in Times,
         \A g, h \in pending' : g.pair = h.pair => g = h,
         \A p \in Pairs : ledger[p].end <= ledger'[p].end,
         ledger' \in Ledgers
  PROVE  ProcessesApart' /\ GapsFollow' /\ GapsDisjoint'
<1>1. ProcessesApart' /\ GapsDisjoint' /\ Ours' = Ours
  BY DEF GapInv, ProcessesApart, GapsDisjoint, Ours
<1>2. \A p \in Pairs : ledger[p].end \in Moment /\ ledger'[p].end \in Moment
  BY DEF GapInv, TypeOK, Ledgers, Entry
<1>3. \A g \in Ours : g.pair \in Pairs /\ g.to \in Nat /\ g.to <= ledger[g.pair].end
  BY BoundsAssumption DEF GapInv, TypeOK, GapRow, GapsFollow, Ours, Times
<1>4. \A g \in Ours : g.to <= ledger'[g.pair].end
  BY <1>2, <1>3 DEF Moment, Never
<1>5. \A g \in Ours, h \in pending' : g.pair = h.pair => g.to <= h.from
  <2> SUFFICES ASSUME NEW g \in Ours, NEW h \in pending', g.pair = h.pair
               PROVE  g.to <= h.from
    OBVIOUS
  <2>1. h.from \in Nat /\ ledger[g.pair].end <= h.from
    BY BoundsAssumption DEF Times
  <2> QED BY <1>2, <1>3, <2>1 DEF Moment, Never
<1> QED BY <1>1, <1>4, <1>5 DEF GapsFollow

(* Where the ledger, the process and its gaps stand still.                 *)
LEMMA GapsStand ==
  ASSUME GapInv, UNCHANGED <<booted, gaps, pending>>, now' \in Nat, now <= now', now \in Nat,
         phase' # "down" => phase # "down",
         phase' \notin {"down", "reporting", "gapping"} => pending = {},
         phase' = "down" /\ slept' => now < now' \/ (phase = "down" /\ slept),
         \A p \in Pairs : ledger'[p].end = ledger[p].end
  PROVE  ProcessesApart' /\ GapsFollow' /\ GapsDisjoint'
<1>1. \A g \in gaps : g.by \in Nat /\ g.pair \in Pairs
  BY DEF GapInv, TypeOK, GapRow
<1>2. booted \in Nat
  BY DEF GapInv, TypeOK
<1>3. ProcessesApart'
  BY <1>1, <1>2 DEF GapInv, ProcessesApart
<1>4. GapsDisjoint' /\ Ours' = Ours
  BY DEF GapInv, GapsDisjoint, Ours
<1>5. \A g \in Ours \cup pending : g.pair \in Pairs
  BY <1>1 DEF Ours, GapInv, TypeOK
<1>6. GapsFollow'
  BY <1>4, <1>5 DEF GapInv, GapsFollow
<1> QED BY <1>3, <1>4, <1>6

(* A process that is gone publishes nothing more.                          *)
LEMMA GapsGone ==
  ASSUME GapInv, now' = now, phase' = "down", slept' = FALSE, UNCHANGED <<booted, gaps>>
  PROVE  ProcessesApart' /\ GapsFollow' /\ GapsDisjoint'
BY DEF GapInv, ProcessesApart, GapsFollow, GapsDisjoint

LEMMA GapInvNext ==
  ASSUME GapInv, [Next]_vars
  PROVE  GapInv'
<1>0. TypeOK'
  BY TypeNext DEF GapInv
<1>0a. now \in Nat /\ now \in Times /\ ledger \in Ledgers /\ ledger' \in Ledgers
  BY <1>0, BoundsAssumption DEF GapInv, TypeOK, Times
<1> SUFFICES ProcessesApart' /\ GapsFollow' /\ GapsDisjoint'
  BY <1>0 DEF GapInv
<1>1. CASE Tick
  <2>1. now' \in Nat /\ now < now'
    BY <1>0a, <1>1 DEF Tick
  <2>2. UNCHANGED <<booted, gaps, pending, ledger, phase>>
    BY <1>1 DEF Tick, process, session, record
  <2>3. phase' \notin {"down", "reporting", "gapping"} => pending = {}
    BY <2>2 DEF GapInv, GapsFollow
  <2> QED BY <1>0a, <2>1, <2>2, <2>3, GapsStand
<1>2. CASE Boot
  <2>1. /\ phase = "down" /\ slept /\ booted' = now /\ UNCHANGED <<now, gaps>>
        /\ phase' # "down"
    BY <1>2 DEF Boot, clock, record
  <2>2. \A g \in gaps : g.by \in Nat /\ g.by < now
    BY <2>1 DEF GapInv, ProcessesApart, TypeOK, GapRow
  <2>3. ProcessesApart' /\ GapsDisjoint'
    BY <1>0a, <2>1, <2>2 DEF GapInv, ProcessesApart, GapsDisjoint
  <2>4. Ours' = {}
    BY <1>0a, <2>1, <2>2 DEF Ours
  <2>5. CASE HasWindow
    <3> DEFINE K == Known(Untouched, Pairs, WindowFrom)
    <3>1. K \in Ledgers /\ WindowCause \in Causes
      <4>1. WindowFrom \in Nat
        BY <2>5, WindowFromIs DEF GapInv, HasWindow
      <4> QED BY <4>1, KnownType, UntouchedType DEF WindowCause, Causes
    <3> HIDE DEF K
    <3>2. /\ pending' = GapsFor(K, Pairs, now, WindowCause) /\ phase' = "reporting"
          /\ ledger' = AfterGapsFor(K, Pairs, now, WindowCause)
      BY <1>2, <2>5 DEF Boot, K
    <3>3. /\ \A g \in pending' : g.from <= g.to /\ g.to <= ledger'[g.pair].end
          /\ \A g, h \in pending' : g.pair = h.pair => g = h
      BY <1>0a, <3>1, <3>2, NewGapsFollow
    <3> QED BY <2>3, <2>4, <3>2, <3>3 DEF GapsFollow
  <2>6. CASE ~HasWindow
    <3>1. pending' = {}
      BY <1>2, <2>6 DEF Boot
    <3> QED BY <2>3, <2>4, <3>1 DEF GapsFollow
  <2> QED BY <2>5, <2>6
<1>3. CASE RecordGap
  <2>1. /\ phase \in {"reporting", "gapping"}
        /\ UNCHANGED <<now, slept, phase, booted, ledger>>
    BY <1>3 DEF RecordGap, clock, process
  <2>2. PICK g \in pending :
          /\ pending' = pending \ {g}
          /\ \/ gaps' = gaps
             \/ gaps' = gaps \cup {[seq |-> nextSeq, recv |-> g.to, by |-> booted,
                                    pair |-> g.pair, from |-> g.from, to |-> g.to,
                                    cause |-> g.cause]}
    BY <1>3 DEF RecordGap
  <2>3. CASE gaps' = gaps
    BY <2>1, <2>2, <2>3 DEF GapInv, ProcessesApart, GapsFollow, GapsDisjoint, Ours
  <2>4. CASE gaps' # gaps
    <3>1. PICK row : /\ gaps' = gaps \cup {row}
                     /\ row.by = booted /\ row.pair = g.pair
                     /\ row.from = g.from /\ row.to = g.to
      BY <2>2, <2>4
    <3>2. booted \in Nat
      BY DEF GapInv, TypeOK
    <3>3. ProcessesApart'
      BY <2>1, <3>1, <3>2 DEF GapInv, ProcessesApart
    <3>4. Ours' = Ours \cup {row}
      BY <2>1, <3>1 DEF Ours
    <3>5. \A h \in Ours : h.pair = row.pair => h.to <= row.from
      BY <2>1, <3>1 DEF GapInv, GapsFollow
    <3>6. GapsDisjoint'
      BY <3>1, <3>5 DEF GapInv, GapsDisjoint, Ours
    <3>7. GapsFollow'
      BY <2>1, <2>2, <3>1, <3>4 DEF GapInv, GapsFollow
    <3> QED BY <3>3, <3>6, <3>7
  <2> QED BY <2>3, <2>4
<1>4. CASE GapsRecorded
  <2>1. /\ UNCHANGED <<now, booted, gaps, pending, ledger>> /\ pending = {}
        /\ phase # "down" /\ phase' = "running"
    BY <1>4 DEF GapsRecorded, clock, process, session, record
  <2> QED BY <1>0a, <2>1, GapsStand
<1>5. ASSUME NEW f \in Frames, NEW parsed \in BOOLEAN,
             TakeStreamed(f, parsed) \/ TakeFetched(f, parsed)
      PROVE  ProcessesApart' /\ GapsFollow' /\ GapsDisjoint'
  <2>1. /\ UNCHANGED <<now, booted, gaps, pending, phase>> /\ phase = "running"
        /\ ledger' = ledger \/ \E pairs : ledger' = Known(ledger, pairs, now)
    BY <1>5 DEF TakeStreamed, TakeFetched, Take, Received, clock, process, record
  <2>2. \A p \in Pairs : ledger'[p].end = ledger[p].end
    BY <1>0a, <2>1 DEF Known, Ledgers, Entry
  <2>3. pending = {}
    BY <2>1 DEF GapInv, GapsFollow
  <2> QED BY <1>0a, <2>1, <2>2, <2>3, GapsStand
<1>6. CASE Flush \/ FlushPayloads \/ FlushFailures
  <2>1. /\ UNCHANGED <<now, booted, gaps, pending, ledger>>
        /\ phase \in {"running", "flushing"} /\ phase' = "flushing"
    BY <1>6 DEF Flush, FlushPayloads, FlushFailures, clock, process, session, record
  <2>2. pending = {}
    BY <2>1 DEF GapInv, GapsFollow
  <2> QED BY <1>0a, <2>1, <2>2, GapsStand
<1>7. CASE FlushDone
  <2>1. /\ UNCHANGED <<now, booted, gaps, pending>> /\ phase = "flushing"
        /\ \/ phase' = "down" /\ slept' = FALSE
           \/ phase' = "running" /\ ledger' = ledger
    BY <1>7 DEF FlushDone, record
  <2>2. pending = {}
    BY <2>1 DEF GapInv, GapsFollow
  <2>3. CASE phase' = "down"
    BY <2>1, <2>3, GapsGone
  <2>4. CASE phase' = "running"
    BY <1>0a, <2>1, <2>2, <2>4, GapsStand
  <2> QED BY <2>1, <2>3, <2>4
<1>8. CASE FlushFails \/ Kill
  <2>1. phase' = "down" /\ slept' = FALSE /\ UNCHANGED <<now, booted, gaps>>
    BY <1>8 DEF FlushFails, Kill, Gone, record
  <2> QED BY <2>1, GapsGone
<1>9. CASE Connect
  <2>1. /\ phase = "running" /\ phase' = "gapping" /\ UNCHANGED <<now, booted, gaps>>
        /\ pending' = Tails(ledger, Pairs, now)
        /\ ledger' = AfterAskedAgain(ledger, Pairs, now)
    BY <1>9 DEF Connect, clock, process, record
  <2>2. pending = {}
    BY <2>1 DEF GapInv, GapsFollow
  <2>3. \A g \in pending' : g.from \in Times
    BY <1>0 DEF TypeOK
  <2> QED BY <1>0a, <2>1, <2>2, <2>3, TailsFollow, PublishedFollow
<1>10. CASE SessionLost
  <2>1. /\ phase = "running" /\ phase' = "gapping" /\ UNCHANGED <<now, booted, gaps>>
        /\ pending' = GapsFor(ledger, Pairs, now, "session_lost")
        /\ ledger' = AfterGapsFor(ledger, Pairs, now, "session_lost")
    BY <1>10 DEF SessionLost, GapsForAll, clock, process, record
  <2>2. pending = {} /\ "session_lost" \in Causes
    BY <2>1 DEF GapInv, GapsFollow, Causes
  <2>3. \A g \in pending' : g.from \in Times
    BY <1>0 DEF TypeOK
  <2> QED BY <1>0a, <2>1, <2>2, <2>3, NewGapsFollow, PublishedFollow
<1>11. CASE Handover
  <2>1. /\ UNCHANGED <<now, booted, gaps, pending, phase>> /\ phase = "running"
        /\ \A p \in Pairs : ledger'[p].end = ledger[p].end
    BY <1>0a, <1>11 DEF Handover, HandoverCompleted, Known, Ledgers, Entry, clock, process, record
  <2>2. pending = {}
    BY <2>1 DEF GapInv, GapsFollow
  <2> QED BY <1>0a, <2>1, <2>2, GapsStand
<1>12. CASE UNCHANGED vars
  <2>1. UNCHANGED <<now, slept, booted, gaps, pending, ledger, phase>>
    BY <1>12 DEF vars, clock, process, session, record
  <2>2. phase' \notin {"down", "reporting", "gapping"} => pending = {}
    BY <2>1 DEF GapInv, GapsFollow
  <2> QED BY <1>0a, <2>1, <2>2, GapsStand
<1> QED BY <1>1, <1>2, <1>3, <1>4, <1>5, <1>6, <1>7, <1>8, <1>9, <1>10, <1>11, <1>12 DEF Next

(* Coverage::gaps_for, whatever fails and however a restart falls: within  *)
(* one process no two gaps of a pair share an instant, so a second loss    *)
(* does not publish the first one's span again.                            *)
THEOREM GapsNeverOverlap == Spec => []GapsDisjoint
<1>1. Init => GapInv
  BY TypeInit DEF Init, GapInv, ProcessesApart, GapsFollow, GapsDisjoint, Ours
<1>2. GapInv => GapsDisjoint
  BY DEF GapInv
<1> QED BY <1>1, <1>2, GapInvNext, PTL DEF Spec

-----------------------------------------------------------------------------
(***************************************************************************)
(* What NoSilentLoss needed quiet hazards for and DowntimeLostNothing does *)
(* not: where every row is, and which process it came in, whatever fails.  *)
(***************************************************************************)
NothingHeldYet == phase \in {"down", "reporting"} => buffered = {} /\ ~connected

RowsInv == TypeOK /\ WhereRowsAre /\ SinceBoot /\ NothingHeldYet

(* A step that only moves rows already received towards the disk.          *)
LEMMA RowsMove ==
  ASSUME RowsInv, UNCHANGED <<now, booted, gaps, pending, taken>>, phase # "down",
         phase \notin {"down", "reporting"}, phase' \notin {"down", "reporting"},
         disk' \cup buffered' = disk \cup buffered, buffered' \subseteq buffered,
         failDisk' \subseteq disk', failures' \subseteq disk' \cup buffered'
  PROVE  WhereRowsAre' /\ SinceBoot' /\ NothingHeldYet'
<1>1. WhereRowsAre'
  BY DEF RowsInv, WhereRowsAre
<1>2. Lost' = Lost
  BY DEF Lost
<1>3. SinceBoot'
  BY <1>2 DEF RowsInv, SinceBoot
<1> QED BY <1>1, <1>3 DEF NothingHeldYet

(* A process that is gone loses what it held and nothing else.             *)
LEMMA RowsGone ==
  ASSUME RowsInv, Gone
  PROVE  WhereRowsAre' /\ SinceBoot' /\ NothingHeldYet'
<1>1. WhereRowsAre'
  BY DEF RowsInv, WhereRowsAre, Gone, record
<1> QED BY <1>1 DEF SinceBoot, NothingHeldYet, Gone

(* Every step keeps every row in its place.                                *)
LEMMA RowsInvNext ==
  ASSUME RowsInv, [Next]_vars
  PROVE  RowsInv'
<1>0. TypeOK'
  BY TypeNext DEF RowsInv
<1>0a. now \in Nat /\ booted \in Nat
  BY BoundsAssumption DEF RowsInv, TypeOK, Times
<1> SUFFICES WhereRowsAre' /\ SinceBoot' /\ NothingHeldYet'
  BY <1>0 DEF RowsInv
<1>1. CASE Tick
  <2>1. /\ now' = now + 1
        /\ UNCHANGED <<phase, booted, buffered, failures, connected, pending, disk, failDisk,
                       gaps, taken>>
    BY <1>1 DEF Tick, process, archive, session, record
  <2>2. \A t \in Receipts(taken) \cup Receipts(gaps) : t \in Nat /\ t <= now
    BY BoundsAssumption DEF RowsInv, TypeOK, WhereRowsAre, Receipts, Payload, GapRow, Times
  <2>3. \A r \in taken : r.recv \in Nat
    BY BoundsAssumption DEF RowsInv, TypeOK, Payload, Times
  <2>4. \A g \in gaps \cup pending : g.to \in Nat
    BY BoundsAssumption DEF RowsInv, TypeOK, GapRow, Times
  <2>5. WhereRowsAre'
    BY <1>0a, <2>1, <2>2, <2>3, <2>4 DEF RowsInv, WhereRowsAre, Receipts
  <2>6. SinceBoot'
    BY <1>0a, <2>1, <2>4 DEF RowsInv, SinceBoot, Lost
  <2> QED BY <2>1, <2>5, <2>6 DEF RowsInv, NothingHeldYet
<1>2. CASE Boot
  <2>1. /\ phase = "down" /\ slept /\ booted' = now /\ phase' # "down"
        /\ UNCHANGED <<now, slept, buffered, failures, connected, disk, failDisk, gaps, taken>>
    BY <1>2 DEF Boot, clock, record
  <2>2. buffered = {} /\ ~connected
    BY <2>1 DEF RowsInv, NothingHeldYet
  <2>3. \A r \in taken : r.recv < now
    BY <2>1 DEF RowsInv, WhereRowsAre, Receipts
  <2>4. \A g \in pending' : g.to = now
    BY <1>2 DEF Boot, GapsFor
  <2>5. WhereRowsAre'
    BY <2>1 DEF RowsInv, WhereRowsAre
  <2>6. SinceBoot'
    BY <1>0a, <2>1, <2>2, <2>3, <2>4 DEF SinceBoot, Lost
  <2> QED BY <2>1, <2>2, <2>5, <2>6 DEF NothingHeldYet
<1>3. CASE RecordGap
  <2>1. /\ UNCHANGED <<now, slept, phase, booted, buffered, failures, connected, disk, failDisk,
                       taken>>
        /\ phase \in {"reporting", "gapping"}
    BY <1>3 DEF RecordGap, clock, process
  <2>2. /\ pending' \subseteq pending
        /\ \A g \in gaps' : g \in gaps \/ (g.recv = g.to /\ \E h \in pending : g.to = h.to)
    <3> PICK h \in pending :
           /\ pending' = pending \ {h}
           /\ \/ gaps' = gaps
              \/ gaps' = gaps \cup {[seq |-> nextSeq, recv |-> h.to, by |-> booted,
                                     pair |-> h.pair, from |-> h.from, to |-> h.to,
                                     cause |-> h.cause]}
      BY <1>3 DEF RecordGap
    <3> QED OBVIOUS
  <2>3. \A g \in gaps' : g.recv = g.to /\ g.to <= now
    BY <2>1, <2>2 DEF RowsInv, WhereRowsAre, SinceBoot
  <2>4. WhereRowsAre'
    BY <2>1, <2>3 DEF RowsInv, WhereRowsAre
  <2>5. SinceBoot'
    BY <2>1, <2>2 DEF RowsInv, SinceBoot, Lost
  <2> QED BY <2>1, <2>4, <2>5 DEF RowsInv, NothingHeldYet
<1>4. CASE GapsRecorded \/ Flush
  <2>1. /\ UNCHANGED <<now, booted, buffered, failures, pending, disk, failDisk, gaps, taken>>
        /\ phase \in {"reporting", "gapping", "running"} /\ phase' \in {"running", "flushing"}
    BY <1>4 DEF GapsRecorded, Flush, clock, process, archive, session, record
  <2>2. WhereRowsAre' /\ SinceBoot'
    BY <2>1 DEF RowsInv, WhereRowsAre, SinceBoot, Lost
  <2> QED BY <2>1, <2>2 DEF NothingHeldYet
<1>5. ASSUME NEW f \in Frames, NEW parsed \in BOOLEAN,
             TakeStreamed(f, parsed) \/ TakeFetched(f, parsed)
      PROVE  WhereRowsAre' /\ SinceBoot' /\ NothingHeldYet'
  <2> PICK r : r = NewPayload(f, parsed)
    OBVIOUS
  <2>1. r.recv = now
    BY DEF NewPayload
  <2>2. /\ UNCHANGED <<now, slept, booted, phase, connected, pending, failDisk, gaps>>
        /\ phase = "running" /\ taken' = taken \cup {r}
        /\ failures' = failures \/ failures' = failures \cup {r}
    BY <1>5 DEF TakeStreamed, TakeFetched, Take, clock, process, record
  <2>3. \/ buffered' = buffered \cup {r} /\ disk' = disk
        \/ disk' = disk \cup {r} /\ buffered' = buffered
    BY <1>5 DEF TakeStreamed, TakeFetched, record
  <2>4. WhereRowsAre'
    BY <1>0a, <2>1, <2>2, <2>3 DEF RowsInv, WhereRowsAre
  <2>5. Lost' \subseteq Lost
    BY <2>2, <2>3 DEF Lost
  <2>6. SinceBoot'
    BY <1>0a, <2>1, <2>2, <2>3, <2>5 DEF RowsInv, SinceBoot
  <2> QED BY <2>2, <2>4, <2>6 DEF NothingHeldYet
<1>6. CASE FlushPayloads
  <2>1. FirstGroup(buffered) \subseteq buffered
    BY DEF FirstGroup
  <2>2. /\ UNCHANGED <<now, booted, gaps, pending, taken, phase, failures, failDisk>>
        /\ phase = "flushing"
        /\ disk' = disk \cup FirstGroup(buffered)
        /\ buffered' = buffered \ FirstGroup(buffered)
    BY <1>6 DEF FlushPayloads, clock, process, session
  <2>3. failures \subseteq disk \cup buffered /\ failDisk \subseteq disk
    BY DEF RowsInv, WhereRowsAre
  <2> QED BY <2>1, <2>2, <2>3, RowsMove
<1>7. CASE FlushFailures
  <2>1. FirstGroup(failures \ failDisk) \subseteq failures
    BY DEF FirstGroup
  <2>2. /\ UNCHANGED <<now, booted, gaps, pending, taken, phase, failures, buffered, disk>>
        /\ phase = "flushing" /\ buffered = {}
        /\ failDisk' = failDisk \cup FirstGroup(failures \ failDisk)
    BY <1>7 DEF FlushFailures, clock, process, archive, session
  <2>3. failures \subseteq disk \cup buffered /\ failDisk \subseteq disk
    BY DEF RowsInv, WhereRowsAre
  <2> QED BY <2>1, <2>2, <2>3, RowsMove
<1>8. CASE FlushDone
  <2>1. /\ UNCHANGED <<now, booted, buffered, pending, disk, failDisk, gaps, taken>>
        /\ phase = "flushing" /\ buffered = {} /\ failures' = {}
        /\ \/ phase' = "down" /\ slept' = FALSE /\ connected' = FALSE
           \/ phase' = "running"
    BY <1>8 DEF FlushDone, record
  <2>2. WhereRowsAre' /\ SinceBoot'
    BY <2>1 DEF RowsInv, WhereRowsAre, SinceBoot, Lost
  <2> QED BY <2>1, <2>2 DEF NothingHeldYet
<1>9. CASE FlushFails \/ Kill
  <2>1. Gone
    BY <1>9 DEF FlushFails, Kill
  <2> QED BY <2>1, RowsGone
<1>10. CASE Connect \/ SessionLost \/ Handover
  <2>1. /\ UNCHANGED <<now, booted, buffered, failures, disk, failDisk, gaps, taken>>
        /\ phase = "running" /\ phase' \in {"running", "gapping"}
        /\ \A g \in pending' : g \in pending \/ g.to = now
    BY <1>10 DEF Connect, SessionLost, Handover, Tails, GapsForAll, GapsFor, clock, process,
                 archive, record
  <2>2. WhereRowsAre'
    BY <2>1 DEF RowsInv, WhereRowsAre
  <2>3. SinceBoot'
    BY <1>0a, <2>1 DEF RowsInv, SinceBoot, Lost
  <2> QED BY <2>1, <2>2, <2>3 DEF NothingHeldYet
<1>11. CASE UNCHANGED vars
  BY <1>11 DEF vars, clock, process, archive, session, record, RowsInv, WhereRowsAre, SinceBoot,
               Lost, NothingHeldYet
<1> QED BY <1>1, <1>2, <1>3, <1>4, <1>5, <1>6, <1>7, <1>8, <1>9, <1>10, <1>11 DEF Next

-----------------------------------------------------------------------------
(***************************************************************************)
(* The strengthening under which DowntimeLostNothing is inductive.  A gap  *)
(* that cannot be recorded is only warned of (publish_gap), so the start   *)
(* it stood for leaves nothing durable behind, and the next clean shutdown *)
(* vouches for a window it never saw: gap_error is what the theorem        *)
(* excludes, and no other hazard.                                          *)
(***************************************************************************)
GapsAreRecorded == "gap_error" \notin Hazards

(* Nothing held or lost arrived in a downtime recorded or about to be.     *)
WindowsAreEmpty ==
  \A g \in gaps \cup pending : g.cause = "downtime" =>
    \A r \in taken \ disk : r.recv < g.from \/ g.to <= r.recv

(* The marker is gone before anything is taken, and while it stands the    *)
(* record reaches past everything lost.                                    *)
CleanIsWhole ==
  /\ phase \notin {"down", "reporting"} => ~clean
  /\ clean => unflushed = Never
  /\ clean /\ Durable # {} => \A r \in taken \ disk : \E t \in Durable : r.recv < t

(* A start that has reported left a row no older than itself.              *)
StartIsDurable ==
  /\ phase \notin {"down", "reporting"} /\ Durable # {} => \E t \in Durable : booted <= t
  /\ phase = "reporting" => \/ pending # {} /\ \A g \in pending : g.to = booted
                            \/ \E t \in Durable : booted <= t

(* A downtime whose tail is still owed ends no earlier than the start, and *)
(* nothing has been asked for since.                                       *)
TailsAreAfterBoot ==
  \A p \in Pairs : ledger[p].open /\ ledger[p].cause = "downtime" =>
    buffered = {} /\ ~connected /\ booted <= ledger[p].end

DowntimeInv == /\ RowsInv
               /\ WindowsAreEmpty /\ TailsAreAfterBoot
               /\ Pairs # {} => CleanIsWhole /\ StartIsDurable

(* The record only grows, and what a process adds is no older than itself. *)
LEMMA NewDurableSinceBoot ==
  ASSUME RowsInv, [Next]_vars
  PROVE  /\ Durable \subseteq Durable'
         /\ phase = "down" => Durable' = Durable
         /\ phase # "down" => booted' = booted /\ \A t \in Durable' : t \in Durable \/ booted <= t
<1> USE DEF Durable, Receipts
<1>1. CASE UNCHANGED <<disk, failDisk, gaps>> /\ (phase # "down" => booted' = booted)
  BY <1>1
<1>2. CASE RecordGap
  <2>1. UNCHANGED <<disk, failDisk, booted>> /\ phase # "down"
    BY <1>2 DEF RecordGap, process
  <2>2. PICK g \in pending :
          \/ gaps' = gaps
          \/ gaps' = gaps \cup {[seq |-> nextSeq, recv |-> g.to, by |-> booted,
                                 pair |-> g.pair, from |-> g.from, to |-> g.to,
                                 cause |-> g.cause]}
    BY <1>2 DEF RecordGap
  <2>3. booted <= g.to
    BY <2>1 DEF RowsInv, SinceBoot
  <2> QED BY <2>1, <2>2, <2>3
<1>3. ASSUME NEW f \in Frames, NEW parsed \in BOOLEAN,
             TakeFetched(f, parsed)
      PROVE  /\ Durable \subseteq Durable' /\ phase # "down" /\ booted' = booted
             /\ \A t \in Durable' : t \in Durable \/ booted <= t
  <2>1. /\ disk' = disk \cup {NewPayload(f, parsed)} /\ UNCHANGED <<failDisk, gaps, booted>>
        /\ phase # "down"
    BY <1>3 DEF TakeFetched, Take, process
  <2>2. NewPayload(f, parsed).recv = now /\ booted <= now
    BY <2>1 DEF NewPayload, RowsInv, SinceBoot
  <2> QED BY <2>1, <2>2
<1>4. CASE FlushPayloads
  <2>1. /\ disk' = disk \cup FirstGroup(buffered) /\ UNCHANGED <<failDisk, gaps, booted>>
        /\ phase # "down" /\ FirstGroup(buffered) \subseteq buffered
    BY <1>4 DEF FlushPayloads, FirstGroup, process
  <2>2. \A r \in buffered : booted <= r.recv
    BY <2>1 DEF RowsInv, SinceBoot
  <2> QED BY <2>1, <2>2
<1>5. CASE FlushFailures
  <2>1. /\ failDisk' = failDisk \cup FirstGroup(failures \ failDisk)
        /\ UNCHANGED <<disk, gaps, booted>> /\ buffered = {} /\ phase # "down"
        /\ FirstGroup(failures \ failDisk) \subseteq failures
    BY <1>5 DEF FlushFailures, FirstGroup, process
  <2>2. failures \subseteq disk
    BY <2>1 DEF RowsInv, WhereRowsAre
  <2> QED BY <2>1, <2>2
<1>6. ASSUME NEW f \in Frames, NEW parsed \in BOOLEAN, TakeStreamed(f, parsed)
      PROVE  UNCHANGED <<disk, failDisk, gaps, booted>>
  BY <1>6 DEF TakeStreamed, record, process
<1>7. CASE Tick \/ Boot \/ GapsRecorded \/ Flush \/ FlushDone \/ UNCHANGED vars
  <2>1. UNCHANGED <<disk, failDisk, gaps>> /\ (phase # "down" => booted' = booted)
    BY <1>7 DEF Tick, Boot, GapsRecorded, Flush, FlushDone, vars, process, record
  <2> QED BY <1>1, <2>1
<1>8. CASE FlushFails \/ Kill \/ Connect \/ SessionLost \/ Handover
  <2>1. UNCHANGED <<disk, failDisk, gaps, booted>>
    BY <1>8 DEF FlushFails, Kill, Gone, Connect, SessionLost, Handover, record, process
  <2> QED BY <1>1, <2>1
<1> QED BY <1>1, <1>2, <1>3, <1>4, <1>5, <1>6, <1>7, <1>8 DEF Next

(* A start with a window dates one gap a pair from the window to now, and  *)
(* owes each its tail; a start without one has an empty record behind it.  *)
LEMMA BootWindow ==
  ASSUME RowsInv, Boot
  PROVE  /\ HasWindow =>
              /\ phase' = "reporting" /\ UNCHANGED markers
              /\ pending' = {[pair |-> p, from |-> WindowFrom, to |-> now,
                              cause |-> WindowCause] : p \in Pairs}
              /\ \A p \in Pairs : ledger'[p].end = now
         /\ ~HasWindow =>
              /\ phase' = "running" /\ pending' = {} /\ ClearMarkers /\ Durable = {}
              /\ \A p \in Pairs : ~ledger'[p].open
<1>1. now \in Nat /\ \A t \in Durable : t < now
  BY DurableTimes DEF Boot, RowsInv, TypeOK, Times, WhereRowsAre, Durable, Receipts
<1>2. CASE HasWindow
  <2> DEFINE K == Known(Untouched, Pairs, WindowFrom)
  <2>1. WindowFrom \in Nat /\ WindowFrom < now
    BY <1>2, WindowFromIs DEF RowsInv, HasWindow
  <2>2. K \in Ledgers /\ \A p \in Pairs : K[p].last = WindowFrom /\ K[p].end = Never
    <3>1. \A p \in Pairs : Untouched[p].end = Never
      BY DEF Untouched
    <3>2. /\ K \in Ledgers
          /\ \A p \in Pairs : K[p].last = WindowFrom /\ K[p].end = Untouched[p].end
      BY <2>1, KnownType, UntouchedType
    <3> QED BY <3>1, <3>2
  <2>3. ASSUME NEW p \in Pairs
        PROVE  GapFrom(K[p]) = WindowFrom /\ K[p].last # Never
    <3>1. K[p].last = WindowFrom /\ K[p].end = Never
      BY <2>2
    <3> HIDE DEF K
    <3> QED BY <2>1, <3>1 DEF GapFrom, Later, Never
  <2> HIDE DEF K
  <2>4. /\ pending' = GapsFor(K, Pairs, now, WindowCause) /\ phase' = "reporting"
        /\ ledger' = AfterGapsFor(K, Pairs, now, WindowCause) /\ UNCHANGED markers
    BY <1>2 DEF Boot, K
  <2>5. GapsFor(K, Pairs, now, WindowCause) =
          {[pair |-> p, from |-> WindowFrom, to |-> now, cause |-> WindowCause] : p \in Pairs}
    BY <2>1, <2>3 DEF GapsFor
  <2>6. {g.pair : g \in GapsFor(K, Pairs, now, WindowCause)} = Pairs
    <3>1. ASSUME NEW p \in Pairs
          PROVE  p \in {g.pair : g \in GapsFor(K, Pairs, now, WindowCause)}
      <4> DEFINE g == [pair |-> p, from |-> WindowFrom, to |-> now, cause |-> WindowCause]
      <4>1. g \in GapsFor(K, Pairs, now, WindowCause) /\ g.pair = p
        BY <2>5
      <4> HIDE DEF g
      <4> QED BY <4>1
    <3>2. \A g \in GapsFor(K, Pairs, now, WindowCause) : g.pair \in Pairs
      BY <2>5
    <3> QED BY <3>1, <3>2
  <2>7. \A p \in Pairs : ledger'[p].end = now
    BY <2>2, <2>4, <2>6 DEF AfterGapsFor, NoteGapped, Ledgers, Entry
  <2> QED BY <1>2, <2>4, <2>5, <2>7
<1>3. CASE ~HasWindow
  <2>1. /\ phase' = "running" /\ pending' = {} /\ ClearMarkers
        /\ ledger' = Known(Untouched, Pairs, now)
    BY <1>3 DEF Boot
  <2>2. Durable = {}
    <3> SUFFICES ASSUME Durable # {} PROVE FALSE
      OBVIOUS
    <3>1. LastDurable \in Durable /\ WindowFrom <= LastDurable /\ WindowFrom \in Moment
      BY LastDurableIs, WindowFromIs DEF RowsInv
    <3>2. LastDurable \in Nat /\ LastDurable < now
      BY <1>1, <3>1, DurableTimes, BoundsAssumption DEF Times, RowsInv
    <3> QED BY <1>1, <1>3, <3>1, <3>2 DEF HasWindow, Never, Moment
  <2>3. \A p \in Pairs : ~ledger'[p].open
    BY <2>1 DEF Known, Untouched
  <2> QED BY <1>3, <2>1, <2>2, <2>3
<1> QED BY <1>2, <1>3

(* The marker is written over an empty buffer, by a process whose start is *)
(* in the record, and it is cleared before the next one takes anything.    *)
LEMMA CleanIsWholeNext ==
  ASSUME RowsInv, CleanIsWhole, StartIsDurable, [Next]_vars
  PROVE  CleanIsWhole'
<1>0. Durable \subseteq Durable'
  BY NewDurableSinceBoot
<1>0a. /\ \A r \in taken : r.recv \in Nat
       /\ Durable \subseteq Nat /\ booted \in Nat
  BY DurableTimes, BoundsAssumption DEF RowsInv, TypeOK, Payload, Times
<1>1. ASSUME UNCHANGED <<clean, unflushed, taken, disk, failDisk, gaps>>,
             phase' \notin {"down", "reporting"} => phase \notin {"down", "reporting"}
      PROVE  CleanIsWhole'
  BY <1>1 DEF CleanIsWhole, Durable
<1>2. ASSUME ~clean', phase' \notin {"down", "reporting"} \/ phase' = "down"
      PROVE  CleanIsWhole'
  BY <1>2 DEF CleanIsWhole
<1>3. CASE Boot
  <2>1. UNCHANGED <<taken, disk, failDisk, gaps>>
    BY <1>3 DEF Boot, record
  <2>2. CASE HasWindow
    <3>1. phase' = "reporting" /\ UNCHANGED <<clean, unflushed>>
      BY <1>3, <2>2, BootWindow DEF markers
    <3> QED BY <1>1, <2>1, <3>1
  <2>3. CASE ~HasWindow
    BY <1>2, <1>3, <2>3, BootWindow DEF ClearMarkers
  <2> QED BY <2>2, <2>3
<1>4. CASE RecordGap
  <2>1. /\ UNCHANGED <<phase, clean, unflushed, taken, disk, failDisk, booted>>
        /\ phase \in {"reporting", "gapping"}
    BY <1>4 DEF RecordGap, markers, process
  <2>2. CASE clean
    <3>1. buffered = {} /\ phase = "reporting"
      BY <2>1, <2>2 DEF CleanIsWhole, RowsInv, NothingHeldYet
    <3>2. \A r \in taken \ disk : r.recv < booted
      BY <3>1 DEF RowsInv, SinceBoot, Lost
    <3>3. CASE \E t \in Durable' : booted <= t
      <4>1. PICK t \in Durable' : booted <= t
        BY <3>3
      <4>2. t \in Nat
        <5>1. TypeOK'
          BY TypeNext DEF RowsInv
        <5>2. \A r \in disk' \cup failDisk' : r.recv \in Nat
          BY <2>1, BoundsAssumption DEF RowsInv, TypeOK, Payload, Times
        <5>3. \A g \in gaps' : g.recv \in Nat
          BY <5>1, BoundsAssumption DEF TypeOK, GapRow, Times
        <5> QED BY <5>2, <5>3 DEF Durable, Receipts
      <4>3. \A r \in taken \ disk : r.recv < t
        BY <1>0a, <3>2, <4>1, <4>2
      <4> QED BY <2>1, <4>1, <4>3, <3>1 DEF CleanIsWhole
    <3>4. CASE ~(\E t \in Durable' : booted <= t)
      <4>1. Durable' = Durable
        BY <1>0, <3>1, <3>4, NewDurableSinceBoot
      <4> QED BY <2>1, <4>1 DEF CleanIsWhole
    <3> QED BY <3>3, <3>4
  <2>3. CASE ~clean
    BY <2>1, <2>3 DEF CleanIsWhole
  <2> QED BY <2>2, <2>3
<1>5. CASE GapsRecorded
  <2>1. phase' = "running" /\ (phase = "reporting" => ~clean')
        /\ (phase # "reporting" => phase = "gapping" /\ clean' = clean)
    BY <1>5 DEF GapsRecorded, ClearMarkers, markers
  <2> QED BY <1>2, <2>1 DEF CleanIsWhole
<1>6. CASE FlushDone
  <2>1. /\ phase = "flushing" /\ buffered = {} /\ unflushed' = Never
        /\ UNCHANGED <<booted, taken, disk, failDisk, gaps>>
        /\ phase' = "down" \/ (phase' = "running" /\ clean' = clean)
    BY <1>6 DEF FlushDone, record
  <2>2. \A r \in taken \ disk : r.recv < booted
    BY <2>1 DEF RowsInv, SinceBoot, Lost
  <2>3. Durable' = Durable
    BY <2>1 DEF Durable
  <2>4. ~clean /\ (Durable # {} => \E t \in Durable : booted <= t)
    BY <2>1 DEF CleanIsWhole, StartIsDurable
  <2>5. Durable # {} => \A r \in taken \ disk : \E t \in Durable : r.recv < t
    <3> SUFFICES ASSUME Durable # {}, NEW r \in taken \ disk
                 PROVE  \E t \in Durable : r.recv < t
      OBVIOUS
    <3>1. PICK t \in Durable : booted <= t
      BY <2>4
    <3>2. r.recv < t
      BY <1>0a, <2>2, <3>1
    <3> QED BY <3>1, <3>2
  <2> QED BY <2>1, <2>3, <2>4, <2>5 DEF CleanIsWhole
<1>7. CASE FlushFails
  <2>1. phase = "flushing" /\ phase' = "down" /\ clean' = clean
    BY <1>7 DEF FlushFails, Gone
  <2> QED BY <1>2, <2>1 DEF CleanIsWhole
<1>8. CASE Kill
  BY <1>1, <1>8 DEF Kill, Gone, markers, record
<1>9. ASSUME NEW f \in Frames, NEW parsed \in BOOLEAN,
             TakeStreamed(f, parsed) \/ TakeFetched(f, parsed)
      PROVE  CleanIsWhole'
  <2>1. phase = "running" /\ phase' = phase /\ clean' = clean
    BY <1>9 DEF TakeStreamed, TakeFetched, Take, markers
  <2> QED BY <1>2, <2>1 DEF CleanIsWhole
<1>10. CASE Flush \/ FlushPayloads \/ FlushFailures \/ Connect \/ SessionLost \/ Handover
  <2>1. phase \in {"running", "flushing"} /\ clean' = clean
        /\ phase' \in {"running", "flushing", "gapping"}
    BY <1>10 DEF Flush, FlushPayloads, FlushFailures, Connect, SessionLost, Handover, markers
  <2> QED BY <1>2, <2>1 DEF CleanIsWhole
<1>11. CASE Tick \/ UNCHANGED vars
  <2>1. UNCHANGED <<phase, clean, unflushed, taken, disk, failDisk, gaps>>
    BY <1>11 DEF Tick, vars, markers, record
  <2> QED BY <1>1, <2>1
<1> QED BY <1>3, <1>4, <1>5, <1>6, <1>7, <1>8, <1>9, <1>10, <1>11 DEF Next

(* Every start that has reported is in the record: its window was closed   *)
(* by a gap dated at the start itself, or nothing was durable before it.   *)
LEMMA StartIsDurableNext ==
  ASSUME GapsAreRecorded, Pairs # {}, RowsInv, StartIsDurable, [Next]_vars
  PROVE  StartIsDurable'
<1>0. /\ Durable \subseteq Durable'
      /\ phase # "down" => booted' = booted /\ \A t \in Durable' : t \in Durable \/ booted <= t
  BY NewDurableSinceBoot
<1>1. CASE phase \notin {"down", "reporting"}
  <2>1. phase' # "reporting"
    BY <1>1 DEF Next, vars, clock, process, Tick, Boot, RecordGap, GapsRecorded, TakeStreamed,
                TakeFetched, Take, Flush, FlushPayloads, FlushFailures, FlushDone, FlushFails,
                Gone, Kill, Connect, SessionLost, Handover
  <2>2. Durable' # {} => \E t \in Durable' : booted' <= t
    BY <1>0, <1>1 DEF StartIsDurable
  <2> QED BY <2>1, <2>2 DEF StartIsDurable
<1>2. CASE phase = "reporting" /\ \E t \in Durable : booted <= t
  <2>1. \E t \in Durable' : booted' <= t
    BY <1>0, <1>2
  <2> QED BY <2>1 DEF StartIsDurable
<1>3. CASE phase = "reporting" /\ pending # {} /\ \A g \in pending : g.to = booted
  <2>1. CASE RecordGap
    <3>1. booted' = booted
      BY <2>1 DEF RecordGap, process
    <3>2. PICK g \in pending :
            gaps' = gaps \cup {[seq |-> nextSeq, recv |-> g.to, by |-> booted,
                                pair |-> g.pair, from |-> g.from, to |-> g.to,
                                cause |-> g.cause]}
      BY <2>1 DEF RecordGap, GapsAreRecorded
    <3> DEFINE row == [seq |-> nextSeq, recv |-> g.to, by |-> booted,
                       pair |-> g.pair, from |-> g.from, to |-> g.to,
                       cause |-> g.cause]
    <3>3. booted \in Durable'
      <4>1. row \in gaps' /\ row.recv = booted
        BY <1>3, <3>2
      <4> HIDE DEF row
      <4> QED BY <4>1 DEF Durable, Receipts
    <3>4. booted \in Nat
      BY DEF RowsInv, TypeOK
    <3>5. \E t \in Durable' : booted' <= t
      BY <3>1, <3>3, <3>4
    <3> QED BY <3>5 DEF StartIsDurable
  <2>2. CASE Tick \/ UNCHANGED vars
    <3>1. UNCHANGED <<phase, pending, booted>>
      BY <2>2 DEF Tick, vars, process, session
    <3> QED BY <1>3, <3>1 DEF StartIsDurable
  <2>3. CASE Kill
    <3>1. phase' = "down"
      BY <2>3 DEF Kill, Gone
    <3> QED BY <3>1 DEF StartIsDurable
  <2>4. ~Boot /\ ~GapsRecorded /\ ~Flush /\ ~FlushPayloads /\ ~FlushFailures /\ ~FlushDone
    BY <1>3 DEF Boot, GapsRecorded, Flush, FlushPayloads, FlushFailures, FlushDone
  <2>5. ~FlushFails /\ ~Connect /\ ~SessionLost /\ ~Handover
    BY <1>3 DEF FlushFails, Connect, SessionLost, Handover
  <2>6. \A f \in Frames, parsed \in BOOLEAN : ~TakeStreamed(f, parsed) /\ ~TakeFetched(f, parsed)
    BY <1>3 DEF TakeStreamed, TakeFetched, Take
  <2> QED BY <2>1, <2>2, <2>3, <2>4, <2>5, <2>6 DEF Next
<1>4. CASE phase = "down"
  <2>1. Durable' = Durable
    BY <1>4, NewDurableSinceBoot
  <2>2. CASE Boot /\ HasWindow
    <3>1. booted' = now /\ phase' = "reporting"
          /\ pending' = {[pair |-> p, from |-> WindowFrom, to |-> now,
                          cause |-> WindowCause] : p \in Pairs}
      BY <2>2, BootWindow DEF Boot
    <3>2. PICK p \in Pairs : TRUE
      OBVIOUS
    <3>3. [pair |-> p, from |-> WindowFrom, to |-> now, cause |-> WindowCause] \in pending'
      BY <3>1
    <3>4. \A g \in pending' : g.to = booted'
      BY <3>1
    <3>5. pending' # {}
      BY <3>3
    <3> QED BY <3>1, <3>4, <3>5 DEF StartIsDurable
  <2>3. CASE Boot /\ ~HasWindow
    <3>1. phase' = "running" /\ Durable = {}
      BY <2>3, BootWindow
    <3> QED BY <2>1, <3>1 DEF StartIsDurable
  <2>4. CASE ~Boot
    <3>1. phase' = "down"
      BY <1>4, <2>4 DEF Next, vars, Tick, RecordGap, GapsRecorded, TakeStreamed, TakeFetched,
             Take, Flush, FlushPayloads, FlushFailures, FlushDone, FlushFails, Kill, Connect,
             SessionLost, Handover
    <3> QED BY <3>1 DEF StartIsDurable
  <2> QED BY <2>2, <2>3, <2>4
<1> QED BY <1>1, <1>2, <1>3, <1>4 DEF StartIsDurable

(* A downtime's tail is owed only until something is asked for.            *)
LEMMA TailsAreAfterBootNext ==
  ASSUME RowsInv, TailsAreAfterBoot, [Next]_vars
  PROVE  TailsAreAfterBoot'
<1>0. ledger \in Ledgers /\ ledger' \in Ledgers /\ now \in Nat
  BY TypeNext, BoundsAssumption DEF RowsInv, TypeOK, Times
<1>1. ASSUME ledger' = Untouched
      PROVE  TailsAreAfterBoot'
  BY <1>1 DEF TailsAreAfterBoot, Untouched
<1>2. ASSUME UNCHANGED <<booted, connected>>, buffered' \subseteq buffered,
             \A p \in Pairs : /\ ledger'[p].open = ledger[p].open
                             /\ ledger'[p].cause = ledger[p].cause
                             /\ ledger'[p].end = ledger[p].end
      PROVE  TailsAreAfterBoot'
  BY <1>2 DEF TailsAreAfterBoot
<1>3. ASSUME NEW pairs
      PROVE  \A p \in Pairs : /\ Known(ledger, pairs, now)[p].open = ledger[p].open
                             /\ Known(ledger, pairs, now)[p].cause = ledger[p].cause
                             /\ Known(ledger, pairs, now)[p].end = ledger[p].end
  BY <1>0 DEF Known, Ledgers, Entry
<1>4. CASE Tick \/ RecordGap \/ GapsRecorded \/ Flush \/ FlushFailures \/ UNCHANGED vars
  <2>1. UNCHANGED <<booted, connected, buffered, ledger>>
    BY <1>4 DEF Tick, RecordGap, GapsRecorded, Flush, FlushFailures, vars, process, archive,
                session
  <2> QED BY <1>2, <2>1
<1>5. CASE Boot
  <2>1. buffered' = {} /\ ~connected' /\ booted' = now
    BY <1>5 DEF Boot, RowsInv, NothingHeldYet
  <2>2. \A p \in Pairs : ledger'[p].open => ledger'[p].end = now
    BY <1>5, BootWindow
  <2> QED BY <1>0, <2>1, <2>2 DEF TailsAreAfterBoot
<1>6. ASSUME NEW f \in Frames, NEW parsed \in BOOLEAN, TakeStreamed(f, parsed)
      PROVE  TailsAreAfterBoot'
  <2>1. connected /\ (ledger' = ledger \/ \E pairs : ledger' = Known(ledger, pairs, now))
    BY <1>6 DEF TakeStreamed, Take, Received
  <2>2. \A p \in Pairs : ~(ledger[p].open /\ ledger[p].cause = "downtime")
    BY <2>1 DEF TailsAreAfterBoot
  <2> QED BY <1>3, <2>1, <2>2 DEF TailsAreAfterBoot
<1>7. ASSUME NEW f \in Frames, NEW parsed \in BOOLEAN, TakeFetched(f, parsed)
      PROVE  TailsAreAfterBoot'
  <2>1. /\ UNCHANGED <<booted, connected, buffered>>
        /\ ledger' = ledger \/ \E pairs : ledger' = Known(ledger, pairs, now)
    BY <1>7 DEF TakeFetched, Take, Received, process
  <2> QED BY <1>2, <1>3, <2>1
<1>8. CASE FlushPayloads
  BY <1>2, <1>8 DEF FlushPayloads, process, session
<1>9. CASE FlushDone
  <2>1. \/ ledger' = Untouched
        \/ UNCHANGED <<booted, connected, buffered, ledger>>
    BY <1>9 DEF FlushDone
  <2> QED BY <1>1, <1>2, <2>1
<1>10. CASE FlushFails \/ Kill
  BY <1>1, <1>10 DEF FlushFails, Kill, Gone
<1>11. CASE Connect
  <2>1. \A p \in Pairs : ~ledger'[p].open
    BY <1>0, <1>11 DEF Connect, AfterAskedAgain, Ledgers, Entry
  <2> QED BY <2>1 DEF TailsAreAfterBoot
<1>12. CASE SessionLost
  <2>1. connected /\ ledger' = AfterGapsFor(ledger, Pairs, now, "session_lost")
    BY <1>12 DEF SessionLost
  <2>2. \A p \in Pairs : ~(ledger[p].open /\ ledger[p].cause = "downtime")
    BY <2>1 DEF TailsAreAfterBoot
  <2>3. \A p \in Pairs : \/ ledger'[p].cause = "session_lost"
                        \/ ledger'[p] = ledger[p]
    BY <1>0, <2>1 DEF AfterGapsFor, NoteGapped, Ledgers, Entry
  <2> QED BY <2>2, <2>3 DEF TailsAreAfterBoot
<1>13. CASE Handover
  <2>1. UNCHANGED <<booted, connected, buffered>> /\ \E pairs : ledger' = Known(ledger, pairs, now)
    BY <1>13 DEF Handover, HandoverCompleted, process, archive
  <2> QED BY <1>2, <1>3, <2>1
<1> QED BY <1>4, <1>5, <1>6, <1>7, <1>8, <1>9, <1>10, <1>11, <1>12, <1>13 DEF Next

(* A downtime is dated over what is already known to be whole, and nothing *)
(* taken afterwards falls in it.                                           *)
LEMMA WindowsAreEmptyNext ==
  ASSUME DowntimeInv, [Next]_vars
  PROVE  WindowsAreEmpty'
<1> DEFINE Whole(g, rows) == g.cause = "downtime" =>
                               \A r \in rows : r.recv < g.from \/ g.to <= r.recv
<1>0. now \in Nat /\ booted \in Nat /\ \A r \in taken : r.recv \in Nat
  BY BoundsAssumption DEF DowntimeInv, RowsInv, TypeOK, Payload, Times
<1>0a. \A g \in gaps \cup pending : Whole(g, taken \ disk)
  BY DEF DowntimeInv, WindowsAreEmpty
<1>1. ASSUME taken' \ disk' \subseteq taken \ disk,
             \A g \in gaps' \cup pending' : g \in gaps \cup pending \/ Whole(g, taken \ disk)
      PROVE  WindowsAreEmpty'
  BY <1>0a, <1>1 DEF WindowsAreEmpty
<1>2. CASE Tick \/ GapsRecorded \/ Flush \/ FlushFailures \/ FlushDone \/ Handover
           \/ UNCHANGED vars
  <2>1. UNCHANGED <<taken, disk, gaps, pending>>
    BY <1>2 DEF Tick, GapsRecorded, Flush, FlushFailures, FlushDone, Handover, vars, session, record
  <2> QED BY <1>1, <2>1
<1>3. CASE FlushPayloads
  <2>1. UNCHANGED <<taken, gaps, pending>> /\ disk \subseteq disk'
    BY <1>3 DEF FlushPayloads, session
  <2> QED BY <1>1, <2>1
<1>4. CASE FlushFails \/ Kill
  <2>1. UNCHANGED <<taken, disk, gaps>> /\ pending' = {}
    BY <1>4 DEF FlushFails, Kill, Gone, record
  <2> QED BY <1>1, <2>1
<1>5. CASE Boot
  <2>1. UNCHANGED <<taken, disk, gaps>>
    BY <1>5 DEF Boot, record
  <2>2. CASE HasWindow
    <3>1. pending' = {[pair |-> p, from |-> WindowFrom, to |-> now, cause |-> WindowCause] :
                        p \in Pairs}
      BY <1>5, <2>2, BootWindow DEF DowntimeInv
    <3>2. ASSUME NEW p \in Pairs, WindowCause = "downtime", NEW r \in taken \ disk
          PROVE  r.recv < WindowFrom
      <4>1. clean /\ CleanIsWhole
        BY <3>2 DEF WindowCause, DowntimeInv
      <4>2. Durable # {}
        BY <2>2 DEF HasWindow, LastDurable
      <4>3. WindowFrom = LastDurable
        BY <4>1 DEF CleanIsWhole, WindowFrom
      <4>4. PICK t \in Durable : r.recv < t
        BY <4>1, <4>2 DEF CleanIsWhole
      <4>5. t <= LastDurable /\ t \in Nat /\ LastDurable \in Nat
        BY <4>2, LastDurableIs, DurableTimes, BoundsAssumption DEF DowntimeInv, RowsInv, Times
      <4> QED BY <1>0, <4>3, <4>4, <4>5
    <3>3. \A g \in pending' : Whole(g, taken \ disk)
      BY <3>1, <3>2
    <3> HIDE DEF Whole
    <3> QED BY <1>1, <2>1, <3>3
  <2>3. CASE ~HasWindow
    <3>1. pending' = {}
      BY <1>5, <2>3, BootWindow DEF DowntimeInv
    <3> QED BY <1>1, <2>1, <3>1
  <2> QED BY <2>2, <2>3
<1>6. CASE RecordGap
  <2>1. UNCHANGED <<taken, disk>> /\ pending' \subseteq pending
    BY <1>6 DEF RecordGap
  <2>2. PICK g \in pending :
          \/ gaps' = gaps
          \/ gaps' = gaps \cup {[seq |-> nextSeq, recv |-> g.to, by |-> booted,
                                 pair |-> g.pair, from |-> g.from, to |-> g.to,
                                 cause |-> g.cause]}
    BY <1>6 DEF RecordGap
  <2>3. PICK row : /\ row.from = g.from /\ row.to = g.to /\ row.cause = g.cause
                   /\ gaps' \subseteq gaps \cup {row}
    BY <2>2
  <2>4. Whole(row, taken \ disk)
    BY <1>0a, <2>3
  <2> HIDE DEF Whole
  <2> QED BY <1>1, <2>1, <2>3, <2>4
<1>7. ASSUME NEW f \in Frames, NEW parsed \in BOOLEAN,
             TakeStreamed(f, parsed) \/ TakeFetched(f, parsed)
      PROVE  WindowsAreEmpty'
  <2>1. /\ taken' = taken \cup {NewPayload(f, parsed)} /\ disk \subseteq disk' /\ phase # "down"
        /\ UNCHANGED <<gaps, pending>>
    BY <1>7 DEF TakeStreamed, TakeFetched, Take, record
  <2>2. NewPayload(f, parsed).recv = now
    BY DEF NewPayload
  <2>3. \A g \in gaps \cup pending : g.to <= now
    BY <2>1 DEF DowntimeInv, RowsInv, WhereRowsAre, SinceBoot
  <2> QED BY <2>1, <2>2, <2>3 DEF DowntimeInv, WindowsAreEmpty
<1>8. CASE Connect
  <2>1. UNCHANGED <<taken, disk, gaps>> /\ phase = "running" /\ pending' = Tails(ledger, Pairs, now)
    BY <1>8 DEF Connect, record
  <2>2. ASSUME NEW p \in Pairs, ledger[p].open, ledger[p].cause = "downtime",
               NEW r \in taken \ disk
        PROVE  r.recv < ledger[p].end
    <3>1. buffered = {} /\ booted <= ledger[p].end
      BY <2>2 DEF DowntimeInv, TailsAreAfterBoot
    <3>2. r.recv < booted
      BY <2>1, <3>1 DEF DowntimeInv, RowsInv, SinceBoot, Lost
    <3>3. ledger[p].end \in Moment
      BY DEF DowntimeInv, RowsInv, TypeOK, Ledgers, Entry
    <3> QED BY <1>0, <3>1, <3>2, <3>3 DEF Moment, Never
  <2>3. \A g \in pending' : Whole(g, taken \ disk)
    BY <2>1, <2>2 DEF Tails
  <2> HIDE DEF Whole
  <2> QED BY <1>1, <2>1, <2>3
<1>9. CASE SessionLost
  <2>1. UNCHANGED <<taken, disk, gaps>> /\ \A g \in pending' : g.cause = "session_lost"
    BY <1>9 DEF SessionLost, GapsForAll, GapsFor, record
  <2> QED BY <1>1, <2>1
<1> QED BY <1>2, <1>3, <1>4, <1>5, <1>6, <1>7, <1>8, <1>9 DEF Next

(* mark_clean_shutdown and restart_window: a window the record calls       *)
(* downtime holds nothing this system received and lost, through kills at  *)
(* any step, failed writes and markers, losses of the session and fetched  *)
(* pages, as long as every gap computed is recorded.                       *)
THEOREM DowntimeIsWhole ==
  ASSUME GapsAreRecorded
  PROVE  Spec => []DowntimeLostNothing
<1>1. Init => DowntimeInv
  <2> SUFFICES ASSUME Init PROVE DowntimeInv
    OBVIOUS
  <2>1. RowsInv
    BY TypeInit DEF Init, RowsInv, WhereRowsAre, SinceBoot, NothingHeldYet, Receipts
  <2>2. Durable = {}
    BY DEF Init, Durable, Receipts
  <2>3. TailsAreAfterBoot
    BY DEF Init, TailsAreAfterBoot, Untouched
  <2> QED BY <2>1, <2>2, <2>3 DEF Init, DowntimeInv, WindowsAreEmpty, CleanIsWhole, StartIsDurable
<1>2. DowntimeInv /\ [Next]_vars => DowntimeInv'
  BY RowsInvNext, WindowsAreEmptyNext, TailsAreAfterBootNext, CleanIsWholeNext,
     StartIsDurableNext DEF DowntimeInv
<1>3. DowntimeInv => DowntimeLostNothing
  BY DEF DowntimeInv, WindowsAreEmpty, DowntimeLostNothing, Lost
<1> QED BY <1>1, <1>2, <1>3, PTL DEF Spec

-----------------------------------------------------------------------------
(***************************************************************************)
(* The strengthening under which SeqNamesOnePayload is inductive: a start  *)
(* numbers from the clock's microseconds, so it is apart from the process  *)
(* before it only while that one has numbered fewer payloads and gaps than *)
(* microseconds went by.  In a tick a process numbers at most what it took *)
(* and one gap a pair, for a gap has to end later than the pair's last.    *)
(***************************************************************************)
ClockOutpacesNumbers == SeqPerTick >= MaxTaken + Cardinality(Pairs)

(* The pairs whose last gap ends now, and so can have no other in the tick. *)
GappedNow == {p \in Pairs : ledger[p].end = now}

(* The number this process cannot have passed when the tick began.         *)
Ceiling == booted * SeqPerTick + Cardinality(taken) + Cardinality(Pairs) * (now - booted)

NumbersBelow ==
  /\ IsFiniteSet(taken) /\ Cardinality(taken) <= MaxTaken
  /\ \A r \in taken \cup gaps : r.seq < nextSeq
  /\ phase # "down" => nextSeq + Cardinality(pending) <= Ceiling + Cardinality(GappedNow)
  /\ phase = "down" /\ ~slept => nextSeq <= Ceiling + Cardinality(Pairs)
  /\ phase = "down" /\ slept => nextSeq <= now * SeqPerTick

NumberInv == GapInv /\ NumbersBelow /\ SeqNamesOnePayload

(* A clock that counts S a tick is past what M payloads and P gaps a tick  *)
(* can have numbered since it read b.                                      *)
LEMMA ClockAhead ==
  ASSUME NEW b \in Nat, NEW n \in Nat, NEW S \in Nat, NEW P \in Nat, NEW M \in Nat,
         NEW T \in Nat, b <= n, S >= M + P, T <= M
  PROVE  b * S + T + P * (n - b) + P <= (n + 1) * S
<1>1. PICK d \in Nat : d = n - b
  OBVIOUS
<1>2. n = b + d
  BY <1>1
<1>3. (n + 1) * S = b * S + d * S + S
  BY <1>2
<1>4. d * S >= d * P
  BY <1>1
<1>5. P * (n - b) = d * P
  BY <1>1
<1>6. b * S \in Nat /\ d * S \in Nat /\ d * P \in Nat
  OBVIOUS
<1> QED BY <1>3, <1>4, <1>5, <1>6

(* Rows that name distinct pairs are no more than the pairs.               *)
LEMMA OnePerPair ==
  ASSUME NEW G, NEW T \in SUBSET Pairs, \A g \in G : g.pair \in T,
         \A g, h \in G : g.pair = h.pair => g = h
  PROVE  IsFiniteSet(G) /\ Cardinality(G) <= Cardinality(T)
<1>1. IsFiniteSet(T)
  BY FS_Subset, PairsAssumption
<1> DEFINE f == [g \in G |-> g.pair]
<1>2. f \in Injection(G, T)
  BY DEF Injection, IsInjective
<1> QED BY <1>1, <1>2, FS_Injection

(* What is pending names each pair once.                                   *)
LEMMA PendingPerPair ==
  ASSUME GapInv, phase # "down"
  PROVE  IsFiniteSet(pending) /\ Cardinality(pending) \in Nat
<1>1. /\ \A g \in pending : g.pair \in Pairs
      /\ \A g, h \in pending : g.pair = h.pair => g = h
  BY DEF GapInv, TypeOK, GapsFollow
<1>2. IsFiniteSet(pending)
  BY <1>1, OnePerPair
<1> QED BY <1>2, FS_CardinalityType

(* The numbers the bound is made of.                                       *)
LEMMA CountsAreNat ==
  ASSUME NumberInv
  PROVE  /\ now \in Nat /\ booted \in Nat /\ nextSeq \in Nat /\ SeqPerTick \in Nat
         /\ booted <= now /\ MaxTaken \in Nat
         /\ Cardinality(taken) \in Nat /\ Cardinality(Pairs) \in Nat
         /\ Cardinality(GappedNow) \in Nat /\ Cardinality(GappedNow) <= Cardinality(Pairs)
         /\ booted * SeqPerTick \in Nat /\ Cardinality(Pairs) * (now - booted) \in Nat
         /\ Ceiling \in Nat
<1>1. /\ now \in Nat /\ booted \in Nat /\ nextSeq \in Nat /\ SeqPerTick \in Nat
      /\ booted <= now /\ MaxTaken \in Nat
  BY BoundsAssumption DEF NumberInv, GapInv, TypeOK, ProcessesApart, Times
<1>2. Cardinality(taken) \in Nat /\ Cardinality(Pairs) \in Nat
  BY FS_CardinalityType, PairsAssumption DEF NumberInv, NumbersBelow
<1>3. GappedNow \in SUBSET Pairs
  BY DEF GappedNow
<1>4. IsFiniteSet(GappedNow) /\ Cardinality(GappedNow) <= Cardinality(Pairs)
  BY <1>3, FS_Subset, PairsAssumption
<1>5. Cardinality(GappedNow) \in Nat
  BY <1>4, FS_CardinalityType
<1>6. PICK d \in Nat : d = now - booted
  BY <1>1
<1>7. booted * SeqPerTick \in Nat /\ Cardinality(Pairs) * d \in Nat
  BY <1>1, <1>2
<1> QED BY <1>1, <1>2, <1>4, <1>5, <1>6, <1>7 DEF Ceiling

(* Within a tick of a running process the bound moves with what is used.   *)
LEMMA NumbersStand ==
  ASSUME NumberInv, phase # "down", phase' # "down", UNCHANGED <<now, booted, taken, nextSeq, gaps>>,
         \/ UNCHANGED pending /\ \A p \in Pairs : ledger'[p].end = ledger[p].end
         \/ /\ pending = {} /\ GapInv'
            /\ \A g \in pending' : ledger[g.pair].end < now /\ ledger'[g.pair].end = now
            /\ \A p \in Pairs : ledger[p].end = now => ledger'[p].end = now
  PROVE  NumbersBelow'
<1> USE CountsAreNat
<1>1. Ceiling' = Ceiling /\ nextSeq' + Cardinality(pending)' = nextSeq + Cardinality(pending')
  BY DEF Ceiling
<1>2. nextSeq + Cardinality(pending) <= Ceiling + Cardinality(GappedNow)
  BY DEF NumberInv, NumbersBelow
<1>3. CASE UNCHANGED pending /\ \A p \in Pairs : ledger'[p].end = ledger[p].end
  <2>1. GappedNow' = GappedNow
    BY <1>3 DEF GappedNow
  <2> QED BY <1>1, <1>2, <1>3, <2>1 DEF NumberInv, NumbersBelow
<1>4. CASE /\ pending = {} /\ GapInv'
           /\ \A g \in pending' : ledger[g.pair].end < now /\ ledger'[g.pair].end = now
           /\ \A p \in Pairs : ledger[p].end = now => ledger'[p].end = now
  <2> DEFINE new == {g.pair : g \in pending'}
  <2>1. /\ \A g \in pending' : g.pair \in Pairs
        /\ \A g, h \in pending' : g.pair = h.pair => g = h
    BY <1>4 DEF GapInv, TypeOK, GapsFollow
  <2>2. PICK T \in SUBSET Pairs : T = new
    BY <2>1
  <2>3. \A p \in T : ledger[p].end < now /\ ledger'[p].end = now
    BY <1>4, <2>2
  <2>4. IsFiniteSet(T) /\ IsFiniteSet(pending') /\ Cardinality(pending') <= Cardinality(T)
    <3>1. \A g \in pending' : g.pair \in T
      BY <2>2
    <3>2. IsFiniteSet(T)
      BY FS_Subset, PairsAssumption
    <3> HIDE DEF new
    <3> QED BY <2>1, <3>1, <3>2, OnePerPair
  <2>5. T \cap GappedNow = {} /\ T \cup GappedNow \subseteq GappedNow'
    <3>1. now' = now
      OBVIOUS
    <3>2. ~(now < now)
      OBVIOUS
    <3> QED BY <1>4, <2>3, <3>1, <3>2 DEF GappedNow
  <2>6. IsFiniteSet(GappedNow) /\ IsFiniteSet(GappedNow')
    <3>1. GappedNow \in SUBSET Pairs /\ GappedNow' \in SUBSET Pairs
      BY DEF GappedNow
    <3> QED BY <3>1, FS_Subset, PairsAssumption
  <2>7. Cardinality(T) + Cardinality(GappedNow) <= Cardinality(GappedNow')
    <3>1. PICK big : big = GappedNow'
      OBVIOUS
    <3>2. T \cup GappedNow \in SUBSET big /\ IsFiniteSet(big)
      BY <2>5, <2>6, <3>1
    <3>3. Cardinality(T \cup GappedNow) <= Cardinality(big)
      BY <3>2, FS_Subset
    <3>4. Cardinality(T \cup GappedNow) =
            Cardinality(T) + Cardinality(GappedNow) - Cardinality(T \cap GappedNow)
      BY <2>4, <2>6, FS_Union
    <3>5. Cardinality(T \cap GappedNow) = 0
      BY <2>5, FS_EmptySet
    <3>6. Cardinality(T) \in Nat
      BY <2>4, FS_CardinalityType
    <3> QED BY <3>1, <3>3, <3>4, <3>5, <3>6
  <2>8. Cardinality(pending) = 0
    BY <1>4, FS_EmptySet
  <2>9. /\ Cardinality(pending') \in Nat /\ Cardinality(T) \in Nat
        /\ Cardinality(GappedNow') \in Nat
    BY <2>4, <2>6, FS_CardinalityType
  <2>10. nextSeq + Cardinality(pending') <= Ceiling + Cardinality(GappedNow')
    BY <1>2, <2>4, <2>7, <2>8, <2>9
  <2>11. Cardinality(GappedNow') = Cardinality(GappedNow)' /\ Cardinality(pending') = Cardinality(pending)'
    OBVIOUS
  <2> QED BY <1>1, <2>10, <2>11 DEF NumberInv, NumbersBelow
<1> QED BY <1>3, <1>4

(* A process that stops stays below what the next start numbers from.      *)
LEMMA NumbersGone ==
  ASSUME NumberInv, phase # "down", phase' = "down", slept' = FALSE,
         UNCHANGED <<now, booted, taken, nextSeq, gaps>>
  PROVE  NumbersBelow'
<1> USE CountsAreNat
<1>1. nextSeq + Cardinality(pending) <= Ceiling + Cardinality(GappedNow)
  BY DEF NumberInv, NumbersBelow
<1>2. Cardinality(pending) \in Nat
  BY PendingPerPair DEF NumberInv
<1>3. nextSeq' <= Ceiling' + Cardinality(Pairs)
  BY <1>1, <1>2 DEF Ceiling
<1> QED BY <1>3 DEF NumberInv, NumbersBelow

LEMMA NumberInvNext ==
  ASSUME ClockOutpacesNumbers, NumberInv, [Next]_vars
  PROVE  NumberInv'
<1> USE CountsAreNat
<1>0. GapInv'
  BY GapInvNext DEF NumberInv
<1> SUFFICES NumbersBelow' /\ SeqNamesOnePayload'
  BY <1>0 DEF NumberInv
<1>1. ASSUME UNCHANGED <<taken, gaps>>
      PROVE  SeqNamesOnePayload'
  BY <1>1 DEF NumberInv, SeqNamesOnePayload
<1>2. CASE Tick
  <2>1. /\ now' = now + 1 /\ slept' = TRUE
        /\ UNCHANGED <<phase, booted, nextSeq, pending, ledger, taken, gaps>>
    BY <1>2 DEF Tick, process, archive, session, record
  <2>2. Ceiling' = Ceiling + Cardinality(Pairs)
    <3>1. Cardinality(Pairs) * (now + 1 - booted)
            = Cardinality(Pairs) * (now - booted) + Cardinality(Pairs)
      OBVIOUS
    <3> QED BY <2>1, <3>1 DEF Ceiling
  <2>3. CASE phase # "down"
    <3>1. nextSeq + Cardinality(pending) <= Ceiling + Cardinality(GappedNow)
      BY <2>3 DEF NumberInv, NumbersBelow
    <3>2. Cardinality(GappedNow') \in Nat
      <4>1. GappedNow' \in SUBSET Pairs
        BY DEF GappedNow
      <4>2. IsFiniteSet(GappedNow')
        BY <4>1, FS_Subset, PairsAssumption
      <4> QED BY <4>2, FS_CardinalityType
    <3>3. Cardinality(pending) \in Nat
      BY <2>3, PendingPerPair DEF NumberInv
    <3>4. nextSeq + Cardinality(pending) <= Ceiling' + Cardinality(GappedNow')
      BY <2>2, <3>1, <3>2, <3>3
    <3> QED BY <1>1, <2>1, <2>3, <3>4 DEF NumberInv, NumbersBelow
  <2>4. CASE phase = "down" /\ ~slept
    <3>1. nextSeq <= Ceiling + Cardinality(Pairs)
      BY <2>4 DEF NumberInv, NumbersBelow
    <3>2. Ceiling + Cardinality(Pairs) <= (now + 1) * SeqPerTick
      <4>1. Cardinality(taken) <= MaxTaken /\ SeqPerTick >= MaxTaken + Cardinality(Pairs)
        BY DEF NumberInv, NumbersBelow, ClockOutpacesNumbers
      <4> QED BY <4>1, ClockAhead DEF Ceiling
    <3>3. nextSeq <= (now + 1) * SeqPerTick
      BY <3>1, <3>2
    <3> QED BY <1>1, <2>1, <2>4, <3>3 DEF NumberInv, NumbersBelow
  <2>5. CASE phase = "down" /\ slept
    <3>1. nextSeq <= now * SeqPerTick
      BY <2>5 DEF NumberInv, NumbersBelow
    <3>2. (now + 1) * SeqPerTick = now * SeqPerTick + SeqPerTick /\ now * SeqPerTick \in Nat
      OBVIOUS
    <3>3. nextSeq <= (now + 1) * SeqPerTick
      BY <3>1, <3>2
    <3> QED BY <1>1, <2>1, <2>5, <3>3 DEF NumberInv, NumbersBelow
  <2> QED BY <2>3, <2>4, <2>5
<1>3. CASE Boot
  <2>1. /\ phase = "down" /\ slept /\ booted' = now /\ nextSeq' = now * SeqPerTick
        /\ UNCHANGED <<now, taken, gaps>> /\ phase' # "down"
    BY <1>3 DEF Boot, Seed, clock, record
  <2>2. nextSeq <= nextSeq'
    BY <2>1 DEF NumberInv, NumbersBelow
  <2>3. \A r \in taken \cup gaps : r.seq \in Nat
    BY DEF NumberInv, GapInv, TypeOK, Payload, GapRow
  <2>4. now * SeqPerTick \in Nat
    OBVIOUS
  <2>5. \A r \in taken' \cup gaps' : r.seq < nextSeq'
    BY <2>1, <2>2, <2>3, <2>4 DEF NumberInv, NumbersBelow
  <2>6. Ceiling' = nextSeq' + Cardinality(taken)
    <3>1. Cardinality(Pairs) * (now - now) = 0
      OBVIOUS
    <3> QED BY <2>1, <2>4, <3>1 DEF Ceiling
  <2>7. IsFiniteSet(GappedNow') /\ Cardinality(GappedNow') \in Nat
    <3>1. GappedNow' \in SUBSET Pairs
      BY DEF GappedNow
    <3>2. IsFiniteSet(GappedNow')
      BY <3>1, FS_Subset, PairsAssumption
    <3> QED BY <3>2, FS_CardinalityType
  <2>8. Cardinality(pending') \in Nat /\ Cardinality(pending') <= Cardinality(GappedNow')
    <3>1. /\ \A g \in pending' : g.pair \in GappedNow'
      <4>1. CASE HasWindow
        <5> DEFINE K == Known(Untouched, Pairs, WindowFrom)
        <5>1. K \in Ledgers
          <6>1. WindowFrom \in Nat
            BY <4>1, WindowFromIs DEF NumberInv, GapInv, HasWindow
          <6> QED BY <6>1, KnownType, UntouchedType
        <5> HIDE DEF K
        <5>2. /\ pending' = GapsFor(K, Pairs, now, WindowCause)
              /\ ledger' = AfterGapsFor(K, Pairs, now, WindowCause)
          BY <1>3, <4>1 DEF Boot, K
        <5>3. \A g \in pending' : g.pair \in Pairs
          BY <1>0 DEF GapInv, TypeOK
        <5>4. \A g \in pending' : ledger'[g.pair].end = now
          BY <5>1, <5>2, <5>3 DEF AfterGapsFor, NoteGapped, Ledgers, Entry
        <5> QED BY <2>1, <5>3, <5>4 DEF GappedNow
      <4>2. CASE ~HasWindow
        BY <1>3, <4>2 DEF Boot
      <4> QED BY <4>1, <4>2
    <3>2. \A g, h \in pending' : g.pair = h.pair => g = h
      BY <1>0, <2>1 DEF GapInv, GapsFollow
    <3>3. PICK T \in SUBSET Pairs : T = GappedNow'
      BY DEF GappedNow
    <3>4. IsFiniteSet(pending') /\ Cardinality(pending') <= Cardinality(T)
      BY <3>1, <3>2, <3>3, OnePerPair
    <3> QED BY <3>3, <3>4, FS_CardinalityType
  <2>9. nextSeq' + Cardinality(pending') <= Ceiling' + Cardinality(GappedNow')
    <3>1. nextSeq' \in Nat
      BY <2>1, <2>4
    <3> QED BY <2>6, <2>7, <2>8, <3>1
  <2> QED BY <1>1, <2>1, <2>5, <2>9 DEF NumberInv, NumbersBelow
<1>4. CASE RecordGap
  <2>1. /\ phase # "down" /\ UNCHANGED <<now, slept, phase, booted, ledger, taken>>
        /\ nextSeq' = nextSeq + 1
    BY <1>4 DEF RecordGap, clock, process
  <2>2. PICK g \in pending :
          /\ pending' = pending \ {g}
          /\ \/ gaps' = gaps
             \/ gaps' = gaps \cup {[seq |-> nextSeq, recv |-> g.to, by |-> booted,
                                    pair |-> g.pair, from |-> g.from, to |-> g.to,
                                    cause |-> g.cause]}
    BY <1>4 DEF RecordGap
  <2> DEFINE row == [seq |-> nextSeq, recv |-> g.to, by |-> booted, pair |-> g.pair,
                     from |-> g.from, to |-> g.to, cause |-> g.cause]
  <2>3. row.seq = nextSeq /\ gaps' \subseteq gaps \cup {row}
    BY <2>2
  <2> HIDE DEF row
  <2>4. \A r \in taken \cup gaps : r.seq \in Nat /\ r.seq < nextSeq
    BY DEF NumberInv, GapInv, TypeOK, Payload, GapRow, NumbersBelow
  <2>5. SeqNamesOnePayload'
    BY <2>1, <2>3, <2>4 DEF NumberInv, SeqNamesOnePayload
  <2>6. \A r \in taken' \cup gaps' : r.seq < nextSeq'
    BY <2>1, <2>3, <2>4
  <2>7. Cardinality(pending') = Cardinality(pending) - 1 /\ Cardinality(pending) \in Nat
    <3>1. IsFiniteSet(pending) /\ Cardinality(pending) \in Nat
      BY <2>1, PendingPerPair DEF NumberInv
    <3> QED BY <2>2, <3>1, FS_RemoveElement
  <2>8. GappedNow' = GappedNow /\ Ceiling' = Ceiling
    BY <2>1 DEF GappedNow, Ceiling
  <2>9. nextSeq + Cardinality(pending) <= Ceiling + Cardinality(GappedNow)
    BY <2>1 DEF NumberInv, NumbersBelow
  <2>10. nextSeq' + Cardinality(pending') <= Ceiling' + Cardinality(GappedNow')
    BY <2>1, <2>7, <2>8, <2>9
  <2> QED BY <2>1, <2>5, <2>6, <2>10 DEF NumberInv, NumbersBelow
<1>5. ASSUME NEW f \in Frames, NEW parsed \in BOOLEAN,
             TakeStreamed(f, parsed) \/ TakeFetched(f, parsed)
      PROVE  NumbersBelow' /\ SeqNamesOnePayload'
  <2> PICK r : r = NewPayload(f, parsed)
    OBVIOUS
  <2>1. r.seq = nextSeq
    BY DEF NewPayload
  <2>2. /\ phase # "down" /\ UNCHANGED <<now, slept, phase, booted, pending, gaps>>
        /\ nextSeq' = nextSeq + 1 /\ taken' = taken \cup {r}
        /\ Cardinality(taken) < MaxTaken
        /\ ledger' = ledger \/ \E pairs : ledger' = Known(ledger, pairs, now)
    BY <1>5 DEF TakeStreamed, TakeFetched, Take, Received, clock, process, record
  <2>3. \A s \in taken \cup gaps : s.seq \in Nat /\ s.seq < nextSeq
    BY DEF NumberInv, GapInv, TypeOK, Payload, GapRow, NumbersBelow
  <2>4. SeqNamesOnePayload'
    BY <2>1, <2>2, <2>3 DEF NumberInv, SeqNamesOnePayload
  <2>5. \A s \in taken' \cup gaps' : s.seq < nextSeq'
    BY <2>1, <2>2, <2>3
  <2>6. IsFiniteSet(taken') /\ Cardinality(taken') = Cardinality(taken) + 1
    <3>1. IsFiniteSet(taken) /\ r \notin taken
      BY <2>1, <2>3 DEF NumberInv, NumbersBelow
    <3> QED BY <2>2, <3>1, FS_AddElement
  <2>7. GappedNow' = GappedNow
    <3>1. ledger \in Ledgers
      BY DEF NumberInv, GapInv, TypeOK
    <3>2. \A p \in Pairs : ledger'[p].end = ledger[p].end
      BY <2>2, <3>1 DEF Known, Ledgers, Entry
    <3> QED BY <2>2, <3>2 DEF GappedNow
  <2>8. Ceiling' = Ceiling + 1
    BY <2>2, <2>6 DEF Ceiling
  <2>9. nextSeq + Cardinality(pending) <= Ceiling + Cardinality(GappedNow)
    BY <2>2 DEF NumberInv, NumbersBelow
  <2>10. Cardinality(pending) \in Nat
    BY <2>2, PendingPerPair DEF NumberInv
  <2>11. /\ nextSeq' + Cardinality(pending') <= Ceiling' + Cardinality(GappedNow')
         /\ Cardinality(taken') <= MaxTaken
    BY <2>2, <2>6, <2>7, <2>8, <2>9, <2>10
  <2> QED BY <2>2, <2>4, <2>5, <2>6, <2>11 DEF NumbersBelow
<1>6. CASE GapsRecorded \/ Flush \/ FlushPayloads \/ FlushFailures
  <2>1. /\ phase # "down" /\ phase' # "down"
        /\ UNCHANGED <<now, booted, nextSeq, pending, ledger, taken, gaps>>
    BY <1>6 DEF GapsRecorded, Flush, FlushPayloads, FlushFailures, clock, process, archive,
                session, record
  <2> QED BY <1>1, <2>1, NumbersStand
<1>7. CASE FlushDone
  <2>1. /\ phase # "down" /\ UNCHANGED <<now, booted, nextSeq, pending, taken, gaps>>
        /\ \/ phase' = "down" /\ slept' = FALSE
           \/ phase' # "down" /\ ledger' = ledger
    BY <1>7 DEF FlushDone, record
  <2> QED BY <1>1, <2>1, NumbersStand, NumbersGone
<1>8. CASE FlushFails \/ Kill
  <2>1. /\ phase # "down" /\ phase' = "down" /\ slept' = FALSE
        /\ UNCHANGED <<now, booted, nextSeq, taken, gaps>>
    BY <1>8 DEF FlushFails, Kill, Gone, record
  <2> QED BY <1>1, <2>1, NumbersGone
<1>9. CASE Connect \/ SessionLost
  <2>1. /\ phase # "down" /\ phase' # "down" /\ phase = "running"
        /\ UNCHANGED <<now, booted, nextSeq, taken, gaps>>
    BY <1>9 DEF Connect, SessionLost, clock, process, archive, record
  <2>2. pending = {} /\ ledger \in Ledgers
    BY <2>1 DEF NumberInv, GapInv, GapsFollow, TypeOK
  <2>3. \A p \in Pairs : ledger[p].last \in Moment /\ ledger[p].end \in Moment
    BY <2>2 DEF Ledgers, Entry
  <2>4. /\ \A g \in pending' : /\ ledger[g.pair].end < now /\ ledger'[g.pair].end = now
        /\ \A p \in Pairs : ledger[p].end = now => ledger'[p].end = now
    <3>1. CASE Connect
      <4>1. pending' = Tails(ledger, Pairs, now) /\ ledger' = AfterAskedAgain(ledger, Pairs, now)
        BY <3>1 DEF Connect
      <4>2. \A g \in pending' : g.pair \in Pairs /\ ledger[g.pair].end < now
        BY <4>1 DEF Tails
      <4>3. \A p \in Pairs : ledger'[p].end = IF p \in {g.pair : g \in pending'} THEN now
                                                ELSE ledger[p].end
        BY <2>2, <4>1 DEF AfterAskedAgain, Ledgers, Entry
      <4> QED BY <4>2, <4>3
    <3>2. CASE SessionLost
      <4>1. /\ pending' = GapsFor(ledger, Pairs, now, "session_lost")
            /\ ledger' = AfterGapsFor(ledger, Pairs, now, "session_lost")
        BY <3>2 DEF SessionLost, GapsForAll
      <4>2. \A g \in pending' : g.pair \in Pairs /\ GapFrom(ledger[g.pair]) < now
        BY <4>1 DEF GapsFor
      <4>3. \A p \in Pairs : GapFrom(ledger[p]) < now => ledger[p].end < now
        BY <2>3 DEF GapFrom, Later, Moment, Never
      <4>4. \A p \in Pairs : ledger'[p].end = IF p \in {g.pair : g \in pending'} THEN now
                                                ELSE ledger[p].end
        BY <2>2, <4>1 DEF AfterGapsFor, NoteGapped, Ledgers, Entry
      <4> QED BY <4>2, <4>3, <4>4
    <3> QED BY <1>9, <3>1, <3>2
  <2> QED BY <1>0, <1>1, <2>1, <2>2, <2>4, NumbersStand
<1>10. CASE Handover
  <2>1. /\ phase # "down" /\ UNCHANGED <<now, phase, booted, nextSeq, pending, taken, gaps>>
    BY <1>10 DEF Handover, clock, process, archive, record
  <2>2. ledger \in Ledgers
    BY DEF NumberInv, GapInv, TypeOK
  <2>3. \A p \in Pairs : ledger'[p].end = ledger[p].end
    BY <1>10, <2>2 DEF Handover, HandoverCompleted, Known, Ledgers, Entry
  <2> QED BY <1>1, <2>1, <2>3, NumbersStand
<1>11. CASE UNCHANGED vars
  BY <1>1, <1>11 DEF vars, clock, process, archive, session, record, NumberInv, NumbersBelow,
                     Ceiling, GappedNow
<1> QED BY <1>2, <1>3, <1>4, <1>5, <1>6, <1>7, <1>8, <1>9, <1>10, <1>11 DEF Next

(* Archive::from_seq: whatever fails, a sequence number names one payload  *)
(* or one gap across every restart, provided a process numbers less in a   *)
(* tick than the clock counts in it.                                       *)
THEOREM SeqsNeverCollide ==
  ASSUME ClockOutpacesNumbers
  PROVE  Spec => []SeqNamesOnePayload
<1>1. Init => NumberInv
  <2> SUFFICES ASSUME Init PROVE NumberInv
    OBVIOUS
  <2>1. GapInv
    BY TypeInit DEF Init, GapInv, ProcessesApart, GapsFollow, GapsDisjoint, Ours
  <2>2. IsFiniteSet(taken) /\ Cardinality(taken) = 0
    BY FS_EmptySet DEF Init
  <2>3. now * SeqPerTick = 0
    BY BoundsAssumption DEF Init
  <2> QED BY <2>1, <2>2, <2>3, BoundsAssumption
          DEF Init, NumberInv, NumbersBelow, SeqNamesOnePayload
<1>2. NumberInv /\ [Next]_vars => NumberInv'
  BY NumberInvNext
<1>3. NumberInv => SeqNamesOnePayload
  BY DEF NumberInv
<1> QED BY <1>1, <1>2, <1>3, PTL DEF Spec
=============================================================================
