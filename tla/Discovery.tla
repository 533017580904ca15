------------------------------ MODULE Discovery ------------------------------
(***************************************************************************)
(* How galata-ledger finds and polls a master's sub-accounts:              *)
(* ledger/run.rs (boot, discover, snapshot_all) over the bindings of       *)
(* ledger/accounts.rs, which are kept nowhere but in the record.           *)
(*                                                                         *)
(* An address is told apart by its fingerprint; an alias is the master's   *)
(* and an ordinal, the master itself being ordinal 0.  The vault may       *)
(* resolve the master's alias to another address.  Snapshots of the        *)
(* master, dexes and modes are left out.                                   *)
(***************************************************************************)
EXTENDS Cadence, Sequences, FiniteSets, FiniteSetsExt

CONSTANTS
  Masters,     \* the addresses the vault may resolve the master's alias to
  Fingerprints, Names,
  Hazards,     \* which of HazardNames may happen
  MaxTime, MaxChanges, MaxPasses, MaxFaults   \* bounds: of moments, changes of the
               \* listing, runs of discovery and of snapshots, kills and refusals

HazardNames == {"kill", "unlisted", "unanswered"}
(* A sub-account has an address of its own.                                *)
AddressesAssumption == Masters \cap Fingerprints = {}

VARIABLES
  now,
  resolved,    \* what the vault resolves the master's alias to
  accounts,    \* the venue: the sub-accounts it lists, fingerprint -> name
  record,      \* what is durable, in the order written
  ledger,      \* where the process is
  bound,       \* Bindings: fingerprint -> [ordinal, name]
  subs,        \* LedgerRun::subs: ordinal -> fingerprint
  polled,      \* LedgerRun::polled_subs
  answered,    \* LedgerRun::polls: ordinal -> its cadence
  changes, passes, faults

memory == <<bound, subs, polled, answered>>
vars == <<now, resolved, accounts, record, ledger, memory, changes, passes, faults>>

Down == [at |-> "down"]
Waiting == [at |-> "waiting"]
Nothing == [x \in {} |-> x]
Seen == {record[i] : i \in {j \in DOMAIN record : record[j].what = "seen"}}

Init ==
  /\ now = 1 /\ resolved \in Masters /\ accounts = Nothing /\ record = <<>>
  /\ ledger = Down /\ bound = Nothing /\ subs = Nothing /\ polled = {} /\ answered = Nothing
  /\ changes = 0 /\ passes = 0 /\ faults = 0

Strikes(hazard) == hazard \in Hazards /\ faults < MaxFaults /\ faults' = faults + 1

(* The venue's listing changes, and time passes, before it is asked.       *)
Tick ==
  /\ now < MaxTime /\ ledger = Waiting
  /\ now' = now + 1
  /\ UNCHANGED <<resolved, accounts, record, ledger, memory, changes, passes, faults>>

Named(fp, name) == [f \in DOMAIN accounts \cup {fp} |-> IF f = fp THEN name ELSE accounts[f]]
ListingChanges ==
  /\ ledger.at = "listing" /\ changes < MaxChanges /\ changes' = changes + 1
  /\ \/ \E fp \in Fingerprints, name \in Names : accounts' = Named(fp, name)
     \/ \E fp \in DOMAIN accounts : accounts' = [f \in DOMAIN accounts \ {fp} |-> accounts[f]]
  /\ UNCHANGED <<now, resolved, record, ledger, memory, passes, faults>>

-----------------------------------------------------------------------------
(* Bindings::from_seen: a later row of the same address updates its name   *)
(* and never its ordinal.                                                  *)
SeenRows(fp) == {i \in DOMAIN record : record[i].what = "seen" /\ record[i].fp = fp}
FromSeen ==
  [fp \in {r.fp : r \in Seen} |->
     [ordinal |-> record[Min(SeenRows(fp))].ordinal, name |-> record[Max(SeenRows(fp))].name]]

(* check_fingerprints: the newest segment under the alias says whose       *)
(* address its history came from.                                          *)
Repoint ==
  /\ ledger = Down /\ changes < MaxChanges /\ changes' = changes + 1
  /\ resolved' \in Masters \ {resolved}
  /\ UNCHANGED <<now, accounts, record, ledger, memory, passes, faults>>
MasterRows == {i \in DOMAIN record : record[i].ordinal = 0}
Verified == MasterRows # {} => record[Max(MasterRows)].fp = resolved

Boot ==
  /\ ledger = Down /\ Verified
  /\ bound' = FromSeen
  /\ subs' = Nothing /\ polled' = {} /\ answered' = Nothing
  /\ ledger' = [at |-> "listing"]
  /\ UNCHANGED <<now, resolved, accounts, record, changes, passes, faults>>

(* discover.  The venue lists in an order of its own, so BindOne takes any.*)
ListingAnswered ==
  /\ ledger.at = "listing"
  /\ ledger' = [at |-> "binding", left |-> DOMAIN accounts]
  /\ record' = Append(record, [what |-> "listing", ordinal |-> 0, fp |-> resolved])
  /\ UNCHANGED <<now, resolved, accounts, memory, changes, passes, faults>>

(* Or not at all: what was polled still is.                                *)
ListingRefused ==
  /\ ledger.at = "listing" /\ Strikes("unlisted")
  /\ ledger' = Waiting
  /\ UNCHANGED <<now, resolved, accounts, record, memory, changes, passes>>

(* Bindings::observe: one more than the highest bound.                     *)
Ordinals == {bound[fp].ordinal : fp \in DOMAIN bound}
NextOrdinalPolled == Cardinality(polled) + 1   \* mutant: a vanished one's is taken again
NextOrdinal == Max(Ordinals \cup {0}) + 1
Observed(fp, name) ==
  [f \in DOMAIN bound \cup {fp} |->
     IF f # fp THEN bound[f]
     ELSE [ordinal |-> IF fp \in DOMAIN bound THEN bound[fp].ordinal ELSE NextOrdinal,
           name |-> name]]
SeenRow(fp, binding) ==
  [what |-> "seen", ordinal |-> binding.ordinal, fp |-> fp, name |-> binding.name]

(* New and renamed are recorded, durably, before anything is polled under  *)
(* the alias.                                                              *)
RecordsBinding(fp, name) == fp \notin DOMAIN bound \/ bound[fp].name # name
BindOne ==
  /\ ledger.at = "binding"
  /\ \E fp \in ledger.left :
       LET name == accounts[fp]
           binding == Observed(fp, name)[fp]
       IN  /\ bound' = Observed(fp, name)
           /\ record' = IF RecordsBinding(fp, name) THEN Append(record, SeenRow(fp, binding))
                        ELSE record
           /\ polled' = polled \cup {binding.ordinal}
           /\ subs' = [o \in DOMAIN subs \cup {binding.ordinal} |->
                         IF o = binding.ordinal THEN fp ELSE subs[o]]
           /\ ledger' = [ledger EXCEPT !.left = @ \ {fp}]
  /\ UNCHANGED <<now, resolved, accounts, answered, changes, passes, faults>>

(* Bindings::missing: kept, and no longer polled.                          *)
Missing == {bound[fp].ordinal : fp \in DOMAIN bound \ DOMAIN accounts}
StopMissing ==
  /\ ledger.at = "binding" /\ ledger.left = {}
  /\ polled' = polled \ Missing
  /\ ledger' = Waiting
  /\ UNCHANGED <<now, resolved, accounts, record, bound, subs, answered, changes, passes, faults>>

(* run: a pass of snapshots, or discovery where it is due.                 *)
StartPass ==
  /\ ledger = Waiting /\ passes < MaxPasses /\ passes' = passes + 1
  /\ \/ ledger' = [at |-> "listing"]
     \/ ledger' = [at |-> "snapshots", left |-> polled]
  /\ UNCHANGED <<now, resolved, accounts, record, memory, changes, faults>>

(* snapshot_all, one account: the polled ordinals in order.                *)
Ordinal == Min(ledger.left)
Cadence(ordinal) == IF ordinal \in DOMAIN answered THEN answered[ordinal] ELSE Unanswered
Snapshotting == ledger.at = "snapshots" /\ ledger.left # {}
                /\ ledger' = [ledger EXCEPT !.left = @ \ {Ordinal}]

SnapshotAnswered ==
  /\ Snapshotting
  /\ record' = Append(record, [what |-> "snapshot", ordinal |-> Ordinal,
                               fp |-> subs[Ordinal], at |-> now])
  /\ answered' = [o \in DOMAIN answered \cup {Ordinal} |->
                    IF o = Ordinal THEN now ELSE answered[o]]
  /\ UNCHANGED <<now, resolved, accounts, bound, subs, polled, changes, passes, faults>>

SnapshotUnanswered ==
  /\ Snapshotting /\ Strikes("unanswered")
  /\ LET windows == Missed(Cadence(Ordinal), now)
     IN  \/ windows = {} /\ UNCHANGED record
         \/ \E w \in windows :
              record' = Append(record, [what |-> "gap", ordinal |-> Ordinal, fp |-> subs[Ordinal],
                                        from |-> w.from, to |-> w.to])
  /\ UNCHANGED <<now, resolved, accounts, memory, changes, passes>>

PassEnds ==
  /\ ledger.at = "snapshots" /\ ledger.left = {}
  /\ ledger' = Waiting
  /\ UNCHANGED <<now, resolved, accounts, record, memory, changes, passes, faults>>

Kill ==
  /\ ledger # Down /\ Strikes("kill")
  /\ ledger' = Down
  /\ bound' = Nothing /\ subs' = Nothing /\ polled' = {} /\ answered' = Nothing
  /\ UNCHANGED <<now, resolved, accounts, record, changes, passes>>

Next ==
  \/ Tick \/ ListingChanges \/ Repoint \/ Boot
  \/ ListingAnswered \/ ListingRefused \/ BindOne \/ StopMissing
  \/ StartPass \/ SnapshotAnswered \/ SnapshotUnanswered \/ PassEnds
  \/ Kill
Spec == Init /\ [][Next]_vars

-----------------------------------------------------------------------------
(* accounts.rs, observe, from_seen and check_fingerprints: across renames, *)
(* disappearances, another order of the listing, restarts and repointed    *)
(* aliases, an alias names one address and an address has one alias, and   *)
(* what is recorded under an alias comes after the row that binds it.      *)
AliasNamesOneAddress ==
  \A i, j \in DOMAIN record :
    /\ record[i].ordinal = record[j].ordinal <=> record[i].fp = record[j].fp
    /\ record[i].ordinal # 0 =>
         \E s \in 1 .. i : record[s].what = "seen" /\ record[s].fp = record[i].fp
=============================================================================
