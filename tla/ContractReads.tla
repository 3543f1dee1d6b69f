---------------------------- MODULE ContractReads ----------------------------
(***************************************************************************)
(* Cached reads of one contract: the state tracker's revision              *)
(* (src/soroban/contractStateTracker.ts), the cache of results by revision *)
(* and the shared request of readContract (src/soroban/readContract.ts,    *)
(* deduplicateRequest of src/shared/utils.ts), and the marking of a        *)
(* contract that a transaction of ours modified                            *)
(* (src/soroban/executeContract.ts). A value of the contract is the number *)
(* of modifications before it, and so is the id of the event of one.       *)
(***************************************************************************)
EXTENDS Naturals, FiniteSets

CONSTANTS
  Calls,        \* the reads that may overlap
  MaxVersion,   \* bound on the modifications
  NoRead, NotCached

VARIABLES
  version,      \* of the contract on the ledger
  indexed,      \* the latest event that Horizon shows, 0 for none
  submitted,    \* our transaction that is in the ledger and not yet known to be, 0 for none
  marked,       \* the latest of our modifications that is known
  tracker,      \* the tracker's entry: [revision, lastEvent, fresh]
  cache,        \* results by revision
  inflight,     \* the read whose request a revision's readers share
  calls,
  mishap        \* a check undid another writing of the revision, or the tracker's entry expired

vars == <<version, indexed, submitted, marked, tracker, cache, inflight, calls, mishap>>

Versions  == 0..MaxVersion
Revisions == 0..(2 * MaxVersion)
Entry     == [revision : Revisions, lastEvent : Versions, fresh : BOOLEAN]
NoEntry   == [revision |-> 0, lastEvent |-> 0, fresh |-> FALSE]
Idle      == [stage |-> "idle", entry |-> NoEntry, value |-> 0, floor |-> 0]

\* Of the entry, a read that has its key needs the revision only.
KeyOf(entry) == [NoEntry EXCEPT !.revision = entry.revision]

TypeOK ==
  /\ version \in Versions /\ indexed \in Versions /\ submitted \in Versions /\ marked \in Versions
  /\ tracker \in Entry
  /\ cache \in [Revisions -> Versions \cup {NotCached}]
  /\ inflight \in [Revisions -> Calls \cup {NoRead}]
  /\ calls \in [Calls -> [stage : {"idle", "checking", "keyed", "waiting", "asked", "answered", "served"},
                          entry : Entry, value : Versions, floor : Versions]]
  /\ mishap \in BOOLEAN

Init ==
  /\ version \in {0, 1} /\ indexed \in 0..version
  /\ submitted = 0 /\ marked = 0
  /\ tracker = NoEntry
  /\ cache = [r \in Revisions |-> NotCached]
  /\ inflight = [r \in Revisions |-> NoRead]
  /\ calls = [c \in Calls |-> Idle]
  /\ mishap = FALSE

ledgerVars == <<version, indexed, submitted, marked>>

-----------------------------------------------------------------------------
\* A fresh entry answers at once, an older one after Horizon was asked.
GetRevision(c) ==
  /\ calls[c].stage = "idle"
  /\ calls' = [calls EXCEPT ![c] =
       IF tracker.fresh THEN [stage |-> "keyed", entry |-> KeyOf(tracker), value |-> 0, floor |-> marked]
       ELSE [stage |-> "checking", entry |-> tracker, value |-> 0, floor |-> marked]]
  /\ UNCHANGED <<ledgerVars, tracker, cache, inflight, mishap>>

\* The entry that was read before is the one that is written back.
WriteBack(c, entry) ==
  /\ tracker' = entry
  /\ calls' = [calls EXCEPT ![c] = [@ EXCEPT !.stage = "keyed", !.entry = KeyOf(entry)]]
  /\ mishap' = (mishap \/ tracker.revision # calls[c].entry.revision)
  /\ UNCHANGED <<ledgerVars, cache, inflight>>

Advanced(entry, event) ==
  [revision  |-> IF event # 0 /\ entry.lastEvent # 0 /\ event # entry.lastEvent
                 THEN entry.revision + 1 ELSE entry.revision,
   lastEvent |-> IF event # 0 THEN event ELSE entry.lastEvent,
   fresh     |-> TRUE]

CheckAnswers(c) ==
  /\ calls[c].stage = "checking"
  /\ WriteBack(c, Advanced(calls[c].entry, indexed))

CheckFails(c) ==
  /\ calls[c].stage = "checking"
  /\ WriteBack(c, [calls[c].entry EXCEPT !.fresh = TRUE])

Key(c) == calls[c].entry.revision

\* From the cache, with the request of another reader, or with one's own.
LookUp(c) ==
  /\ calls[c].stage = "keyed"
  /\ IF cache[Key(c)] # NotCached
     THEN /\ calls' = [calls EXCEPT ![c] = [@ EXCEPT !.stage = "served", !.value = cache[Key(c)]]]
          /\ UNCHANGED inflight
     ELSE IF inflight[Key(c)] # NoRead
     THEN calls' = [calls EXCEPT ![c] = [@ EXCEPT !.stage = "waiting"]] /\ UNCHANGED inflight
     ELSE /\ inflight' = [inflight EXCEPT ![Key(c)] = c]
          /\ calls' = [calls EXCEPT ![c] = [@ EXCEPT !.stage = "asked"]]
  /\ UNCHANGED <<ledgerVars, tracker, cache, mishap>>

\* The node simulates at one moment and its answer arrives at another.
Simulate(c) ==
  /\ calls[c].stage = "asked"
  /\ calls' = [calls EXCEPT ![c] = [@ EXCEPT !.stage = "answered", !.value = version]]
  /\ UNCHANGED <<ledgerVars, tracker, cache, inflight, mishap>>

Sharers(c) == {d \in Calls : d = c \/ (calls[d].stage = "waiting" /\ Key(d) = Key(c))}

Settle(c, outcome) ==
  /\ inflight' = [inflight EXCEPT ![Key(c)] = NoRead]
  /\ calls' = [d \in Calls |-> IF d \in Sharers(c) THEN outcome[d] ELSE calls[d]]

ReadArrives(c) ==
  /\ calls[c].stage = "answered"
  /\ cache' = [cache EXCEPT ![Key(c)] = calls[c].value]
  /\ Settle(c, [d \in Calls |-> [calls[d] EXCEPT !.stage = "served", !.value = calls[c].value]])
  /\ UNCHANGED <<ledgerVars, tracker, mishap>>

ReadFails(c) ==
  /\ calls[c].stage \in {"asked", "answered"}
  /\ Settle(c, [d \in Calls |-> Idle])
  /\ UNCHANGED <<ledgerVars, tracker, cache, mishap>>

Return(c) ==
  /\ calls[c].stage = "served"
  /\ calls' = [calls EXCEPT ![c] = Idle]
  /\ UNCHANGED <<ledgerVars, tracker, cache, inflight, mishap>>

-----------------------------------------------------------------------------
\* Others modify the contract too; Horizon shows the event when it has it.
Modify ==
  /\ version < MaxVersion
  /\ version' = version + 1
  /\ submitted' \in {submitted} \cup (IF submitted = 0 THEN {version + 1} ELSE {})
  /\ UNCHANGED <<indexed, marked, tracker, cache, inflight, calls, mishap>>

Index ==
  /\ indexed < version
  /\ indexed' = indexed + 1
  /\ UNCHANGED <<version, submitted, marked, tracker, cache, inflight, calls, mishap>>

Marked(entry) == [entry EXCEPT !.revision = @ + 1, !.fresh = TRUE]

MarkContractModified ==
  /\ submitted # 0
  /\ tracker' = Marked(tracker)
  /\ marked' = submitted /\ submitted' = 0
  /\ UNCHANGED <<version, indexed, cache, inflight, calls, mishap>>

CheckInterval ==
  /\ tracker.fresh
  /\ tracker' = [tracker EXCEPT !.fresh = FALSE]
  /\ UNCHANGED <<ledgerVars, cache, inflight, calls, mishap>>

Expire(r) ==
  /\ cache[r] # NotCached
  /\ cache' = [cache EXCEPT ![r] = NotCached]
  /\ UNCHANGED <<ledgerVars, tracker, inflight, calls, mishap>>

\* The tracker keeps its entry in the same cache, where it may expire first.
Forget ==
  /\ tracker.revision # 0
  /\ tracker' = NoEntry /\ mishap' = TRUE
  /\ UNCHANGED <<ledgerVars, cache, inflight, calls>>

Next ==
  \/ \E c \in Calls :
       \/ GetRevision(c)
       \/ CheckAnswers(c)
       \/ CheckFails(c)
       \/ LookUp(c)
       \/ Simulate(c)
       \/ ReadArrives(c)
       \/ ReadFails(c)
       \/ Return(c)
  \/ Modify
  \/ Index
  \/ MarkContractModified
  \/ CheckInterval
  \/ \E r \in Revisions : Expire(r)
  \/ Forget

Spec == Init /\ [][Next]_vars

-----------------------------------------------------------------------------
\* Who reads after a modification of ours was known reads that modification or
\* a later one, from whichever cache or request the value comes, as long as no
\* check wrote its old entry over a newer revision and the tracker kept its entry.
ReadYourWrites ==
  \A c \in Calls : (calls[c].stage = "served" /\ ~mishap) => calls[c].value >= calls[c].floor
=============================================================================
