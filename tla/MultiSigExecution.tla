------------------------- MODULE MultiSigExecution -------------------------
(***************************************************************************)
(* N-of-M authorisation of a contract invocation                           *)
(* (src/src/soroban/multiSigExecution.ts): requests that collect weighted  *)
(* signatures and are assembled once. Every call brings its own clock,     *)
(* which may go back, and stores the status it finds by it, whether it     *)
(* succeeds or not. An id is made of a sequence number and of the payload. *)
(***************************************************************************)
EXTENDS Naturals, Sequences, FiniteSets, FiniteSetsExt

CONSTANTS
  Payloads,     \* hashes of the transactions to be signed
  Signers,
  Weight,       \* of each signer
  Thresholds,   \* those that callers ask for
  Expiries,     \* those that callers ask for, Never included
  Never,
  Times,        \* what a caller may pass as now
  MaxSequence   \* bound: requests between two calls of clear()

VARIABLES
  requests,     \* the Map, by id
  sequence,
  assembled     \* history: the ids assembled since the last clear()

vars == <<requests, sequence, assembled>>

Request == [signers: SUBSET Signers, threshold: Thresholds, expiresAt: Expiries,
            signatures: Seq(Signers),
            status: {"collecting", "ready", "expired", "executed"}]

TypeOK ==
  /\ DOMAIN requests \subseteq Nat \X Payloads
  /\ \A id \in DOMAIN requests : requests[id] \in Request
  /\ sequence \in 0..MaxSequence
  /\ assembled \subseteq Nat \X Payloads

Init ==
  /\ requests = <<>>
  /\ sequence = 0
  /\ assembled = {}

-----------------------------------------------------------------------------
SignedBy(r) == {r.signatures[i] : i \in DOMAIN r.signatures}

WeightOf(S) == MapThenSumSet(LAMBDA s : Weight[s], S)

\* Summed over the list: a signer who is in it twice counts twice.
CollectedWeight(r) ==
  MapThenSumSet(LAMBDA i : Weight[r.signatures[i]], DOMAIN r.signatures)

IsExpired(r, now) == r.expiresAt # Never /\ now >= r.expiresAt

\* recompute(): only "executed" is final; "expired" is undone by an older clock.
Recompute(r, now) ==
  [r EXCEPT !.status =
     IF r.status = "executed" THEN "executed"
     ELSE IF IsExpired(r, now) THEN "expired"
     ELSE IF CollectedWeight(r) >= r.threshold THEN "ready" ELSE "collecting"]

Put(id, r) ==
  requests' = [i \in DOMAIN requests \cup {id} |-> IF i = id THEN r ELSE requests[i]]

\* Mutant: the number of requests in place of a counter.
NextIdBySize(p) == <<Cardinality(DOMAIN requests) + 1, p>>

NextId(p) == <<sequence + 1, p>>

CreateSigningRequest(p, S, threshold, expiresAt, now) ==
  /\ sequence < MaxSequence
  /\ S # {}
  /\ threshold \in 1..WeightOf(S)
  /\ expiresAt # Never => expiresAt > now
  /\ sequence' = sequence + 1
  /\ Put(NextId(p), [signers |-> S, threshold |-> threshold, expiresAt |-> expiresAt,
                     signatures |-> <<>>, status |-> "collecting"])
  /\ UNCHANGED assembled

\* Whatever addSignature and execute refuse, the recomputed status stays.
Refresh(id, now) == Put(id, Recompute(requests[id], now))

GetRequestState(id, now) ==
  /\ Refresh(id, now)
  /\ UNCHANGED <<sequence, assembled>>

\* Mutant: a second signature of a signer is accepted.
AcceptsAnySigner(r, s) == r.status \in {"collecting", "ready"} /\ s \in r.signers

Accepts(r, s) ==
  /\ r.status \in {"collecting", "ready"}
  /\ s \in r.signers
  /\ s \notin SignedBy(r)

AddSignature(id, s, isValid, now) ==
  LET r == Recompute(requests[id], now)
  IN  /\ IF Accepts(r, s) /\ isValid
         THEN Put(id, Recompute([r EXCEPT !.signatures = Append(@, s)], now))
         ELSE Refresh(id, now)
      /\ UNCHANGED <<sequence, assembled>>

\* execute(): assembling the envelope may fail, and is tried again then.
Execute(id, assembles, now) ==
  LET r == Recompute(requests[id], now)
  IN  /\ IF r.status \in {"collecting", "ready"} /\ CollectedWeight(r) >= r.threshold /\ assembles
         THEN /\ Put(id, [r EXCEPT !.status = "executed"])
              /\ assembled' = assembled \cup {id}
         ELSE Refresh(id, now) /\ UNCHANGED assembled
      /\ UNCHANGED sequence

CancelRequest(id) ==
  /\ requests' = [i \in DOMAIN requests \ {id} |-> requests[i]]
  /\ UNCHANGED <<sequence, assembled>>

\* clear(): the sequence starts again, and with it the ids.
Clear ==
  /\ requests' = <<>>
  /\ sequence' = 0
  /\ assembled' = {}

Next ==
  \/ \E p \in Payloads, S \in SUBSET Signers, t \in Thresholds, e \in Expiries, now \in Times :
       CreateSigningRequest(p, S, t, e, now)
  \/ \E id \in DOMAIN requests, now \in Times :
       \/ GetRequestState(id, now)
       \/ \E s \in Signers, isValid \in BOOLEAN : AddSignature(id, s, isValid, now)
       \/ \E assembles \in BOOLEAN : Execute(id, assembles, now)
  \/ \E id \in DOMAIN requests : CancelRequest(id)
  \/ Clear

Spec == Init /\ [][Next]_vars

-----------------------------------------------------------------------------
\* Nobody's weight is counted twice: behind a request that is ready or was
\* executed stand different declared signers whose weights reach its threshold.
SignaturesSuffice ==
  \A id \in DOMAIN requests :
    requests[id].status \in {"ready", "executed"} =>
      /\ SignedBy(requests[id]) \subseteq requests[id].signers
      /\ WeightOf(SignedBy(requests[id])) >= requests[id].threshold

\* "The same authorization cannot be assembled twice": not by executing again
\* with any clock, and not because an id that was cancelled is given out again.
\* Only clear() forgets what was executed.
AssembledOnce ==
  [][\A id \in assembled \cap DOMAIN requests' :
       requests'[id].status = "executed" => id \in DOMAIN requests /\ requests'[id] = requests[id]]_vars
=============================================================================
