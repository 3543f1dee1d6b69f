----------------------------- MODULE Consensus -----------------------------
(***************************************************************************)
(* Approval of a transaction by participants                               *)
(* (src/src/transaction/consensusCore.ts). Each participant may approve    *)
(* once and reject once, in any order and in every state: nothing is       *)
(* refused because the verdict is known. The entries of the store do not   *)
(* touch each other, so one is enough.                                     *)
(***************************************************************************)
EXTENDS Naturals, FiniteSets

CONSTANTS Participants, NoConsensus

VARIABLE consensus   \* the entry of consensusStore, NoConsensus when there is none

States == {"PROPOSAL", "REVIEW", "FINALIZED", "REJECTED"}

TypeOK ==
  \/ consensus = NoConsensus
  \/ consensus \in [state: States, threshold: Nat \ {0}, participants: SUBSET Participants,
                    approved: SUBSET Participants, rejected: SUBSET Participants]

Init == consensus = NoConsensus

-----------------------------------------------------------------------------
CreateConsensus(S, threshold) ==
  /\ consensus = NoConsensus
  /\ threshold \in 1..Cardinality(S)
  /\ consensus' = [state |-> "PROPOSAL", threshold |-> threshold, participants |-> S,
                   approved |-> {}, rejected |-> {}]

Reviewed == IF consensus.state = "PROPOSAL" THEN "REVIEW" ELSE consensus.state

Approve(p) ==
  /\ consensus # NoConsensus
  /\ p \in consensus.participants \ consensus.approved
  /\ consensus' = [consensus EXCEPT !.approved = @ \cup {p}, !.state = Reviewed]

Reject(p) ==
  /\ consensus # NoConsensus
  /\ p \in consensus.participants \ consensus.rejected
  /\ consensus' = [consensus EXCEPT !.rejected = @ \cup {p}, !.state = "REJECTED"]

Finalize ==
  /\ consensus # NoConsensus
  /\ Cardinality(consensus.approved) >= consensus.threshold
  /\ consensus.rejected = {}
  /\ consensus' = [consensus EXCEPT !.state = "FINALIZED"]

RemoveConsensus ==
  /\ consensus # NoConsensus
  /\ consensus' = NoConsensus

\* isReady of getConsensusSummary.
IsReady ==
  /\ Cardinality(consensus.approved) >= consensus.threshold
  /\ consensus.state # "REJECTED"

Next ==
  \/ \E S \in SUBSET Participants, threshold \in 1..Cardinality(Participants) :
       CreateConsensus(S, threshold)
  \/ \E p \in Participants : Approve(p) \/ Reject(p)
  \/ Finalize
  \/ RemoveConsensus

Spec == Init /\ [][Next]_consensus

-----------------------------------------------------------------------------
\* A rejection sticks, whoever approves after it, and what is final or is
\* reported as ready has its quorum and no rejection.
FinalHasQuorum ==
  consensus # NoConsensus =>
    /\ consensus.state = "REJECTED" <=> consensus.rejected # {}
    /\ IsReady \/ consensus.state = "FINALIZED" =>
         Cardinality(consensus.approved) >= consensus.threshold /\ consensus.rejected = {}
=============================================================================
