-------------------------- MODULE RecoveryWorkflow --------------------------
(***************************************************************************)
(* Recovery of an account by its contacts                                  *)
(* (src/src/account/recoveryWorkflow.ts). approveRecovery and              *)
(* cancelRecovery leave the request they are given alone and return a copy,*)
(* executeRecovery changes the request it is given. The application may    *)
(* keep every copy and go on with any of them, and passes the              *)
(* configuration to each call: contacts may have lost their say by then.   *)
(***************************************************************************)
EXTENDS Naturals, FiniteSets

CONSTANTS
  Contacts,
  Configs,       \* for each contact a set of "initiate", "approve", "cancel"
  Threshold,     \* approvalThreshold
  Delay,         \* delaySeconds, in clock ticks
  Window,        \* the time after the delay until a request expires
  Copies,        \* bound: objects the application may hold
  NoCopy,
  MaxTime        \* bound of the clock

VARIABLES
  permissions,   \* the configuration that was registered last
  copies,        \* the request objects; a completed one remembers (history) the
                 \* configuration it was executed with
  clock

vars == <<permissions, copies, clock>>

Request == [createdAt: 0..MaxTime, approvals: SUBSET Contacts,
            status: {"pending", "cancelled", "completed"}, completedAt: 0..MaxTime,
            config: [Contacts -> SUBSET {"initiate", "approve", "cancel"}]]

TypeOK ==
  /\ permissions \in [Contacts -> SUBSET {"initiate", "approve", "cancel"}]
  /\ \A o \in Copies : copies[o] = NoCopy \/ copies[o] \in Request
  /\ DOMAIN copies = Copies
  /\ clock \in 0..MaxTime

Init ==
  /\ permissions = [c \in Contacts |-> {}]
  /\ copies = [o \in Copies |-> NoCopy]
  /\ clock = 0

-----------------------------------------------------------------------------
RegisterRecoveryContacts(config) ==
  /\ permissions' = config
  /\ UNCHANGED <<copies, clock>>

Has(c, permission) == permission \in permissions[c]

Pending(o) == copies[o] # NoCopy /\ copies[o].status = "pending"

InitiateRecovery(c, o) ==
  /\ copies[o] = NoCopy
  /\ Has(c, "initiate")
  /\ copies' = [copies EXCEPT ![o] = [createdAt |-> clock, approvals |-> {c},
                                      status |-> "pending", completedAt |-> 0,
                                      config |-> permissions]]
  /\ UNCHANGED <<permissions, clock>>

\* A second approval by the same contact returns the request as it is.
ApproveRecovery(c, o, new) ==
  /\ Pending(o) /\ copies[new] = NoCopy
  /\ Has(c, "approve")
  /\ c \notin copies[o].approvals
  /\ copies' = [copies EXCEPT ![new] = [copies[o] EXCEPT !.approvals = @ \cup {c}]]
  /\ UNCHANGED <<permissions, clock>>

CancelRecovery(c, o, new) ==
  /\ Pending(o) /\ copies[new] = NoCopy
  /\ Has(c, "cancel")
  /\ copies' = [copies EXCEPT ![new] = [copies[o] EXCEPT !.status = "cancelled"]]
  /\ UNCHANGED <<permissions, clock>>

Counted(r) == {c \in r.approvals : Has(c, "approve") \/ Has(c, "initiate")}

ExecuteRecovery(o) ==
  /\ Pending(o)
  /\ clock >= copies[o].createdAt + Delay
  /\ clock <= copies[o].createdAt + Delay + Window
  /\ Cardinality(Counted(copies[o])) >= Threshold
  /\ copies' = [copies EXCEPT ![o].status = "completed", ![o].completedAt = clock,
                                  ![o].config = permissions]
  /\ UNCHANGED <<permissions, clock>>

Tick ==
  /\ clock < MaxTime
  /\ clock' = clock + 1
  /\ UNCHANGED <<permissions, copies>>

Next ==
  \/ \E config \in Configs : RegisterRecoveryContacts(config)
  \/ \E c \in Contacts, o \in Copies :
       \/ InitiateRecovery(c, o)
       \/ \E new \in Copies : ApproveRecovery(c, o, new) \/ CancelRecovery(c, o, new)
  \/ \E o \in Copies : ExecuteRecovery(o)
  \/ Tick

Spec == Init /\ [][Next]_vars

-----------------------------------------------------------------------------
\* Whichever copy is executed, its delay was over and enough contacts stand behind
\* it who had a say by the configuration of that moment: an approval does not
\* outlast its contact's permission.
CompletedHasQuorum ==
  \A o \in Copies :
    LET r == copies[o]
    IN  r # NoCopy /\ r.status = "completed" =>
          /\ Cardinality({c \in r.approvals : r.config[c] \cap {"initiate", "approve"} # {}}) >= Threshold
          /\ r.completedAt \in r.createdAt + Delay .. r.createdAt + Delay + Window
=============================================================================
