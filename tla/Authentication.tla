--------------------------- MODULE Authentication ---------------------------
(***************************************************************************)
(* Locking and unlocking of a wallet                                       *)
(* (src/src/wallet/authentication/authenticationManager.ts) over a storage *)
(* with asynchronous operations. Calls overlap: each reads the session,    *)
(* awaits the storage and the user, and stores a session made from what it *)
(* read. Wallets do not share state, so there is one.                      *)
(*                                                                         *)
(* Timestamps are kept as the time that is left until then, 0 when it is   *)
(* over or there is none; failedAttempts saturates at the limit. Whether a *)
(* PIN or a key of the user's device proves the user, it is a secret.      *)
(***************************************************************************)
EXTENDS Naturals, FiniteSets

CONSTANTS
  Calls,
  Secrets,
  NoSecret,
  NoSession,
  SessionTimeout, MaxFailedAttempts, RateLimitDuration

VARIABLES
  credential,    \* in the storage: what proves the user
  session,       \* in the storage
  call,          \* for each call where it awaits, and what it has read
  sinceSuccess   \* history: time since a secret was last verified

vars == <<credential, session, call, sinceSuccess>>

Session == [state: {"UNINITIALIZED", "LOCKED", "UNLOCKED", "EXPIRED"},
            left: 0..SessionTimeout,            \* expiresAt
            failed: 0..MaxFailedAttempts,
            blocked: 0..RateLimitDuration]      \* nextAttemptAllowedAt

Kinds == {"unlock", "lock", "require", "setup", "change", "reset"}

Call == [kind: Kinds \cup {"none"},
         pc: {"idle", "session", "status", "verify", "stored"},
         status: Session \cup {NoSession},
         secret: Secrets \cup {NoSecret},       \* what the user enters
         read: Secrets \cup {NoSecret}]         \* the credential that was read

TypeOK ==
  /\ credential \in Secrets \cup {NoSecret}
  /\ session \in Session \cup {NoSession}
  /\ call \in [Calls -> Call]
  /\ sinceSuccess \in 0..SessionTimeout

Idle == [kind |-> "none", pc |-> "idle", status |-> NoSession,
         secret |-> NoSecret, read |-> NoSecret]

Init ==
  /\ credential = NoSecret
  /\ session = NoSession
  /\ call = [c \in Calls |-> Idle]
  /\ sinceSuccess = SessionTimeout

-----------------------------------------------------------------------------
Fresh(state) == [state |-> state, left |-> 0, failed |-> 0, blocked |-> 0]

At(c, kind, pc) == call[c].kind = kind /\ call[c].pc = pc

Ends(c) == call' = [call EXCEPT ![c] = Idle]

\* getStatus, up to the answer of getSession.
ReadSession(c, kind, secret) ==
  /\ call[c].pc = "idle"
  /\ call' = [call EXCEPT ![c] = [Idle EXCEPT !.kind = kind, !.pc = "session",
                                              !.status = session, !.secret = secret]]
  /\ UNCHANGED <<credential, session, sinceSuccess>>

\* Mutant: a session that is looked at lasts for another timeout.
CheckedSliding(status) ==
  IF status.state = "UNLOCKED" /\ status.left = 0 THEN [status EXCEPT !.state = "EXPIRED"]
  ELSE IF status.state = "UNLOCKED" THEN [status EXCEPT !.left = SessionTimeout] ELSE status

\* An unlocked session whose time is over has expired.
Checked(status) ==
  IF status.state = "UNLOCKED" /\ status.left = 0 THEN [status EXCEPT !.state = "EXPIRED"]
  ELSE status

\* The rest of getStatus: without a session the credential decides; a session
\* that has expired is stored as such.
GetStatus(c) ==
  LET found  == call[c].status
      status == IF found = NoSession
                THEN Fresh(IF credential = NoSecret THEN "UNINITIALIZED" ELSE "LOCKED")
                ELSE Checked(found)
  IN  /\ call[c].pc = "session"
      /\ call' = [call EXCEPT ![c].status = status, ![c].pc = "status"]
      /\ session' = IF found # NoSession /\ status # found THEN status ELSE session
      /\ UNCHANGED <<credential, sinceSuccess>>

\* unlock() is refused while its copy of the status says so, and without a credential.
Refuse(c) ==
  /\ At(c, "unlock", "status")
  /\ call[c].status.blocked > 0 \/ credential = NoSecret
  /\ Ends(c)
  /\ UNCHANGED <<credential, session, sinceSuccess>>

ReadCredential(c) ==
  /\ At(c, "unlock", "status")
  /\ call[c].status.blocked = 0 /\ credential # NoSecret
  /\ call' = [call EXCEPT ![c].read = credential, ![c].pc = "verify"]
  /\ UNCHANGED <<credential, session, sinceSuccess>>

Increment(n) == IF n < MaxFailedAttempts THEN n + 1 ELSE n

\* The secret is wrong: the failure is counted on the status read at the start.
FailUnlock(c) ==
  LET failed == Increment(call[c].status.failed)
  IN  /\ At(c, "unlock", "verify")
      /\ call[c].secret # call[c].read
      /\ session' = [call[c].status EXCEPT
                       !.failed = failed,
                       !.blocked = IF failed = MaxFailedAttempts THEN RateLimitDuration ELSE 0]
      /\ Ends(c)
      /\ UNCHANGED <<credential, sinceSuccess>>

Unlock(c) ==
  /\ At(c, "unlock", "verify")
  /\ call[c].secret = call[c].read
  /\ session' = [Fresh("UNLOCKED") EXCEPT !.left = SessionTimeout]
  /\ sinceSuccess' = 0
  /\ call' = [call EXCEPT ![c].pc = "stored"]
  /\ UNCHANGED credential

\* lastUsedAt: the credential read before the verification is stored again.
TouchCredential(c) ==
  /\ At(c, "unlock", "stored")
  /\ credential' = call[c].read
  /\ Ends(c)
  /\ UNCHANGED <<session, sinceSuccess>>

Lock(c) ==
  /\ At(c, "lock", "status")
  /\ session' = [call[c].status EXCEPT !.state = "LOCKED", !.left = 0]
  /\ Ends(c)
  /\ UNCHANGED <<credential, sinceSuccess>>

\* requireAuthentication answers from the status it got.
Require(c) ==
  /\ At(c, "require", "status")
  /\ Ends(c)
  /\ UNCHANGED <<credential, session, sinceSuccess>>

\* setupPINAuthentication and setupWebAuthnAuthentication: credential, then session.
SetupCredential(c, secret) ==
  /\ call[c].pc = "idle"
  /\ credential' = secret
  /\ call' = [call EXCEPT ![c] = [Idle EXCEPT !.kind = "setup", !.pc = "stored"]]
  /\ UNCHANGED <<session, sinceSuccess>>

SetupSession(c) ==
  /\ At(c, "setup", "stored")
  /\ session' = Fresh("LOCKED")
  /\ Ends(c)
  /\ UNCHANGED <<credential, sinceSuccess>>

\* changePINAuthentication, from the answer of getCredential on.
BeginChange(c, secret) ==
  /\ call[c].pc = "idle" /\ credential # NoSecret
  /\ call' = [call EXCEPT ![c] = [Idle EXCEPT !.kind = "change", !.pc = "verify",
                                              !.secret = secret, !.read = credential]]
  /\ UNCHANGED <<credential, session, sinceSuccess>>

ChangeCredential(c, secret) ==
  /\ At(c, "change", "verify")
  /\ credential' = IF call[c].secret = call[c].read THEN secret ELSE credential
  /\ Ends(c)
  /\ UNCHANGED <<session, sinceSuccess>>

\* resetAuthentication: the credential goes first, then the session.
RemoveCredential(c) ==
  /\ call[c].pc = "idle"
  /\ credential' = NoSecret
  /\ call' = [call EXCEPT ![c] = [Idle EXCEPT !.kind = "reset", !.pc = "stored"]]
  /\ UNCHANGED <<session, sinceSuccess>>

ClearSession(c) ==
  /\ At(c, "reset", "stored")
  /\ session' = NoSession
  /\ Ends(c)
  /\ UNCHANGED <<credential, sinceSuccess>>

Down(n) == IF n > 0 THEN n - 1 ELSE 0

Older(status) ==
  IF status = NoSession THEN NoSession
  ELSE [status EXCEPT !.left = Down(@), !.blocked = Down(@)]

\* Time passes for the stored session and for every copy of it.
Tick ==
  /\ session' = Older(session)
  /\ call' = [c \in Calls |-> [call[c] EXCEPT !.status = Older(@)]]
  /\ sinceSuccess' = IF sinceSuccess < SessionTimeout THEN sinceSuccess + 1 ELSE SessionTimeout
  /\ UNCHANGED credential

Next ==
  \/ \E c \in Calls :
       \/ \E secret \in Secrets :
            \/ ReadSession(c, "unlock", secret)
            \/ SetupCredential(c, secret)
            \/ BeginChange(c, secret)
            \/ ChangeCredential(c, secret)
       \/ \E kind \in {"lock", "require"} : ReadSession(c, kind, NoSecret)
       \/ GetStatus(c)
       \/ Refuse(c)
       \/ ReadCredential(c)
       \/ FailUnlock(c)
       \/ Unlock(c)
       \/ TouchCredential(c)
       \/ Lock(c)
       \/ Require(c)
       \/ SetupSession(c)
       \/ RemoveCredential(c)
       \/ ClearSession(c)
  \/ Tick

Spec == Init /\ [][Next]_vars

-----------------------------------------------------------------------------
RecentlyProved(status) ==
  status # NoSession /\ status.state = "UNLOCKED" =>
    status.left + sinceSuccess <= SessionTimeout

\* A wallet is open for a session timeout after a secret was verified and no
\* longer, although calls write back sessions they read long ago: neither a
\* failed attempt, nor lock(), nor a look at the status prolongs a session.
AccessIsRecent ==
  /\ RecentlyProved(session)
  /\ \A c \in Calls : RecentlyProved(call[c].status)
=============================================================================
