------------------------ MODULE WalletConnectSession ------------------------
(***************************************************************************)
(* The session of the WalletConnect adapter                                *)
(* (src/wallet/adapters/walletconnect.ts): the adapter's own reference and *)
(* the sign client's store of sessions, which the wallet changes as well.  *)
(* connect(), disconnect() and signTransaction() may overlap. The client   *)
(* itself, its store and its relay are modelled from how they are used.    *)
(***************************************************************************)
EXTENDS Naturals, FiniteSets

CONSTANTS
  Calls,
  Sessions,
  NoSession

VARIABLES
  client,    \* the client was initialised
  session,   \* the adapter's reference
  live,      \* the client's store
  used,      \* the sessions there have been
  calls,     \* [stage, topic] of every call under way
  revived    \* sessions taken up again while their end was under way

vars == <<client, session, live, used, calls, revived>>

Idle == [stage |-> "idle", topic |-> NoSession]
At(stage, topic) == [stage |-> stage, topic |-> topic]
Ending == {calls[c].topic : c \in {d \in Calls : calls[d].stage = "ending"}}

TypeOK ==
  /\ client \in BOOLEAN
  /\ session \in Sessions \cup {NoSession}
  /\ live \subseteq used /\ used \subseteq Sessions /\ revived \subseteq used
  /\ calls \in [Calls -> [stage : {"idle", "init", "approval", "ending", "signing"},
                          topic : Sessions \cup {NoSession}]]

\* The store outlives the page.
Init ==
  /\ client = FALSE /\ session = NoSession
  /\ live \in {{}} \cup {{s} : s \in Sessions}
  /\ used = live /\ revived = {}
  /\ calls = [c \in Calls |-> Idle]

\* An active session is taken up, and only without one is the wallet asked.
RestoreOrPair(c) ==
  \/ \E s \in live :
       /\ session' = s
       /\ revived' = IF s \in Ending THEN revived \cup {s} ELSE revived
       /\ calls' = [calls EXCEPT ![c] = Idle]
  \/ /\ live = {}
     /\ calls' = [calls EXCEPT ![c] = At("approval", NoSession)]
     /\ UNCHANGED <<session, revived>>

Connect(c) ==
  /\ calls[c].stage = "idle"
  /\ \/ client /\ RestoreOrPair(c)
     \/ /\ ~client
        /\ calls' = [calls EXCEPT ![c] = At("init", NoSession)]
        /\ UNCHANGED <<session, revived>>
  /\ UNCHANGED <<client, live, used>>

\* Overlapping calls initialise a client each; the clients share the store.
ClientReady(c) ==
  /\ calls[c].stage = "init"
  /\ client' = TRUE
  /\ RestoreOrPair(c)
  /\ UNCHANGED <<live, used>>

Approve(c, s) ==
  /\ calls[c].stage = "approval" /\ s \notin used
  /\ session' = s
  /\ live' = live \cup {s} /\ used' = used \cup {s}
  /\ calls' = [calls EXCEPT ![c] = Idle]
  /\ UNCHANGED <<client, revived>>

\* The wallet refuses, the client does not start, or pairing fails.
ConnectFails(c) ==
  /\ calls[c].stage \in {"init", "approval"}
  /\ calls' = [calls EXCEPT ![c] = Idle]
  /\ UNCHANGED <<client, session, live, used, revived>>

\* The reference goes before the client is asked to end the session.
Disconnect(c) ==
  /\ calls[c].stage = "idle"
  /\ session' = NoSession
  /\ calls' = IF session # NoSession /\ client
              THEN [calls EXCEPT ![c] = At("ending", session)] ELSE calls
  /\ UNCHANGED <<client, live, used, revived>>

\* Errors of the client are swallowed: the session may still be in its store.
DisconnectSettles(c) ==
  /\ calls[c].stage = "ending"
  /\ live' \in {live, live \ {calls[c].topic}}
  /\ calls' = [calls EXCEPT ![c] = Idle]
  /\ UNCHANGED <<client, session, used, revived>>

SignTransaction(c) ==
  /\ calls[c].stage = "idle" /\ client /\ session # NoSession
  /\ calls' = [calls EXCEPT ![c] = At("signing", session)]
  /\ UNCHANGED <<client, session, live, used, revived>>

Signed(c) ==
  /\ calls[c].stage = "signing"
  /\ calls' = [calls EXCEPT ![c] = Idle]
  /\ UNCHANGED <<client, session, live, used, revived>>

OnDelete == session' = NoSession

\* The wallet ends a session, or it expires: whichever it is, the reference goes.
SessionDelete(s) ==
  /\ client /\ s \in live
  /\ live' = live \ {s}
  /\ OnDelete
  /\ UNCHANGED <<client, used, calls, revived>>

Next ==
  \/ \E c \in Calls :
       \/ Connect(c)
       \/ ClientReady(c)
       \/ \E s \in Sessions : Approve(c, s)
       \/ ConnectFails(c)
       \/ Disconnect(c)
       \/ DisconnectSettles(c)
       \/ SignTransaction(c)
       \/ Signed(c)
  \/ \E s \in Sessions : SessionDelete(s)

Spec == Init /\ [][Next]_vars

-----------------------------------------------------------------------------
\* The session that the adapter would sign with is one the client still has,
\* unless it was taken up again while a disconnect() was ending it.
HeldIsLive == session # NoSession => session \in live \cup revived
=============================================================================
