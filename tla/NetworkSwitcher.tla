--------------------------- MODULE NetworkSwitcher ---------------------------
(***************************************************************************)
(* The network an application talks to (src/network/networkSwitcher.ts):   *)
(* presets and custom networks, the choice kept in the browser's storage,  *)
(* and health checks that ask the current network's Horizon and then the   *)
(* current network's RPC endpoint, each time after an await. Listeners are *)
(* called as a status or network is set, and may throw: what was set stays *)
(* and the call ends there. (They call nothing back, and a call that ends  *)
(* after its last assignment, as switchTo does, has changed all it would.) *)
(***************************************************************************)
EXTENDS FiniteSets

CONSTANTS
  Presets,   \* the names that are always known
  Testnet,   \* the preset that is fallen back to
  Customs,   \* the names of custom networks
  Up,        \* the endpoints that answer, <<network, "horizon" or "rpc">>
  Checks     \* the health checks that may overlap

VARIABLES
  customNetworks,
  current,    \* [network, resolved]: one that is not resolved has no endpoints
  status,
  stored,     \* localStorage: the name of the network
  checks,     \* [stage, asked, horizonOk] of every check
  moved       \* checks during which the network changed, whether such a check gave the
              \* verdict, and whether a listener that threw did: not part of the code

vars == <<customNetworks, current, status, stored, checks, moved>>

Names == Presets \cup Customs
Networks == [network : Names, resolved : BOOLEAN]
Named(name, known) == [network |-> name, resolved |-> name \in Presets \cup known]
Idle == [stage |-> "idle", asked |-> Named(Testnet, {}), horizonOk |-> FALSE]
Verdicts == {"healthy", "degraded", "down"}

TypeOK ==
  /\ customNetworks \subseteq Customs
  /\ current \in Networks
  /\ status \in Verdicts \cup {"unknown", "checking"}
  /\ stored \in Names
  /\ checks \in [Checks -> [stage : {"idle", "horizon", "rpc"}, asked : Networks, horizonOk : BOOLEAN]]
  /\ moved \in [checks : SUBSET Checks, verdict : BOOLEAN, thrown : BOOLEAN]

Resolved(name) == Named(name, customNetworks).resolved
InFlight       == {c \in Checks : checks[c].stage # "idle"}
Answers(of, kind) == of.resolved /\ <<of.network, kind>> \in Up

\* A name that is not known is "down" until it is checked.
Constructed(name, known) ==
  /\ customNetworks' = known
  /\ current' = Named(name, known)
  /\ status' = IF Named(name, known).resolved THEN "unknown" ELSE "down"
  /\ stored' = name

Init ==
  /\ customNetworks \in SUBSET Customs
  /\ stored \in Names
  /\ current = Named(stored, customNetworks)
  /\ status = IF current.resolved THEN "unknown" ELSE "down"
  /\ checks = [c \in Checks |-> Idle]
  /\ moved = [checks |-> {}, verdict |-> FALSE, thrown |-> FALSE]

\* The page is loaded again: the choice comes from the storage, the custom
\* networks from the application, and nobody waits for the old answers.
Restart(known) ==
  /\ Constructed(stored, known)
  /\ checks' = [c \in Checks |-> Idle]
  /\ moved' = [checks |-> {}, verdict |-> FALSE, thrown |-> FALSE]

Adopt(name) ==
  /\ current' = [network |-> name, resolved |-> TRUE]
  /\ status' = "unknown"
  /\ stored' = name
  /\ moved' = [checks |-> InFlight, verdict |-> FALSE, thrown |-> FALSE]

SwitchTo(name) ==
  /\ Resolved(name)
  /\ Adopt(name)
  /\ UNCHANGED <<customNetworks, checks>>

AddCustomNetwork(name) ==
  /\ name \notin customNetworks
  /\ customNetworks' = customNetworks \cup {name}
  /\ UNCHANGED <<current, status, stored, checks, moved>>

RemoveCustomNetwork(name) ==
  /\ name \in customNetworks
  /\ customNetworks' = customNetworks \ {name}
  /\ IF current.network = name THEN Adopt(Testnet) ELSE UNCHANGED <<current, status, stored, moved>>
  /\ UNCHANGED checks

-----------------------------------------------------------------------------
\* checkHealth() with a fetch to ask by.
CheckHealth(c) ==
  /\ checks[c].stage = "idle"
  /\ status' = "checking"
  /\ checks' = [checks EXCEPT ![c] = [stage |-> "horizon", asked |-> current, horizonOk |-> FALSE]]
  /\ moved' = [moved EXCEPT !.checks = @ \ {c}, !.thrown = FALSE]
  /\ UNCHANGED <<customNetworks, current, stored>>

\* A listener throws at "checking", before the try: that is all of the check.
CheckEndsAtOnce ==
  /\ status' = "checking"
  /\ moved' = [moved EXCEPT !.thrown = TRUE]
  /\ UNCHANGED <<customNetworks, current, stored, checks>>

\* There is no fetch: "unknown", or "down" from the catch when a listener throws.
CheckWithoutFetch(throws) ==
  /\ status' = IF throws THEN "down" ELSE "unknown"
  /\ moved' = [moved EXCEPT !.thrown = throws]
  /\ UNCHANGED <<customNetworks, current, stored, checks>>

\* The RPC endpoint is that of the network which is current by now.
HorizonAnswers(c) ==
  /\ checks[c].stage = "horizon"
  /\ checks' = [checks EXCEPT ![c] = [stage |-> "rpc", asked |-> current,
                                       horizonOk |-> Answers(checks[c].asked, "horizon")]]
  /\ UNCHANGED <<customNetworks, current, status, stored, moved>>

Verdict(horizonOk, rpcOk) ==
  IF horizonOk /\ rpcOk THEN "healthy"
  ELSE IF ~horizonOk /\ ~rpcOk THEN "down"
  ELSE "degraded"

\* The verdict goes to the network which is current by now. When a listener
\* throws at it, the catch makes it "down".
RpcAnswers(c, throws) ==
  /\ checks[c].stage = "rpc"
  /\ status' = IF throws THEN "down"
               ELSE Verdict(checks[c].horizonOk, Answers(checks[c].asked, "rpc"))
  /\ checks' = [checks EXCEPT ![c] = Idle]
  /\ moved' = [checks |-> moved.checks \ {c}, verdict |-> c \in moved.checks, thrown |-> throws]
  /\ UNCHANGED <<customNetworks, current, stored>>

Next ==
  \/ \E known \in SUBSET Customs : Restart(known)
  \/ \E name \in Names : SwitchTo(name)
  \/ \E name \in Customs : AddCustomNetwork(name) \/ RemoveCustomNetwork(name)
  \/ \E c \in Checks : CheckHealth(c) \/ HorizonAnswers(c)
  \/ \E c \in Checks, throws \in BOOLEAN : RpcAnswers(c, throws)
  \/ CheckEndsAtOnce
  \/ \E throws \in BOOLEAN : CheckWithoutFetch(throws)

Spec == Init /\ [][Next]_vars

-----------------------------------------------------------------------------
AllAnswer  == \A kind \in {"horizon", "rpc"} : Answers(current, kind)
SomeAnswer == \E kind \in {"horizon", "rpc"} : Answers(current, kind)

\* A verdict is about the network it is shown for, unless the network changed
\* while it was found, or it is the "down" of a listener that threw, which no
\* verdict outlives; and the application never stays on a custom network that
\* was removed.
VerdictFits ==
  /\ (status \in Verdicts /\ ~moved.verdict /\ ~(moved.thrown /\ status = "down")) =>
       (status = "healthy" <=> AllAnswer) /\ (status = "down" <=> ~SomeAnswer)
  /\ current.resolved => Resolved(current.network)

\* "checking" is not the last word: a check is under way. Only a listener that
\* threw as a check began leaves it, until a check ends or the network changes.
CheckingEnds == status = "checking" => InFlight # {} \/ moved.thrown
=============================================================================
