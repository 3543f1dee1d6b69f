-------------------------- MODULE PriceSubscription --------------------------
(***************************************************************************)
(* A price subscription that reconnects                                    *)
(* (src/src/transaction/priceSubscriptions.ts: subscribePrices over        *)
(* WebSocketPriceProvider). A connection that fails raises an error and a  *)
(* close, and each of the two schedules a reconnection; the provider       *)
(* closes the socket it has when it opens another, which raises events of  *)
(* its own; after maxRetries the next provider is tried. The sockets and   *)
(* their events are external: they arrive whenever they like.              *)
(***************************************************************************)
EXTENDS Naturals, FiniteSets

CONSTANTS
  ProviderCounts, \* how many providers a caller may give
  MaxRetries,     \* maxRetries
  Sockets,        \* bound: sockets whose events are outstanding
  NoSocket,
  MaxTimers       \* bound: reconnection timers counted

VARIABLES
  providerCount,  \* config.providers.length
  unsubscribed,
  retryCount,
  providerIndex,
  timers,         \* armed reconnection timers
  activeProvider, \* the provider that was asked to connect last
  sockets,        \* each socket's provider, state, and whether onclose is set
  ws,             \* WebSocketPriceProvider.ws of each provider
  quit            \* history: why nothing more is tried

vars == <<providerCount, unsubscribed, retryCount, providerIndex, timers, activeProvider, sockets, ws, quit>>

Providers == 0..(providerCount - 1)

\* A socket closed by the provider while it connects is "aborted"; one whose
\* error was raised and whose close follows is "failed".
NoConnection == [provider |-> 0, state |-> "free", notifies |-> FALSE]

TypeOK ==
  /\ providerCount \in ProviderCounts
  /\ unsubscribed \in BOOLEAN
  /\ retryCount \in 0..MaxRetries \cup {1}
  /\ providerIndex \in Providers /\ activeProvider \in Providers
  /\ timers \in 0..MaxTimers
  /\ sockets \in [Sockets -> [provider : Providers,
                              state    : {"free", "connecting", "aborted", "failed", "open", "closing"},
                              notifies : BOOLEAN]]
  /\ ws \in [Providers -> Sockets \cup {NoSocket}]
  /\ quit \in {"no", "clean", "exhausted"}

-----------------------------------------------------------------------------
\* WebSocket.close(): the events follow later. notifies is onclose # null.
Closed(socket, notifies) ==
  [socket EXCEPT !.state = CASE @ = "connecting" -> "aborted"
                             [] @ = "open"       -> "closing"
                             [] OTHER            -> @,
                 !.notifies = @ /\ notifies]

\* attemptConnect and WebSocketPriceProvider.connect: the socket the provider
\* has is closed, and a new one opened.
Connect(p) ==
  \E s \in Sockets :
    /\ sockets[s].state = "free"
    /\ sockets' = [t \in Sockets |->
         IF t = s THEN [provider |-> p, state |-> "connecting", notifies |-> TRUE]
         ELSE IF t = ws[p] THEN Closed(sockets[t], TRUE)
         ELSE sockets[t]]
    /\ ws' = [ws EXCEPT ![p] = s]
    /\ activeProvider' = p

Init ==
  /\ providerCount \in ProviderCounts
  /\ unsubscribed = FALSE /\ retryCount = 0 /\ timers = 0
  /\ providerIndex = 0 /\ activeProvider = 0
  /\ LET s == CHOOSE t \in Sockets : TRUE   \* sockets are interchangeable
     IN  /\ sockets = [t \in Sockets |->
              IF t = s THEN [provider |-> 0, state |-> "connecting", notifies |-> TRUE]
              ELSE NoConnection]
         /\ ws = [p \in Providers |-> IF p = 0 THEN s ELSE NoSocket]
  /\ quit = "no"

\* A socket is gone once its last event was handled. The provider keeps it in
\* this.ws, where closing it again does nothing.
Gone(s) ==
  /\ sockets' = [sockets EXCEPT ![s] = NoConnection]
  /\ ws' = [p \in Providers |-> IF ws[p] = s THEN NoSocket ELSE ws[p]]

\* The delay passes through; the timer only counts.
Arm == timers' = IF timers < MaxTimers THEN timers + 1 ELSE MaxTimers

NextProvider == (providerIndex + 1) % providerCount

\* Mutant: one retry more than configured.
RetriesLeftInclusive == retryCount <= MaxRetries

RetriesLeft == retryCount < MaxRetries

\* scheduleReconnect. At the limit the next provider's turn comes; a single
\* provider is exhausted, and its count starts again.
ScheduleReconnect ==
  \/ /\ unsubscribed
     /\ UNCHANGED <<retryCount, providerIndex, timers, quit>>
  \/ /\ ~unsubscribed /\ RetriesLeft
     /\ Arm /\ retryCount' = retryCount + 1
     /\ UNCHANGED <<providerIndex, quit>>
  \/ /\ ~unsubscribed /\ ~RetriesLeft /\ providerCount > 1
     /\ providerIndex' = NextProvider
     /\ Arm /\ retryCount' = 1
     /\ UNCHANGED quit
  \/ /\ ~unsubscribed /\ ~RetriesLeft /\ providerCount = 1
     /\ retryCount' = 0 /\ quit' = "exhausted"
     /\ UNCHANGED <<providerIndex, timers>>

\* Mutant: the close of a connection is left to the handler of its error.
ReconnectWhenConnecting(socket) ==
  IF socket.state = "failed" THEN ScheduleReconnect
  ELSE UNCHANGED <<retryCount, providerIndex, timers, quit>>

\* onclose of a socket that closed uncleanly.
ReconnectAfterClose(socket) ==
  IF socket.notifies THEN ScheduleReconnect
  ELSE UNCHANGED <<retryCount, providerIndex, timers, quit>>

TimerFires ==
  /\ ~unsubscribed /\ timers > 0
  /\ timers' = timers - 1
  /\ Connect(providerIndex)
  /\ quit' = "no"
  /\ UNCHANGED <<providerCount, unsubscribed, retryCount, providerIndex>>

\* onopen: the connection is used, or given back when the caller left meanwhile.
Opens(s) ==
  LET p == sockets[s].provider
  IN  /\ sockets[s].state = "connecting"
      /\ IF unsubscribed
         THEN /\ sockets' = [t \in Sockets |->
                   IF t = ws[p] THEN Closed([sockets[t] EXCEPT !.state = "open"], FALSE)
                   ELSE sockets[t]]
              /\ ws' = [ws EXCEPT ![p] = NoSocket]
              /\ UNCHANGED retryCount
         ELSE /\ sockets' = [sockets EXCEPT ![s].state = "open"]
              /\ retryCount' = 0
              /\ UNCHANGED ws
      /\ UNCHANGED <<providerCount, unsubscribed, providerIndex, timers, activeProvider, quit>>

\* onerror of a connection that was not made: connect() rejects.
Errors(s) ==
  /\ sockets[s].state \in {"connecting", "aborted"}
  /\ sockets' = [sockets EXCEPT ![s].state = "failed"]
  /\ ScheduleReconnect
  /\ UNCHANGED <<providerCount, unsubscribed, activeProvider, ws>>

\* onclose without wasClean: the connection was not made, or broke.
ClosesUncleanly(s) ==
  /\ sockets[s].state \in {"failed", "open", "closing"}
  /\ ReconnectAfterClose(sockets[s])
  /\ Gone(s)
  /\ UNCHANGED <<providerCount, unsubscribed, activeProvider>>

\* A clean close is taken for the end of the subscription.
ClosesCleanly(s) ==
  /\ sockets[s].state \in {"open", "closing"}
  /\ quit' = "clean"
  /\ Gone(s)
  /\ UNCHANGED <<providerCount, unsubscribed, retryCount, providerIndex, timers, activeProvider>>

\* unsubscribeHandle, also when the caller's signal fires. Only the last timer is
\* cleared, but the others do nothing any more; only the provider asked last is
\* disconnected.
Unsubscribe ==
  /\ ~unsubscribed
  /\ unsubscribed' = TRUE
  /\ timers' = 0
  /\ sockets' = [t \in Sockets |->
       IF t = ws[activeProvider] THEN Closed(sockets[t], FALSE) ELSE sockets[t]]
  /\ ws' = [ws EXCEPT ![activeProvider] = NoSocket]
  /\ UNCHANGED <<providerCount, retryCount, providerIndex, activeProvider, quit>>

Next ==
  \/ TimerFires
  \/ Unsubscribe
  \/ \E s \in Sockets :
       Opens(s) \/ Errors(s) \/ ClosesUncleanly(s) \/ ClosesCleanly(s)

Spec == Init /\ [][Next]_vars

-----------------------------------------------------------------------------
\* A socket that will raise an event the subscription reacts to.
Alive(s) == sockets[s].state # "free" /\ sockets[s].notifies

\* A subscription does not fall silent by itself: while nobody unsubscribed, a
\* timer is armed or a connection is there or under way, unless the last
\* provider was reported exhausted or a server closed a connection cleanly.
NeverSilent ==
  ~unsubscribed /\ quit = "no" => timers > 0 \/ \E s \in Sockets : Alive(s)
=============================================================================
