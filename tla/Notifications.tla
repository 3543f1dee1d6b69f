---------------------------- MODULE Notifications ----------------------------
(***************************************************************************)
(* Delivery of events to endpoints and channels of an application:         *)
(* transaction webhooks (src/transaction/webhooks.ts) and payment          *)
(* notifications (src/transaction/paymentNotifications.ts). A trigger      *)
(* lists the endpoints of its event, tries each until it acknowledges or   *)
(* the attempts are spent, and only then, for payments, asks the channels  *)
(* which are registered by that time.                                      *)
(***************************************************************************)
EXTENDS Integers, Functions

CONSTANTS
  Triggers,
  Events,
  Urls,
  Channels,
  DefaultRetries,   \* of transaction webhooks, 3
  Retries           \* those that payment registrations ask for

VARIABLES
  webhookRegistry,         \* pairs of event and url
  paymentWebhookRegistry,  \* retries by pair of event and url
  channelRegistry,
  calls,
  constant                 \* channels that have been registered since a trigger

vars == <<webhookRegistry, paymentWebhookRegistry, channelRegistry, calls, constant>>

Pairs    == Events \X Urls
Outcomes == {"trying", "ok", "error"}
NotYet   == [stage |-> "idle", payment |-> FALSE, budget |-> <<>>, attempts |-> <<>>, outcome |-> <<>>, channels |-> <<>>]

TypeOK ==
  /\ webhookRegistry \subseteq Pairs
  /\ DOMAIN paymentWebhookRegistry \subseteq Pairs /\ Range(paymentWebhookRegistry) \subseteq Retries
  /\ channelRegistry \subseteq Channels
  /\ \A t \in Triggers :
       /\ calls[t].stage \in {"idle", "webhooks", "payments", "channels", "done"}
       /\ Range(calls[t].outcome) \subseteq Outcomes /\ Range(calls[t].channels) \subseteq Outcomes
       /\ \A u \in DOMAIN calls[t].attempts : calls[t].attempts[u] \in 0..(calls[t].budget[u] + 1)
  /\ constant \in [Triggers -> SUBSET Channels]

Init ==
  /\ webhookRegistry = {} /\ paymentWebhookRegistry = <<>> /\ channelRegistry = {}
  /\ calls = [t \in Triggers |-> NotYet]
  /\ constant = [t \in Triggers |-> {}]

-----------------------------------------------------------------------------
RegisterWebhook(events, url) ==
  /\ webhookRegistry' = webhookRegistry \cup (events \X {url})
  /\ UNCHANGED <<paymentWebhookRegistry, channelRegistry, calls, constant>>

UnregisterWebhook(event, url) ==
  /\ <<event, url>> \in webhookRegistry
  /\ webhookRegistry' = webhookRegistry \ {<<event, url>>}
  /\ UNCHANGED <<paymentWebhookRegistry, channelRegistry, calls, constant>>

\* A registration of the same pair replaces the earlier one.
RegisterPaymentWebhook(events, url, retries, channels) ==
  /\ paymentWebhookRegistry' =
       [p \in events \X {url} \cup DOMAIN paymentWebhookRegistry |->
          IF p \in events \X {url} THEN retries ELSE paymentWebhookRegistry[p]]
  /\ channelRegistry' = channelRegistry \cup channels
  /\ UNCHANGED <<webhookRegistry, calls, constant>>

\* Channels are added one by one: one that is no channel refuses the
\* registration but not the channels before it.
RegisterRefused(channels) ==
  /\ channelRegistry' = channelRegistry \cup channels
  /\ UNCHANGED <<webhookRegistry, paymentWebhookRegistry, calls, constant>>

ClearWebhooks ==
  /\ webhookRegistry' = {}
  /\ UNCHANGED <<paymentWebhookRegistry, channelRegistry, calls, constant>>

UnregisterPaymentWebhook(event, url) ==
  /\ <<event, url>> \in DOMAIN paymentWebhookRegistry
  /\ paymentWebhookRegistry' = Restrict(paymentWebhookRegistry, DOMAIN paymentWebhookRegistry \ {<<event, url>>})
  /\ UNCHANGED <<webhookRegistry, channelRegistry, calls, constant>>

ClearPaymentWebhooks ==
  /\ paymentWebhookRegistry' = <<>> /\ channelRegistry' = {}
  /\ constant' = [t \in Triggers |-> {}]
  /\ UNCHANGED <<webhookRegistry, calls>>

-----------------------------------------------------------------------------
\* The endpoints are those of the moment of the trigger.
Listed(event, pairs) == {u \in Urls : <<event, u>> \in pairs}

Trigger(t, stage, urls, budget) ==
  /\ calls[t].stage = "idle"
  /\ calls' = [calls EXCEPT ![t] =
       [stage |-> stage, payment |-> stage = "payments", budget |-> budget, attempts |-> [u \in urls |-> 0],
        outcome |-> [u \in urls |-> "trying"], channels |-> <<>>]]
  /\ constant' = [constant EXCEPT ![t] = channelRegistry]
  /\ UNCHANGED <<webhookRegistry, paymentWebhookRegistry, channelRegistry>>

TriggerWebhooks(t, event) ==
  LET urls == Listed(event, webhookRegistry)
  IN  Trigger(t, "webhooks", urls, [u \in urls |-> DefaultRetries])

TriggerPaymentNotifications(t, event) ==
  LET urls == Listed(event, DOMAIN paymentWebhookRegistry)
  IN  Trigger(t, "payments", urls, [u \in urls |-> paymentWebhookRegistry[<<event, u>>]])

Spent(call, u) == call.attempts[u] = call.budget[u]

\* One attempt: an acknowledgement comes within the timeout or does not. The
\* attempts of the endpoints run side by side.
Attempt(t, u, answered) ==
  /\ calls[t].stage \in {"webhooks", "payments"}
  /\ u \in DOMAIN calls[t].outcome /\ calls[t].outcome[u] = "trying"
  /\ calls' = [calls EXCEPT
       ![t].attempts[u] = @ + 1,
       ![t].outcome[u] = IF answered THEN "ok" ELSE IF Spent(calls[t], u) THEN "error" ELSE "trying"]
  /\ UNCHANGED <<webhookRegistry, paymentWebhookRegistry, channelRegistry, constant>>

Settled(outcomes) == "trying" \notin Range(outcomes)

\* The results of the endpoints are complete: a trigger of webhooks returns
\* them, one of payments goes on to the channels.
EndpointsDone(t) ==
  /\ calls[t].stage \in {"webhooks", "payments"} /\ Settled(calls[t].outcome)
  /\ calls' = [calls EXCEPT
       ![t].stage = IF @ = "webhooks" THEN "done" ELSE "channels",
       ![t].channels = IF calls[t].stage = "webhooks" THEN <<>> ELSE [c \in channelRegistry |-> "trying"]]
  /\ UNCHANGED <<webhookRegistry, paymentWebhookRegistry, channelRegistry, constant>>

DeliverToChannel(t, c, outcome) ==
  /\ calls[t].stage = "channels" /\ c \in DOMAIN calls[t].channels /\ calls[t].channels[c] = "trying"
  /\ calls' = [calls EXCEPT ![t].channels[c] = outcome]
  /\ UNCHANGED <<webhookRegistry, paymentWebhookRegistry, channelRegistry, constant>>

ChannelsDone(t) ==
  /\ calls[t].stage = "channels" /\ Settled(calls[t].channels)
  /\ calls' = [calls EXCEPT ![t].stage = "done"]
  /\ UNCHANGED <<webhookRegistry, paymentWebhookRegistry, channelRegistry, constant>>

\* The endpoints of a trigger have their turn: every attempt ends by its
\* timeout and every delay between attempts is over in the end. A channel has no
\* timeout.
Proceed(t) ==
  \/ \E u \in Urls, answered \in BOOLEAN : Attempt(t, u, answered)
  \/ EndpointsDone(t)

Next ==
  \/ \E events \in SUBSET Events \ {{}}, u \in Urls :
       \/ RegisterWebhook(events, u)
       \/ \E retries \in Retries, channels \in SUBSET Channels :
            RegisterPaymentWebhook(events, u, retries, channels)
  \/ \E e \in Events, u \in Urls : UnregisterWebhook(e, u) \/ UnregisterPaymentWebhook(e, u)
  \/ \E channels \in SUBSET Channels \ {{}} : RegisterRefused(channels)
  \/ ClearWebhooks
  \/ ClearPaymentWebhooks
  \/ \E t \in Triggers, e \in Events : TriggerWebhooks(t, e) \/ TriggerPaymentNotifications(t, e)
  \/ \E t \in Triggers :
       \/ Proceed(t)
       \/ \E c \in Channels, outcome \in {"ok", "error"} : DeliverToChannel(t, c, outcome)
       \/ ChannelsDone(t)

Spec == Init /\ [][Next]_vars /\ \A t \in Triggers : WF_vars(Proceed(t))

-----------------------------------------------------------------------------
\* What a trigger reports is what happened: an endpoint reported as reached was
\* asked within its budget, one reported as failed had all its attempts, and
\* every channel that stayed registered was asked, although the channels are
\* looked up after the endpoints only.
ReportsAreTrue ==
  \A t \in Triggers :
    /\ \A u \in DOMAIN calls[t].outcome :
         /\ calls[t].outcome[u] = "ok" => calls[t].attempts[u] \in 1..(calls[t].budget[u] + 1)
         /\ calls[t].outcome[u] = "error" => calls[t].attempts[u] = calls[t].budget[u] + 1
    /\ calls[t].stage = "done" /\ calls[t].payment => constant[t] \subseteq DOMAIN calls[t].channels

\* A trigger is through with its endpoints in the end, however they fail: one
\* that hangs holds up neither the others' reports nor the channels.
TriggersReturn ==
  \A t \in Triggers :
    calls[t].stage \in {"webhooks", "payments"} ~> calls[t].stage \in {"channels", "done"}
=============================================================================
