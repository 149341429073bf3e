--------------------------- MODULE MessageDelivery ---------------------------
(***************************************************************************)
(* Messages between agents: send appends to the history and then calls the   *)
(* subscribers one after the other, reading the live lists, while other      *)
(* sends and subscriptions happen whenever a callback awaits.                 *)
(***************************************************************************)
EXTENDS Naturals, Sequences, FiniteSets

CONSTANTS Messages,     \* messages that may be sent
          Receivers,    \* agents
          Callbacks,    \* callbacks that may be subscribed
          Everyone,     \* to_agent = None
          NoMessage

ASSUME DeliveryAssumption == Everyone \notin Receivers /\ NoMessage \notin Messages

VARIABLES
    sent,           \* _messages: the messages in the order they were appended
    addressed,      \* to_agent and in_reply_to of each
    subscribers,    \* _subscribers, and under Everyone _broadcast_subscribers
    delivering,     \* which list, and how far in it, the send of a message is
    received,       \* what each callback was called with
    awaitedBy       \* history: who was subscribed when a message was sent

deliveryVars == <<sent, addressed, subscribers, delivering, received, awaitedBy>>

DeliveryInit ==
    /\ sent = <<>>
    /\ addressed = [m \in Messages |-> [to |-> Everyone, reply |-> NoMessage]]
    /\ subscribers = [r \in Receivers \cup {Everyone} |-> <<>>]
    /\ delivering = [m \in Messages |-> [list |-> "unsent", pos |-> 0]]
    /\ received = [k \in Callbacks |-> <<>>]
    /\ awaitedBy = [m \in Messages |-> {}]

Listeners(to) ==
    {subscribers[Everyone][i] : i \in DOMAIN subscribers[Everyone]}
      \cup IF to = Everyone THEN {} ELSE {subscribers[to][i] : i \in DOMAIN subscribers[to]}

IsSubscribed(k) == \E r \in DOMAIN subscribers : \E i \in DOMAIN subscribers[r] : subscribers[r][i] = k

(* subscribe and subscribe_broadcast. *)
Subscribe(k, r) ==
    /\ ~IsSubscribed(k)
    /\ subscribers' = [subscribers EXCEPT ![r] = Append(@, k)]
    /\ UNCHANGED <<sent, addressed, delivering, received, awaitedBy>>

(* What the last message of an agent's callback lets it reply to. *)
MayReplyTo == {NoMessage} \cup UNION {{received[k][i] : i \in DOMAIN received[k]} : k \in Callbacks}

(* send: an invalid message is marked as degraded and goes the same way. *)
Send(m, to, reply) ==
    /\ delivering[m].list = "unsent"
    /\ sent' = Append(sent, m)
    /\ addressed' = [addressed EXCEPT ![m] = [to |-> to, reply |-> reply]]
    /\ delivering' = [delivering EXCEPT ![m] = [list |-> "broadcast", pos |-> 1]]
    /\ awaitedBy' = [awaitedBy EXCEPT ![m] = Listeners(to)]
    /\ UNCHANGED <<subscribers, received>>

(* The kinds of messages, by whom they address and what they may reply to. *)
SendRequest(m, to) == Send(m, to, NoMessage)
SendResponse(m, to, reply) == reply # NoMessage /\ Send(m, to, reply)
BroadcastMessage(m) == Send(m, Everyone, NoMessage)

(* send_interrupt and send_tool_call go to everyone unless an agent is named. *)
SendInterrupt(m, to) == Send(m, to, NoMessage)
SendToolCall(m, to) == Send(m, to, NoMessage)

(* Feedback and results may come without a message they answer. *)
SendFeedback(m, to, reply) == Send(m, to, reply)
SendToolResult(m, to, reply) == Send(m, to, reply)

SendDirect(m, to) ==
    \/ SendRequest(m, to)
    \/ \E reply \in MayReplyTo :
         SendResponse(m, to, reply) \/ SendFeedback(m, to, reply) \/ SendToolResult(m, to, reply)
SendAny(m) ==
    \/ BroadcastMessage(m)
    \/ \E to \in Receivers \cup {Everyone} : SendInterrupt(m, to) \/ SendToolCall(m, to)
    \/ \E to \in Receivers : SendDirect(m, to)

(* get_messages_for_agent and get_message_history: the last ones of what an agent *)
(* may read, which is what was sent to it or to everyone.  A list of messages is   *)
(* the set of their positions in the history, whose order it has.                *)
Latest(limit, positions) ==
    IF limit = 0 THEN positions
    ELSE {i \in positions : Cardinality({j \in positions : j > i}) < limit}
MessagesFor(r, limit) ==
    Latest(limit, {i \in DOMAIN sent : addressed[sent[i]].to \in {r, Everyone}})
MessageHistory(limit) == Latest(limit, DOMAIN sent)

(* Mutant: the broadcast list is told twice, the agent's own never. *)
BroadcastAgain(m) == subscribers[Everyone]

ListOf(m) == IF delivering[m].list = "broadcast" THEN subscribers[Everyone]
             ELSE subscribers[addressed[m].to]

(* The next callback of the list; what it raises is logged. *)
NotifyNext(m) ==
    /\ delivering[m].list \in {"broadcast", "direct"}
    /\ delivering[m].pos <= Len(ListOf(m))
    /\ received' = [received EXCEPT ![ListOf(m)[delivering[m].pos]] = Append(@, m)]
    /\ delivering' = [delivering EXCEPT ![m].pos = @ + 1]
    /\ UNCHANGED <<sent, addressed, subscribers, awaitedBy>>

(* The end of a list: the broadcast list comes first, then the agent's own.  *)
EndOfList(m) ==
    /\ delivering[m].list \in {"broadcast", "direct"}
    /\ delivering[m].pos > Len(ListOf(m))
    /\ delivering' = [delivering EXCEPT ![m] =
         IF @.list = "broadcast" /\ addressed[m].to # Everyone THEN [list |-> "direct", pos |-> 1]
         ELSE [list |-> "done", pos |-> 0]]
    /\ UNCHANGED <<sent, addressed, subscribers, received, awaitedBy>>

DeliveryNext ==
    \/ \E k \in Callbacks, r \in Receivers \cup {Everyone} : Subscribe(k, r)
    \/ \E m \in Messages : SendAny(m) \/ NotifyNext(m) \/ EndOfList(m)

DeliverySpec == DeliveryInit /\ [][DeliveryNext]_deliveryVars

-----------------------------------------------------------------------------
TimesReceived(k, m) == Cardinality({i \in DOMAIN received[k] : received[k][i] = m})

(* Everyone who listened when a message was sent has heard it once its send   *)
(* returns, nobody hears it twice or is not meant to, and a reply always       *)
(* finds its request in the history, before it (send, _notify_subscribers).    *)
(* What an agent was told of by its own subscription it can also read, and a    *)
(* reading with a limit keeps its latest messages, however many of others came   *)
(* after them (get_messages_for_agent).                                        *)
EveryoneHears ==
    /\ \A m \in Messages, k \in Callbacks :
         /\ delivering[m].list = "done" /\ k \in awaitedBy[m] => TimesReceived(k, m) = 1
         /\ TimesReceived(k, m) <= 1
         /\ TimesReceived(k, m) = 1 => k \in Listeners(addressed[m].to)
    /\ \A i \in MessageHistory(0) :
         addressed[sent[i]].reply # NoMessage =>
             \E j \in 1 .. i - 1 : sent[j] = addressed[sent[i]].reply
    /\ \A r \in Receivers :
         /\ \A k \in Listeners(r) \ Listeners(Everyone), m \in Messages :
              TimesReceived(k, m) = 1 => \E i \in MessagesFor(r, 0) : sent[i] = m
         /\ LET Mine(i) == addressed[sent[i]].to \in {r, Everyone} IN
            \A i \in DOMAIN sent :
              Mine(i) /\ (\A j \in i + 1 .. Len(sent) : ~Mine(j)) => MessagesFor(r, 1) = {i}
=============================================================================
