---------------------------- MODULE KafkaClient ----------------------------
(***************************************************************************)
(* The Kafka client of one process (pkg/kafka/client.go): its mutex c.mu,  *)
(* a consumer goroutine for each subscribed topic, the request-reply       *)
(* pattern, and Close, which waits for the consumers and holds c.mu while  *)
(* it waits. AgentProcess adds the program around it.                      *)
(*                                                                         *)
(* Only Close keeps c.mu across a wait, so the other critical sections are *)
(* single steps, which need the mutex to be free. What is read and written *)
(* is left out: the broker may deliver a message at any time, a write may  *)
(* fail.                                                                   *)
(***************************************************************************)
EXTENDS Naturals

CONSTANTS Topics,        \* the topics the agent subscribes to
          Publishing,    \* those whose handler publishes a message itself
          ReplyTopic,    \* the topic of the answers to one RequestReply
          MaxReplies     \* bound on the messages on ReplyTopic: the answer and its duplicates

Subscribable == Topics \cup {ReplyTopic}

ASSUME ClientAssumption ==
    Publishing \subseteq Topics /\ ReplyTopic \notin Topics /\ MaxReplies \in Nat

VARIABLES connected,
          clientLock,    \* held by Close, or free
          cancelled,     \* c.ctx has been cancelled
          readers,       \* the topics in c.readers: their readers are open
          consumer,      \* the consumer goroutine of each topic
          requester,     \* the goroutine that calls RequestReply
          replies,       \* messages on ReplyTopic so far
          replyChan      \* messages in the channel of capacity one

clientVars == <<connected, clientLock, cancelled, readers, consumer, requester, replies, replyChan>>

\* "publishing" wants c.mu; "writing" has read c.connected and released it.
ConsumerStates == {"none", "looping", "fetching", "handling", "publishing", "writing", "ended"}

ClientTypeOK ==
    /\ connected \in BOOLEAN /\ cancelled \in BOOLEAN
    /\ clientLock \in {"free", "closing"}
    /\ readers \subseteq Subscribable
    /\ consumer \in [Subscribable -> ConsumerStates]
    /\ requester \in {"idle", "requesting", "waiting", "leaving", "done"}
    /\ replies \in 0 .. MaxReplies /\ replyChan \in 0 .. 1

ClientInit ==
    /\ connected = FALSE /\ cancelled = FALSE
    /\ clientLock = "free"
    /\ readers = {}
    /\ consumer = [t \in Subscribable |-> "none"]
    /\ requester = "idle" /\ replies = 0 /\ replyChan = 0

Consumer(t, from, to) == consumer[t] = from /\ consumer' = [consumer EXCEPT ![t] = to]

-----------------------------------------------------------------------------
\* Connect dials nothing: it cannot fail.
Connect ==
    /\ clientLock = "free"
    /\ connected' = TRUE
    /\ cancelled' = IF connected THEN cancelled ELSE FALSE
    /\ UNCHANGED <<clientLock, readers, consumer, requester, replies, replyChan>>

Subscribe(t) ==
    /\ clientLock = "free"
    /\ t \notin readers
    /\ readers' = readers \cup {t}
    /\ Consumer(t, "none", "looping")

Unsubscribe(t) ==
    /\ clientLock = "free"
    /\ readers' = readers \ {t}

\* The head of the consumer's loop, and a fetch that times out or fails: that
\* of a closed reader always does.
Loop(t) == Consumer(t, "looping", IF cancelled THEN "ended" ELSE "fetching")
FetchFails(t) == Consumer(t, "fetching", IF cancelled THEN "ended" ELSE "looping")

\* FetchMessage chooses freely between a message and a context that is over.
Fetch(t) == t \in readers /\ Consumer(t, "fetching", "handling")

\* The reply handler sends the message on the channel, and waits while it is full.
HandleReply ==
    /\ Consumer(ReplyTopic, "handling", "looping")
    /\ replyChan = 0
    /\ replyChan' = 1
    /\ UNCHANGED replies

FetchReply == Fetch(ReplyTopic) /\ replies < MaxReplies /\ replies' = replies + 1 /\ UNCHANGED replyChan

\* PublishWithKey in a handler: is the client connected?
PublishWithKey(t) ==
    /\ clientLock = "free"
    /\ Consumer(t, "publishing", IF connected THEN "writing" ELSE "looping")

WriteMessages(t) == Consumer(t, "writing", "looping")

\* The steps of a consumer but the handler's own.
ConsumerStep(t) ==
    /\ Loop(t) \/ FetchFails(t) \/ (t # ReplyTopic /\ Fetch(t)) \/ PublishWithKey(t) \/ WriteMessages(t)
    /\ UNCHANGED <<connected, clientLock, cancelled, readers, requester, replies, replyChan>>

ReplyStep ==
    /\ HandleReply \/ FetchReply
    /\ UNCHANGED <<connected, clientLock, cancelled, readers, requester>>

-----------------------------------------------------------------------------
Requester(from, to) == requester = from /\ requester' = to

\* Subscribe does not ask whether the client is connected.
RequestReply ==
    /\ Requester("idle", "requesting")
    /\ Subscribe(ReplyTopic)
    /\ UNCHANGED <<connected, clientLock, cancelled, replies, replyChan>>

\* The request is published, or that fails.
PublishRequest ==
    /\ clientLock = "free"
    /\ Requester("requesting", "waiting") \/ Requester("requesting", "leaving")
    /\ UNCHANGED <<connected, clientLock, cancelled, readers, consumer, replies, replyChan>>

ReceiveReply ==
    /\ Requester("waiting", "leaving")
    /\ replyChan = 1 /\ replyChan' = 0
    /\ UNCHANGED <<connected, clientLock, cancelled, readers, consumer, replies>>

RequestTimesOut ==
    /\ Requester("waiting", "leaving")
    /\ UNCHANGED <<connected, clientLock, cancelled, readers, consumer, replies, replyChan>>

\* The deferred Unsubscribe.
LeaveRequest ==
    /\ Requester("leaving", "done")
    /\ Unsubscribe(ReplyTopic)
    /\ UNCHANGED <<connected, clientLock, cancelled, consumer, replies, replyChan>>

RequesterStep == PublishRequest \/ ReceiveReply \/ RequestTimesOut \/ LeaveRequest

-----------------------------------------------------------------------------
\* A mutant: Close does not cancel the context.
CloseWithoutCancel ==
    /\ clientLock = "free"
    /\ clientLock' = "closing"
    /\ UNCHANGED <<connected, cancelled, readers, consumer, requester, replies, replyChan>>

\* Close: takes the mutex, cancels, waits for the consumers, and closes the rest.
CloseBegins ==
    /\ clientLock = "free"
    /\ clientLock' = "closing"
    /\ cancelled' = TRUE
    /\ UNCHANGED <<connected, readers, consumer, requester, replies, replyChan>>

CloseEnds ==
    /\ clientLock = "closing"
    /\ \A t \in Subscribable : consumer[t] \in {"none", "ended"}
    /\ clientLock' = "free"
    /\ \/ connected' = FALSE /\ readers' = {}
       \/ UNCHANGED <<connected, readers>>     \* a reader or the writer fails to close
    /\ UNCHANGED <<cancelled, consumer, requester, replies, replyChan>>

\* What Close cannot outwait: a handler that wants the mutex, or one that sends
\* on a channel nobody empties.
CloseIsStuck ==
    /\ clientLock = "closing"
    /\ \/ \E t \in Topics : consumer[t] = "publishing"
       \/ consumer[ReplyTopic] = "handling" /\ replyChan = 1
=============================================================================
