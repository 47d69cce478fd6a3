----------------------------- MODULE RedisBroker -----------------------------
(***************************************************************************)
(* The pub/sub broker of src/redis_broker.go: the goroutine started by     *)
(* RedisBroker.Subscribe (reconnect loop with backoff, read loop, forward  *)
(* to the 256-slot out channel), the publishers on every node, the Redis   *)
(* server going down and coming back, and the Hub reading the out channel  *)
(* (Hub.Run's broker case) until the module context is cancelled.         *)
(*                                                                         *)
(* go-redis is a library: what it does is taken from its contract.  A      *)
(* PubSub whose connection drops resubscribes by itself when the server is *)
(* back, and messages published meanwhile are lost; its Channel() is       *)
(* closed when the broker side tears the subscription down.                *)
(* A message is [id, ok]: its place in publication order, and whether its  *)
(* payload decodes (DeserializeBroadcast).                                 *)
(***************************************************************************)
EXTENDS Integers, Sequences

CONSTANTS
    MaxMsgs,      \* messages published in a behaviour
    PendCap,      \* capacity of the go-redis PubSub channel
    OutCap,       \* capacity of out (256 in the code)
    MaxAttempt,   \* bound on consecutive failed subscribes
    MaxOutages    \* bound on server outages and channel closes

ASSUME /\ MaxMsgs \in Nat /\ PendCap \in Nat \ {0} /\ OutCap \in Nat \ {0}
       /\ MaxAttempt \in Nat /\ MaxOutages \in Nat

VARIABLES
    rpc,          \* where the subscriber goroutine is
    attempt,      \* its attempt counter
    sleepFor,     \* the duration of its current backoff sleep (a GoInt64 word)
    subscribed,   \* the server holds the subscription
    pending,      \* messages in pubsub.Channel()
    held,         \* the decoded message being sent on out
    out,          \* the out channel
    outClosed,    \* defer close(out) has run
    redisUp,      \* the server is reachable
    outages,      \* outages and channel closes so far
    cancelled,    \* the module context (h.ctx) is cancelled
    hubReading,   \* Hub.Run still selects on the broker stream
    published,    \* messages the server accepted
    delivered     \* ids the Hub received, in order

vars == <<rpc, attempt, sleepFor, subscribed, pending, held, out, outClosed,
          redisUp, outages, cancelled, hubReading, published, delivered>>

I64 == INSTANCE GoInt64

Msg == [id : 1 .. MaxMsgs, ok : BOOLEAN]

NoMsg == [id |-> 0, ok |-> FALSE]

Init ==
    /\ rpc = "check"
    /\ attempt = 0
    /\ sleepFor = I64!Zero
    /\ subscribed = FALSE
    /\ pending = <<>>
    /\ held = NoMsg
    /\ out = <<>>
    /\ outClosed = FALSE
    /\ redisUp \in BOOLEAN
    /\ outages = 0
    /\ cancelled = FALSE
    /\ hubReading = TRUE
    /\ published = 0
    /\ delivered = <<>>

envVars == <<redisUp, outages, cancelled, hubReading, published, delivered>>

-----------------------------------------------------------------------------
(* The goroutine returns; its deferred close(out) runs.                    *)
Return ==
    /\ rpc' = "returned"
    /\ outClosed' = TRUE

(* Top of the loop: return if the context is done, else subscribe.         *)
Check ==
    /\ rpc = "check"
    /\ IF cancelled THEN Return ELSE rpc' = "receive" /\ UNCHANGED outClosed
    /\ UNCHANGED <<attempt, sleepFor, subscribed, pending, held, out, envVars>>

(* pubsub.Receive succeeds: reset attempt and enter the read loop.         *)
ReceiveOk ==
    /\ rpc = "receive"
    /\ redisUp /\ ~cancelled
    /\ subscribed' = TRUE
    /\ attempt' = 0
    /\ rpc' = "read"
    /\ UNCHANGED <<sleepFor, pending, held, out, outClosed, envVars>>

(* pubsub.Receive fails (server down, or ctx cancelled): close the PubSub  *)
(* and compute the backoff from attempt.                                   *)
ReceiveFail ==
    /\ rpc = "receive"
    /\ \/ ~redisUp /\ attempt < MaxAttempt
       \/ cancelled
    /\ sleepFor' \in I64!Backoffs(attempt)
    /\ subscribed' = FALSE
    /\ rpc' = "sleep"
    /\ UNCHANGED <<attempt, pending, held, out, outClosed, envVars>>

(* time.Sleep(sleepDuration) returns (at once if it is not positive);     *)
(* attempt++ and back to the top.                                          *)
SleepDone ==
    /\ rpc = "sleep"
    /\ attempt' = attempt + 1
    /\ rpc' = "check"
    /\ UNCHANGED <<sleepFor, subscribed, pending, held, out, outClosed, envVars>>

(* Variant of ReadMsg that leaves the message in the channel.              *)
ReadMsgKeepsHead ==
    /\ rpc = "read"
    /\ pending # <<>>
    /\ IF Head(pending).ok
       THEN held' = Head(pending) /\ rpc' = "forward"
       ELSE UNCHANGED <<held, rpc>>
    /\ UNCHANGED <<attempt, sleepFor, subscribed, pending, out, outClosed, envVars>>

(* A message from pubsub.Channel(): a payload that does not decode is     *)
(* skipped (continue); one that does is sent on out.                       *)
ReadMsg ==
    /\ rpc = "read"
    /\ pending # <<>>
    /\ pending' = Tail(pending)
    /\ IF Head(pending).ok
       THEN held' = Head(pending) /\ rpc' = "forward"
       ELSE UNCHANGED <<held, rpc>>
    /\ UNCHANGED <<attempt, sleepFor, subscribed, out, outClosed, envVars>>

(* The channel is closed from the broker side: break readLoop, close the   *)
(* PubSub (dropping what it buffered) and go back to the top.              *)
ChannelClosed ==
    /\ rpc = "read"
    /\ outages < MaxOutages
    /\ outages' = outages + 1
    /\ subscribed' = FALSE
    /\ pending' = <<>>
    /\ rpc' = "check"
    /\ UNCHANGED <<attempt, sleepFor, held, out, outClosed, redisUp, cancelled,
                   hubReading, published, delivered>>

(* The read loop's ctx.Done case: close the PubSub and return.             *)
ReadCancel ==
    /\ rpc = "read"
    /\ cancelled
    /\ Return
    /\ subscribed' = FALSE
    /\ pending' = <<>>
    /\ UNCHANGED <<attempt, sleepFor, held, out, envVars>>

(* out <- msg.                                                             *)
Forward ==
    /\ rpc = "forward"
    /\ Len(out) < OutCap
    /\ out' = Append(out, held.id)
    /\ held' = NoMsg
    /\ rpc' = "read"
    /\ UNCHANGED <<attempt, sleepFor, subscribed, pending, outClosed, envVars>>

(* Variant with a plain out <- msg: the forward has no ctx.Done case.      *)
ForwardCancelAbsent == FALSE

(* The forward's ctx.Done case: close the PubSub and return.               *)
ForwardCancel ==
    /\ rpc = "forward"
    /\ cancelled
    /\ Return
    /\ subscribed' = FALSE
    /\ pending' = <<>>
    /\ UNCHANGED <<attempt, sleepFor, held, out, envVars>>

-----------------------------------------------------------------------------
(* Variant of Publish that ignores the capacity of the PubSub channel.     *)
PublishUnbounded ==
    /\ redisUp
    /\ published < MaxMsgs
    /\ published' = published + 1
    /\ \E ok \in BOOLEAN :
          pending' = IF subscribed THEN Append(pending, [id |-> published + 1, ok |-> ok])
                     ELSE pending
    /\ UNCHANGED <<rpc, attempt, sleepFor, subscribed, held, out, outClosed,
                   redisUp, outages, cancelled, hubReading, delivered>>

(* RedisBroker.Publish on some node: the server accepts the message and    *)
(* pushes it to the live subscription; go-redis drops it if its channel    *)
(* stays full.  A payload from a foreign publisher may not decode.         *)
Publish ==
    /\ redisUp
    /\ published < MaxMsgs
    /\ published' = published + 1
    /\ \E ok \in BOOLEAN :
          pending' = IF subscribed /\ Len(pending) < PendCap
                     THEN Append(pending, [id |-> published + 1, ok |-> ok])
                     ELSE pending
    /\ UNCHANGED <<rpc, attempt, sleepFor, subscribed, held, out, outClosed,
                   redisUp, outages, cancelled, hubReading, delivered>>

(* The server becomes unreachable: the subscription is lost.               *)
RedisDown ==
    /\ redisUp
    /\ outages < MaxOutages
    /\ outages' = outages + 1
    /\ redisUp' = FALSE
    /\ subscribed' = FALSE
    /\ UNCHANGED <<rpc, attempt, sleepFor, pending, held, out, outClosed,
                   cancelled, hubReading, published, delivered>>

(* The server is back; a PubSub that is still open resubscribes.           *)
RedisUp ==
    /\ ~redisUp
    /\ redisUp' = TRUE
    /\ subscribed' = (rpc \in {"read", "forward"})
    /\ UNCHANGED <<rpc, attempt, sleepFor, pending, held, out, outClosed,
                   outages, cancelled, hubReading, published, delivered>>

(* WebsocketModule.Cleanup cancels the module context.                     *)
Cancel ==
    /\ ~cancelled
    /\ cancelled' = TRUE
    /\ UNCHANGED <<rpc, attempt, sleepFor, subscribed, pending, held, out, outClosed,
                   redisUp, outages, hubReading, published, delivered>>

(* Hub.Run's broker case takes a message off the stream.                   *)
HubRead ==
    /\ hubReading
    /\ out # <<>>
    /\ delivered' = Append(delivered, Head(out))
    /\ out' = Tail(out)
    /\ UNCHANGED <<rpc, attempt, sleepFor, subscribed, pending, held, outClosed,
                   redisUp, outages, cancelled, hubReading, published>>

(* Hub.Run's ctx.Done case: it stops reading the stream for good.          *)
HubStops ==
    /\ hubReading
    /\ cancelled
    /\ hubReading' = FALSE
    /\ UNCHANGED <<rpc, attempt, sleepFor, subscribed, pending, held, out, outClosed,
                   redisUp, outages, cancelled, published, delivered>>

(* The subscriber has returned and the Hub has stopped: nothing is left.   *)
Terminated ==
    /\ rpc = "returned" /\ ~hubReading
    /\ UNCHANGED vars

Subscriber ==
    \/ Check \/ ReceiveOk \/ ReceiveFail \/ SleepDone
    \/ ReadMsg \/ ChannelClosed \/ ReadCancel \/ Forward \/ ForwardCancel

Next ==
    \/ Subscriber
    \/ Publish \/ RedisDown \/ RedisUp \/ Cancel
    \/ HubRead \/ HubStops
    \/ Terminated

(* The subscriber goroutine and Hub.Run run whenever they can.  The        *)
(* channel closing from the broker side is the environment's choice, and  *)
(* so is everything outside this process.                                 *)
Fairness ==
    /\ WF_vars(Subscriber /\ ~ChannelClosed)
    /\ WF_vars(HubRead \/ HubStops)

Spec == Init /\ [][Next]_vars /\ Fairness

-----------------------------------------------------------------------------
TypeOK ==
    /\ rpc \in {"check", "receive", "sleep", "read", "forward", "returned"}
    /\ attempt \in 0 .. MaxAttempt + 1
    /\ sleepFor \in I64!Word
    /\ subscribed \in BOOLEAN
    /\ pending \in Seq(Msg) /\ Len(pending) <= PendCap
    /\ held \in Msg \cup {NoMsg}
    /\ out \in Seq(1 .. MaxMsgs) /\ Len(out) <= OutCap
    /\ outClosed \in BOOLEAN /\ redisUp \in BOOLEAN /\ cancelled \in BOOLEAN
    /\ hubReading \in BOOLEAN
    /\ outages \in 0 .. MaxOutages
    /\ published \in 0 .. MaxMsgs
    /\ delivered \in Seq(1 .. MaxMsgs)

(* Spec 4.5 and 1: across reconnects, broker-side closes and undecodable   *)
(* payloads, the Hub receives published broadcasts at most once each and  *)
(* in publication order (the reconnect loop never replays or reorders).    *)
(* Refinement mapping: the broker's accepted messages are the Publish     *)
(* calls that reached the server, the stream the Hub read is the ids       *)
(* Hub.Run took from out.                                                  *)
Stream == INSTANCE BrokerStream WITH accepted <- published, received <- delivered

BrokerStreamRefined == Stream!Spec

(* Spec 5: once the module context is cancelled the subscriber goroutine  *)
(* returns and closes out, even when the Hub has stopped reading and out  *)
(* is full, and even in the middle of a backoff.                          *)
SubscriberReturns == cancelled ~> (rpc = "returned")

(* Spec 4.5: the reconnect backoff is min(2^attempt, 30) seconds.          *)
SleepMatchesSpec ==
    rpc = "sleep" =>
        sleepFor = I64!Mul(I64!FromNat(IF attempt >= 5 THEN 30 ELSE 2^attempt), I64!Second)
=============================================================================
