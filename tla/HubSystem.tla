------------------------------ MODULE HubSystem ------------------------------
(***************************************************************************)
(* The sharded hub (src/hub.go, src/shard.go), the read side of every      *)
(* client (src/module/client.go readPump / handleMessage) and the          *)
(* in-memory broker (src/broker.go), composed with the shard state of      *)
(* SubscriptionManager.                                                    *)
(*                                                                         *)
(* Goroutines: one readPump per client, the Hub loop, one loop per shard,  *)
(* and external publishers.  Every Go channel between them is unbuffered   *)
(* (a rendezvous: one action moves the value and both sides' control),     *)
(* except the broker bus (BusCap) and the client send queues (QueueCap).   *)
(* Channels are partitioned over shards by ShardOf (the fnv1a32 hash of    *)
(* getShard), so the shards' disjoint states are kept as one global        *)
(* SubscriptionManager state and shard i only touches ShardChannels(i).    *)
(***************************************************************************)
EXTENDS Integers, FiniteSets, Sequences, SequencesExt, Bitwise

CONSTANTS
    Clients, Channels, PresenceChannels, PrivateChannels, Users, NoUser,
    QueueCap, FrameOf(_, _, _),
    NumShards,       \* len(h.shards)
    ShardOf,         \* getShard: channel -> shard index
    MaxConnections,  \* h.maxConnections
    MaxFrames,       \* frames a client's peer sends before it stops
    BusCap,          \* capacity of MemoryBroker.bus (256 in the code)
    MaxPublish,      \* number of calls PHP scripts make into websocket.go
    MultiLists,      \* channel lists broadcast_multi is called with
    AllowShutdown    \* whether the module's context may be cancelled

Shards == 0 .. NumShards - 1

ASSUME /\ NumShards \in 1 .. 64
       /\ ShardOf \in [Channels -> Shards]
       /\ MaxConnections \in Nat
       /\ MaxFrames \in Nat /\ BusCap \in Nat \ {0} /\ MaxPublish \in Nat
       /\ MultiLists \subseteq Seq(Channels)
       /\ AllowShutdown \in BOOLEAN

VARIABLES
    channels, clients, presence, clientToUser, outbox, webhook,
    pc,          \* pc[c]: where c's ServeHTTP / readPump goroutine is
    req,         \* req[c]: the request c's readPump is sending to the Hub
    framesLeft,  \* framesLeft[c]: frames c's peer may still send
    shardMask,   \* shardMask[c]: Client.shardMask as a set of shard ids
    cleanupIdx,  \* cleanupIdx[c]: the loop index i of Hub.Unregister
    connClosed,  \* connClosed[c]: c.conn has been closed by the server
    hubClients,  \* h.clients
    conns,       \* h.conns
    wg,          \* h.wg: clients added to the WaitGroup and not yet Done
    hubPc,       \* the Hub.Run goroutine
    held,        \* the value Hub.Run is sending to a shard
    shardUp,     \* shardUp[i]: HubShard.Run of shard i has not returned
    bus,         \* MemoryBroker.bus
    published,   \* calls PHP scripts have made so far
    registry,    \* hubRegistry[AppID]: this hub, a newer config's hub, or none
    cleanupDone, \* WebsocketModule.Cleanup has returned
    php,         \* the PHP thread inside pogo_websocket_publish / _multi
    lastCall,    \* what the last call that returned asked for and got
    brokerClosed,\* MemoryBroker.Close has run
    panicked,    \* a goroutine panicked (send on a closed channel)
    cancelled    \* the module context m.ctx is cancelled

smVars == <<channels, clients, presence, clientToUser, outbox, webhook>>
clientVars == <<pc, req, framesLeft, shardMask, cleanupIdx, connClosed>>
hubVars == <<hubClients, conns, wg, hubPc, held, shardUp>>
phpVars == <<published, registry, cleanupDone, php, lastCall>>
brokerVars == <<bus, brokerClosed, panicked, cancelled, phpVars>>
vars == <<smVars, clientVars, hubVars, brokerVars>>

SMOps == INSTANCE SubscriptionManager

NoReq == [kind |-> "none"]

Request == [kind : {"subscribe"}, c : Clients, ch : Channels, user : Users \cup {NoUser}]
      \cup [kind : {"unsubscribe", "client_message"}, c : Clients, ch : Channels]
      \cup [kind : {"broadcast"}, ch : Channels]

(* php.todo: channels still to publish to; ok: the AND of the results so  *)
(* far; valid: channel, event and data are within the protocol limits.     *)
PhpIdle == [pc |-> "idle", todo |-> <<>>, ok |-> TRUE, valid |-> TRUE,
            asked |-> 0, appended |-> 0]
NoCall == [result |-> FALSE, found |-> FALSE, parsed |-> FALSE, asked |-> 0,
           appended |-> 0, valid |-> FALSE]

(* Hub.getShard: hash/fnv's 32-bit FNV-1a of the channel name (a sequence *)
(* of byte values), Sum32() % numShards.  A 32-bit word is kept as two     *)
(* 16-bit limbs <<hi, lo>>, because TLC integers are 32-bit signed.        *)
FnvOffset == <<\h811C, \h9DC5>>
FnvPrime == <<\h0100, \h0193>>

(* h * prime mod 2^32 *)
FnvMul(h) ==
    LET low   == h[2] * FnvPrime[2]
        cross == h[1] * FnvPrime[2] + h[2] * FnvPrime[1]
    IN  <<(low \div 65536 + cross) % 65536, low % 65536>>

(* One byte of fnv's sum32a.Write: hash ^= b, then hash *= prime.          *)
FnvStep(h, b) == FnvMul(<<h[1], h[2] ^^ b>>)

Fnv1a32(bytes) == FoldLeft(FnvStep, FnvOffset, bytes)

GetShard(name, n) ==
    LET h == Fnv1a32(name) IN ((h[1] % n) * (65536 % n) + h[2]) % n

ShardChannels(i) == {ch \in Channels : ShardOf[ch] = i}

(* Frames queued by client.go and hub.go themselves, not by a shard.       *)
Reply(ev) == FrameOf(ev, NoUser, NoUser)

(* Client.AddShard / HasShard on the 64-bit mask: ids outside 0..63 are   *)
(* ignored by AddShard and never reported by HasShard.                     *)
AddShard(mask, id) == IF id \in 0 .. 63 THEN mask \cup {id} ELSE mask

HasShard(mask, id) == id \in 0 .. 63 /\ id \in mask

SendOwn(c, m) == outbox' = SMOps!SendTo(outbox, {c}, m)

-----------------------------------------------------------------------------
Init ==
    /\ SMOps!Init
    /\ pc = [c \in Clients |-> "new"]
    /\ req = [c \in Clients |-> NoReq]
    /\ framesLeft = [c \in Clients |-> MaxFrames]
    /\ shardMask = [c \in Clients |-> {}]
    /\ cleanupIdx = [c \in Clients |-> 0]
    /\ connClosed = [c \in Clients |-> FALSE]
    /\ hubClients = {}
    /\ conns = 0
    /\ wg = {}
    /\ hubPc = "loop"
    /\ held = NoReq
    /\ shardUp = [i \in Shards |-> TRUE]
    /\ bus = <<>>
    /\ published = 0
    /\ registry = "self"
    /\ cleanupDone = FALSE
    /\ php = PhpIdle
    /\ lastCall = NoCall
    /\ brokerClosed = FALSE
    /\ panicked = FALSE
    /\ cancelled = FALSE

-----------------------------------------------------------------------------
(* Hub.Register, first half: the unlocked check of h.conns.  Over          *)
(* capacity, the 4100 close frame is written and the connection closed;    *)
(* ServeHTTP still starts the pumps, whose first read then fails.          *)
RegisterCheck(c) ==
    /\ pc[c] = "new"
    /\ IF conns >= MaxConnections
       THEN /\ pc' = [pc EXCEPT ![c] = "unregistering"]
            /\ connClosed' = [connClosed EXCEPT ![c] = TRUE]
       ELSE /\ pc' = [pc EXCEPT ![c] = "admitting"]
            /\ UNCHANGED connClosed
    /\ UNCHANGED <<smVars, req, framesLeft, shardMask, cleanupIdx, hubVars, brokerVars>>

(* Hub.Register, under clientsMu: index the client.  The lock is released *)
(* before the client is counted, so Hub.Run's shutdown can see it here.    *)
RegisterAdmit(c) ==
    /\ pc[c] = "admitting"
    /\ hubClients' = hubClients \cup {c}
    /\ pc' = [pc EXCEPT ![c] = "counting"]
    /\ UNCHANGED <<smVars, req, framesLeft, shardMask, cleanupIdx, connClosed,
                   conns, wg, hubPc, held, shardUp, brokerVars>>

(* Hub.Register, after the unlock: h.conns.Add(1).                         *)
RegisterCount(c) ==
    /\ pc[c] = "counting"
    /\ conns' = conns + 1
    /\ pc' = [pc EXCEPT ![c] = "joining"]
    /\ UNCHANGED <<smVars, req, framesLeft, shardMask, cleanupIdx, connClosed,
                   hubClients, wg, hubPc, held, shardUp, brokerVars>>

(* Hub.Register, the rest: h.wg.Add(1), then queue                       *)
(* pusher:connection_established.                                          *)
RegisterJoin(c) ==
    /\ pc[c] = "joining"
    /\ wg' = wg \cup {c}
    /\ SendOwn(c, Reply("connection_established"))
    /\ pc' = [pc EXCEPT ![c] = "reading"]
    /\ UNCHANGED <<channels, clients, presence, clientToUser, webhook,
                   req, framesLeft, shardMask, cleanupIdx, connClosed,
                   hubClients, conns, hubPc, held, shardUp, brokerVars>>

(* A text frame read by readPump and dispatched by handleMessage.          *)
ReadFrame(c) ==
    /\ pc[c] = "reading"
    /\ ~connClosed[c]
    /\ framesLeft[c] > 0
    /\ framesLeft' = [framesLeft EXCEPT ![c] = @ - 1]

(* pusher:subscribe.  Private and presence channels go through             *)
(* Hub.Authorize first (its outcome, including the user_id it returns, is  *)
(* a free choice here; AuthProvider models how it is reached); a denial    *)
(* queues a 4009 pusher:error and reading goes on.                         *)
ReadSubscribe(c, ch) ==
    /\ ReadFrame(c)
    /\ IF ch \in PrivateChannels \cup PresenceChannels
       THEN \/ /\ SendOwn(c, Reply("error"))
               /\ UNCHANGED <<pc, req>>
            \/ \E u \in (IF ch \in PresenceChannels THEN Users \cup {NoUser} ELSE {NoUser}) :
                  /\ req' = [req EXCEPT ![c] = [kind |-> "subscribe", c |-> c, ch |-> ch, user |-> u]]
                  /\ pc' = [pc EXCEPT ![c] = "sending"]
                  /\ UNCHANGED outbox
       ELSE /\ req' = [req EXCEPT ![c] = [kind |-> "subscribe", c |-> c, ch |-> ch, user |-> NoUser]]
            /\ pc' = [pc EXCEPT ![c] = "sending"]
            /\ UNCHANGED outbox
    /\ UNCHANGED <<channels, clients, presence, clientToUser, webhook,
                   shardMask, cleanupIdx, connClosed, hubVars, brokerVars>>

(* pusher:unsubscribe and client-* events: forwarded to the Hub.           *)
ReadForward(c, ch, kind) ==
    /\ ReadFrame(c)
    /\ req' = [req EXCEPT ![c] = [kind |-> kind, c |-> c, ch |-> ch]]
    /\ pc' = [pc EXCEPT ![c] = "sending"]
    /\ UNCHANGED <<smVars, shardMask, cleanupIdx, connClosed, hubVars, brokerVars>>

(* pusher:ping, pusher:signin and invalid JSON: a reply on c's own queue.  *)
ReadReply(c) ==
    /\ ReadFrame(c)
    /\ SendOwn(c, Reply("pong"))
    /\ UNCHANGED <<channels, clients, presence, clientToUser, webhook,
                   pc, req, shardMask, cleanupIdx, connClosed, hubVars, brokerVars>>

(* ReadMessage fails (peer close, pong timeout) or a binary frame makes    *)
(* readPump return: its deferred Unregister runs next.                     *)
ReadEnds(c) ==
    /\ pc[c] = "reading"
    /\ pc' = [pc EXCEPT ![c] = "unregistering"]
    /\ UNCHANGED <<smVars, req, framesLeft, shardMask, cleanupIdx, connClosed,
                   hubVars, brokerVars>>

(* Variant of UnregisterStart without the membership check: a client     *)
(* Register rejected still decrements h.conns.                             *)
UnregisterStartNoMembership(c) ==
    /\ pc[c] = "unregistering"
    /\ hubClients' = hubClients \ {c}
    /\ pc' = [pc EXCEPT ![c] = "leaving"]
    /\ UNCHANGED <<smVars, req, framesLeft, shardMask, cleanupIdx, connClosed,
                   conns, wg, hubPc, held, shardUp, brokerVars>>

(* Hub.Unregister, under clientsMu: leave h.clients.  A client that       *)
(* Register rejected is not in h.clients and returns.                      *)
UnregisterStart(c) ==
    /\ pc[c] = "unregistering"
    /\ IF c \in hubClients
       THEN /\ hubClients' = hubClients \ {c}
            /\ pc' = [pc EXCEPT ![c] = "leaving"]
       ELSE /\ pc' = [pc EXCEPT ![c] = "done"]
            /\ UNCHANGED hubClients
    /\ UNCHANGED <<smVars, req, framesLeft, shardMask, cleanupIdx, connClosed,
                   conns, wg, hubPc, held, shardUp, brokerVars>>

(* Hub.Unregister, after the unlock: h.conns.Add(-1), then the shard loop. *)
UnregisterCount(c) ==
    /\ pc[c] = "leaving"
    /\ conns' = conns - 1
    /\ pc' = [pc EXCEPT ![c] = "cleanup"]
    /\ cleanupIdx' = [cleanupIdx EXCEPT ![c] = 0]
    /\ UNCHANGED <<smVars, req, framesLeft, shardMask, connClosed,
                   hubClients, wg, hubPc, held, shardUp, brokerVars>>

(* Variants of UnregisterSkip: one without the ctx.Done case, one without  *)
(* the loop bound i < h.numShards.                                         *)
UnregisterSkipIgnoresCancel(c) ==
    /\ pc[c] = "cleanup"
    /\ cleanupIdx[c] < NumShards
    /\ ~HasShard(shardMask[c], cleanupIdx[c])
    /\ cleanupIdx' = [cleanupIdx EXCEPT ![c] = @ + 1]
    /\ UNCHANGED <<smVars, pc, req, framesLeft, shardMask, connClosed, hubVars, brokerVars>>

UnregisterSkipUnbounded(c) ==
    /\ pc[c] = "cleanup"
    /\ \/ ~HasShard(shardMask[c], cleanupIdx[c])
       \/ cancelled
    /\ cleanupIdx' = [cleanupIdx EXCEPT ![c] = @ + 1]
    /\ UNCHANGED <<smVars, pc, req, framesLeft, shardMask, connClosed, hubVars, brokerVars>>

(* Unregister's loop at shard i: HasShard(i) false moves on; so does the   *)
(* ctx.Done case of the select once the context is cancelled.              *)
UnregisterSkip(c) ==
    /\ pc[c] = "cleanup"
    /\ cleanupIdx[c] < NumShards
    /\ \/ ~HasShard(shardMask[c], cleanupIdx[c])
       \/ cancelled
    /\ cleanupIdx' = [cleanupIdx EXCEPT ![c] = @ + 1]
    /\ UNCHANGED <<smVars, pc, req, framesLeft, shardMask, connClosed, hubVars, brokerVars>>

(* After the loop: h.wg.Done(); readPump's defer closes the connection     *)
(* and cancels the client context, which stops its writePump.              *)
UnregisterDone(c) ==
    /\ pc[c] = "cleanup"
    /\ cleanupIdx[c] = NumShards
    /\ wg' = wg \ {c}
    /\ pc' = [pc EXCEPT ![c] = "done"]
    /\ UNCHANGED <<smVars, req, framesLeft, shardMask, cleanupIdx, connClosed,
                   hubClients, conns, hubPc, held, shardUp, brokerVars>>

(* Client.writePump writes the oldest queued frame; it runs until the      *)
(* client context is cancelled.                                            *)
WriteFrame(c) ==
    /\ pc[c] # "done"
    /\ outbox[c] # <<>>
    /\ outbox' = [outbox EXCEPT ![c] = Tail(@)]
    /\ UNCHANGED <<channels, clients, presence, clientToUser, webhook,
                   clientVars, hubVars, brokerVars>>

-----------------------------------------------------------------------------
(* Hub.Run receives a client's request (the readPump's send completes).    *)
HubReceiveRequest(c) ==
    /\ hubPc = "loop"
    /\ pc[c] = "sending"
    /\ held' = req[c]
    /\ hubPc' = "forwarding"
    /\ pc' = [pc EXCEPT ![c] = "reading"]
    /\ req' = [req EXCEPT ![c] = NoReq]
    /\ UNCHANGED <<smVars, framesLeft, shardMask, cleanupIdx, connClosed,
                   hubClients, conns, wg, shardUp, brokerVars>>

(* Hub.Run receives a message from the broker stream.                      *)
HubReceiveBroadcast ==
    /\ hubPc = "loop"
    /\ bus # <<>>
    /\ held' = [kind |-> "broadcast", ch |-> Head(bus)]
    /\ bus' = Tail(bus)
    /\ hubPc' = "forwarding"
    /\ UNCHANGED <<smVars, clientVars, hubClients, conns, wg, shardUp,
                   brokerClosed, panicked, cancelled, phpVars>>

(* Hub.Run's ctx.Done case: close the broker, close every registered       *)
(* client's connection, then wait for the WaitGroup.                       *)
HubShutdown ==
    /\ hubPc = "loop"
    /\ cancelled
    /\ brokerClosed' = TRUE
    /\ connClosed' = [c \in Clients |-> connClosed[c] \/ c \in hubClients]
    /\ hubPc' = "draining"
    /\ UNCHANGED <<smVars, pc, req, framesLeft, shardMask, cleanupIdx,
                   hubClients, conns, wg, held, shardUp,
                   bus, panicked, cancelled, phpVars>>

(* h.wg.Wait() returns; Run closes h.done.                                 *)
HubStopped ==
    /\ hubPc = "draining"
    /\ wg = {}
    /\ hubPc' = "stopped"
    /\ UNCHANGED <<smVars, clientVars, hubClients, conns, wg, held, shardUp, brokerVars>>

-----------------------------------------------------------------------------
(* The SubscriptionManager call of HubShard.Run's case for request h.      *)
ShardOp(h) ==
    CASE h.kind = "subscribe"      -> SMOps!SubscribeOp(SMOps!SM, h.c, h.ch, h.user)
      [] h.kind = "unsubscribe"    -> SMOps!UnsubscribeOp(SMOps!SM, h.c, h.ch)
      [] h.kind = "broadcast"      -> SMOps!BroadcastToChannelOp(SMOps!SM, h.ch)
      [] h.kind = "client_message" -> SMOps!BroadcastToOthersOp(SMOps!SM, h.c, h.ch)

(* HubShard.Run receives the Hub's value for one of its channels and       *)
(* applies it; a subscribe first sets the shard's bit in the client mask.  *)
ShardReceive(i) ==
    /\ shardUp[i]
    /\ hubPc = "forwarding"
    /\ ShardOf[held.ch] = i
    /\ SMOps!Apply(ShardOp(held))
    /\ shardMask' = IF held.kind = "subscribe"
                    THEN [shardMask EXCEPT ![held.c] = AddShard(@, i)]
                    ELSE shardMask
    /\ hubPc' = "loop"
    /\ held' = NoReq
    /\ UNCHANGED <<pc, req, framesLeft, cleanupIdx, connClosed,
                   hubClients, conns, wg, shardUp, brokerVars>>

(* HubShard.Run receives Unregister's cleanup for a client whose mask has  *)
(* bit i and removes it from the channels it owns.                         *)
ShardCleanup(i, c) ==
    /\ shardUp[i]
    /\ pc[c] = "cleanup"
    /\ cleanupIdx[c] = i
    /\ HasShard(shardMask[c], i)
    /\ \E order \in SMOps!RemoveClientOrders(c, ShardChannels(i)) :
          SMOps!Apply([SMOps!RemoveClientOp(SMOps!SM, c, order)
                         EXCEPT !.clients[c] = @ \ ShardChannels(i)])
    /\ cleanupIdx' = [cleanupIdx EXCEPT ![c] = @ + 1]
    /\ UNCHANGED <<pc, req, framesLeft, shardMask, connClosed, hubVars, brokerVars>>

(* HubShard.Run's ctx.Done case.                                           *)
ShardStop(i) ==
    /\ shardUp[i]
    /\ cancelled
    /\ shardUp' = [shardUp EXCEPT ![i] = FALSE]
    /\ UNCHANGED <<smVars, clientVars, hubClients, conns, wg, hubPc, held, brokerVars>>

-----------------------------------------------------------------------------
(* pogo_websocket_publish (one channel) and pogo_websocket_broadcast_multi *)
(* (a JSON list): GetHub, then, for multi, json.Unmarshal of the list.     *)
(* A nil hub or an unparsable list returns false at once; otherwise the    *)
(* thread goes on to call hub.Publish for each channel, holding the hub    *)
(* pointer it looked up.                                                   *)
PhpEnter(list, valid, parsed) ==
    /\ php.pc = "idle"
    /\ published < MaxPublish
    /\ published' = published + 1
    /\ CASE registry = "self" /\ parsed ->
              /\ php' = [PhpIdle EXCEPT !.pc = "publishing", !.todo = list,
                                        !.valid = valid, !.asked = Len(list)]
              /\ UNCHANGED lastCall
        [] registry = "newer" ->
              UNCHANGED <<php, lastCall>>     \* served by the newer hub
        [] OTHER ->
              /\ lastCall' = [result |-> FALSE, found |-> registry = "self",
                               parsed |-> parsed, asked |-> Len(list),
                               appended |-> 0, valid |-> valid]
              /\ UNCHANGED php
    /\ UNCHANGED <<smVars, clientVars, hubVars, bus, brokerClosed, panicked,
                   cancelled, registry, cleanupDone>>

PhpPublish(ch, valid) == PhpEnter(<<ch>>, valid, TRUE)

PhpBroadcastMulti(list, valid, parsed) == PhpEnter(list, valid, parsed)

(* The current channel of the loop has been published; r is its result.   *)
PublishDone(r, added) ==
    php' = [php EXCEPT !.todo = Tail(@), !.ok = @ /\ r, !.appended = @ + added]

(* Variant of MemoryBroker.Publish with no capacity check.                  *)
MemoryBrokerPublishUnbounded(ch) ==
    \/ /\ ~brokerClosed
       /\ bus' = Append(bus, ch)
       /\ PublishDone(TRUE, 1)
       /\ UNCHANGED panicked
    \/ /\ brokerClosed
       /\ PublishDone(FALSE, 0)
       /\ UNCHANGED <<bus, panicked>>

(* Variant of MemoryBroker.Publish whose full-buffer case returns nil.      *)
MemoryBrokerPublishDropsSilently(ch) ==
    \/ /\ ~brokerClosed /\ Len(bus) < BusCap
       /\ bus' = Append(bus, ch)
       /\ PublishDone(TRUE, 1)
       /\ UNCHANGED panicked
    \/ /\ ~brokerClosed /\ Len(bus) >= BusCap
       /\ PublishDone(TRUE, 0)
       /\ UNCHANGED <<bus, panicked>>
    \/ /\ brokerClosed
       /\ PublishDone(FALSE, 0)
       /\ UNCHANGED <<bus, panicked>>

(* MemoryBroker.Publish: a select with a default case.  Open, the send on  *)
(* the bus succeeds or, the buffer full, the default case drops the        *)
(* message and returns an error.  Closed by Close, both other cases are    *)
(* ready: ctx.Done returns an error, the send on the closed bus panics and *)
(* the PHP thread never returns.                                           *)
MemoryBrokerPublish(ch) ==
    \/ /\ ~brokerClosed /\ Len(bus) < BusCap
       /\ bus' = Append(bus, ch)
       /\ PublishDone(TRUE, 1)
       /\ UNCHANGED panicked
    \/ /\ ~brokerClosed /\ Len(bus) >= BusCap
       /\ PublishDone(FALSE, 0)
       /\ UNCHANGED <<bus, panicked>>
    \/ /\ brokerClosed
       /\ PublishDone(FALSE, 0)
       /\ UNCHANGED <<bus, panicked>>
    \/ /\ brokerClosed
       /\ panicked' = TRUE
       /\ php' = PhpIdle
       /\ UNCHANGED bus

(* Hub.Publish: a channel, event or data over its limit (256 bytes, 64     *)
(* bytes, 256 KiB) returns false before the broker is reached.             *)
HubPublish(ch) ==
    /\ php.pc = "publishing"
    /\ php.todo # <<>>
    /\ ch = Head(php.todo)
    /\ IF php.valid
       THEN MemoryBrokerPublish(ch)
       ELSE PublishDone(FALSE, 0) /\ UNCHANGED <<bus, panicked>>
    /\ UNCHANGED <<smVars, clientVars, hubVars, brokerClosed, cancelled,
                   published, registry, cleanupDone, lastCall>>

(* The loop is over: the call returns the AND of hub.Publish's results.    *)
PhpReturn ==
    /\ php.pc = "publishing"
    /\ php.todo = <<>>
    /\ lastCall' = [result |-> php.ok, found |-> TRUE, parsed |-> TRUE,
                     asked |-> php.asked, appended |-> php.appended, valid |-> php.valid]
    /\ php' = PhpIdle
    /\ UNCHANGED <<smVars, clientVars, hubVars, bus, brokerClosed, panicked,
                   cancelled, published, registry, cleanupDone>>

(* WebsocketModule.Cleanup cancels the module context.                     *)
Cancel ==
    /\ AllowShutdown
    /\ ~cancelled
    /\ cancelled' = TRUE
    /\ UNCHANGED <<smVars, clientVars, hubVars, bus, brokerClosed, panicked, phpVars>>

(* A config reload provisions a new WebsocketModule for the same AppID:   *)
(* its RegisterHub swaps the newer hub into the registry.  Caddy does this *)
(* before it cleans up the old module, or after a stop.                    *)
Reload ==
    /\ AllowShutdown
    /\ registry # "newer"
    /\ registry' = "newer"
    /\ UNCHANGED <<smVars, clientVars, hubVars, bus, brokerClosed, panicked,
                   cancelled, published, cleanupDone, php, lastCall>>

(* Cleanup, after hub.Wait() has returned (h.done is closed):              *)
(* UnregisterHub(AppID, hub) deletes the entry only if it still holds this *)
(* hub.                                                                    *)
UnregisterHub ==
    /\ cancelled
    /\ hubPc = "stopped"
    /\ ~cleanupDone
    /\ registry' = IF registry = "self" THEN "none" ELSE registry
    /\ cleanupDone' = TRUE
    /\ UNCHANGED <<smVars, clientVars, hubVars, bus, brokerClosed, panicked,
                   cancelled, published, php, lastCall>>

(* Every client has finished and the hub holds nothing: the model stops.   *)
Terminated ==
    /\ \A c \in Clients : pc[c] = "done"
    /\ hubPc \in {"loop", "stopped"}
    /\ UNCHANGED vars

ClientStep(c) ==
    \/ RegisterCheck(c)
    \/ RegisterAdmit(c)
    \/ RegisterCount(c)
    \/ RegisterJoin(c)
    \/ \E ch \in Channels : ReadSubscribe(c, ch)
    \/ \E ch \in Channels : ReadForward(c, ch, "unsubscribe")
    \/ \E ch \in Channels : ReadForward(c, ch, "client_message")
    \/ ReadReply(c)
    \/ ReadEnds(c)
    \/ UnregisterStart(c)
    \/ UnregisterCount(c)
    \/ UnregisterSkip(c)
    \/ UnregisterDone(c)
    \/ WriteFrame(c)

Next ==
    \/ \E c \in Clients : ClientStep(c)
    \/ \E c \in Clients : HubReceiveRequest(c)
    \/ HubReceiveBroadcast
    \/ HubShutdown
    \/ HubStopped
    \/ \E i \in Shards : ShardReceive(i)
    \/ \E i \in Shards, c \in Clients : ShardCleanup(i, c)
    \/ \E i \in Shards : ShardStop(i)
    \/ \E ch \in Channels, v \in BOOLEAN : PhpPublish(ch, v)
    \/ \E l \in MultiLists, v \in BOOLEAN : PhpBroadcastMulti(l, v, TRUE)
    \/ PhpBroadcastMulti(<<>>, TRUE, FALSE)
    \/ \E ch \in Channels : HubPublish(ch)
    \/ PhpReturn
    \/ Cancel
    \/ UnregisterHub
    \/ Reload
    \/ Terminated

(* The Hub and shard goroutines are always scheduled when one of their     *)
(* select cases is ready (Go picks among ready cases at random); a         *)
(* client's own goroutine runs to its next blocking point, and a read on a *)
(* connection the server closed fails.  Peers (which frames arrive, when   *)
(* they hang up) and publishers get no fairness.  Every goroutine takes    *)
(* finitely many steps here, so weak fairness of each kind of goroutine    *)
(* makes every one of them progress.                                       *)
ClientInternal(c) ==
    \/ RegisterCheck(c) \/ RegisterAdmit(c) \/ RegisterCount(c) \/ RegisterJoin(c)
    \/ connClosed[c] /\ ReadEnds(c)
    \/ UnregisterStart(c) \/ UnregisterCount(c) \/ UnregisterSkip(c) \/ UnregisterDone(c)

HubStep ==
    \/ \E c \in Clients : HubReceiveRequest(c)
    \/ HubReceiveBroadcast \/ HubShutdown \/ HubStopped

ShardStep(i) ==
    \/ ShardReceive(i) \/ ShardStop(i)
    \/ \E c \in Clients : ShardCleanup(i, c)

Fairness ==
    /\ WF_vars(\E c \in Clients : ClientInternal(c))
    /\ WF_vars(HubStep)
    /\ WF_vars(\E i \in Shards : ShardStep(i))

Spec == Init /\ [][Next]_vars /\ Fairness

-----------------------------------------------------------------------------
ReplyFrame == {Reply(ev) : ev \in {"connection_established", "pong", "error"}}

TypeOK ==
    /\ channels \in [Channels -> SUBSET Clients]
    /\ clients \in [Clients -> SUBSET Channels]
    /\ outbox \in [Clients -> Seq(SMOps!Frame \cup ReplyFrame)]
    /\ pc \in [Clients -> {"new", "admitting", "counting", "joining", "reading", "sending",
                           "unregistering", "leaving", "cleanup", "done"}]
    /\ req \in [Clients -> Request \cup {NoReq}]
    /\ framesLeft \in [Clients -> 0 .. MaxFrames]
    /\ shardMask \in [Clients -> SUBSET Shards]
    /\ cleanupIdx \in [Clients -> 0 .. NumShards]
    /\ connClosed \in [Clients -> BOOLEAN]
    /\ hubClients \subseteq Clients /\ wg \subseteq Clients
    /\ conns \in Int
    /\ hubPc \in {"loop", "forwarding", "draining", "stopped"}
    /\ held \in Request \cup {NoReq}
    /\ shardUp \in [Shards -> BOOLEAN]
    /\ bus \in Seq(Channels) /\ Len(bus) <= BusCap
    /\ published \in 0 .. MaxPublish
    /\ registry \in {"self", "newer", "none"} /\ cleanupDone \in BOOLEAN
    /\ php \in [pc : {"idle", "publishing"}, todo : Seq(Channels), ok : BOOLEAN,
               valid : BOOLEAN, asked : Nat, appended : Nat]
    /\ lastCall \in [result : BOOLEAN, found : BOOLEAN, parsed : BOOLEAN,
                    asked : Nat, appended : Nat, valid : BOOLEAN]
    /\ brokerClosed \in BOOLEAN /\ panicked \in BOOLEAN /\ cancelled \in BOOLEAN

(* A request of c that the Hub has taken but no shard has applied yet.     *)
InFlight(c) == hubPc = "forwarding" /\ held.kind # "broadcast" /\ held.c = c

(* Spec section 5: h.conns never exceeds max_connections, since Register   *)
(* checks it before indexing a client.                                     *)
ConnectionsBounded == conns <= MaxConnections

(* Spec invariant 3: h.conns equals the size of h.clients whenever no     *)
(* Register or Unregister is between its clientsMu section and its        *)
(* conns.Add.  Each updates the map under the lock and the counter after  *)
(* it, so concurrent handshakes, hang-ups and over-capacity rejections    *)
(* must still leave the two in step once each call has gone through.      *)
Quiescent == \A c \in Clients : pc[c] \notin {"counting", "leaving"}

ConnectionCountMatchesClients ==
    Quiescent => conns = Cardinality(hubClients)

(* Once a client's readPump has returned and Unregister has finished, and  *)
(* none of its requests is still in flight, no shard index and no presence *)
(* roster refers to it (spec 4.1: cleanup reaches every shard that holds   *)
(* state for the client).                                                  *)
DisconnectedClientForgotten ==
    \A c \in Clients :
        (pc[c] = "done" /\ ~InFlight(c) /\ ~cancelled) =>
            /\ \A ch \in Channels : c \notin channels[ch]
            /\ \A ch \in DOMAIN clientToUser : c \notin DOMAIN clientToUser[ch]

(* A client whose readPump has returned always gets through Unregister:    *)
(* every cleanup send meets its shard or the cancelled context.            *)
UnregisterCompletes ==
    \A c \in Clients : (pc[c] = "unregistering") ~> (pc[c] = "done")

(* Spec section 5 (Cancellation): cancelling the module context ends      *)
(* Hub.Run, so WebsocketModule.Cleanup's hub.Wait() returns, provided      *)
(* every peer eventually hangs up (the hub only closes the connections it  *)
(* has registered when it starts draining; a later one waits for its peer). *)
ShutdownCompletes ==
    (\A c \in Clients : WF_vars(ReadEnds(c))) => (cancelled ~> (hubPc = "stopped"))

(* Spec 6 and 8: the bool publish / broadcast_multi hand back to PHP is    *)
(* true iff the hub was found, the channel list parsed, and every one of   *)
(* its channels' messages entered the broker; a message over the protocol  *)
(* limits never enters it.  The broker may close, and Cleanup unregister   *)
(* the hub, between GetHub and any of the loop's hub.Publish calls.        *)
PublishResultTruthful ==
    /\ lastCall.result = (lastCall.found /\ lastCall.parsed
                             /\ lastCall.appended = lastCall.asked)
    /\ ~lastCall.valid => lastCall.appended = 0

(* Spec 4.5: Publish on a closed broker fails; it never crashes the        *)
(* process.                                                                *)
NoPublishPanic == ~panicked
=============================================================================
