------------------------- MODULE SubscriptionManager -------------------------
(***************************************************************************)
(* The subscription state one hub shard owns (src/mod/subscription.go):    *)
(* the channel -> clients index, its mirror client -> channels, the        *)
(* presence roster and the client -> user_id map of every presence         *)
(* channel, the webhook notifications a shard emits, and the bounded send  *)
(* queue of every client that the shard's fan-out writes into.             *)
(*                                                                         *)
(* Every operation is single-threaded inside a shard loop, so each one is  *)
(* a pure state transformer (an ...Op operator) applied atomically by one  *)
(* action.  The transformers are reused by HubSystem, where several shards *)
(* apply them to the channels they own.  A channel name is a model value;  *)
(* its kind (public, private-, presence-) is given by the sets below.      *)
(* A member's user_info and the JSON wording of every frame are left out:  *)
(* a frame is FrameOf(event, channel, user_id); a model that never reads   *)
(* frames may map them all to one value and keep only the queue lengths.   *)
(***************************************************************************)
EXTENDS Naturals, FiniteSets, Sequences, SequencesExt

CONSTANTS
    Clients,           \* the live *Client values
    Channels,          \* channel names
    PresenceChannels,  \* names with the "presence-" prefix
    PrivateChannels,   \* names with the "private-" prefix
    Users,             \* user_id values an authorizer can put in channel_data
    NoUser,            \* channel_data missing, unparseable, or user_id "" / null
    QueueCap,          \* capacity of Client.send (256 in caddy.go)
    FrameOf(_, _, _)   \* the frame for an event, channel and user_id

ASSUME /\ PresenceChannels \subseteq Channels
       /\ PrivateChannels \subseteq Channels
       /\ PresenceChannels \cap PrivateChannels = {}
       /\ NoUser \notin Users
       /\ QueueCap \in Nat \ {0}

VARIABLES
    channels,      \* channels[ch]: subscribers of ch ({} = no map entry)
    clients,       \* clients[c]: channels c is subscribed to
    presence,      \* partial map: presence[ch] = user_ids on the roster
    clientToUser,  \* partial map: clientToUser[ch][c] = user_id of c on ch
    outbox,        \* outbox[c]: frames queued on c.send, oldest first
    webhook        \* webhook[ch]: the last notification the shard issued

smVars == <<channels, clients, presence, clientToUser, outbox, webhook>>

-----------------------------------------------------------------------------
(* Frames a shard puts on a client's send queue.                           *)
Events == {"subscription_succeeded", "member_added", "member_removed",
           "event", "client_event"}

Frame == {FrameOf(e, ch, u) : e \in Events, ch \in Channels, u \in Users \cup {NoUser}}

Msg(ev, ch, u) == FrameOf(ev, ch, u)

(* Partial maps: a Go map is a function whose domain is its key set.       *)
MapPut(f, k, v) == [x \in DOMAIN f \cup {k} |-> IF x = k THEN v ELSE f[x]]

MapDelete(f, k) == [x \in DOMAIN f \ {k} |-> f[x]]

EmptyMap == [x \in {} |-> NoUser]

(* Variant of SendTo that ignores the queue bound (a blocking or          *)
(* unbounded send instead of the select with default).                     *)
SendToUnbounded(ob, targets, m) ==
    [x \in DOMAIN ob |-> IF x \in targets THEN Append(ob[x], m) ELSE ob[x]]

(* Client.Send: a non-blocking send on c.send; a full queue drops the      *)
(* frame (DroppedMessages.Inc).  SendTo sends one frame to each target.    *)
SendTo(ob, targets, m) ==
    [x \in DOMAIN ob |-> IF x \in targets /\ Len(ob[x]) < QueueCap
                         THEN Append(ob[x], m) ELSE ob[x]]

(* The whole shard state as one record, so that operations compose.       *)
SM == [channels |-> channels, clients |-> clients, presence |-> presence,
       clientToUser |-> clientToUser, outbox |-> outbox, webhook |-> webhook]

Apply(s) ==
    /\ channels' = s.channels
    /\ clients' = s.clients
    /\ presence' = s.presence
    /\ clientToUser' = s.clientToUser
    /\ outbox' = s.outbox
    /\ webhook' = s.webhook

-----------------------------------------------------------------------------
(* handlePresenceSubscribe: parse the auth data, record the member and the *)
(* client's user_id, reply with the roster, and announce a first join to   *)
(* the other subscribers.  Invalid data returns after the caller has       *)
(* already put the client in both indices.                                 *)
PresenceSubscribeOp(s, c, ch, u) ==
    IF u = NoUser THEN s
    ELSE LET allocated == ch \in DOMAIN s.presence
             roster    == IF allocated THEN s.presence[ch] ELSE {}
             users     == IF allocated THEN s.clientToUser[ch] ELSE EmptyMap
             already   == u \in roster
         IN [s EXCEPT
               !.presence     = MapPut(@, ch, roster \cup {u}),
               !.clientToUser = MapPut(@, ch, MapPut(users, c, u)),
               !.outbox = SendTo(SendTo(@, {c}, Msg("subscription_succeeded", ch, u)),
                                 IF already THEN {} ELSE s.channels[ch] \ {c},
                                 Msg("member_added", ch, u))]

(* SubscriptionManager.Subscribe.                                          *)
SubscribeOp(s, c, ch, u) ==
    LET s1 == [s EXCEPT !.channels[ch] = @ \cup {c},
                        !.clients[c] = @ \cup {ch},
                        !.webhook[ch] = IF s.channels[ch] = {} THEN "occupied" ELSE @]
    IN IF ch \in PresenceChannels
       THEN PresenceSubscribeOp(s1, c, ch, u)
       ELSE [s1 EXCEPT !.outbox = SendTo(@, {c}, Msg("subscription_succeeded", ch, NoUser))]

(* handlePresenceUnsubscribe: drop c's user_id; when no other client of    *)
(* the channel maps to it, drop the member and tell the subscribers left.  *)
PresenceUnsubscribeOp(s, c, ch) ==
    IF ch \in DOMAIN s.clientToUser /\ c \in DOMAIN s.clientToUser[ch]
    THEN LET uid   == s.clientToUser[ch][c]
             rest  == MapDelete(s.clientToUser[ch], c)
             still == \E x \in DOMAIN rest : rest[x] = uid
         IN [s EXCEPT
               !.clientToUser[ch] = rest,
               !.presence[ch] = IF still THEN @ ELSE @ \ {uid},
               !.outbox = IF still THEN @
                          ELSE SendTo(@, s.channels[ch], Msg("member_removed", ch, uid))]
    ELSE s

(* Variants of UnsubscribeOp: one leaves sm.clients alone, one skips the   *)
(* presence bookkeeping, one tests len(clients) == 0 before the delete.    *)
UnsubscribeOpKeepsClient(s, c, ch) ==
    LET s1 == [s EXCEPT !.channels[ch] = @ \ {c},
                        !.webhook[ch] = IF s.channels[ch] = {c} THEN "vacated" ELSE @]
    IN IF ch \in PresenceChannels THEN PresenceUnsubscribeOp(s1, c, ch) ELSE s1

UnsubscribeOpSkipsPresence(s, c, ch) ==
    [s EXCEPT !.channels[ch] = @ \ {c},
              !.clients[c] = @ \ {ch},
              !.webhook[ch] = IF s.channels[ch] = {c} THEN "vacated" ELSE @]

UnsubscribeOpVacatedBeforeDelete(s, c, ch) ==
    LET s1 == [s EXCEPT !.channels[ch] = @ \ {c},
                        !.clients[c] = @ \ {ch},
                        !.webhook[ch] = IF s.channels[ch] = {} THEN "vacated" ELSE @]
    IN IF ch \in PresenceChannels THEN PresenceUnsubscribeOp(s1, c, ch) ELSE s1

(* SubscriptionManager.Unsubscribe: idempotent; the last subscriber        *)
(* leaving deletes the channel entry and notifies channel_vacated.         *)
UnsubscribeOp(s, c, ch) ==
    LET s1 == [s EXCEPT !.channels[ch] = @ \ {c},
                        !.clients[c] = @ \ {ch},
                        !.webhook[ch] = IF s.channels[ch] = {c} THEN "vacated" ELSE @]
    IN IF ch \in PresenceChannels THEN PresenceUnsubscribeOp(s1, c, ch) ELSE s1

(* SubscriptionManager.RemoveClient over the channels S a shard owns:      *)
(* Unsubscribe from each of c's channels in Go's map iteration order,      *)
(* which is unspecified (order ranges over every ordering), then delete    *)
(* c's entry.                                                              *)
RemoveClientOp(s, c, order) ==
    FoldLeft(LAMBDA st, ch : UnsubscribeOp(st, c, ch), s, order)

RemoveClientOrders(c, S) == SetToSeqs(clients[c] \cap S)

(* SubscriptionManager.BroadcastToChannel: one prepared frame to every     *)
(* subscriber (the byte-copy fallback has the same effect).                *)
BroadcastToChannelOp(s, ch) ==
    [s EXCEPT !.outbox = SendTo(@, s.channels[ch], Msg("event", ch, NoUser))]

(* SubscriptionManager.BroadcastToOthers: a client-* event is dropped      *)
(* unless the channel is private or presence and the sender subscribes to  *)
(* it; it goes to every other subscriber.                                  *)
BroadcastToOthersOp(s, sender, ch) ==
    IF ch \notin PrivateChannels \cup PresenceChannels \/ ch \notin s.clients[sender]
    THEN s
    ELSE [s EXCEPT !.outbox = SendTo(@, s.channels[ch] \ {sender},
                                      Msg("client_event", ch, NoUser))]

-----------------------------------------------------------------------------
(* A single shard owning every channel, driven by arbitrary requests.      *)
Init ==
    /\ channels = [ch \in Channels |-> {}]
    /\ clients = [c \in Clients |-> {}]
    /\ presence = EmptyMap
    /\ clientToUser = EmptyMap
    /\ outbox = [c \in Clients |-> <<>>]
    /\ webhook = [ch \in Channels |-> "none"]

AuthData(ch) == IF ch \in PresenceChannels THEN Users \cup {NoUser} ELSE {NoUser}

Subscribe(c, ch, u) == Apply(SubscribeOp(SM, c, ch, u))

Unsubscribe(c, ch) == Apply(UnsubscribeOp(SM, c, ch))

RemoveClient(c) ==
    \E order \in RemoveClientOrders(c, Channels) :
        Apply([RemoveClientOp(SM, c, order) EXCEPT !.clients[c] = {}])

BroadcastToChannel(ch) == Apply(BroadcastToChannelOp(SM, ch))

BroadcastToOthers(c, ch) == Apply(BroadcastToOthersOp(SM, c, ch))

(* Client.writePump takes the oldest frame off c.send and writes it.       *)
WriteFrame(c) ==
    /\ outbox[c] # <<>>
    /\ outbox' = [outbox EXCEPT ![c] = Tail(@)]
    /\ UNCHANGED <<channels, clients, presence, clientToUser, webhook>>

Next ==
    \/ \E c \in Clients, ch \in Channels, u \in Users \cup {NoUser} :
          u \in AuthData(ch) /\ Subscribe(c, ch, u)
    \/ \E c \in Clients, ch \in Channels : Unsubscribe(c, ch)
    \/ \E c \in Clients : RemoveClient(c)
    \/ \E ch \in Channels : BroadcastToChannel(ch)
    \/ \E c \in Clients, ch \in Channels : BroadcastToOthers(c, ch)
    \/ \E c \in Clients : WriteFrame(c)

Spec == Init /\ [][Next]_smVars

-----------------------------------------------------------------------------
TypeOK ==
    /\ channels \in [Channels -> SUBSET Clients]
    /\ clients \in [Clients -> SUBSET Channels]
    /\ DOMAIN presence \subseteq PresenceChannels
    /\ DOMAIN clientToUser = DOMAIN presence
    /\ \A ch \in DOMAIN presence :
          /\ presence[ch] \subseteq Users
          /\ DOMAIN clientToUser[ch] \subseteq Clients
          /\ \A c \in DOMAIN clientToUser[ch] : clientToUser[ch][c] \in Users
    /\ outbox \in [Clients -> Seq(Frame)]
    /\ \A c \in Clients : Len(outbox[c]) <= QueueCap
    /\ webhook \in [Channels -> {"none", "occupied", "vacated"}]

(* Spec invariant 1: the channel index and the client index are mirror     *)
(* images after every Subscribe, Unsubscribe and RemoveClient.             *)
IndexMirror ==
    \A c \in Clients, ch \in Channels : c \in channels[ch] <=> ch \in clients[c]

(* Every client a presence channel maps to a user_id is still subscribed   *)
(* to that channel, and its user_id is on the channel's roster: leaving,   *)
(* in any order of RemoveClient, never strands a client -> user entry.     *)
PresenceIndexConsistent ==
    \A ch \in DOMAIN clientToUser : \A c \in DOMAIN clientToUser[ch] :
        /\ c \in channels[ch]
        /\ clientToUser[ch][c] \in presence[ch]

(* The last webhook notification issued for a channel is channel_occupied  *)
(* exactly while the channel has subscribers: Subscribe and Unsubscribe    *)
(* detect the empty <-> non-empty transitions of the channel entry.        *)
WebhookTracksOccupancy ==
    \A ch \in Channels : (channels[ch] # {}) <=> (webhook[ch] = "occupied")

=============================================================================
