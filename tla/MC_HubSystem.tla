---------------------------- MODULE MC_HubSystem ----------------------------
(* Two clients and two shards.  Channels are routed by getShard's FNV-1a   *)
(* of their names: "news" falls on shard 0, "presence-lobby" and           *)
(* "private-lobby" on shard 1.  No Hub property reads a                    *)
(* frame's content, so every frame is the same value: queues keep their    *)
(* length and their drops.                                                 *)
EXTENDS HubSystem, TLC

CONSTANT pub

(* The channel names, as byte strings.                                     *)
News == <<110, 101, 119, 115>>
PresenceLobby == <<112, 114, 101, 115, 101, 110, 99, 101, 45, 108, 111, 98, 98, 121>>
PrivateLobby == <<112, 114, 105, 118, 97, 116, 101, 45, 108, 111, 98, 98, 121>>

MCName(ch) ==
    CASE ch = pub                -> News
      [] ch \in PresenceChannels -> PresenceLobby
      [] OTHER                   -> PrivateLobby

(* getShard of the names with two shards; the ASSUMEs below check it.     *)
MCShardOf == [ch \in Channels |-> IF ch = pub THEN 0 ELSE 1]

(* Published FNV-1a 32-bit test vectors: "", "a" and "foobar" hash to     *)
(* 0x811c9dc5, 0xe40c292c and 0xbf9cf968.                                  *)
FnvVectors ==
    { <<<<>>, <<\h811C, \h9DC5>> >>,
      <<<<97>>, <<\hE40C, \h292C>> >>,
      <<<<102, 111, 111, 98, 97, 114>>, <<\hBF9C, \hF968>> >> }

(* The FNV-1a limb arithmetic reproduces the published vectors, and the    *)
(* shard table above is getShard of the names: checked once, when TLC      *)
(* loads the model.                                                        *)
ASSUME \A v \in FnvVectors : Fnv1a32(v[1]) = v[2]
ASSUME \A ch \in Channels : ShardOf[ch] = GetShard(MCName(ch), NumShards)

-----------------------------------------------------------------------------
Cfg == INSTANCE ModuleConfig

(* A Caddyfile for the modelled hub: the required directives, num_shards 2 *)
(* and nothing else; NumCPU does not matter once num_shards is given.      *)
MCDirectives ==
    [ app_id |-> TRUE, auth_script |-> TRUE, auth_path |-> TRUE,
      num_workers |-> 0, max_connections |-> 0, max_auth_body |-> 0,
      max_concurrent_auth |-> 0, num_shards |-> 2, handshake_rate |-> 0,
      handshake_burst |-> 0, ping_period |-> Cfg!Unset,
      write_wait |-> Cfg!Unset, pong_wait |-> Cfg!Unset ]

MCNumShards == Cfg!Provision(MCDirectives, 1).numShards

(* Directive sets around the shard bounds: num_shards omitted, negative,   *)
(* inside and beyond 64, on machines below, inside and beyond the NumCPU   *)
(* clamp, with ping_period unset, unparsable and sub-second.               *)
ShardDirectives ==
    { [MCDirectives EXCEPT !.num_shards = n, !.ping_period = p] :
        n \in {-1, 0, 3, 64, 65}, p \in {Cfg!Unset, Cfg!Invalid, Cfg!Dur(500)} }
CPUs == {1, 3, 40}

(* Spec section 8: the shard count is load-bearing for the 64-bit          *)
(* membership bitmap.  Whatever num_shards and NumCPU are, a hub that       *)
(* Provision starts has at least one shard and every one of its shard ids  *)
(* is recorded by AddShard and found by HasShard, so Unregister's cleanup   *)
(* loop reaches every shard a client joined.  Provision runs before any     *)
(* connection, so this is checked while no client has started.            *)
ShardsFitBitmap ==
    (\A c \in Clients : pc[c] = "new") =>
        \A d \in ShardDirectives, cpu \in CPUs :
            LET p == Cfg!Provision(d, cpu)
            IN  ~p.err =>
                    /\ p.numShards >= 1
                    /\ \A i \in 0 .. p.numShards - 1 : HasShard(AddShard({}, i), i)

MCFrameOf(ev, ch, u) == "frame"
MCSymmetry == Permutations(Clients)

(* broadcast_multi names both channels, one per shard.                     *)
MCMultiLists == {<<pub, ch>> : ch \in Channels \ {pub}}
=============================================================================
