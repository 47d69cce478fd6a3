---------------------------- MODULE ModuleConfig ----------------------------
(***************************************************************************)
(* What WebsocketModule.Provision (src/caddy.go) makes of the Caddyfile    *)
(* directives: validateAndDefaults, the limiter defaults, and the clamps   *)
(* that NewHub (src/hub.go) and NewWorkerAuthProvider (src/auth.go) apply   *)
(* to the values they are handed.  These are pure operators; HubSystem      *)
(* takes its shard count and connection bound from them in MC_HubSystem.   *)
(*                                                                         *)
(* A directive record gives each integer directive its value (0 when the  *)
(* Caddyfile omits it) and each string directive whether it is set.  A    *)
(* duration directive is Unset, Invalid (time.ParseDuration fails) or     *)
(* Dur(ms), the milliseconds ParseDuration returns.                        *)
(***************************************************************************)
EXTENDS Integers

Unset == [given |-> FALSE, parses |-> TRUE, ms |-> 0]
Invalid == [given |-> TRUE, parses |-> FALSE, ms |-> 0]
Dur(ms) == [given |-> TRUE, parses |-> TRUE, ms |-> ms]

(* module/client.go: DefaultPongWait 60s, DefaultPingPeriod 9/10 of it,   *)
(* DefaultWriteWait 10s, in milliseconds.                                  *)
DefaultWriteWait == 10000
DefaultPongWait == 60000
DefaultPingPeriod == (DefaultPongWait * 9) \div 10

(* A duration directive: the default when unset, else what it parses to.   *)
ParsedOr(dur, default) == IF dur.given THEN dur.ms ELSE default

(* validateAndDefaults: the required strings, the integer defaults, the    *)
(* NumCPU-based shard default clamped to 4 .. 64, and the three durations, *)
(* each of which fails the whole call when it does not parse.              *)
ValidateAndDefaults(d, numCPU) ==
    LET cpuShards == IF numCPU * 2 > 64 THEN 64
                     ELSE IF numCPU * 2 < 4 THEN 4 ELSE numCPU * 2
        Or(v, default) == IF v = 0 THEN default ELSE v
    IN  [ err |-> ~d.app_id \/ ~d.auth_script \/ ~d.auth_path
                  \/ \E dur \in {d.ping_period, d.write_wait, d.pong_wait} : ~dur.parses,
          numWorkers |-> Or(d.num_workers, 2),
          maxConnections |-> Or(d.max_connections, 10000),
          maxAuthBody |-> Or(d.max_auth_body, 16 * 1024),
          maxConcurrentAuth |-> Or(d.max_concurrent_auth, 100),
          numShards |-> Or(d.num_shards, cpuShards),
          handshakeRate |-> d.handshake_rate,
          handshakeBurst |-> d.handshake_burst,
          pingPeriod |-> ParsedOr(d.ping_period, DefaultPingPeriod),
          writeWait |-> ParsedOr(d.write_wait, DefaultWriteWait),
          pongWait |-> ParsedOr(d.pong_wait, DefaultPongWait) ]

(* NewHub's shard count: 32 when not positive, at most 64.                 *)
NewHubShardsUnclamped(n) == IF n <= 0 THEN 32 ELSE n

NewHubShards(n) ==
    IF n <= 0 THEN 32 ELSE IF n > 64 THEN 64 ELSE n

(* NewHub's activity_timeout: the ping period in whole seconds (Go's       *)
(* int(d.Seconds()) truncates towards zero), 120 when below one.           *)
ActivityTimeout(pingMs) ==
    LET sec == IF pingMs >= 0 THEN pingMs \div 1000 ELSE -((-pingMs) \div 1000)
    IN  IF sec < 1 THEN 120 ELSE sec

(* NewWorkerAuthProvider's semaphore depth: 100 when not positive.         *)
SemaphoreDepth(n) == IF n <= 0 THEN 100 ELSE n

(* Provision's limiter: none for a negative rate; else rate 0 means 100    *)
(* and burst 0 means 50.                                                   *)
Limiter(rate, burst) ==
    [ on |-> rate >= 0,
      rate |-> IF rate = 0 THEN 100 ELSE rate,
      burst |-> IF burst = 0 THEN 50 ELSE burst ]

(* Provision from the directives to the running Hub: an error stops it     *)
(* before any worker, broker or hub exists; setupWorkers, setupBroker and  *)
(* RegisterHub return nil.                                                 *)
Provision(d, numCPU) ==
    LET v == ValidateAndDefaults(d, numCPU)
    IN  [ err |-> v.err,
          numShards |-> NewHubShards(v.numShards),
          maxConnections |-> v.maxConnections,
          activityTimeout |-> ActivityTimeout(v.pingPeriod),
          maxAuthBody |-> v.maxAuthBody,
          semaphore |-> SemaphoreDepth(v.maxConcurrentAuth),
          limiter |-> Limiter(v.handshakeRate, v.handshakeBurst),
          pingPeriod |-> v.pingPeriod,
          pongWait |-> v.pongWait ]
=============================================================================
