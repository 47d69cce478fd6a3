------------------------------ MODULE Handshake ------------------------------
(***************************************************************************)
(* WebsocketModule.ServeHTTP (src/caddy.go) up to Hub.Register: the        *)
(* protocol query check, the pass-through of non-upgrade requests, the     *)
(* handshake rate limiter, the upgrade, and the minting of the socket id   *)
(* from the wall clock.  Register and the pumps that follow are modelled   *)
(* in HubSystem.                                                           *)
(*                                                                         *)
(* Strings are sequences of byte values, compared the way Go compares      *)
(* strings (byte-wise, a proper prefix first).  The limiter is             *)
(* golang.org/x/time/rate; whether it allows a handshake is left to the    *)
(* environment.  A clock reading is [sec, nsec] with nsec < 10^9, the two  *)
(* parts of UnixNano() that the id is formatted from.                      *)
(***************************************************************************)
EXTENDS Integers, Sequences

CONSTANTS
    Queries,     \* values of the protocol query parameter (<<>> = absent)
    Instants,    \* wall-clock readings a handshake can observe
    LimiterOn,   \* handshake_rate >= 0, so Provision built a limiter
    MaxReqs      \* bound on requests in a behaviour

ASSUME /\ LimiterOn \in BOOLEAN /\ MaxReqs \in Nat
       /\ \A t \in Instants : t.sec \in Nat /\ t.nsec \in 0 .. 999999999

Dot == 46                          \* the byte "."
Digit(d) == 48 + d                 \* the byte of decimal digit d

(* Go's a < b on strings.                                                   *)
RECURSIVE StrLess(_, _)
StrLess(a, b) ==
    CASE b = <<>> -> FALSE
      [] a = <<>> -> TRUE
      [] Head(a) # Head(b) -> Head(a) < Head(b)
      [] OTHER -> StrLess(Tail(a), Tail(b))

(* %d of a natural: its decimal digits, most significant first, no padding. *)
RECURSIVE Decimal(_)
Decimal(n) == IF n < 10 THEN <<Digit(n)>> ELSE Decimal(n \div 10) \o <<Digit(n % 10)>>

(* clientID := fmt.Sprintf("%d.%d", nano/1e9, nano%1e9).                    *)
SocketID(t) == Decimal(t.sec) \o <<Dot>> \o Decimal(t.nsec)

(* The clock only moves forward here (a wall clock may also step back).    *)
Later(t, u) == t.sec > u.sec \/ (t.sec = u.sec /\ t.nsec > u.nsec)

VARIABLES
    now,      \* the wall clock
    served,   \* every request so far: its protocol query and how it ended
    minted,   \* the socket ids of upgraded connections, in minting order
    reqs      \* requests so far

vars == <<now, served, minted, reqs>>

Outcomes == {"bad_protocol", "next_handler", "too_many_requests", "upgrade_failed", "upgraded"}

Init ==
    /\ now \in Instants
    /\ served = <<>>
    /\ minted = <<>>
    /\ reqs = 0

(* Time passes between handshakes.                                          *)
Advance ==
    /\ \E t \in Instants : Later(t, now) /\ now' = t
    /\ UNCHANGED <<served, minted, reqs>>

(* ServeHTTP for a request with protocol query q, which is or is not a     *)
(* WebSocket upgrade, meets a limiter that does or does not allow it, and  *)
(* whose upgrade does or does not succeed.                                 *)
ServeHTTP ==
    /\ reqs < MaxReqs
    /\ reqs' = reqs + 1
    /\ \E q \in Queries, isUpgrade \in BOOLEAN, allowed \in BOOLEAN, upgradeOk \in BOOLEAN :
          /\ LimiterOn \/ allowed
          /\ LET outcome ==
                    CASE q # <<>> /\ StrLess(q, <<Digit(5)>>) -> "bad_protocol"
                      [] ~isUpgrade -> "next_handler"
                      [] ~allowed -> "too_many_requests"
                      [] ~upgradeOk -> "upgrade_failed"
                      [] OTHER -> "upgraded"
             IN /\ served' = Append(served, [q |-> q, outcome |-> outcome])
                /\ minted' = IF outcome = "upgraded"
                             THEN Append(minted, [at |-> now, id |-> SocketID(now)])
                             ELSE minted
    /\ UNCHANGED now

(* Every request has been served.                                          *)
Done ==
    /\ reqs = MaxReqs
    /\ UNCHANGED vars

Next == Advance \/ ServeHTTP \/ Done

Spec == Init /\ [][Next]_vars

-----------------------------------------------------------------------------
TypeOK ==
    /\ now \in Instants
    /\ served \in Seq([q : Queries, outcome : Outcomes]) /\ Len(served) = reqs
    /\ minted \in Seq([at : Instants, id : Seq(Nat)])
    /\ reqs \in 0 .. MaxReqs

(* The value of a string of decimal digits (a reference, not code).        *)
RECURSIVE DigitsValue(_)
DigitsValue(s) ==
    IF s = <<>> THEN 0
    ELSE DigitsValue(SubSeq(s, 1, Len(s) - 1)) * 10 + (s[Len(s)] - Digit(0))

(* Spec 1: the server speaks protocol version 5 and later, so a request    *)
(* is refused as unsupported exactly when its protocol query names a       *)
(* version below 5 (checked by a violation run: the code compares the      *)
(* query with "5" as strings).                                             *)
ProtocolCheckMatchesVersion ==
    \A k \in DOMAIN served :
        (served[k].outcome = "bad_protocol") <=>
            (served[k].q # <<>> /\ DigitsValue(served[k].q) < 5)
=============================================================================
