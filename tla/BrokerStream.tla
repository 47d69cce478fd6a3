----------------------------- MODULE BrokerStream -----------------------------
(***************************************************************************)
(* What a cluster broker promises the Hub (spec 4.5): broadcasts accepted *)
(* on any node reach a subscribing Hub at most once and in publication     *)
(* order; any of them may be lost (while the broker is unreachable, or     *)
(* when a payload does not decode).  Messages are numbered 1, 2, ... in    *)
(* the order the broker accepted them.                                     *)
(***************************************************************************)
EXTENDS Naturals, Sequences

CONSTANT MaxMsgs   \* messages accepted in a behaviour

VARIABLES
    accepted,      \* number of messages the broker accepted
    received       \* the messages the Hub received, in order

Init == accepted = 0 /\ received = <<>>

Publish ==
    /\ accepted < MaxMsgs
    /\ accepted' = accepted + 1
    /\ UNCHANGED received

(* The Hub receives a later message than every one it received before;   *)
(* the ones in between are lost.                                          *)
Deliver ==
    \E m \in 1 .. accepted :
        /\ \A i \in DOMAIN received : received[i] < m
        /\ received' = Append(received, m)
        /\ UNCHANGED accepted

Spec == Init /\ [][Publish \/ Deliver]_<<accepted, received>>
=============================================================================
