----------------------- MODULE MC_SubscriptionManager -----------------------
(* One shard with three clients, a public and a presence channel, and two  *)
(* user ids, so that two clients can share a user and a third differs.     *)
(* Frames keep their event, channel and user.                              *)
EXTENDS SubscriptionManager, TLC

MCFrameOf(ev, ch, u) == [ev |-> ev, ch |-> ch, user |-> u]
MCSymmetry == Permutations(Clients) \cup Permutations(Users)
=============================================================================
