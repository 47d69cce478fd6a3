----------------------------- MODULE MC_Handshake -----------------------------
(***************************************************************************)
(* Handshake for TLC.  Protocol queries: absent, "4", "5", "7" and "10".   *)
(* Clock readings in one second with nsec of two and three digits, and a  *)
(* later second, so that ids of different lengths meet.                    *)
(***************************************************************************)
EXTENDS Handshake

MCQueries == {<<>>, <<Digit(4)>>, <<Digit(5)>>, <<Digit(7)>>, <<Digit(1), Digit(0)>>}

MCInstants ==
    {[sec |-> 1, nsec |-> 23], [sec |-> 1, nsec |-> 99], [sec |-> 1, nsec |-> 100],
     [sec |-> 12, nsec |-> 3]}
=============================================================================
