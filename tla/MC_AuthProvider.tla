--------------------------- MODULE MC_AuthProvider ---------------------------
(***************************************************************************)
(* AuthProvider for TLC: callers are model values; a 200 response writes  *)
(* a body that just fits the cap.                                          *)
(***************************************************************************)
EXTENDS AuthProvider, TLC

CONSTANTS c1, c2, c3

MCCallers == {c1, c2, c3}

(* One write of exactly the cap (with MaxAuthBody = 2).                    *)
MCBodyWrites == {<<2>>}

MCSymmetry == Permutations(MCCallers)

(* Every response of up to three writes of 0 .. MaxAuthBody + 1 bytes.      *)
WriteShapes == UNION {[1 .. k -> 0 .. MaxAuthBody + 1] : k \in 0 .. 3}

CapturerAgrees ==
    \A ws \in WriteShapes :
        LET r == Served(NewCapturer, [err |-> FALSE, status |-> 0, writes |-> ws], 1)
        IN  /\ r.overflow = (SumFunction(ws) > MaxAuthBody)
            /\ ~r.overflow => r.body = [i \in 1 .. SumFunction(ws) |-> 1]

(* responseCapturer.Write over several writes, as a fresh or a reset       *)
(* capturer from the pool receives them while a caller is in doAuthorize:  *)
(* the response overflows exactly when its bytes add up to more than       *)
(* max_auth_body (a body of exactly the cap is kept), and otherwise the    *)
(* captured body is every byte written, in order (spec 4.4).               *)
CapturerMatchesSize == (\E c \in Callers : pc[c] = "call") => CapturerAgrees
=============================================================================
