---------------------------- MODULE AuthProvider ----------------------------
(***************************************************************************)
(* WorkerAuthProvider.Authorize (src/auth.go) called concurrently by the  *)
(* readPumps of several clients: the non-blocking semaphore, the circuit  *)
(* breaker around doAuthorize, the pooled responseCapturer with its size  *)
(* cap, and the classification of the worker's response.                  *)
(*                                                                         *)
(* The breaker is gobreaker configured by the Settings of                  *)
(* NewWorkerAuthProvider: MaxRequests 1, Interval 0, Timeout 10s,          *)
(* ReadyToTrip at CBThreshold consecutive failures.  Its state machine is  *)
(* gobreaker's: every state change starts a new generation and clears the  *)
(* counts, and a result that comes back in a later generation than the    *)
(* one its request was admitted in is ignored.  Time is not modelled: the *)
(* open state may end at any moment (Expire), and a worker call may take   *)
(* any time, as SendRequest's 3s context is only a request to the worker. *)
(*                                                                         *)
(* The bytes a worker writes are tagged with the serial number of the      *)
(* call they answer, so a byte left over from another call is visible.     *)
(***************************************************************************)
EXTENDS Integers, Sequences, SequencesExt, FiniteSets

CONSTANTS
    Callers,        \* readPumps that may call Authorize concurrently
    MaxConcurrent,  \* max_concurrent_auth: the semaphore's depth
    MaxAuthBody,    \* max_auth_body: the capturer's size cap
    MaxCalls,       \* bound on Authorize calls in a behaviour
    Writes          \* the sequences of Write lengths a worker response may make

ASSUME /\ MaxConcurrent \in Nat \ {0} /\ MaxAuthBody \in Nat /\ MaxCalls \in Nat
       /\ Writes \subseteq Seq(Nat \ {0})

CBThreshold == 5        \* auth.go: CBThreshold
MaxRequests == 1        \* gobreaker.Settings.MaxRequests

VARIABLES
    pc,          \* per caller: "idle", "admit" (holds a slot), "call" (in doAuthorize)
    sem,         \* slots taken in ap.sem
    cb,          \* the breaker: state, generation, counts
    gen,         \* per caller: the generation its request was admitted in
    rr,          \* per caller: the responseCapturer it took from the pool
    pool,        \* capturers in capturerPool
    serial,      \* per caller: the number of its current call
    calls,       \* Authorize calls so far
    result,      \* per caller: the AuthResult of its last call and why
    resp         \* per caller: the worker response its last call got

vars == <<pc, sem, cb, gen, rr, pool, serial, calls, result, resp>>

(* A responseCapturer: status, body (one tag per byte), overflow flag.     *)
(* The header map is cleared on release too, but nothing reads it.         *)
Capturer == [status : {200, 403, 500}, body : Seq(1 .. MaxCalls), overflow : BOOLEAN]

(* capturerPool.New.                                                        *)
NewCapturer == [status |-> 200, body |-> <<>>, overflow |-> FALSE]

NoCapturer == [status |-> 0, body |-> <<>>, overflow |-> FALSE]

(* A worker response: a dispatch error, or a status set by WriteHeader (0  *)
(* when the worker never calls it) and the lengths of its Writes.  A       *)
(* dispatch error may come after some bytes were written.                  *)
Responses ==
    [err : {TRUE}, status : {0}, writes : Writes]
        \cup [err : {FALSE}, status : {0, 403, 500}, writes : Writes]

NoResp == [err |-> FALSE, status |-> 0, writes |-> <<>>]

Reasons == {"none", "allowed", "denied", "concurrency_limit", "breaker_open",
            "too_many_requests", "dispatch_error", "body_overflow", "worker_error"}

NoResult == [allowed |-> FALSE, data |-> <<>>, reason |-> "none"]

Breaker == [state : {"closed", "open", "halfopen"}, generation : Nat,
            requests : Nat, failures : Nat, successes : Nat]

Init ==
    /\ pc = [c \in Callers |-> "idle"]
    /\ sem = 0
    /\ cb = [state |-> "closed", generation |-> 0, requests |-> 0,
             failures |-> 0, successes |-> 0]
    /\ gen = [c \in Callers |-> 0]
    /\ rr = [c \in Callers |-> NoCapturer]
    /\ pool = {}
    /\ serial = [c \in Callers |-> 0]
    /\ calls = 0
    /\ result = [c \in Callers |-> NoResult]
    /\ resp = [c \in Callers |-> NoResp]
-----------------------------------------------------------------------------
(* The breaker (gobreaker.CircuitBreaker with the provider's Settings).    *)

(* setState: a new generation in state st with cleared counts.             *)
NewGeneration(b, st) ==
    [state |-> st, generation |-> b.generation + 1, requests |-> 0,
     failures |-> 0, successes |-> 0]

(* Variant of Refusal that lets a second request through in half-open.    *)
RefusalOffByOne(b) ==
    CASE b.state = "open" -> "breaker_open"
      [] b.state = "halfopen" /\ b.requests > MaxRequests -> "too_many_requests"
      [] OTHER -> "none"

(* beforeRequest's refusals: ErrOpenState, and ErrTooManyRequests once     *)
(* half-open has admitted MaxRequests requests.                            *)
Refusal(b) ==
    CASE b.state = "open" -> "breaker_open"
      [] b.state = "halfopen" /\ b.requests >= MaxRequests -> "too_many_requests"
      [] OTHER -> "none"

(* afterRequest: a result from an earlier generation is dropped; in closed *)
(* a failure trips the breaker once ReadyToTrip holds, in half-open one    *)
(* success closes it and one failure reopens it.                           *)
AfterRequest(b, g, success) ==
    IF g # b.generation THEN b
    ELSE IF success
    THEN LET s == [b EXCEPT !.successes = @ + 1, !.failures = 0]
         IN IF b.state = "halfopen" /\ s.successes >= MaxRequests
            THEN NewGeneration(b, "closed") ELSE s
    ELSE LET f == [b EXCEPT !.failures = @ + 1, !.successes = 0]
         IN IF b.state = "halfopen" \/ f.failures >= CBThreshold
            THEN NewGeneration(b, "open") ELSE f

-----------------------------------------------------------------------------
(* The capture buffer.                                                      *)

(* Variant of CapturerWrite that treats a body of exactly maxSize as an   *)
(* overflow.                                                               *)
CapturerWriteOffByOne(r, n, t) ==
    IF r.overflow THEN r
    ELSE IF Len(r.body) + n >= MaxAuthBody THEN [r EXCEPT !.overflow = TRUE]
    ELSE [r EXCEPT !.body = @ \o [i \in 1 .. n |-> t]]

(* responseCapturer.Write of n bytes tagged t: once overflowed it swallows *)
(* everything; a write that would take the body past maxSize sets          *)
(* overflow and is dropped whole.                                          *)
CapturerWrite(r, n, t) ==
    IF r.overflow THEN r
    ELSE IF Len(r.body) + n > MaxAuthBody THEN [r EXCEPT !.overflow = TRUE]
    ELSE [r EXCEPT !.body = @ \o [i \in 1 .. n |-> t]]

(* SendRequest: the worker sets the status (if it calls WriteHeader) and   *)
(* makes its writes, all tagged with the call's serial number.             *)
Served(r, p, t) ==
    LET w(acc, n) == CapturerWrite(acc, n, t)
    IN FoldLeft(w, IF p.status = 0 THEN r ELSE [r EXCEPT !.status = p.status], p.writes)

(* Variant of Reset that leaves the body buffer as it was.                 *)
ResetKeepsBody(r) == [r EXCEPT !.status = 200, !.overflow = FALSE]

(* The deferred reset before capturerPool.Put.                             *)
Reset(r) == [r EXCEPT !.body = <<>>, !.status = 200, !.overflow = FALSE]

(* doAuthorize's classification of a served capturer: the AuthResult, the  *)
(* reason recorded, and whether the breaker sees an error.                 *)
Classify(p, r) ==
    CASE p.err -> [allowed |-> FALSE, data |-> <<>>, reason |-> "dispatch_error", failed |-> TRUE]
      [] r.overflow -> [allowed |-> FALSE, data |-> <<>>, reason |-> "body_overflow", failed |-> FALSE]
      [] r.status >= 500 -> [allowed |-> FALSE, data |-> <<>>, reason |-> "worker_error", failed |-> TRUE]
      [] r.status # 200 -> [allowed |-> FALSE, data |-> <<>>, reason |-> "denied", failed |-> FALSE]
      [] OTHER -> [allowed |-> TRUE, data |-> r.body, reason |-> "allowed", failed |-> FALSE]

-----------------------------------------------------------------------------
(* Variant of Acquire whose semaphore holds one slot more than configured. *)
AcquireOffByOne(c) ==
    /\ pc[c] = "idle"
    /\ calls < MaxCalls
    /\ calls' = calls + 1
    /\ serial' = [serial EXCEPT ![c] = calls + 1]
    /\ IF sem <= MaxConcurrent
       THEN /\ sem' = sem + 1
            /\ pc' = [pc EXCEPT ![c] = "admit"]
            /\ UNCHANGED result
       ELSE /\ result' = [result EXCEPT ![c] = [NoResult EXCEPT !.reason = "concurrency_limit"]]
            /\ UNCHANGED <<sem, pc>>
    /\ UNCHANGED <<cb, gen, rr, pool, resp>>

(* Authorize, select on ap.sem: take a slot, or reject at once with        *)
(* concurrency_limit when all max_concurrent_auth slots are taken.         *)
Acquire(c) ==
    /\ pc[c] = "idle"
    /\ calls < MaxCalls
    /\ calls' = calls + 1
    /\ serial' = [serial EXCEPT ![c] = calls + 1]
    /\ IF sem < MaxConcurrent
       THEN /\ sem' = sem + 1
            /\ pc' = [pc EXCEPT ![c] = "admit"]
            /\ UNCHANGED result
       ELSE /\ result' = [result EXCEPT ![c] = [NoResult EXCEPT !.reason = "concurrency_limit"]]
            /\ UNCHANGED <<sem, pc>>
    /\ UNCHANGED <<cb, gen, rr, pool, resp>>

(* ap.breaker.Execute: beforeRequest either refuses (deny; the deferred    *)
(* <-ap.sem frees the slot) or counts the request in the current           *)
(* generation and runs doAuthorize, which takes a capturer from the pool   *)
(* (a pooled one, or a new one: sync.Pool may have dropped them all).      *)
Admit(c) ==
    /\ pc[c] = "admit"
    /\ IF Refusal(cb) # "none"
       THEN /\ result' = [result EXCEPT ![c] = [NoResult EXCEPT !.reason = Refusal(cb)]]
            /\ pc' = [pc EXCEPT ![c] = "idle"]
            /\ sem' = sem - 1
            /\ UNCHANGED <<cb, gen, rr, pool>>
       ELSE /\ cb' = [cb EXCEPT !.requests = @ + 1]
            /\ gen' = [gen EXCEPT ![c] = cb.generation]
            /\ \E r \in pool \cup {NewCapturer} :
                  /\ rr' = [rr EXCEPT ![c] = r]
                  /\ pool' = pool \ {r}
            /\ pc' = [pc EXCEPT ![c] = "call"]
            /\ UNCHANGED <<sem, result>>
    /\ UNCHANGED <<serial, calls, resp>>

(* Variant of Complete that returns without freeing its slot.             *)
CompleteKeepsSlot(c) ==
    /\ pc[c] = "call"
    /\ \E p \in Responses :
          LET r == Served(rr[c], p, serial[c])
              o == Classify(p, r)
          IN /\ result' = [result EXCEPT ![c] = [allowed |-> o.allowed, data |-> o.data,
                                                  reason |-> o.reason]]
             /\ cb' = AfterRequest(cb, gen[c], ~o.failed)
             /\ pool' = pool \cup {Reset(r)}
             /\ resp' = [resp EXCEPT ![c] = p]
    /\ rr' = [rr EXCEPT ![c] = NoCapturer]
    /\ pc' = [pc EXCEPT ![c] = "idle"]
    /\ UNCHANGED <<sem, gen, serial, calls>>

(* SendRequest returns with the worker's response p; doAuthorize           *)
(* classifies it, its defers reset the capturer and put it back;           *)
(* afterRequest records the outcome; Authorize's defer frees the slot.     *)
Complete(c) ==
    /\ pc[c] = "call"
    /\ \E p \in Responses :
          LET r == Served(rr[c], p, serial[c])
              o == Classify(p, r)
          IN /\ result' = [result EXCEPT ![c] = [allowed |-> o.allowed, data |-> o.data,
                                                  reason |-> o.reason]]
             /\ cb' = AfterRequest(cb, gen[c], ~o.failed)
             /\ pool' = pool \cup {Reset(r)}
             /\ resp' = [resp EXCEPT ![c] = p]
    /\ rr' = [rr EXCEPT ![c] = NoCapturer]
    /\ sem' = sem - 1
    /\ pc' = [pc EXCEPT ![c] = "idle"]
    /\ UNCHANGED <<gen, serial, calls>>

(* The open state's Timeout (CBResetTimeout) elapses: the next look at the *)
(* state finds it half-open, in a new generation.                          *)
Expire ==
    /\ cb.state = "open"
    /\ cb' = NewGeneration(cb, "halfopen")
    /\ UNCHANGED <<pc, sem, gen, rr, pool, serial, calls, result, resp>>

(* Every call has been made and answered.                                   *)
Quiescent ==
    /\ calls = MaxCalls
    /\ \A c \in Callers : pc[c] = "idle"
    /\ cb.state # "open"
    /\ UNCHANGED vars

Next ==
    \/ \E c \in Callers : Acquire(c) \/ Admit(c) \/ Complete(c)
    \/ Expire
    \/ Quiescent

Spec == Init /\ [][Next]_vars

-----------------------------------------------------------------------------
InFlight == {c \in Callers : pc[c] \in {"admit", "call"}}

TypeOK ==
    /\ pc \in [Callers -> {"idle", "admit", "call"}]
    /\ sem \in 0 .. MaxConcurrent
    /\ cb \in Breaker
    /\ gen \in [Callers -> Nat]
    /\ rr \in [Callers -> Capturer \cup {NoCapturer}]
    /\ pool \subseteq Capturer
    /\ serial \in [Callers -> 0 .. MaxCalls]
    /\ calls \in 0 .. MaxCalls
    /\ result \in [Callers -> [allowed : BOOLEAN, data : Seq(1 .. MaxCalls), reason : Reasons]]
    /\ resp \in [Callers -> Responses \cup {NoResp}]

(* Spec 4.4 and section 8: the semaphore rejects exactly the overflow.  A call   *)
(* is turned away with concurrency_limit only while max_concurrent_auth    *)
(* other calls are really inside Authorize (between taking their slot and  *)
(* their deferred release, whichever way Execute returned).                *)
RejectsOnlyOverflow ==
    [][\A c \in Callers :
          (serial'[c] # serial[c] /\ result'[c].reason = "concurrency_limit" /\ pc'[c] = "idle")
              => Cardinality(InFlight) = MaxConcurrent]_vars

(* Spec 4.4: in half-open the breaker lets exactly one probe through: at   *)
(* most MaxRequests calls admitted in the current half-open generation are *)
(* in the worker at once, however the callers interleave.                  *)
HalfOpenSingleProbe ==
    cb.state = "halfopen" =>
        Cardinality({c \in Callers : pc[c] = "call" /\ gen[c] = cb.generation}) <= MaxRequests

(* Spec 4.4 and the pool reset: a completed call's AuthResult is decided   *)
(* by its own response alone.  It is allowed exactly when the dispatch     *)
(* succeeded, the status is 200 (explicit or left at the default) and the  *)
(* body fits in max_auth_body; its user_data is exactly the bytes the      *)
(* worker wrote for this call.  A capturer reused from the pool with state *)
(* from an earlier call would break this.                                  *)
ResultMatchesResponse ==
    \A c \in Callers :
        (pc[c] = "idle" /\ result[c].reason \notin {"none", "concurrency_limit",
                                                     "breaker_open", "too_many_requests"}) =>
            LET p == resp[c]
                fits == SumFunction(p.writes) <= MaxAuthBody
            IN /\ result[c].allowed <=> (~p.err /\ p.status = 0 /\ fits)
               /\ result[c].allowed =>
                    result[c].data = [i \in 1 .. SumFunction(p.writes) |-> serial[c]]
=============================================================================
