--------------------------- MODULE WebhookDelivery ---------------------------
(***************************************************************************)
(* Delivery of channel lifecycle webhooks (src/webhook.go) for one         *)
(* channel.  The shard issues channel_occupied and channel_vacated in      *)
(* turn (Subscribe of the first client, Unsubscribe of the last, in        *)
(* src/mod/subscription.go; SubscriptionManager's WebhookTracksOccupancy  *)
(* shows they alternate with occupancy).  Each Notify starts its own       *)
(* goroutine, which stamps time_ms when it runs, builds the payload and    *)
(* POSTs it with a 5s client timeout; a failed POST is logged and dropped. *)
(* The application receives the POSTs that get through, in the order they  *)
(* arrive.                                                                 *)
(***************************************************************************)
EXTENDS Integers, Sequences

CONSTANTS
    URLConfigured,  \* webhook_url is not empty
    MaxEvents,      \* bound on the notifications the shard issues
    MaxTime         \* bound on the wall clock, in milliseconds

ASSUME URLConfigured \in BOOLEAN /\ MaxEvents \in Nat /\ MaxTime \in Nat

Events == {"channel_occupied", "channel_vacated"}

Ids == 1 .. MaxEvents

VARIABLES
    occupied,   \* the channel has subscribers (the shard's state)
    issued,     \* the events passed to Notify, in the order the shard issued them
    task,       \* per notification: its goroutine's progress and payload
    clock,      \* the wall clock that time.Now reads
    received    \* the payloads the application received, in arrival order

vars == <<occupied, issued, task, clock, received>>

NoTask == [st |-> "none", evt |-> "none", time |-> 0]

Init ==
    /\ occupied = FALSE
    /\ issued = <<>>
    /\ task = [i \in Ids |-> NoTask]
    /\ clock = 0
    /\ received = <<>>

(* The shard's Subscribe of a first client or Unsubscribe of the last one  *)
(* calls Notify; with a URL configured Notify starts a goroutine carrying  *)
(* (eventName, channelName) as its arguments, and returns at once.         *)
Notify ==
    /\ Len(issued) < MaxEvents
    /\ LET evt == IF occupied THEN "channel_vacated" ELSE "channel_occupied"
           id == Len(issued) + 1
       IN /\ issued' = Append(issued, evt)
          /\ task' = IF URLConfigured
                     THEN [task EXCEPT ![id] = [NoTask EXCEPT !.st = "started"]]
                     ELSE task
    /\ occupied' = ~occupied
    /\ UNCHANGED <<clock, received>>

(* Wall-clock time passes.                                                 *)
Tick ==
    /\ clock < MaxTime
    /\ clock' = clock + 1
    /\ UNCHANGED <<occupied, issued, task, received>>

(* The goroutine runs: time_ms is time.Now() at this point, the payload    *)
(* carries the goroutine's own evt, and the request is built and signed.   *)
Build(i) ==
    /\ task[i].st = "started"
    /\ task' = [task EXCEPT ![i] = [st |-> "posting", evt |-> issued[i], time |-> clock]]
    /\ UNCHANGED <<occupied, issued, clock, received>>

(* client.Do: the POST reaches the application (whatever the status, and   *)
(* even if the client gives up on the response after 5s).                  *)
Deliver(i) ==
    /\ task[i].st = "posting"
    /\ received' = Append(received, [id |-> i, evt |-> task[i].evt, time |-> task[i].time])
    /\ task' = [task EXCEPT ![i].st = "done"]
    /\ UNCHANGED <<occupied, issued, clock>>

(* client.Do fails before the application gets the POST: logged, dropped.  *)
Fail(i) ==
    /\ task[i].st = "posting"
    /\ task' = [task EXCEPT ![i].st = "done"]
    /\ UNCHANGED <<occupied, issued, clock, received>>

(* Every notification was issued and every goroutine has returned.         *)
Finished ==
    /\ Len(issued) = MaxEvents
    /\ \A i \in Ids : task[i].st \in {"none", "done"}
    /\ UNCHANGED vars

Next ==
    \/ Notify \/ Tick
    \/ \E i \in Ids : Build(i) \/ Deliver(i) \/ Fail(i)
    \/ Finished

Spec == Init /\ [][Next]_vars

-----------------------------------------------------------------------------
TypeOK ==
    /\ occupied \in BOOLEAN
    /\ issued \in Seq(Events) /\ Len(issued) <= MaxEvents
    /\ task \in [Ids -> [st : {"none", "started", "posting", "done"},
                         evt : Events \cup {"none"}, time : 0 .. MaxTime]]
    /\ clock \in 0 .. MaxTime
    /\ received \in Seq([id : Ids, evt : Events, time : 0 .. MaxTime])
    /\ Len(received) <= MaxEvents

(* The application orders a channel's notifications by time_ms (arrival    *)
(* order among equal stamps).  Once every notification has arrived, the    *)
(* latest one must name the channel's current state.                       *)
LatestByTime ==
    LET last == CHOOSE k \in DOMAIN received :
                    \A j \in DOMAIN received :
                        \/ received[k].time > received[j].time
                        \/ received[k].time = received[j].time /\ k >= j
    IN received[last]

AppSeesFinalOccupancy ==
    (Len(issued) > 0 /\ Len(received) = Len(issued)) =>
        (LatestByTime.evt = "channel_occupied") = occupied
=============================================================================
