--------------------------- MODULE WebhookDelivery ---------------------------
(***************************************************************************)
(* Webhooks: the endpoints a user registers, the deliveries that           *)
(* fireWebhook creates for an event, and WebhookProcessor, which posts     *)
(* them.  A queued job carries copies of the endpoint's url and secret.    *)
(* A worker process hosts both an EscrowProcessor, which runs fireWebhook  *)
(* for one job at a time, and a WebhookProcessor (worker.module.ts): they  *)
(* die together.                                                           *)
(***************************************************************************)
EXTENDS Integers, FiniteSets

CONSTANTS Endpoints, Deliveries, NoDelivery,
          WebhookWorkers,  \* worker processes
          Attempts,        \* attempts of a delivery job
          MaxStalls,       \* times BullMQ returns a job whose worker died
          MaxRotations, MaxDisputes, MaxCrashes, MaxFaults   \* bounds

ASSUME WebhookAssumption ==
  /\ NoDelivery \notin Deliveries /\ IsFiniteSet(Deliveries)
  /\ Attempts \in Nat \ {0} /\ MaxStalls \in Nat
  /\ MaxRotations \in Nat /\ MaxDisputes \in Nat
  /\ MaxCrashes \in Nat /\ MaxFaults \in Nat

VARIABLES endpoint,   \* endpoint -> row of webhook_endpoints
          delivery,   \* delivery id -> row of webhook_deliveries
          firing,     \* worker -> its fireWebhook: endpoints read, and to do
          jobs,       \* queued jobs, ready or in back-off
          pump,       \* worker -> its delivery job and the await it stands at
          unheard,    \* history: rows DELIVERED by an update whose answer was lost
          received,   \* history: deliveries whose receiver answered 2xx
          posts,      \* history: requests made for a delivery, up to one too many
          disputes,   \* events the dispute desk has enqueued
          faults      \* crashes and failed database or queue calls so far

webhookVars ==
  <<endpoint, delivery, firing, jobs, pump, unheard, received, posts, disputes, faults>>

Unborn == [status |-> "none", endpoint |-> "none", attempts |-> 0]
Exists(d) == d # NoDelivery /\ delivery[d].status # "none"
Quiet == [todo |-> {}, adding |-> {}]
Resting == [pc |-> "idle"]

(* PostsBounded allows no more than one post less. *)
MaxPosts == Attempts + MaxCrashes + 1

Job == [delivery : Deliveries \cup {NoDelivery}, endpoint : Endpoints \cup {"none"},
        secret : 0..MaxRotations, made : 0..Attempts-1, of : {1, Attempts},
        stalls : 0..MaxStalls]

DeliveryTypeOK ==
  /\ endpoint \in [Endpoints -> [state : {"none", "active", "inactive", "deleted"},
                                 secret : 0..MaxRotations]]
  /\ delivery \in [Deliveries ->
        [status : {"none", "PENDING", "RETRYING", "DELIVERED", "FAILED", "deleted"},
         endpoint : Endpoints \cup {"none"},
         attempts : 0..Attempts]]
  /\ firing \in [WebhookWorkers ->
        [todo : SUBSET [endpoint : Endpoints, secret : 0..MaxRotations],
         adding : SUBSET Job]]
  /\ jobs \subseteq Job
  /\ pump \in [WebhookWorkers ->
        [pc : {"post", "answered", "failed", "noted", "done"}, job : Job] \cup {Resting}]
  /\ unheard \subseteq Deliveries /\ received \subseteq Deliveries
  /\ posts \in [Deliveries -> 0..MaxPosts]
  /\ disputes \in 0..MaxDisputes
  /\ faults \in [crashes : 0..MaxCrashes, db : 0..MaxFaults]

DeliveryInit ==
  /\ endpoint = [p \in Endpoints |-> [state |-> "none", secret |-> 0]]
  /\ delivery = [d \in Deliveries |-> Unborn]
  /\ firing = [w \in WebhookWorkers |-> Quiet]
  /\ jobs = {}
  /\ pump = [w \in WebhookWorkers |-> Resting]
  /\ unheard = {} /\ received = {} /\ posts = [d \in Deliveries |-> 0] /\ disputes = 0
  /\ faults = [crashes |-> 0, db |-> 0]

-----------------------------------------------------------------------------
(* WebhooksService. *)

SetEndpoint(p, r) ==
  /\ endpoint' = [endpoint EXCEPT ![p] = r]
  /\ UNCHANGED <<firing, jobs, pump, unheard, received, posts, disputes, faults>>

Register(p) ==
  /\ endpoint[p].state = "none"
  /\ SetEndpoint(p, [endpoint[p] EXCEPT !.state = "active"])
  /\ UNCHANGED delivery

UpdateEndpoint(p) ==
  \E s \in {"active", "inactive"} :
    /\ endpoint[p].state \in {"active", "inactive"} \ {s}
    /\ SetEndpoint(p, [endpoint[p] EXCEPT !.state = s])
    /\ UNCHANGED delivery

(* Deliveries of a deleted endpoint are deleted with it; jobs are not. *)
DeleteEndpoint(p) ==
  /\ endpoint[p].state \in {"active", "inactive"}
  /\ SetEndpoint(p, [endpoint[p] EXCEPT !.state = "deleted"])
  /\ delivery' = [d \in Deliveries |->
       IF delivery[d].endpoint = p THEN [delivery[d] EXCEPT !.status = "deleted"]
                                   ELSE delivery[d]]

(* rotateSecret, and transferAdmin for the active endpoints of the parties. *)
RotateSecret(p) ==
  /\ endpoint[p].state \in {"active", "inactive"}
  /\ endpoint[p].secret < MaxRotations
  /\ SetEndpoint(p, [endpoint[p] EXCEPT !.secret = @ + 1])
  /\ UNCHANGED delivery

(* DisputesService enqueues an event without delivery, url or secret, and  *)
(* with the queue's default of one attempt.                                *)
AnnounceDispute ==
  /\ disputes < MaxDisputes
  /\ disputes' = disputes + 1
  /\ jobs' = jobs \cup {[delivery |-> NoDelivery, endpoint |-> "none", secret |-> 0,
                         made |-> 0, of |-> 1, stalls |-> 0]}
  /\ UNCHANGED <<endpoint, delivery, firing, pump, unheard, received, posts, faults>>

-----------------------------------------------------------------------------
(* fireWebhook: read the endpoints, then per endpoint insert a delivery    *)
(* and add its job.                                                        *)

Stop(w) == firing' = [firing EXCEPT ![w] = Quiet]

(* A call to the database or the queue throws: it was not made, or it was  *)
(* and its answer is lost.                                                 *)
CallFails ==
  /\ faults.db < MaxFaults
  /\ faults' = [faults EXCEPT !.db = @ + 1]

Fire(w) ==
  /\ firing[w] = Quiet
  /\ LET subscribed == {p \in Endpoints : endpoint[p].state = "active"} IN
       /\ subscribed # {}
       /\ firing' = [firing EXCEPT ![w].todo =
                       {[endpoint |-> p, secret |-> endpoint[p].secret] : p \in subscribed}]
  /\ UNCHANGED <<endpoint, delivery, jobs, pump, unheard, received, posts, disputes, faults>>

(* Inserting for an endpoint deleted meanwhile breaks its foreign key.     *)
Insertable(t, d) == delivery[d] = Unborn /\ endpoint[t.endpoint].state # "deleted"
Insert(t, d) ==
  delivery' = [delivery EXCEPT ![d] = [status |-> "PENDING", endpoint |-> t.endpoint,
                                       attempts |-> 0]]

InsertDelivery(w, t, d) ==
  /\ t \in firing[w].todo /\ firing[w].adding = {}
  /\ Insertable(t, d) /\ Insert(t, d)
  /\ firing' = [firing EXCEPT ![w] =
                  [todo |-> firing[w].todo \ {t},
                   adding |-> {[delivery |-> d, endpoint |-> t.endpoint,
                                secret |-> t.secret, made |-> 0,
                                of |-> Attempts, stalls |-> 0]}]]
  /\ UNCHANGED <<endpoint, jobs, pump, unheard, received, posts, disputes, faults>>

InsertRefused(w, t) ==
  /\ t \in firing[w].todo /\ firing[w].adding = {}
  /\ endpoint[t.endpoint].state = "deleted"
  /\ Stop(w)
  /\ UNCHANGED <<endpoint, delivery, jobs, pump, unheard, received, posts, disputes, faults>>

InsertFails(w, t) ==
  /\ t \in firing[w].todo /\ firing[w].adding = {}
  /\ CallFails /\ Stop(w)
  /\ \/ UNCHANGED delivery
     \/ \E d \in Deliveries : Insertable(t, d) /\ Insert(t, d)
  /\ UNCHANGED <<endpoint, jobs, pump, unheard, received, posts, disputes>>

AddJob(w) ==
  /\ firing[w].adding # {}
  /\ jobs' = jobs \cup firing[w].adding
  /\ firing' = [firing EXCEPT ![w].adding = {}]
  /\ UNCHANGED <<endpoint, delivery, pump, unheard, received, posts, disputes, faults>>

AddFails(w) ==
  /\ firing[w].adding # {}
  /\ CallFails /\ Stop(w)
  /\ jobs' \in {jobs, jobs \cup firing[w].adding}
  /\ UNCHANGED <<endpoint, delivery, pump, unheard, received, posts, disputes>>

-----------------------------------------------------------------------------
(* WebhookProcessor. *)

At(w, pc)   == pump[w].pc = pc
Goto(w, pc) == pump' = [pump EXCEPT ![w].pc = pc]
Rest(w)     == pump' = [pump EXCEPT ![w] = Resting]
Mine(w)     == pump[w].job

Take(w, j) ==
  /\ At(w, "idle")
  /\ jobs' = jobs \ {j}
  /\ pump' = [pump EXCEPT ![w] = [pc |-> "post", job |-> j]]
  /\ UNCHANGED <<endpoint, delivery, firing, unheard, received, posts, disputes, faults>>

(* BullMQ after an exception. *)
Mut_AttemptNotCounted(w) ==
  /\ Rest(w)
  /\ jobs' = IF Mine(w).made + 1 < Mine(w).of THEN jobs \cup {Mine(w)} ELSE jobs
Failed(w) ==
  /\ Rest(w)
  /\ jobs' = IF Mine(w).made + 1 < Mine(w).of
             THEN jobs \cup {[Mine(w) EXCEPT !.made = @ + 1]}
             ELSE jobs

(* Without a secret the signature throws before anything is posted. *)
Unsignable(w) ==
  /\ At(w, "post") /\ Mine(w).delivery = NoDelivery
  /\ Failed(w)
  /\ UNCHANGED <<endpoint, delivery, firing, unheard, received, posts, disputes, faults>>

CountPost(d) == posts' = [posts EXCEPT ![d] = IF @ < MaxPosts THEN @ + 1 ELSE @]

(* The receiver answers 2xx; or refuses, or its answer is lost. *)
Mut_AnyAnswerDelivers(w) ==
  /\ At(w, "post") /\ Mine(w).delivery # NoDelivery
  /\ received' \in {received, received \cup {Mine(w).delivery}}
  /\ Goto(w, "answered")
  /\ CountPost(Mine(w).delivery)
  /\ UNCHANGED <<endpoint, delivery, firing, jobs, unheard, disputes, faults>>
Post(w) ==
  /\ At(w, "post") /\ Mine(w).delivery # NoDelivery
  /\ \/ received' = received \cup {Mine(w).delivery} /\ Goto(w, "answered")
     \/ UNCHANGED received /\ Goto(w, "failed")
  /\ CountPost(Mine(w).delivery)
  /\ UNCHANGED <<endpoint, delivery, firing, jobs, unheard, disputes, faults>>

Mut_RowAddsUp(w, status) ==
  delivery' = [delivery EXCEPT ![Mine(w).delivery].status = status,
                               ![Mine(w).delivery].attempts = @ + Mine(w).made + 1]
SetRow(w, status) ==
  delivery' = [delivery EXCEPT ![Mine(w).delivery].status = status,
                               ![Mine(w).delivery].attempts = Mine(w).made + 1]
Note(w, status) == SetRow(w, status) /\ unheard' = unheard \ {Mine(w).delivery}
NoNote          == UNCHANGED <<delivery, unheard>>
Present(w) == delivery[Mine(w).delivery].status # "deleted"

(* The update after a 2xx answer; if the row is gone the catch runs. *)
Mut_ThrowsAfterUpdate(w) ==
  /\ At(w, "answered")
  /\ IF Present(w) THEN Note(w, "DELIVERED") ELSE NoNote
  /\ Goto(w, "failed")
  /\ UNCHANGED <<endpoint, firing, jobs, received, posts, disputes, faults>>
RecordDelivered(w) ==
  /\ At(w, "answered")
  /\ IF Present(w) THEN Note(w, "DELIVERED") /\ Goto(w, "done")
                   ELSE NoNote /\ Goto(w, "failed")
  /\ UNCHANGED <<endpoint, firing, jobs, received, posts, disputes, faults>>

(* The catch: the last attempt fails the delivery, an earlier one does not. *)
Verdict(j) == IF j.made + 1 >= j.of THEN "FAILED" ELSE "RETRYING"
Mut_LastAttemptOffByOne(w) ==
  /\ At(w, "failed")
  /\ IF Present(w)
     THEN /\ Note(w, IF Mine(w).made >= Mine(w).of THEN "FAILED" ELSE "RETRYING")
          /\ Goto(w, "noted") /\ UNCHANGED jobs
     ELSE Failed(w) /\ NoNote
  /\ UNCHANGED <<endpoint, firing, received, posts, disputes, faults>>
RecordFailed(w) ==
  /\ At(w, "failed")
  /\ IF Present(w)
     THEN /\ Note(w, Verdict(Mine(w)))
          /\ Goto(w, "noted") /\ UNCHANGED jobs
     ELSE Failed(w) /\ NoNote
  /\ UNCHANGED <<endpoint, firing, received, posts, disputes, faults>>

(* The catch throws the error on, for BullMQ to count. *)
Rethrow(w) ==
  /\ At(w, "noted")
  /\ Failed(w)
  /\ UNCHANGED <<endpoint, delivery, firing, unheard, received, posts, disputes, faults>>

Complete(w) ==
  /\ At(w, "done")
  /\ Rest(w)
  /\ UNCHANGED <<endpoint, delivery, firing, jobs, unheard, received, posts, disputes, faults>>

(* The update after a 2xx answer throws: the catch runs and the event is   *)
(* sent again, although the row may say DELIVERED by now.                  *)
UpdateFails(w) ==
  /\ At(w, "answered")
  /\ CallFails /\ Goto(w, "failed")
  /\ \/ NoNote
     \/ /\ Present(w) /\ SetRow(w, "DELIVERED")
        /\ unheard' = unheard \cup {Mine(w).delivery}
  /\ UNCHANGED <<endpoint, firing, jobs, received, posts, disputes>>

(* The update in the catch throws too: BullMQ counts the attempt, the row  *)
(* perhaps does not.                                                       *)
NoteFails(w) ==
  /\ At(w, "failed")
  /\ CallFails /\ Failed(w)
  /\ NoNote \/ (Present(w) /\ Note(w, Verdict(Mine(w))))
  /\ UNCHANGED <<endpoint, firing, received, posts, disputes>>

-----------------------------------------------------------------------------
(* The process dies, with what fireWebhook had left to do; its job is      *)
(* stalled and comes back, or is failed.  Inserted rows stay.              *)
Crash(w) ==
  /\ ~At(w, "idle") \/ firing[w] # Quiet
  /\ faults.crashes < MaxCrashes
  /\ faults' = [faults EXCEPT !.crashes = @ + 1]
  /\ Stop(w) /\ Rest(w)
  /\ jobs' = IF ~At(w, "idle") /\ Mine(w).stalls < MaxStalls
             THEN jobs \cup {[Mine(w) EXCEPT !.stalls = @ + 1]} ELSE jobs
  /\ UNCHANGED <<endpoint, delivery, unheard, received, posts, disputes>>

-----------------------------------------------------------------------------
EndpointStep(p) ==
  Register(p) \/ UpdateEndpoint(p) \/ DeleteEndpoint(p) \/ RotateSecret(p)

FireStep(w) ==
  \/ AddJob(w)
  \/ \E t \in firing[w].todo :
       InsertRefused(w, t) \/ \E d \in Deliveries : InsertDelivery(w, t, d)

FireFails(w) == AddFails(w) \/ \E t \in firing[w].todo : InsertFails(w, t)

PumpStep(w) ==
  \/ \E j \in jobs : Take(w, j)
  \/ Unsignable(w) \/ Post(w) \/ RecordDelivered(w) \/ RecordFailed(w)
  \/ Rethrow(w) \/ Complete(w)

DeliveryNext ==
  \/ \E p \in Endpoints : EndpointStep(p)
  \/ AnnounceDispute
  \/ \E w \in WebhookWorkers :
       \/ Fire(w) \/ FireStep(w) \/ FireFails(w)
       \/ PumpStep(w) \/ UpdateFails(w) \/ NoteFails(w)
       \/ Crash(w)

DeliverySpec == DeliveryInit /\ [][DeliveryNext]_webhookVars

(* The firing handlers and the webhook workers keep running. *)
FairDeliverySpec ==
  /\ DeliverySpec
  /\ \A w \in WebhookWorkers : WF_webhookVars(FireStep(w)) /\ WF_webhookVars(PumpStep(w))

-----------------------------------------------------------------------------
(* Properties. *)

Carried(d) == \/ \E j \in jobs : j.delivery = d
              \/ \E w \in WebhookWorkers : ~At(w, "idle") /\ Mine(w).delivery = d
Awaited(d) == delivery[d].status \in {"PENDING", "RETRYING"}
Lost == {d \in Deliveries :
           /\ Awaited(d) /\ ~Carried(d)
           /\ \A w \in WebhookWorkers : \A j \in firing[w].adding : j.delivery # d}

(* OutcomeIsTrue: a delivery is marked DELIVERED only if its receiver has  *)
(* answered 2xx, and FAILED only after the last attempt - through          *)
(* rotations, deletions, failing updates, crashes and repeated posts.      *)
OutcomeIsTrue ==
  \A d \in Deliveries :
    /\ delivery[d].status = "DELIVERED" => d \in received
    /\ delivery[d].status = "FAILED" => delivery[d].attempts = Attempts

(* OutcomeStands: a row that says DELIVERED or FAILED changes only with its *)
(* endpoint's deletion; when the job of a worker that died is run again,   *)
(* perhaps one that had written the row and not yet told the queue; or     *)
(* when its job never heard that its update of the row to DELIVERED was    *)
(* made.                                                                   *)
Decided(d) == delivery[d].status \in {"DELIVERED", "FAILED"}
Reopened(d) == \/ d \in unheard
               \/ \E w \in WebhookWorkers :
                    ~At(w, "idle") /\ Mine(w).delivery = d /\ Mine(w).stalls > 0
OutcomeStands ==
  [][\A d \in Deliveries : Decided(d) /\ delivery'[d] # delivery[d] =>
       delivery'[d].status = "deleted" \/ Reopened(d)]_webhookVars

(* PostsBounded: a receiver that must expect an event more than once gets  *)
(* it once per attempt, and once more for each process that died; neither  *)
(* failing updates nor a 2xx answer that was not recorded add to that.     *)
PostsBounded == \A d \in Deliveries : posts[d] <= Attempts + faults.crashes

(* LostOnlyByFaults: a delivery that says PENDING or RETRYING although no  *)
(* job for it is queued, running or about to be added was lost by a death  *)
(* of a process or a failed call to the database or the queue.  Each of    *)
(* these loses one at most - the delivery whose job was about to be added, *)
(* or the one whose last attempt was not noted -, but for a death that     *)
(* also drops a job already returned MaxStalls times: only every           *)
(* (MaxStalls + 1)-th death can lose a second delivery.                    *)
LostOnlyByFaults ==
  (MaxStalls + 1) * (Cardinality(Lost) - faults.crashes - faults.db) <= faults.crashes

(* EveryDeliverySettles: once its job is queued, a delivery is eventually  *)
(* DELIVERED, FAILED or deleted with its endpoint - or lost, by one of the *)
(* faults that LostOnlyByFaults counts - however the receiver answers: no  *)
(* job is tried for ever.                                                  *)
EveryDeliverySettles ==
  \A d \in Deliveries :
    (\E j \in jobs : j.delivery = d) ~>
      (delivery[d].status \in {"DELIVERED", "FAILED", "deleted"} \/ d \in Lost)

(* UselessJobsRunOut: jobs queued before a rotation still sign with the    *)
(* secret they carry, and the job of a dispute event has none and cannot   *)
(* be signed at all; but neither is tried for ever: after an endpoint's    *)
(* last rotation and the last dispute a time comes when none is left.      *)
Useless(j) == IF j.delivery = NoDelivery THEN TRUE
              ELSE j.secret < endpoint[j.endpoint].secret
UselessJobsRunOut ==
  <>[](/\ \A j \in jobs : ~Useless(j)
       /\ \A w \in WebhookWorkers : At(w, "idle") \/ ~Useless(Mine(w)))

=============================================================================
