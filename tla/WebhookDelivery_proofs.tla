----------------------- MODULE WebhookDelivery_proofs -----------------------
(***************************************************************************)
(* Proofs about the webhook deliveries, for any number of endpoints,       *)
(* deliveries, workers, attempts, crashes and faults.                      *)
(***************************************************************************)
EXTENDS WebhookDelivery, SumTheorems

Real(j)    == j.delivery # NoDelivery
Working(w) == ~At(w, "idle")
Stages     == {"post", "answered", "failed", "noted", "done"}

(* One job at most stands for a delivery - queued, on a worker or about to *)
(* be added -, its delivery has been inserted, and it has all Attempts.    *)
Sound(j) == Real(j) => delivery[j.delivery].status # "none" /\ j.of = Attempts
QueueInv ==
  /\ \A j \in jobs : Sound(j)
  /\ \A i, j \in jobs : Real(i) /\ i.delivery = j.delivery => i = j
PumpInv ==
  /\ \A w \in WebhookWorkers : Working(w) => Sound(Mine(w))
  /\ \A v, w \in WebhookWorkers :
       Working(v) /\ Working(w) /\ Real(Mine(v)) /\ Mine(v).delivery = Mine(w).delivery
         => v = w
  /\ \A w \in WebhookWorkers, j \in jobs :
       Working(w) /\ Real(j) => Mine(w).delivery # j.delivery
FiringInv ==
  \A v \in WebhookWorkers :
    /\ \A i, j \in firing[v].adding : i = j
    /\ \A i \in firing[v].adding :
         /\ Real(i) /\ Sound(i)
         /\ \A j \in jobs : j.delivery # i.delivery
         /\ \A w \in WebhookWorkers : Working(w) => Mine(w).delivery # i.delivery
         /\ \A w \in WebhookWorkers \ {v} :
              \A j \in firing[w].adding : j.delivery # i.delivery

(* What a worker's place in the handler says of its delivery. *)
StageInv ==
  \A w \in WebhookWorkers :
    /\ pump[w].pc \in {"answered", "failed", "noted", "done"} => Real(Mine(w))
    /\ pump[w].pc \in {"answered", "done"} => Mine(w).delivery \in received
    /\ At(w, "noted") =>
         delivery[Mine(w).delivery].status \in {Verdict(Mine(w)), "deleted"}
    /\ At(w, "done") => delivery[Mine(w).delivery].status \in {"DELIVERED", "deleted"}

CarryInv    == QueueInv /\ PumpInv /\ FiringInv /\ StageInv /\ OutcomeIsTrue
DeliveryInv == DeliveryTypeOK /\ CarryInv

-----------------------------------------------------------------------------
(* Types of what a worker holds. *)
LEMMA HeldJob ==
  ASSUME DeliveryTypeOK, NEW w \in WebhookWorkers
  PROVE  /\ Working(w) => pump[w] \in [pc : Stages, job : Job]
         /\ Working(w) => Mine(w) \in Job
         /\ ~Working(w) => pump[w] = Resting
  BY DEF DeliveryTypeOK, Working, At, Resting, Mine, Stages

LEMMA MaxPostsNat == MaxPosts \in Nat
  BY WebhookAssumption DEF MaxPosts

(* A worker that moves on keeps its job. *)
LEMMA GotoFact ==
  ASSUME DeliveryTypeOK, NEW w \in WebhookWorkers, Working(w),
         NEW pc \in Stages, Goto(w, pc)
  PROVE  /\ pump' \in [WebhookWorkers ->
              [pc : Stages, job : Job] \cup {Resting}]
         /\ \A v \in WebhookWorkers : v # w => pump'[v] = pump[v]
         /\ pump'[w].pc = pc /\ pump'[w].job = Mine(w)
<1>1. pump[w] \in [pc : Stages, job : Job]
  BY HeldJob
<1>2. /\ pump' = [pump EXCEPT ![w] = [pump[w] EXCEPT !.pc = pc]]
      /\ DOMAIN pump = WebhookWorkers
  BY DEF Goto, DeliveryTypeOK
<1>3. /\ pump'[w] = [pump[w] EXCEPT !.pc = pc]
      /\ \A v \in WebhookWorkers : v # w => pump'[v] = pump[v]
  BY <1>2
<1>4. /\ pump'[w] \in [pc : Stages, job : Job]
      /\ pump'[w].pc = pc /\ pump'[w].job = pump[w].job
  BY <1>1, <1>3
<1>5. pump' \in [WebhookWorkers ->
              [pc : Stages, job : Job] \cup {Resting}]
  BY <1>2, <1>3, <1>4 DEF DeliveryTypeOK, Stages
<1>6. QED
  BY <1>3, <1>4, <1>5 DEF Mine

(* A worker that rests. *)
LEMMA RestFact ==
  ASSUME DeliveryTypeOK, NEW w \in WebhookWorkers, Rest(w)
  PROVE  /\ pump' \in [WebhookWorkers ->
              [pc : Stages, job : Job] \cup {Resting}]
         /\ \A v \in WebhookWorkers : v # w => pump'[v] = pump[v]
         /\ pump'[w].pc = "idle"
  BY DEF Rest, Resting, DeliveryTypeOK, Stages

(* A fireWebhook that stops, or has less to add than it had. *)
FiringKept == \A v \in WebhookWorkers : firing'[v].adding \subseteq firing[v].adding
Firings == [todo : SUBSET [endpoint : Endpoints, secret : 0..MaxRotations],
            adding : SUBSET Job]

LEMMA StopFact ==
  ASSUME DeliveryTypeOK, NEW w \in WebhookWorkers, Stop(w)
  PROVE  /\ firing' \in [WebhookWorkers -> Firings] /\ FiringKept
         /\ \A v \in WebhookWorkers : v # w => firing'[v] = firing[v]
         /\ firing'[w].adding = {}
<1>1. firing' = [firing EXCEPT ![w] = Quiet] /\ firing \in [WebhookWorkers -> Firings]
  BY DEF Stop, DeliveryTypeOK, Firings
<1>2. Quiet \in Firings /\ Quiet.adding = {}
  BY DEF Quiet, Firings
<1>3. /\ firing' \in [WebhookWorkers -> Firings] /\ firing'[w] = Quiet
      /\ \A v \in WebhookWorkers : v # w => firing'[v] = firing[v]
  BY <1>1, <1>2
<1>4. QED
  BY <1>2, <1>3 DEF FiringKept

(* Writing the outcome of an attempt into the row of the worker's job. *)
LEMMA NoteFact ==
  ASSUME DeliveryTypeOK, NEW w \in WebhookWorkers, Working(w), Real(Mine(w)),
         NEW s \in {"RETRYING", "DELIVERED", "FAILED"}, SetRow(w, s)
  PROVE  /\ delivery' \in [Deliveries ->
              [status : {"none", "PENDING", "RETRYING", "DELIVERED", "FAILED", "deleted"},
               endpoint : Endpoints \cup {"none"}, attempts : 0..Attempts]]
         /\ \A d \in Deliveries : d # Mine(w).delivery => delivery'[d] = delivery[d]
         /\ Mine(w).delivery \in Deliveries
         /\ delivery'[Mine(w).delivery].status = s
         /\ delivery'[Mine(w).delivery].attempts = Mine(w).made + 1
<1>1. Mine(w) \in Job
  BY HeldJob
<1>2. Mine(w).delivery \in Deliveries /\ Mine(w).made \in 0..Attempts-1
  BY <1>1 DEF Job, Real
<1>3. Mine(w).made + 1 \in 0..Attempts
  BY <1>2, WebhookAssumption
<1>4. [delivery[Mine(w).delivery] EXCEPT !.status = s, !.attempts = Mine(w).made + 1] \in
        [status : {"none", "PENDING", "RETRYING", "DELIVERED", "FAILED", "deleted"},
         endpoint : Endpoints \cup {"none"}, attempts : 0..Attempts]
  <2> DEFINE d == delivery[Mine(w).delivery]
             n == Mine(w).made + 1
             Status == {"none", "PENDING", "RETRYING", "DELIVERED", "FAILED", "deleted"}
  <2>1. d \in [status : Status, endpoint : Endpoints \cup {"none"}, attempts : 0..Attempts]
    BY <1>2 DEF DeliveryTypeOK
  <2>2. s \in Status /\ n \in 0..Attempts
    BY <1>3
  <2> HIDE DEF d, n, Status
  <2>3. [d EXCEPT !.status = s, !.attempts = n] \in
          [status : Status, endpoint : Endpoints \cup {"none"}, attempts : 0..Attempts]
    BY <2>1, <2>2
  <2> QED  BY <2>3 DEF d, n, Status
<1>5. delivery' = [delivery EXCEPT ![Mine(w).delivery] =
                     [delivery[Mine(w).delivery] EXCEPT !.status = s,
                                                        !.attempts = Mine(w).made + 1]]
  BY <1>2 DEF SetRow, DeliveryTypeOK
<1>6. delivery'[Mine(w).delivery] =
        [delivery[Mine(w).delivery] EXCEPT !.status = s, !.attempts = Mine(w).made + 1]
  BY <1>2, <1>5 DEF DeliveryTypeOK
<1>7. /\ delivery'[Mine(w).delivery].status = s
      /\ delivery'[Mine(w).delivery].attempts = Mine(w).made + 1
  BY <1>2, <1>6 DEF DeliveryTypeOK
<1>8. \A d \in Deliveries : d # Mine(w).delivery => delivery'[d] = delivery[d]
  BY <1>5 DEF DeliveryTypeOK
<1>9. delivery' \in [Deliveries ->
         [status : {"none", "PENDING", "RETRYING", "DELIVERED", "FAILED", "deleted"},
          endpoint : Endpoints \cup {"none"}, attempts : 0..Attempts]]
  <2> DEFINE Row == [status : {"none", "PENDING", "RETRYING", "DELIVERED", "FAILED",
                               "deleted"},
                     endpoint : Endpoints \cup {"none"}, attempts : 0..Attempts]
             new == [delivery[Mine(w).delivery] EXCEPT !.status = s,
                                                       !.attempts = Mine(w).made + 1]
  <2>1. delivery \in [Deliveries -> Row] /\ new \in Row
    BY <1>4 DEF DeliveryTypeOK
  <2>2. delivery' = [delivery EXCEPT ![Mine(w).delivery] = new]
    BY <1>5
  <2> HIDE DEF Row, new
  <2>3. delivery' \in [Deliveries -> Row]
    BY <1>2, <2>1, <2>2
  <2> QED  BY <2>3 DEF Row
<1>10. QED
  BY <1>2, <1>7, <1>8, <1>9

-----------------------------------------------------------------------------
(* The rest of the invariant, action by action. *)

(* Endpoints change; rows at most become deleted. *)
LEMMA EndpointCarries ==
  ASSUME DeliveryInv, NEW p \in Endpoints, EndpointStep(p)
  PROVE  CarryInv'
<1>1. /\ UNCHANGED <<firing, jobs, pump, received>>
      /\ \A d \in Deliveries : \/ delivery'[d] = delivery[d]
                                \/ delivery'[d].status = "deleted"
  <2>1. CASE Register(p) \/ UpdateEndpoint(p) \/ RotateSecret(p)
    BY <2>1 DEF Register, UpdateEndpoint, RotateSecret, SetEndpoint
  <2>2. CASE DeleteEndpoint(p)
    BY <2>2 DEF DeleteEndpoint, SetEndpoint, DeliveryInv, DeliveryTypeOK
  <2>3. QED
    BY <2>1, <2>2 DEF EndpointStep
<1>2. \A j \in Job : Real(j) => j.delivery \in Deliveries
  BY DEF Job, Real
<1>3. /\ jobs \subseteq Job /\ \A v \in WebhookWorkers : firing[v].adding \subseteq Job
      /\ \A w \in WebhookWorkers : Working(w) => Mine(w) \in Job
  BY HeldJob DEF DeliveryInv, DeliveryTypeOK
<1>4. \A j \in Job : Sound(j) => Sound(j)'
  BY <1>1, <1>2 DEF Sound, Real
<1>5. QueueInv' /\ PumpInv' /\ FiringInv'
  BY <1>1, <1>3, <1>4 DEF DeliveryInv, CarryInv, QueueInv, PumpInv, FiringInv,
                          Real, Working, At, Mine
<1>6. StageInv'
  <2> SUFFICES ASSUME NEW w \in WebhookWorkers
      PROVE  /\ pump[w].pc \in {"answered", "failed", "noted", "done"} => Real(Mine(w))
             /\ pump[w].pc \in {"answered", "done"} => Mine(w).delivery \in received
             /\ At(w, "noted") =>
                  delivery'[Mine(w).delivery].status \in {Verdict(Mine(w)), "deleted"}
             /\ At(w, "done") => delivery'[Mine(w).delivery].status \in {"DELIVERED", "deleted"}
    BY <1>1 DEF StageInv, Verdict, Real, Mine, At
  <2>1. At(w, "noted") \/ At(w, "done") => Mine(w).delivery \in Deliveries
    BY <1>2, <1>3 DEF DeliveryInv, CarryInv, StageInv, Working, At
  <2>2. QED
    BY <1>1, <2>1 DEF DeliveryInv, CarryInv, StageInv
<1>7. OutcomeIsTrue'
  BY <1>1 DEF DeliveryInv, CarryInv, OutcomeIsTrue
<1>8. QED
  BY <1>5, <1>6, <1>7 DEF CarryInv

(* The job of a dispute event stands for no delivery. *)
LEMMA AnnounceCarries ==
  ASSUME DeliveryInv, AnnounceDispute
  PROVE  CarryInv'
<1> DEFINE news == [delivery |-> NoDelivery, endpoint |-> "none", secret |-> 0,
                    made |-> 0, of |-> 1, stalls |-> 0]
<1>1. /\ UNCHANGED <<delivery, firing, pump, received>>
      /\ jobs' = jobs \cup {news} /\ ~Real(news) /\ news.delivery = NoDelivery
  BY DEF AnnounceDispute, Real
<1> HIDE DEF news
<1>2. \A v \in WebhookWorkers : \A i \in firing[v].adding : Real(i)
  BY DEF DeliveryInv, CarryInv, FiringInv
<1>3. QueueInv' /\ PumpInv' /\ FiringInv'
  BY <1>1, <1>2 DEF DeliveryInv, CarryInv, QueueInv, PumpInv, FiringInv, Sound,
                    Real, Working, At, Mine
<1>4. StageInv' /\ OutcomeIsTrue'
  BY <1>1 DEF DeliveryInv, CarryInv, StageInv, OutcomeIsTrue, Verdict, Real, Mine, At
<1>5. QED
  BY <1>3, <1>4 DEF CarryInv

(* fireWebhook reads the endpoints, or stops with its rows inserted. *)
LEMMA FiringStopsCarries ==
  ASSUME DeliveryInv, FiringKept, UNCHANGED <<delivery, jobs, pump, received>>
  PROVE  CarryInv'
<1>1. QueueInv' /\ PumpInv' /\ StageInv' /\ OutcomeIsTrue'
  BY DEF DeliveryInv, CarryInv, QueueInv, PumpInv, StageInv,
         OutcomeIsTrue, Sound, Verdict, Real, Working, At, Mine
<1>2. FiringInv'
  BY DEF DeliveryInv, CarryInv, FiringInv, FiringKept, Sound, Real, Working, At, Mine
<1>3. QED
  BY <1>1, <1>2 DEF CarryInv

(* A row is inserted: no job stands for it yet. *)
LEMMA InsertFact ==
  ASSUME DeliveryInv, NEW t, NEW d \in Deliveries, Insertable(t, d), Insert(t, d)
  PROVE  /\ \A x \in Deliveries : x # d => delivery'[x] = delivery[x]
         /\ delivery'[d].status = "PENDING" /\ delivery[d].status = "none"
         /\ \A j \in Job : Sound(j) => Sound(j)'
         /\ \A j \in jobs : j.delivery # d
         /\ \A w \in WebhookWorkers : Working(w) => Mine(w).delivery # d
         /\ \A w \in WebhookWorkers : \A j \in firing[w].adding : j.delivery # d
<1>1. /\ \A x \in Deliveries : x # d => delivery'[x] = delivery[x]
      /\ delivery'[d].status = "PENDING" /\ delivery[d].status = "none"
  BY DEF Insertable, Insert, Unborn, DeliveryInv, DeliveryTypeOK
<1>2. \A j : Sound(j) /\ Real(j) => j.delivery # d
  BY <1>1 DEF Sound
<1>3. \A j \in Job : Sound(j) => Sound(j)'
  BY <1>1, <1>2 DEF Sound, Real, Job
<1>4. d # NoDelivery
  BY WebhookAssumption
<1>5. QED
  BY <1>1, <1>2, <1>3, <1>4 DEF DeliveryInv, CarryInv, QueueInv, PumpInv, FiringInv, Real

(* Inserting it leaves everything else as it was, for each fireWebhook     *)
(* that has at most one job for the row to add.                            *)
LEMMA InsertCarries ==
  ASSUME DeliveryInv, NEW t, NEW d \in Deliveries, Insertable(t, d), Insert(t, d),
         UNCHANGED <<jobs, pump, received>>, NEW w \in WebhookWorkers,
         \A v \in WebhookWorkers : v # w => firing'[v] = firing[v],
         firing'[w].adding \subseteq
           {[delivery |-> d, endpoint |-> t.endpoint, secret |-> t.secret, made |-> 0,
             of |-> Attempts, stalls |-> 0]}
  PROVE  CarryInv'
<1> DEFINE new == [delivery |-> d, endpoint |-> t.endpoint, secret |-> t.secret,
                   made |-> 0, of |-> Attempts, stalls |-> 0]
<1>1. /\ firing'[w].adding \subseteq {new} /\ new.delivery = d /\ new.of = Attempts
      /\ Real(new)
  BY WebhookAssumption DEF Real
<1> HIDE DEF new
<1>2. /\ \A x \in Deliveries : x # d => delivery'[x] = delivery[x]
      /\ delivery'[d].status = "PENDING" /\ delivery[d].status = "none"
      /\ \A j \in Job : Sound(j) => Sound(j)'
      /\ \A j \in jobs : j.delivery # d
      /\ \A v \in WebhookWorkers : Working(v) => Mine(v).delivery # d
      /\ \A v \in WebhookWorkers : \A j \in firing[v].adding : j.delivery # d
  BY InsertFact
<1>3. Sound(new)'
  BY <1>1, <1>2 DEF Sound, Real
<1>4. /\ jobs \subseteq Job /\ \A v \in WebhookWorkers : firing[v].adding \subseteq Job
      /\ \A v \in WebhookWorkers : Working(v) => Mine(v) \in Job
  BY HeldJob DEF DeliveryInv, DeliveryTypeOK
<1>5. QueueInv' /\ PumpInv'
  BY <1>2, <1>4 DEF DeliveryInv, CarryInv, QueueInv, PumpInv, Real, Working, At, Mine
<1>6. FiringInv'
  <2> SUFFICES ASSUME NEW v \in WebhookWorkers
      PROVE  /\ \A i, j \in firing'[v].adding : i = j
             /\ \A i \in firing'[v].adding :
                  /\ Real(i) /\ Sound(i)'
                  /\ \A j \in jobs : j.delivery # i.delivery
                  /\ \A u \in WebhookWorkers : Working(u) => Mine(u).delivery # i.delivery
                  /\ \A u \in WebhookWorkers \ {v} :
                       \A j \in firing'[u].adding : j.delivery # i.delivery
    BY DEF FiringInv, Real, Working, At, Mine
  <2>1. CASE v = w
    BY <1>1, <1>2, <1>3, <2>1
  <2>2. CASE v # w
    <3>1. firing'[v] = firing[v]
      BY <2>2
    <3>2. \A i \in firing[v].adding : i \in Job /\ Real(i) /\ Sound(i)'
      BY <1>2, <1>4 DEF DeliveryInv, CarryInv, FiringInv
    <3>3. \A i \in firing[v].adding, u \in WebhookWorkers \ {v} :
             \A j \in firing'[u].adding : j.delivery # i.delivery
      BY <1>1, <1>2 DEF DeliveryInv, CarryInv, FiringInv
    <3>4. QED
      BY <3>1, <3>2, <3>3 DEF DeliveryInv, CarryInv, FiringInv
  <2>3. QED
    BY <2>1, <2>2
<1>7. StageInv'
  <2> SUFFICES ASSUME NEW v \in WebhookWorkers
      PROVE  /\ pump[v].pc \in {"answered", "failed", "noted", "done"} => Real(Mine(v))
             /\ pump[v].pc \in {"answered", "done"} => Mine(v).delivery \in received
             /\ At(v, "noted") =>
                  delivery'[Mine(v).delivery].status \in {Verdict(Mine(v)), "deleted"}
             /\ At(v, "done") =>
                  delivery'[Mine(v).delivery].status \in {"DELIVERED", "deleted"}
    BY DEF StageInv, Verdict, Real, Mine, At
  <2>1. At(v, "noted") \/ At(v, "done") => Mine(v).delivery \in Deliveries \ {d}
    BY <1>2, <1>4 DEF DeliveryInv, CarryInv, StageInv, Working, At, Real, Job
  <2>2. QED
    BY <1>2, <2>1 DEF DeliveryInv, CarryInv, StageInv
<1>8. OutcomeIsTrue'
  BY <1>2 DEF DeliveryInv, CarryInv, OutcomeIsTrue
<1>9. QED
  BY <1>5, <1>6, <1>7, <1>8 DEF CarryInv

(* fireWebhook's job reaches the queue. *)
LEMMA AddCarries ==
  ASSUME DeliveryInv, NEW w \in WebhookWorkers, jobs' = jobs \cup firing[w].adding,
         firing'[w].adding = {},
         \A v \in WebhookWorkers : v # w => firing'[v] = firing[v],
         UNCHANGED <<delivery, pump, received>>
  PROVE  CarryInv'
<1>1. QueueInv' /\ PumpInv'
  BY DEF DeliveryInv, CarryInv, QueueInv, PumpInv, FiringInv, Sound, Real, Working, At, Mine
<1>2. FiringInv'
  <2> SUFFICES ASSUME NEW v \in WebhookWorkers, v # w, NEW i \in firing[v].adding
      PROVE  \A j \in firing[w].adding : j.delivery # i.delivery
    BY DEF DeliveryInv, CarryInv, FiringInv, Sound, Real, Working, At, Mine
  <2>1. QED
    BY DEF DeliveryInv, CarryInv, FiringInv
<1>3. StageInv' /\ OutcomeIsTrue'
  BY DEF DeliveryInv, CarryInv, StageInv, OutcomeIsTrue, Verdict, Real, Mine, At
<1>4. QED
  BY <1>1, <1>2, <1>3 DEF CarryInv

(* A worker takes a job from the queue. *)
LEMMA TakeCarries ==
  ASSUME DeliveryInv, NEW w \in WebhookWorkers, NEW j \in jobs, Take(w, j)
  PROVE  CarryInv'
<1>1. /\ UNCHANGED <<delivery, firing, received>>
      /\ ~Working(w) /\ jobs' = jobs \ {j}
      /\ pump'[w] = [pc |-> "post", job |-> j]
      /\ \A v \in WebhookWorkers : v # w => pump'[v] = pump[v]
  BY DEF Take, Working, DeliveryInv, DeliveryTypeOK
<1>2. /\ pump'[w].pc = "post" /\ Working(w)' /\ Mine(w)' = j
      /\ \A v \in WebhookWorkers :
           v # w => Working(v)' = Working(v) /\ Mine(v)' = Mine(v)
  BY <1>1 DEF Working, At, Mine
<1>3. QueueInv'
  BY <1>1 DEF DeliveryInv, CarryInv, QueueInv, Sound, Real
<1>4. PumpInv'
  BY <1>1, <1>2 DEF DeliveryInv, CarryInv, QueueInv, PumpInv, Sound, Real
<1>5. FiringInv'
  BY <1>1, <1>2 DEF DeliveryInv, CarryInv, FiringInv, Sound, Real
<1>6. StageInv' /\ OutcomeIsTrue'
  BY <1>1, <1>2 DEF DeliveryInv, CarryInv, StageInv, OutcomeIsTrue, Verdict, Real, Mine, At
<1>7. QED
  BY <1>3, <1>4, <1>5, <1>6 DEF CarryInv

(* A worker moves on with its job, writing at most the job's row. *)
LEMMA MoveCarries ==
  ASSUME DeliveryInv, NEW w \in WebhookWorkers, Working(w), Real(Mine(w)),
         NEW pc \in Stages, Goto(w, pc),
         UNCHANGED <<jobs, firing>>, received \subseteq received',
         \A d \in Deliveries \ {Mine(w).delivery} : delivery'[d] = delivery[d],
         delivery'[Mine(w).delivery].status # "none",
         pc \in {"answered", "done"} => Mine(w).delivery \in received',
         pc = "noted" =>
           delivery'[Mine(w).delivery].status \in {Verdict(Mine(w)), "deleted"},
         pc = "done" => delivery'[Mine(w).delivery].status \in {"DELIVERED", "deleted"},
         OutcomeIsTrue'
  PROVE  CarryInv'
<1>0. DeliveryTypeOK
  BY DEF DeliveryInv
<1>1. /\ \A v \in WebhookWorkers : v # w => pump'[v] = pump[v]
      /\ pump'[w].pc = pc /\ pump'[w].job = Mine(w)
  BY <1>0, GotoFact
<1>2. \A j \in Job : Sound(j) => Sound(j)'
  BY DEF Sound, Real, Job
<1>3. /\ jobs \subseteq Job /\ \A v \in WebhookWorkers : firing[v].adding \subseteq Job
      /\ \A v \in WebhookWorkers : Working(v) => Mine(v) \in Job
  BY HeldJob DEF DeliveryInv, DeliveryTypeOK
<1>4. QueueInv'
  BY <1>2, <1>3 DEF DeliveryInv, CarryInv, QueueInv, Real
<1>5. PumpInv'
  BY <1>1, <1>2, <1>3 DEF DeliveryInv, CarryInv, PumpInv, Real,
                                Working, At, Mine
<1>6. FiringInv'
  BY <1>1, <1>2, <1>3 DEF DeliveryInv, CarryInv, FiringInv, Real,
                                Working, At, Mine
<1>7. StageInv'
  <2> SUFFICES ASSUME NEW v \in WebhookWorkers
      PROVE  /\ pump'[v].pc \in {"answered", "failed", "noted", "done"} => Real(pump'[v].job)
             /\ pump'[v].pc \in {"answered", "done"} => pump'[v].job.delivery \in received'
             /\ pump'[v].pc = "noted" =>
                  delivery'[pump'[v].job.delivery].status
                    \in {Verdict(pump'[v].job), "deleted"}
             /\ pump'[v].pc = "done" =>
                  delivery'[pump'[v].job.delivery].status \in {"DELIVERED", "deleted"}
    BY DEF StageInv, Verdict, Real, At, Mine
  <2>1. CASE v = w
    BY <1>1, <2>1 DEF Mine, Real
  <2>2. CASE v # w
    <3>1. pump'[v] = pump[v] /\ pump'[v].job = Mine(v)
      BY <1>1, <2>2 DEF Mine
    <3>2. At(v, "noted") \/ At(v, "done") =>
            Mine(v).delivery \in Deliveries \ {Mine(w).delivery}
      BY <1>3, <2>2 DEF DeliveryInv, CarryInv, StageInv, PumpInv, Working, At, Real, Job
    <3>3. QED
      BY <3>1, <3>2 DEF DeliveryInv, CarryInv, StageInv, At
  <2>3. QED
    BY <2>1, <2>2
<1>8. QED
  BY <1>4, <1>5, <1>6, <1>7 DEF CarryInv

(* A worker is done with its attempt; a job for the same delivery may go   *)
(* back to the queue.                                                      *)
LEMMA LeaveCarries ==
  ASSUME DeliveryInv, NEW w \in WebhookWorkers, Working(w), Rest(w),
         FiringKept, UNCHANGED received,
         NEW j \in Job, jobs' = jobs \/ jobs' = jobs \cup {j},
         j.delivery = Mine(w).delivery, j.of = Mine(w).of,
         \A d \in Deliveries \ {Mine(w).delivery} : delivery'[d] = delivery[d],
         Real(j) => delivery'[j.delivery].status # "none",
         OutcomeIsTrue'
  PROVE  CarryInv'
<1>0. DeliveryTypeOK
  BY DEF DeliveryInv
<1>1. /\ \A v \in WebhookWorkers : v # w => pump'[v] = pump[v]
      /\ pump'[w].pc = "idle"
  BY <1>0, RestFact
<1>2. \A i \in Job : Sound(i) => Sound(i)'
  BY DEF Sound, Real, Job
<1>3. /\ jobs \subseteq Job /\ \A v \in WebhookWorkers : firing[v].adding \subseteq Job
      /\ \A v \in WebhookWorkers : Working(v) => Mine(v) \in Job
  BY HeldJob DEF DeliveryInv, DeliveryTypeOK
<1>4. Sound(j)'
  BY DEF Sound, Real, DeliveryInv, CarryInv, PumpInv
<1>5. QueueInv'
  BY <1>2, <1>3, <1>4 DEF DeliveryInv, CarryInv, QueueInv, PumpInv, Real
<1>6. PumpInv'
  BY <1>1, <1>2, <1>3 DEF DeliveryInv, CarryInv, PumpInv, Real,
                                Working, At, Mine
<1>7. FiringInv'
  BY <1>1, <1>2, <1>3 DEF DeliveryInv, CarryInv, PumpInv, FiringInv, FiringKept, Real,
                          Working, At, Mine
<1>8. StageInv'
  <2> SUFFICES ASSUME NEW v \in WebhookWorkers
      PROVE  /\ pump'[v].pc \in {"answered", "failed", "noted", "done"} => Real(pump'[v].job)
             /\ pump'[v].pc \in {"answered", "done"} => pump'[v].job.delivery \in received'
             /\ pump'[v].pc = "noted" =>
                  delivery'[pump'[v].job.delivery].status
                    \in {Verdict(pump'[v].job), "deleted"}
             /\ pump'[v].pc = "done" =>
                  delivery'[pump'[v].job.delivery].status \in {"DELIVERED", "deleted"}
    BY DEF StageInv, Verdict, Real, At, Mine
  <2>1. CASE v = w
    BY <1>1, <2>1
  <2>2. CASE v # w
    <3>1. pump'[v] = pump[v] /\ pump'[v].job = Mine(v)
      BY <1>1, <2>2 DEF Mine
    <3>2. At(v, "noted") \/ At(v, "done") =>
            Mine(v).delivery \in Deliveries \ {Mine(w).delivery}
      BY <1>3, <2>2 DEF DeliveryInv, CarryInv, StageInv, PumpInv, Working, At, Real, Job
    <3>3. QED
      BY <3>1, <3>2 DEF DeliveryInv, CarryInv, StageInv, At
  <2>3. QED
    BY <2>1, <2>2
<1>9. QED
  BY <1>5, <1>6, <1>7, <1>8 DEF CarryInv

(* What is put back for a job: the same delivery with one attempt or one   *)
(* stall more.                                                             *)
LEMMA FailedFact ==
  ASSUME DeliveryTypeOK, NEW w \in WebhookWorkers, Working(w), Failed(w)
  PROVE  /\ Rest(w)
         /\ \E j \in Job : /\ j.delivery = Mine(w).delivery /\ j.of = Mine(w).of
                           /\ j.stalls = Mine(w).stalls
                           /\ \/ /\ Mine(w).made + 1 < Mine(w).of
                                 /\ j.made = Mine(w).made + 1
                                 /\ jobs' = jobs \cup {j}
                              \/ /\ Mine(w).made + 1 >= Mine(w).of
                                 /\ jobs' = jobs
<1>1. Mine(w) \in Job
  BY HeldJob
<1>2. /\ Mine(w).made \in 0..Attempts-1 /\ Mine(w).of \in {1, Attempts}
      /\ Attempts \in Nat \ {0}
  BY <1>1, WebhookAssumption DEF Job
<1>3. CASE Mine(w).made + 1 < Mine(w).of
  <2> DEFINE j == [Mine(w) EXCEPT !.made = @ + 1]
  <2>1. jobs' = jobs \cup {j}
    BY <1>3 DEF Failed
  <2>2. Mine(w).made + 1 \in 0..Attempts-1
    BY <1>2, <1>3
  <2>3. /\ j \in Job /\ j.delivery = Mine(w).delivery /\ j.of = Mine(w).of
        /\ j.stalls = Mine(w).stalls /\ j.made = Mine(w).made + 1
    BY <1>1, <2>2 DEF Job
  <2>4. QED
    BY <1>3, <2>1, <2>3 DEF Failed
<1>4. CASE Mine(w).made + 1 >= Mine(w).of
  BY <1>1, <1>2, <1>4 DEF Failed
<1>5. QED
  BY <1>2, <1>3, <1>4

LEMMA CrashFact ==
  ASSUME DeliveryTypeOK, NEW w \in WebhookWorkers, Working(w), Crash(w)
  PROVE  /\ Rest(w)
         /\ \E j \in Job : /\ j.delivery = Mine(w).delivery /\ j.of = Mine(w).of
                           /\ \/ jobs' = jobs /\ Mine(w).stalls = MaxStalls
                              \/ /\ jobs' = jobs \cup {j}
                                 /\ j.stalls = Mine(w).stalls + 1
                                 /\ j.made = Mine(w).made
<1>1. Rest(w)
  BY DEF Crash
<1>2. Mine(w) \in Job
  BY HeldJob
<1>3. CASE Mine(w).stalls < MaxStalls
  <2> DEFINE j == [Mine(w) EXCEPT !.stalls = @ + 1]
  <2>1. Mine(w).stalls + 1 \in 0..MaxStalls
    BY <1>2, <1>3, WebhookAssumption DEF Job
  <2>2. /\ j \in Job /\ j.delivery = Mine(w).delivery /\ j.of = Mine(w).of
        /\ j.stalls = Mine(w).stalls + 1 /\ j.made = Mine(w).made
    BY <1>2, <2>1 DEF Job
  <2>3. jobs' = jobs \cup {j}
    BY <1>3 DEF Crash, Working
  <2>4. QED
    BY <1>1, <2>2, <2>3
<1>4. CASE ~(Mine(w).stalls < MaxStalls)
  <2>1. Mine(w).stalls = MaxStalls
    BY <1>2, <1>4, WebhookAssumption DEF Job
  <2>2. jobs' = jobs
    BY <1>4 DEF Crash
  <2>3. QED
    BY <1>1, <1>2, <2>1, <2>2
<1>5. QED
  BY <1>3, <1>4

(* A process that dies without a delivery job only drops its fireWebhook. *)
LEMMA IdleCrashFact ==
  ASSUME DeliveryTypeOK, NEW w \in WebhookWorkers, ~Working(w), Crash(w)
  PROVE  UNCHANGED <<delivery, jobs, pump, received>>
<1>1. pump[w] = Resting /\ pump \in [WebhookWorkers ->
        [pc : {"post", "answered", "failed", "noted", "done"}, job : Job] \cup {Resting}]
  BY HeldJob DEF DeliveryTypeOK
<1>2. pump' = pump
  BY <1>1 DEF Crash, Rest
<1>3. QED
  BY <1>2 DEF Crash, Working

(* The awaits of the handler. *)
LEMMA PostCarries ==
  ASSUME DeliveryInv, NEW w \in WebhookWorkers, Post(w)
  PROVE  CarryInv'
<1>1. Working(w) /\ Real(Mine(w)) /\ UNCHANGED <<delivery, jobs, firing>>
  BY DEF Post, Working, At, Real
<1>2. delivery[Mine(w).delivery].status # "none"
  BY <1>1 DEF DeliveryInv, CarryInv, PumpInv, Sound
<1>3. \/ received' = received \cup {Mine(w).delivery} /\ Goto(w, "answered")
      \/ received' = received /\ Goto(w, "failed")
  BY DEF Post
<1>4. OutcomeIsTrue'
  BY <1>1, <1>3 DEF DeliveryInv, CarryInv, OutcomeIsTrue
<1>5. QED
  BY <1>1, <1>2, <1>3, <1>4, MoveCarries DEF Stages

(* An update that throws has been made, or not. *)
LEMMA UpdateFailsCarries ==
  ASSUME DeliveryInv, NEW w \in WebhookWorkers, UpdateFails(w)
  PROVE  CarryInv'
<1>1. /\ DeliveryTypeOK /\ Working(w) /\ Real(Mine(w)) /\ Mine(w).delivery \in received
      /\ UNCHANGED <<jobs, firing, received>> /\ Goto(w, "failed")
  BY DEF UpdateFails, Working, At, DeliveryInv, CarryInv, StageInv
<1>2. delivery[Mine(w).delivery].status # "none"
  BY <1>1 DEF DeliveryInv, CarryInv, PumpInv, Sound
<1>3. CASE NoNote
  <2>1. OutcomeIsTrue' /\ UNCHANGED delivery
    BY <1>1, <1>3 DEF NoNote, DeliveryInv, CarryInv, OutcomeIsTrue
  <2>2. QED
    BY <1>1, <1>2, <2>1, MoveCarries DEF Stages
<1>4. CASE SetRow(w, "DELIVERED")
  <2>1. /\ \A d \in Deliveries : d # Mine(w).delivery => delivery'[d] = delivery[d]
        /\ delivery'[Mine(w).delivery].status = "DELIVERED"
    BY <1>1, <1>4, NoteFact
  <2>2. OutcomeIsTrue'
    BY <1>1, <2>1 DEF DeliveryInv, CarryInv, OutcomeIsTrue
  <2>3. QED
    BY <1>1, <2>1, <2>2, MoveCarries DEF Stages
<1>5. QED
  BY <1>3, <1>4 DEF UpdateFails

LEMMA RecordDeliveredCarries ==
  ASSUME DeliveryInv, NEW w \in WebhookWorkers, RecordDelivered(w)
  PROVE  CarryInv'
<1>1. /\ DeliveryTypeOK /\ Working(w) /\ Real(Mine(w))
      /\ Mine(w).delivery \in received /\ UNCHANGED <<jobs, firing, received>>
  BY DEF RecordDelivered, Working, At, DeliveryInv, CarryInv, StageInv
<1>2. delivery[Mine(w).delivery].status # "none"
  BY <1>1 DEF DeliveryInv, CarryInv, PumpInv, Sound
<1>3. CASE Present(w)
  <2>1. SetRow(w, "DELIVERED") /\ Goto(w, "done")
    BY <1>3 DEF RecordDelivered, Note
  <2>2. /\ \A d \in Deliveries : d # Mine(w).delivery => delivery'[d] = delivery[d]
        /\ delivery'[Mine(w).delivery].status = "DELIVERED"
    BY <1>1, <2>1, NoteFact
  <2>3. OutcomeIsTrue'
    BY <1>1, <2>2 DEF DeliveryInv, CarryInv, OutcomeIsTrue
  <2>4. QED
    BY <1>1, <2>1, <2>2, <2>3, MoveCarries DEF Stages
<1>4. CASE ~Present(w)
  <2>1. UNCHANGED delivery /\ Goto(w, "failed")
    BY <1>4 DEF RecordDelivered, NoNote
  <2>2. OutcomeIsTrue'
    BY <1>1, <2>1 DEF DeliveryInv, CarryInv, OutcomeIsTrue
  <2>3. QED
    BY <1>1, <1>2, <2>1, <2>2, MoveCarries DEF Stages
<1>5. QED
  BY <1>3, <1>4

(* Attempts that end without a word in the row. *)
LEMMA SilentCarries ==
  ASSUME DeliveryInv, NEW w \in WebhookWorkers, Working(w), Rest(w),
         NEW j \in Job, jobs' = jobs \/ jobs' = jobs \cup {j},
         j.delivery = Mine(w).delivery, j.of = Mine(w).of,
         FiringKept, UNCHANGED <<delivery, received>>
  PROVE  CarryInv'
<1>1. Real(j) => delivery[j.delivery].status # "none"
  BY DEF DeliveryInv, CarryInv, PumpInv, Sound, Real
<1>2. OutcomeIsTrue'
  BY DEF DeliveryInv, CarryInv, OutcomeIsTrue
<1>3. QED
  BY <1>1, <1>2, LeaveCarries

(* The catch writes what the attempt number says. *)
LEMMA VerdictFact ==
  ASSUME DeliveryInv, NEW w \in WebhookWorkers, Working(w), Real(Mine(w)),
         SetRow(w, Verdict(Mine(w))), received' = received
  PROVE  /\ \A d \in Deliveries : d # Mine(w).delivery => delivery'[d] = delivery[d]
         /\ delivery'[Mine(w).delivery].status = Verdict(Mine(w))
         /\ Verdict(Mine(w)) \in {"RETRYING", "FAILED"}
         /\ OutcomeIsTrue'
<1>1. DeliveryTypeOK /\ Mine(w).of = Attempts
  BY DEF DeliveryInv, CarryInv, PumpInv, Sound
<1>2. Verdict(Mine(w)) \in {"RETRYING", "FAILED"}
  BY DEF Verdict
<1>3. Verdict(Mine(w)) = "FAILED" => Mine(w).made + 1 = Attempts
  BY <1>1, HeldJob, WebhookAssumption DEF Job, Verdict
<1>4. /\ \A d \in Deliveries : d # Mine(w).delivery => delivery'[d] = delivery[d]
      /\ delivery'[Mine(w).delivery].status = Verdict(Mine(w))
      /\ delivery'[Mine(w).delivery].attempts = Mine(w).made + 1
  BY <1>1, <1>2, NoteFact
<1>5. OutcomeIsTrue'
  BY <1>2, <1>3, <1>4 DEF DeliveryInv, CarryInv, OutcomeIsTrue
<1>6. QED
  BY <1>2, <1>4, <1>5

LEMMA RecordFailedCarries ==
  ASSUME DeliveryInv, NEW w \in WebhookWorkers, RecordFailed(w)
  PROVE  CarryInv'
<1>1. /\ DeliveryTypeOK /\ Working(w) /\ Real(Mine(w))
      /\ UNCHANGED <<firing, received>> /\ FiringKept
  BY DEF RecordFailed, Working, At, DeliveryInv, CarryInv, StageInv, FiringKept
<1>2. CASE Present(w)
  <2>1. SetRow(w, Verdict(Mine(w))) /\ Goto(w, "noted") /\ UNCHANGED jobs
    BY <1>2 DEF RecordFailed, Note
  <2>2. QED
    BY <1>1, <2>1, VerdictFact, MoveCarries DEF Stages
<1>3. CASE ~Present(w)
  <2>1. Failed(w) /\ UNCHANGED delivery
    BY <1>3 DEF RecordFailed, NoNote
  <2>2. QED
    BY <1>1, <2>1, FailedFact, SilentCarries
<1>4. QED
  BY <1>2, <1>3

LEMMA NoteFailsCarries ==
  ASSUME DeliveryInv, NEW w \in WebhookWorkers, NoteFails(w)
  PROVE  CarryInv'
<1>1. /\ DeliveryTypeOK /\ Working(w) /\ Real(Mine(w)) /\ Failed(w)
      /\ UNCHANGED <<firing, received>> /\ FiringKept
  BY DEF NoteFails, Working, At, DeliveryInv, CarryInv, StageInv, FiringKept
<1>2. CASE NoNote
  <2>1. UNCHANGED delivery
    BY <1>2 DEF NoNote
  <2>2. QED
    BY <1>1, <2>1, FailedFact, SilentCarries
<1>3. CASE Note(w, Verdict(Mine(w)))
  <2>1. /\ \A d \in Deliveries \ {Mine(w).delivery} : delivery'[d] = delivery[d]
        /\ delivery'[Mine(w).delivery].status # "none" /\ OutcomeIsTrue'
    BY <1>1, <1>3, VerdictFact DEF Note
  <2>2. PICK j \in Job : /\ j.delivery = Mine(w).delivery /\ j.of = Mine(w).of
                         /\ jobs' = jobs \/ jobs' = jobs \cup {j}
    BY <1>1, FailedFact
  <2>3. Rest(w) /\ (Real(j) => delivery'[j.delivery].status # "none")
    BY <1>1, <2>1, <2>2, FailedFact
  <2>4. QED
    BY <1>1, <2>1, <2>2, <2>3, LeaveCarries
<1>4. QED
  BY <1>2, <1>3 DEF NoteFails

LEMMA EndCarries ==
  ASSUME DeliveryInv, NEW w \in WebhookWorkers,
         Unsignable(w) \/ Rethrow(w) \/ Complete(w) \/ Crash(w)
  PROVE  CarryInv'
<1>0. DeliveryTypeOK
  BY DEF DeliveryInv
<1>1. /\ UNCHANGED <<delivery, received>> /\ FiringKept
      /\ Unsignable(w) \/ Rethrow(w) \/ Complete(w) => Working(w)
  BY <1>0, StopFact DEF Unsignable, Rethrow, Complete, Crash, Working, At, FiringKept
<1>2. Working(w) => Mine(w) \in Job
  BY <1>0, HeldJob
<1>3. CASE Failed(w) /\ Working(w)
  BY <1>0, <1>1, <1>3, FailedFact, SilentCarries
<1>4. CASE Crash(w) /\ Working(w)
  BY <1>0, <1>1, <1>4, CrashFact, SilentCarries
<1>5. CASE Crash(w) /\ ~Working(w)
  BY <1>0, <1>1, <1>5, IdleCrashFact, FiringStopsCarries
<1>6. CASE Complete(w)
  BY <1>1, <1>2, <1>6, SilentCarries DEF Complete
<1>7. QED
  BY <1>1, <1>3, <1>4, <1>5, <1>6 DEF Unsignable, Rethrow

(* A step of fireWebhook, made or failed. *)
LEMMA FireCarries ==
  ASSUME DeliveryInv, NEW w \in WebhookWorkers, Fire(w) \/ FireStep(w) \/ FireFails(w)
  PROVE  CarryInv'
<1>0. /\ DeliveryTypeOK /\ firing \in [WebhookWorkers -> Firings]
      /\ UNCHANGED <<pump, received>>
  BY DEF DeliveryInv, DeliveryTypeOK, Firings, Fire, FireStep, FireFails, AddJob, AddFails,
         InsertDelivery, InsertRefused, InsertFails
<1>1. CASE Fire(w)
  <2>1. FiringKept /\ UNCHANGED <<delivery, jobs>>
    BY <1>0, <1>1 DEF Fire, FiringKept, Firings
  <2>2. QED
    BY <1>0, <2>1, FiringStopsCarries
<1>2. CASE AddJob(w)
  <2>1. /\ firing'[w].adding = {} /\ UNCHANGED delivery
        /\ \A v \in WebhookWorkers : v # w => firing'[v] = firing[v]
    BY <1>0, <1>2 DEF AddJob, Firings
  <2>2. QED
    BY <1>0, <1>2, <2>1, AddCarries DEF AddJob
<1>3. CASE AddFails(w)
  <2>1. /\ firing'[w].adding = {} /\ UNCHANGED delivery /\ FiringKept
        /\ \A v \in WebhookWorkers : v # w => firing'[v] = firing[v]
    BY <1>0, <1>3, StopFact DEF AddFails
  <2>2. jobs' = jobs \/ jobs' = jobs \cup firing[w].adding
    BY <1>3 DEF AddFails
  <2>3. QED
    BY <1>0, <2>1, <2>2, AddCarries, FiringStopsCarries
<1>4. ASSUME NEW t \in firing[w].todo, InsertRefused(w, t)
      PROVE  CarryInv'
  BY <1>0, <1>4, StopFact, FiringStopsCarries DEF InsertRefused
<1>5. ASSUME NEW t \in firing[w].todo, NEW d \in Deliveries, InsertDelivery(w, t, d)
      PROVE  CarryInv'
  <2>1. /\ \A v \in WebhookWorkers : v # w => firing'[v] = firing[v]
        /\ firing'[w].adding =
             {[delivery |-> d, endpoint |-> t.endpoint, secret |-> t.secret, made |-> 0,
               of |-> Attempts, stalls |-> 0]}
    BY <1>0, <1>5 DEF InsertDelivery
  <2>2. QED
    BY <1>0, <1>5, <2>1, InsertCarries DEF InsertDelivery
<1>6. ASSUME NEW t \in firing[w].todo, InsertFails(w, t)
      PROVE  CarryInv'
  <2>1. /\ FiringKept /\ firing'[w].adding = {} /\ UNCHANGED jobs
        /\ \A v \in WebhookWorkers : v # w => firing'[v] = firing[v]
    BY <1>0, <1>6, StopFact DEF InsertFails
  <2>2. CASE UNCHANGED delivery
    BY <1>0, <2>1, <2>2, FiringStopsCarries
  <2>3. ASSUME NEW d \in Deliveries, Insertable(t, d), Insert(t, d)
        PROVE  CarryInv'
    BY <1>0, <2>1, <2>3, InsertCarries
  <2>4. QED
    BY <1>6, <2>2, <2>3 DEF InsertFails
<1>7. QED
  BY <1>1, <1>2, <1>3, <1>4, <1>5, <1>6 DEF FireStep, FireFails

-----------------------------------------------------------------------------
(* Types. *)
LEMMA EndpointTypes ==
  ASSUME DeliveryTypeOK, NEW p \in Endpoints, EndpointStep(p)
  PROVE  DeliveryTypeOK'
<1>1. /\ UNCHANGED <<firing, jobs, pump, unheard, received, posts, disputes, faults>>
      /\ \E r \in [state : {"none", "active", "inactive", "deleted"}, secret : 0..MaxRotations] :
           endpoint' = [endpoint EXCEPT ![p] = r]
  <2>0. endpoint[p] \in [state : {"none", "active", "inactive", "deleted"},
                         secret : 0..MaxRotations]
    BY DEF DeliveryTypeOK
  <2>a. ASSUME NEW s \in {"active", "inactive", "deleted"},
               SetEndpoint(p, [endpoint[p] EXCEPT !.state = s])
        PROVE  <1>1!1 /\ <1>1!2
    <3>1. [endpoint[p] EXCEPT !.state = s] \in
            [state : {"none", "active", "inactive", "deleted"}, secret : 0..MaxRotations]
      BY <2>0
    <3> QED  BY <2>a, <3>1 DEF SetEndpoint
  <2>1. CASE Register(p)
    BY <2>1, <2>a DEF Register
  <2>2. CASE UpdateEndpoint(p)
    <3>1. PICK s \in {"active", "inactive"} :
            SetEndpoint(p, [endpoint[p] EXCEPT !.state = s])
      BY <2>2 DEF UpdateEndpoint
    <3> QED  BY <2>a, <3>1
  <2>3. CASE DeleteEndpoint(p)
    BY <2>3, <2>a DEF DeleteEndpoint
  <2>4. CASE RotateSecret(p)
    <3>1. endpoint[p].secret + 1 \in 0..MaxRotations
      BY <2>0, <2>4, WebhookAssumption DEF RotateSecret
    <3>2. [endpoint[p] EXCEPT !.secret = @ + 1] \in
            [state : {"none", "active", "inactive", "deleted"}, secret : 0..MaxRotations]
      BY <2>0, <3>1
    <3> QED  BY <2>4, <3>2 DEF RotateSecret, SetEndpoint
  <2>5. QED
    BY <2>1, <2>2, <2>3, <2>4 DEF EndpointStep
<1>2. delivery' \in [Deliveries ->
        [status : {"none", "PENDING", "RETRYING", "DELIVERED", "FAILED", "deleted"},
         endpoint : Endpoints \cup {"none"}, attempts : 0..Attempts]]
  <2>1. CASE UNCHANGED delivery
    BY <2>1 DEF DeliveryTypeOK
  <2>2. CASE DeleteEndpoint(p)
    BY <2>2 DEF DeleteEndpoint, DeliveryTypeOK
  <2>3. QED
    BY <2>1, <2>2 DEF EndpointStep, Register, UpdateEndpoint, RotateSecret
<1>3. QED
  BY <1>1, <1>2 DEF DeliveryTypeOK

LEMMA FireTypes ==
  ASSUME DeliveryTypeOK, NEW w \in WebhookWorkers, Fire(w) \/ FireStep(w) \/ FireFails(w)
  PROVE  DeliveryTypeOK'
<1>0. /\ firing \in [WebhookWorkers -> Firings]
      /\ UNCHANGED <<endpoint, pump, unheard, received, posts, disputes>>
  BY DEF DeliveryTypeOK, Firings, Fire, FireStep, FireFails, AddJob, AddFails,
         InsertDelivery, InsertRefused, InsertFails
<1>1. \/ UNCHANGED faults
      \/ CallFails
  BY DEF Fire, FireStep, FireFails, AddJob, AddFails, InsertDelivery, InsertRefused,
         InsertFails
<1>2. faults' \in [crashes : 0..MaxCrashes, db : 0..MaxFaults]
  BY <1>1, WebhookAssumption DEF CallFails, DeliveryTypeOK
<1>3. CASE Fire(w)
  <2>1. {[endpoint |-> p, secret |-> endpoint[p].secret] :
           p \in {q \in Endpoints : endpoint[q].state = "active"}}
          \in SUBSET [endpoint : Endpoints, secret : 0..MaxRotations]
    BY DEF DeliveryTypeOK
  <2>2. firing' \in [WebhookWorkers -> Firings] /\ UNCHANGED <<delivery, jobs>>
    BY <1>0, <1>3, <2>1 DEF Fire, Firings
  <2>3. QED
    BY <1>0, <1>2, <2>2 DEF DeliveryTypeOK, Firings
<1>4. CASE AddJob(w) \/ AddFails(w)
  <2>1. firing' \in [WebhookWorkers -> Firings]
    BY <1>0, <1>4, StopFact DEF AddJob, AddFails, Firings
  <2>2. jobs' \in SUBSET Job /\ UNCHANGED delivery
    BY <1>0, <1>4 DEF AddJob, AddFails, DeliveryTypeOK
  <2>3. QED
    BY <1>0, <1>2, <2>1, <2>2 DEF DeliveryTypeOK, Firings
<1>5. ASSUME NEW t \in firing[w].todo, NEW d \in Deliveries, Insert(t, d)
      PROVE  delivery' \in [Deliveries ->
        [status : {"none", "PENDING", "RETRYING", "DELIVERED", "FAILED", "deleted"},
         endpoint : Endpoints \cup {"none"}, attempts : 0..Attempts]]
  <2>1. [status |-> "PENDING", endpoint |-> t.endpoint, attempts |-> 0] \in
           [status : {"none", "PENDING", "RETRYING", "DELIVERED", "FAILED", "deleted"},
            endpoint : Endpoints \cup {"none"}, attempts : 0..Attempts]
    BY WebhookAssumption DEF DeliveryTypeOK
  <2>2. QED
    BY <1>5, <2>1 DEF Insert, DeliveryTypeOK
<1>6. ASSUME NEW t \in firing[w].todo, InsertRefused(w, t) \/ InsertFails(w, t)
      PROVE  DeliveryTypeOK'
  <2>1. firing' \in [WebhookWorkers -> Firings] /\ UNCHANGED jobs
    BY <1>6, StopFact DEF InsertRefused, InsertFails
  <2>2. UNCHANGED delivery \/ \E d \in Deliveries : Insert(t, d)
    BY <1>6 DEF InsertRefused, InsertFails
  <2>3. QED
    BY <1>0, <1>2, <1>5, <2>1, <2>2 DEF DeliveryTypeOK, Firings
<1>7. ASSUME NEW t \in firing[w].todo, NEW d \in Deliveries, InsertDelivery(w, t, d)
      PROVE  DeliveryTypeOK'
  <2>1. [delivery |-> d, endpoint |-> t.endpoint, secret |-> t.secret, made |-> 0,
         of |-> Attempts, stalls |-> 0] \in Job
    BY WebhookAssumption DEF Job, DeliveryTypeOK
  <2>2. firing' \in [WebhookWorkers -> Firings]
    BY <1>0, <1>7, <2>1 DEF InsertDelivery, Firings
  <2>3. QED
    BY <1>0, <1>2, <1>5, <1>7, <2>2 DEF InsertDelivery, DeliveryTypeOK, Firings
<1>8. QED
  BY <1>3, <1>4, <1>6, <1>7 DEF FireStep, FireFails

LEMMA AnnounceTypes ==
  ASSUME DeliveryTypeOK, AnnounceDispute
  PROVE  DeliveryTypeOK'
<1>1. [delivery |-> NoDelivery, endpoint |-> "none", secret |-> 0, made |-> 0,
       of |-> 1, stalls |-> 0] \in Job
  BY WebhookAssumption DEF Job
<1>2. QED
  BY <1>1, WebhookAssumption DEF AnnounceDispute, DeliveryTypeOK

LEMMA TakeTypes ==
  ASSUME DeliveryTypeOK, NEW w \in WebhookWorkers, NEW j \in jobs, Take(w, j)
  PROVE  DeliveryTypeOK'
<1>1. [pc |-> "post", job |-> j] \in
        [pc : Stages, job : Job]
  BY DEF DeliveryTypeOK, Stages
<1>2. QED
  BY <1>1 DEF Take, DeliveryTypeOK, Stages

LEMMA PostTypes ==
  ASSUME DeliveryTypeOK, NEW w \in WebhookWorkers, Post(w)
  PROVE  DeliveryTypeOK'
<1>1. Working(w) /\ \E pc \in Stages : Goto(w, pc)
  BY DEF Post, Working, At, Stages
<1>2. pump' \in [WebhookWorkers -> [pc : Stages, job : Job] \cup {Resting}]
  BY <1>1, GotoFact
<1>3. Mine(w).delivery \in Deliveries
  BY <1>1, HeldJob DEF Post, Job
<1>4. posts' \in [Deliveries -> 0..MaxPosts]
  BY <1>3, MaxPostsNat DEF Post, CountPost, DeliveryTypeOK
<1>5. QED
  BY <1>2, <1>3, <1>4 DEF Post, DeliveryTypeOK, Stages

(* The updates of the row, made or failed. *)
LEMMA RecordTypes ==
  ASSUME DeliveryTypeOK, NEW w \in WebhookWorkers, Real(Mine(w)),
         RecordDelivered(w) \/ RecordFailed(w) \/ UpdateFails(w) \/ NoteFails(w)
  PROVE  DeliveryTypeOK'
<1>1. /\ Working(w)
      /\ UNCHANGED <<endpoint, firing, received, posts, disputes>>
      /\ UNCHANGED faults \/ CallFails
  BY DEF RecordDelivered, RecordFailed, UpdateFails, NoteFails, Working, At
<1>2. \/ /\ UNCHANGED jobs
         /\ \E pc \in Stages : Goto(w, pc)
      \/ Failed(w)
  BY DEF RecordDelivered, RecordFailed, UpdateFails, NoteFails, Stages
<1>3. pump' \in [WebhookWorkers -> [pc : Stages, job : Job] \cup {Resting}]
  BY <1>1, <1>2, GotoFact, FailedFact, RestFact
<1>4. jobs' \in SUBSET Job
  BY <1>1, <1>2, FailedFact DEF DeliveryTypeOK
<1>5. delivery' \in [Deliveries ->
        [status : {"none", "PENDING", "RETRYING", "DELIVERED", "FAILED", "deleted"},
         endpoint : Endpoints \cup {"none"}, attempts : 0..Attempts]]
  <2>1. \/ UNCHANGED delivery
        \/ \E s \in {"RETRYING", "DELIVERED", "FAILED"} : SetRow(w, s)
    BY DEF RecordDelivered, RecordFailed, UpdateFails, NoteFails, Note, NoNote, Verdict
  <2>2. QED
    BY <1>1, <2>1, NoteFact DEF DeliveryTypeOK
<1>6. unheard' \in SUBSET Deliveries
  <2>1. Mine(w).delivery \in Deliveries
    BY <1>1, HeldJob DEF Job, Real
  <2>2. unheard' \in {unheard, unheard \ {Mine(w).delivery}, unheard \cup {Mine(w).delivery}}
    BY DEF RecordDelivered, RecordFailed, UpdateFails, NoteFails, Note, NoNote
  <2>3. QED
    BY <2>1, <2>2 DEF DeliveryTypeOK
<1>7. faults' \in [crashes : 0..MaxCrashes, db : 0..MaxFaults]
  BY <1>1, WebhookAssumption DEF CallFails, DeliveryTypeOK
<1>8. QED
  BY <1>1, <1>3, <1>4, <1>5, <1>6, <1>7 DEF DeliveryTypeOK, Stages

LEMMA LeaveTypes ==
  ASSUME DeliveryTypeOK, NEW w \in WebhookWorkers,
         Unsignable(w) \/ Rethrow(w) \/ Complete(w) \/ Crash(w)
  PROVE  DeliveryTypeOK'
<1>1. UNCHANGED <<endpoint, delivery, unheard, received, posts, disputes>>
  BY DEF Unsignable, Rethrow, Complete, Crash
<1>2. Rest(w) /\ jobs' \in SUBSET Job
  <2>1. CASE Failed(w) /\ Working(w)
    BY <2>1, FailedFact DEF DeliveryTypeOK
  <2>2. CASE Crash(w) /\ Working(w)
    BY <2>2, CrashFact DEF DeliveryTypeOK
  <2>3. CASE Crash(w) /\ ~Working(w)
    BY <2>3, IdleCrashFact DEF Crash, DeliveryTypeOK
  <2>4. CASE Complete(w)
    BY <2>4 DEF Complete, DeliveryTypeOK
  <2>5. QED
    BY <2>1, <2>2, <2>3, <2>4 DEF Unsignable, Rethrow, Working, At
<1>3. pump' \in [WebhookWorkers ->
        [pc : Stages, job : Job] \cup {Resting}]
  BY <1>2, RestFact
<1>4. firing' \in [WebhookWorkers -> Firings]
  BY StopFact DEF Unsignable, Rethrow, Complete, Crash, DeliveryTypeOK, Firings
<1>5. faults' \in [crashes : 0..MaxCrashes, db : 0..MaxFaults]
  BY WebhookAssumption DEF Unsignable, Rethrow, Complete, Crash, DeliveryTypeOK
<1>6. QED
  BY <1>1, <1>2, <1>3, <1>4, <1>5 DEF DeliveryTypeOK, Stages, Firings

-----------------------------------------------------------------------------
(* The theorems. *)
LEMMA InitHolds == DeliveryInit => DeliveryInv
<1> SUFFICES ASSUME DeliveryInit
    PROVE  DeliveryInv
  OBVIOUS
<1>1. DeliveryTypeOK
  BY WebhookAssumption, MaxPostsNat
     DEF DeliveryInit, DeliveryTypeOK, Unborn, Quiet, Resting
<1>2. CarryInv
  BY DEF DeliveryInit, CarryInv, QueueInv, PumpInv, FiringInv, StageInv,
         OutcomeIsTrue, Unborn, Quiet, Resting, Working, At
<1>3. QED
  BY <1>1, <1>2 DEF DeliveryInv

LEMMA StepKeeps == DeliveryInv /\ [DeliveryNext]_webhookVars => DeliveryInv'
<1> SUFFICES ASSUME DeliveryInv, [DeliveryNext]_webhookVars
    PROVE  DeliveryInv'
  OBVIOUS
<1>0. DeliveryTypeOK
  BY DEF DeliveryInv
<1>1. ASSUME NEW p \in Endpoints, EndpointStep(p)
      PROVE  DeliveryInv'
  BY <1>0, <1>1, EndpointTypes, EndpointCarries DEF DeliveryInv
<1>2. CASE AnnounceDispute
  BY <1>0, <1>2, AnnounceTypes, AnnounceCarries DEF DeliveryInv
<1>3. ASSUME NEW w \in WebhookWorkers, Fire(w) \/ FireStep(w) \/ FireFails(w)
      PROVE  DeliveryInv'
  BY <1>0, <1>3, FireTypes, FireCarries DEF DeliveryInv
<1>4. ASSUME NEW w \in WebhookWorkers, PumpStep(w) \/ UpdateFails(w) \/ NoteFails(w) \/ Crash(w)
      PROVE  DeliveryInv'
  <2>1. ASSUME NEW j \in jobs, Take(w, j)
        PROVE  DeliveryInv'
    BY <1>0, <2>1, TakeTypes, TakeCarries DEF DeliveryInv
  <2>2. CASE Unsignable(w) \/ Rethrow(w) \/ Complete(w) \/ Crash(w)
    BY <1>0, <2>2, LeaveTypes, EndCarries DEF DeliveryInv
  <2>3. CASE Post(w)
    BY <1>0, <2>3, PostTypes, PostCarries DEF DeliveryInv
  <2>4. CASE RecordDelivered(w) \/ RecordFailed(w) \/ UpdateFails(w) \/ NoteFails(w)
    <3>1. Real(Mine(w))
      BY <2>4 DEF RecordDelivered, RecordFailed, UpdateFails, NoteFails, At, DeliveryInv,
                  CarryInv, StageInv
    <3>2. CarryInv'
      BY <2>4, RecordDeliveredCarries, RecordFailedCarries, UpdateFailsCarries,
         NoteFailsCarries
    <3>3. QED
      BY <1>0, <2>4, <3>1, <3>2, RecordTypes DEF DeliveryInv
  <2>5. QED
    BY <1>4, <2>1, <2>2, <2>3, <2>4 DEF PumpStep
<1>5. CASE UNCHANGED webhookVars
  BY <1>5 DEF webhookVars, DeliveryInv, DeliveryTypeOK, CarryInv, QueueInv, PumpInv,
              FiringInv, StageInv, OutcomeIsTrue, Sound, Verdict, Real, Working, At, Mine
<1>6. QED
  BY <1>1, <1>2, <1>3, <1>4, <1>5 DEF DeliveryNext

(* InvHolds: the inductive invariant holds in every reachable state. *)
LEMMA InvHolds == DeliverySpec => []DeliveryInv
  BY InitHolds, StepKeeps, PTL DEF DeliverySpec

(* DeliveriesWellTyped: rows, jobs and workers have the shapes that the    *)
(* code gives them, and no bound is exceeded.                              *)
THEOREM DeliveriesWellTyped == DeliverySpec => []DeliveryTypeOK
<1>1. DeliveryInv => DeliveryTypeOK
  BY DEF DeliveryInv
<1>2. QED
  BY <1>1, InvHolds, PTL

(* OutcomesTrue: DELIVERED and FAILED say what happened (OutcomeIsTrue),   *)
(* whatever dies or fails and however often an event is posted.            *)
THEOREM OutcomesTrue == DeliverySpec => []OutcomeIsTrue
<1>1. DeliveryInv => OutcomeIsTrue
  BY DEF DeliveryInv, CarryInv
<1>2. QED
  BY <1>1, InvHolds, PTL

-----------------------------------------------------------------------------
(* How often a delivery is posted, and what may overwrite its outcome.     *)

(* Only the jobs of workers that died - they count their stalls - and      *)
(* those that did not hear that their row was updated are for deliveries   *)
(* already decided; and a job knows of all the posts made for its          *)
(* delivery.                                                               *)
Excused(j) == j.stalls > 0 \/ j.delivery \in unheard
Queued(j) ==
  /\ j.stalls <= faults.crashes
  /\ Real(j) => /\ Decided(j.delivery) => Excused(j)
                /\ posts[j.delivery] <= j.made + j.stalls
Running(w) ==
  /\ Mine(w).stalls <= faults.crashes
  /\ Real(Mine(w)) =>
       /\ Decided(Mine(w).delivery) =>
            \/ Excused(Mine(w))
            \/ At(w, "done")
            \/ At(w, "noted") /\ Mine(w).made + 1 >= Mine(w).of
       /\ posts[Mine(w).delivery] <=
            Mine(w).made + Mine(w).stalls + (IF At(w, "post") THEN 0 ELSE 1)
Fresh(i) == /\ i.made = 0 /\ i.stalls = 0
            /\ ~Decided(i.delivery) /\ posts[i.delivery] = 0
HistoryInv ==
  /\ \A j \in jobs : Queued(j)
  /\ \A w \in WebhookWorkers : Working(w) => Running(w)
  /\ \A v \in WebhookWorkers : \A i \in firing[v].adding : Fresh(i)
  /\ \A d \in Deliveries : delivery[d].status = "none" => posts[d] = 0
  /\ PostsBounded

(* A step that, but for the delivery e, posts and decides nothing. *)
Spares(e) ==
  /\ \A d \in Deliveries \ {e} :
       /\ posts'[d] = posts[d]
       /\ Decided(d)' => Decided(d)
       /\ delivery'[d].status = "none" => delivery[d].status = "none"
       /\ d \in unheard => d \in unheard'
  /\ faults'.crashes >= faults.crashes

LEMMA Counters ==
  ASSUME DeliveryTypeOK
  PROVE  /\ faults.crashes \in Nat /\ Attempts \in Nat
         /\ \A d \in Deliveries : posts[d] \in Nat
         /\ \A j \in Job : /\ j.made \in Nat /\ j.stalls \in Nat
                           /\ j.made + 1 <= Attempts /\ j.of \in Nat
                           /\ Real(j) => j.delivery \in Deliveries
<1>1. \A d \in Deliveries : posts[d] \in Nat
  BY MaxPostsNat DEF DeliveryTypeOK
<1>2. faults.crashes \in Nat /\ Attempts \in Nat
  BY WebhookAssumption DEF DeliveryTypeOK
<1>3. \A j \in Job : /\ j.made \in Nat /\ j.stalls \in Nat
                     /\ j.made + 1 <= Attempts /\ j.of \in Nat
                     /\ Real(j) => j.delivery \in Deliveries
  BY WebhookAssumption DEF Job, Real
<1>4. QED
  BY <1>1, <1>2, <1>3

LEMMA SparedQueued ==
  ASSUME DeliveryTypeOK, DeliveryTypeOK', NEW e, Spares(e), NEW j \in Job, Queued(j),
         Real(j) => j.delivery # e
  PROVE  Queued(j)'
<1>1. /\ j.stalls \in Nat /\ faults.crashes \in Nat
      /\ Real(j) => j.delivery \in Deliveries
  BY Counters DEF DeliveryTypeOK
<1>2. faults'.crashes \in Nat
  BY WebhookAssumption DEF DeliveryTypeOK
<1>3. j.stalls <= faults'.crashes
  BY <1>1, <1>2 DEF Queued, Spares
<1>4. QED
  BY <1>1, <1>3 DEF Queued, Excused, Spares, Real

LEMMA SparedRunning ==
  ASSUME DeliveryTypeOK, DeliveryTypeOK', NEW e, Spares(e), NEW w \in WebhookWorkers,
         Working(w), Running(w), pump'[w] = pump[w], Real(Mine(w)) => Mine(w).delivery # e
  PROVE  Running(w)'
<1>1. /\ Mine(w).stalls \in Nat /\ faults.crashes \in Nat
      /\ Real(Mine(w)) => Mine(w).delivery \in Deliveries
  BY HeldJob, Counters
<1>2. faults'.crashes \in Nat
  BY WebhookAssumption DEF DeliveryTypeOK
<1>3. Mine(w).stalls <= faults'.crashes
  BY <1>1, <1>2 DEF Running, Spares
<1>4. QED
  BY <1>1, <1>3 DEF Running, Excused, Spares, Real, Mine, At

LEMMA SparedRest ==
  ASSUME DeliveryInv, DeliveryTypeOK', HistoryInv, NEW e, Spares(e)
  PROVE  /\ \A v \in WebhookWorkers : \A i \in firing[v].adding :
              i.delivery # e => Fresh(i)'
         /\ \A d \in Deliveries : d # e =>
              /\ delivery'[d].status = "none" => posts'[d] = 0
              /\ posts'[d] <= Attempts + faults'.crashes
<1>1. \A v \in WebhookWorkers : \A i \in firing[v].adding : i.delivery \in Deliveries
  BY Counters DEF DeliveryInv, DeliveryTypeOK, CarryInv, FiringInv
<1>2. /\ faults.crashes \in Nat /\ faults'.crashes \in Nat /\ Attempts \in Nat
      /\ \A d \in Deliveries : posts[d] \in Nat
  BY Counters, WebhookAssumption DEF DeliveryInv, DeliveryTypeOK
<1>3. \A v \in WebhookWorkers : \A i \in firing[v].adding :
         i.delivery # e => Fresh(i)'
  BY <1>1 DEF HistoryInv, Fresh, Spares
<1>4. QED
  BY <1>2, <1>3 DEF HistoryInv, PostsBounded, Spares

(* A worker moves on with its job. *)
LEMMA MoveHistory ==
  ASSUME DeliveryInv, DeliveryTypeOK', HistoryInv,
         NEW w \in WebhookWorkers, Working(w), Real(Mine(w)),
         NEW pc \in Stages, Goto(w, pc), UNCHANGED <<jobs, firing>>,
         Spares(Mine(w).delivery), Running(w)',
         delivery'[Mine(w).delivery].status # "none",
         posts'[Mine(w).delivery] <= Attempts + faults'.crashes
  PROVE  HistoryInv'
<1>0. DeliveryTypeOK
  BY DEF DeliveryInv
<1>1. /\ \A v \in WebhookWorkers : v # w => pump'[v] = pump[v]
      /\ Mine(w)' = Mine(w)
  BY <1>0, GotoFact DEF Mine
<1>2. \A j \in jobs : Queued(j)'
  <2>1. jobs \subseteq Job /\ \A j \in jobs : Real(j) => j.delivery # Mine(w).delivery
    BY <1>0 DEF DeliveryInv, CarryInv, PumpInv, DeliveryTypeOK
  <2>2. QED
    BY <1>0, <2>1, SparedQueued DEF HistoryInv
<1>3. \A v \in WebhookWorkers : Working(v)' => Running(v)'
  <2> SUFFICES ASSUME NEW v \in WebhookWorkers, v # w, Working(v)'
      PROVE  Running(v)'
    OBVIOUS
  <2>1. Working(v) /\ pump'[v] = pump[v]
    BY <1>1 DEF Working, At
  <2>2. Real(Mine(v)) => Mine(v).delivery # Mine(w).delivery
    BY <2>1 DEF DeliveryInv, CarryInv, PumpInv
  <2>3. QED
    BY <1>0, <2>1, <2>2, SparedRunning DEF HistoryInv
<1>4. \A v \in WebhookWorkers : \A i \in firing[v].adding : Fresh(i)'
  <2>1. \A v \in WebhookWorkers : \A i \in firing[v].adding :
           i.delivery # Mine(w).delivery
    BY DEF DeliveryInv, CarryInv, FiringInv
  <2>2. QED
    BY <2>1, SparedRest
<1>5. \A d \in Deliveries : /\ delivery'[d].status = "none" => posts'[d] = 0
                           /\ posts'[d] <= Attempts + faults'.crashes
  BY SparedRest
<1>6. QED
  BY <1>2, <1>3, <1>4, <1>5 DEF HistoryInv, PostsBounded

(* A worker is done with its attempt, and what goes back to the queue      *)
(* knows of the posts made.                                                *)
LEMMA LeaveHistory ==
  ASSUME DeliveryInv, DeliveryTypeOK', HistoryInv,
         NEW w \in WebhookWorkers, Working(w), Rest(w),
         UNCHANGED posts, FiringKept, Spares(Mine(w).delivery),
         Real(Mine(w)) => delivery'[Mine(w).delivery].status # "none",
         \A i \in jobs' : i \in jobs \/ Queued(i)'
  PROVE  HistoryInv'
<1>0. DeliveryTypeOK
  BY DEF DeliveryInv
<1>1. /\ \A v \in WebhookWorkers : v # w => pump'[v] = pump[v]
      /\ ~Working(w)'
  BY <1>0, RestFact DEF Working, At
<1>2. \A i \in jobs' : Queued(i)'
  <2> SUFFICES ASSUME NEW i \in jobs
      PROVE  Queued(i)'
    OBVIOUS
  <2>1. i \in Job /\ Queued(i)
    BY <1>0 DEF HistoryInv, DeliveryTypeOK
  <2>2. Real(i) => i.delivery # Mine(w).delivery
    BY DEF DeliveryInv, CarryInv, PumpInv
  <2>3. QED
    BY <1>0, <2>1, <2>2, SparedQueued
<1>3. \A v \in WebhookWorkers : Working(v)' => Running(v)'
  <2> SUFFICES ASSUME NEW v \in WebhookWorkers, v # w, Working(v)'
      PROVE  Running(v)'
    BY <1>1
  <2>1. Working(v) /\ pump'[v] = pump[v]
    BY <1>1 DEF Working, At
  <2>2. Real(Mine(v)) => Mine(v).delivery # Mine(w).delivery
    BY <2>1 DEF DeliveryInv, CarryInv, PumpInv
  <2>3. QED
    BY <1>0, <2>1, <2>2, SparedRunning DEF HistoryInv
<1>4. \A v \in WebhookWorkers : \A i \in firing'[v].adding : Fresh(i)'
  <2>1. \A v \in WebhookWorkers : \A i \in firing[v].adding :
           i.delivery # Mine(w).delivery
    BY DEF DeliveryInv, CarryInv, FiringInv
  <2>2. QED
    BY <2>1, SparedRest DEF FiringKept
<1>5. \A d \in Deliveries : posts[d] <= Attempts + faults'.crashes
  <2>1. /\ faults.crashes \in Nat /\ Attempts \in Nat
        /\ \A d \in Deliveries : posts[d] \in Nat
    BY <1>0, Counters
  <2>2. faults'.crashes \in Nat /\ faults'.crashes >= faults.crashes
    BY WebhookAssumption DEF DeliveryTypeOK, Spares
  <2>3. QED
    BY <2>1, <2>2 DEF HistoryInv, PostsBounded
<1>6. \A d \in Deliveries : delivery'[d].status = "none" => posts'[d] = 0
  <2>1. \A d \in Deliveries : d = Mine(w).delivery => Real(Mine(w))
    BY WebhookAssumption DEF Real
  <2>2. QED
    BY <2>1, SparedRest
<1>7. QED
  BY <1>2, <1>3, <1>4, <1>5, <1>6 DEF HistoryInv, PostsBounded

(* An attempt that ends in an exception, with at most its verdict noted:   *)
(* what BullMQ puts back for it.                                           *)
LEMMA FailedHistory ==
  ASSUME DeliveryInv, DeliveryTypeOK', HistoryInv, NEW w \in WebhookWorkers,
         Working(w), ~At(w, "done"), Failed(w), UNCHANGED <<firing, posts>>,
         faults'.crashes = faults.crashes,
         \/ UNCHANGED <<delivery, unheard>>
         \/ Real(Mine(w)) /\ Note(w, Verdict(Mine(w)))
  PROVE  HistoryInv'
<1>1. /\ DeliveryTypeOK /\ FiringKept /\ Rest(w)
      /\ Mine(w) \in Job /\ Running(w)
      /\ faults.crashes \in Nat
      /\ Mine(w).made \in Nat /\ Mine(w).stalls \in Nat /\ Mine(w).of \in Nat
      /\ Real(Mine(w)) => posts[Mine(w).delivery] \in Nat
  BY HeldJob, Counters, FailedFact DEF HistoryInv, FiringKept, DeliveryInv
<1>2. /\ \A d \in Deliveries : d # Mine(w).delivery =>
           delivery'[d] = delivery[d] /\ (d \in unheard => d \in unheard')
      /\ \/ UNCHANGED <<delivery, unheard>>
         \/ Real(Mine(w)) /\ delivery'[Mine(w).delivery].status = Verdict(Mine(w))
      /\ Verdict(Mine(w)) \in {"FAILED", "RETRYING"}
  BY <1>1, NoteFact DEF Note, Verdict
<1>3. Spares(Mine(w).delivery)
  BY <1>1, <1>2 DEF Spares, Decided
<1>4. Real(Mine(w)) => delivery'[Mine(w).delivery].status # "none"
  BY <1>2 DEF DeliveryInv, CarryInv, PumpInv, Sound
<1>5. PICK j \in Job : /\ j.delivery = Mine(w).delivery /\ j.stalls = Mine(w).stalls
                       /\ \/ /\ Mine(w).made + 1 < Mine(w).of
                             /\ j.made = Mine(w).made + 1
                             /\ jobs' = jobs \cup {j}
                          \/ jobs' = jobs
  BY <1>1, FailedFact
<1>6. CASE jobs' = jobs
  BY <1>1, <1>3, <1>4, <1>6, LeaveHistory
<1>7. CASE jobs' = jobs \cup {j} /\ Mine(w).made + 1 < Mine(w).of
                                /\ j.made = Mine(w).made + 1
  <2>1. Real(j) => (Decided(j.delivery)' => Excused(j)')
    <3>1. CASE UNCHANGED <<delivery, unheard>>
      BY <1>1, <1>5, <1>7, <3>1 DEF Running, Real, Excused, Decided
    <3>2. CASE delivery'[Mine(w).delivery].status = Verdict(Mine(w))
      BY <1>1, <1>5, <1>7, <3>2 DEF Decided, Verdict
    <3>3. QED
      BY <1>2, <3>1, <3>2
  <2>2. Real(j) => posts[j.delivery] <= j.made + j.stalls
    BY <1>1, <1>5, <1>7 DEF Running, Real
  <2>3. j.stalls <= faults'.crashes
    BY <1>1, <1>5 DEF Running
  <2>4. Queued(j)'
    BY <2>1, <2>2, <2>3 DEF Queued, Real
  <2>5. QED
    BY <1>1, <1>3, <1>4, <1>7, <2>4, LeaveHistory
<1>8. QED
  BY <1>5, <1>6, <1>7

(* The steps that end an attempt. *)
LEMMA EndHistory ==
  ASSUME DeliveryInv, DeliveryTypeOK', HistoryInv, NEW w \in WebhookWorkers, Working(w),
         \/ Unsignable(w) \/ NoteFails(w) \/ Rethrow(w) \/ Complete(w) \/ Crash(w)
         \/ RecordFailed(w) /\ ~Present(w)
  PROVE  HistoryInv'
<1>1. /\ DeliveryTypeOK /\ Mine(w) \in Job /\ Running(w)
      /\ faults.crashes \in Nat
      /\ Mine(w).made \in Nat /\ Mine(w).stalls \in Nat /\ Mine(w).of \in Nat
      /\ Real(Mine(w)) => posts[Mine(w).delivery] \in Nat
      /\ Real(Mine(w)) => delivery[Mine(w).delivery].status # "none"
  BY HeldJob, Counters DEF HistoryInv, DeliveryInv, CarryInv, PumpInv, Sound
<1>2. CASE \/ Unsignable(w) \/ NoteFails(w) \/ Rethrow(w)
           \/ RecordFailed(w) /\ ~Present(w)
  <2>1. /\ ~At(w, "done") /\ Failed(w) /\ UNCHANGED <<firing, posts>>
        /\ UNCHANGED faults \/ CallFails
        /\ \/ UNCHANGED <<delivery, unheard>>
           \/ At(w, "failed") /\ Note(w, Verdict(Mine(w)))
    BY <1>2 DEF Unsignable, NoteFails, Rethrow, RecordFailed, NoNote, At
  <2>2. faults'.crashes = faults.crashes
    BY <1>1, <2>1 DEF CallFails, DeliveryTypeOK
  <2>3. At(w, "failed") => Real(Mine(w))
    BY DEF At, DeliveryInv, CarryInv, StageInv
  <2>4. QED
    BY <2>1, <2>2, <2>3, FailedHistory
<1>3. CASE Crash(w)
  <2>1. Rest(w) /\ FiringKept
    BY <1>1, <1>3, CrashFact, StopFact DEF Crash
  <2>2. PICK j \in Job : /\ j.delivery = Mine(w).delivery
                         /\ \/ jobs' = jobs
                            \/ /\ jobs' = jobs \cup {j}
                               /\ j.stalls = Mine(w).stalls + 1
                               /\ j.made = Mine(w).made
    BY <1>1, <1>3, CrashFact
  <2>3. faults'.crashes = faults.crashes + 1 /\ UNCHANGED <<delivery, unheard, posts>>
    BY <1>1, <1>3 DEF Crash, DeliveryTypeOK
  <2>4. Spares(Mine(w).delivery)
    BY <1>1, <2>3 DEF Spares, Decided
  <2>5. CASE jobs' = jobs
    BY <1>1, <2>1, <2>3, <2>4, <2>5, LeaveHistory
  <2>6. CASE /\ jobs' = jobs \cup {j}
             /\ j.stalls = Mine(w).stalls + 1
             /\ j.made = Mine(w).made
    <3>1. j.stalls <= faults'.crashes /\ j.stalls > 0
      BY <1>1, <2>3, <2>6 DEF Running
    <3>2. Real(j) => posts[j.delivery] <= j.made + j.stalls
      BY <1>1, <2>2, <2>6 DEF Running, Real
    <3>3. Queued(j)'
      BY <2>3, <3>1, <3>2 DEF Queued, Excused, Real
    <3>4. QED
      BY <1>1, <2>1, <2>3, <2>4, <2>6, <3>3, LeaveHistory
  <2>7. QED
    BY <2>2, <2>5, <2>6
<1>4. CASE Complete(w)
  <2>1. Spares(Mine(w).delivery) /\ FiringKept
    BY <1>1, <1>4 DEF Complete, Spares, Decided, FiringKept
  <2>2. QED
    BY <1>1, <1>4, <2>1, LeaveHistory DEF Complete
<1>5. QED
  BY <1>2, <1>3, <1>4

(* What Running says after a step that keeps the worker's job. *)
LEMMA RunningThen ==
  ASSUME NEW w \in WebhookWorkers, Mine(w)' = Mine(w), NEW pc, pump'[w].pc = pc,
         pc # "post",
         Mine(w).stalls <= faults'.crashes,
         delivery'[Mine(w).delivery].status \in {"DELIVERED", "FAILED"} =>
           \/ Mine(w).stalls > 0 \/ Mine(w).delivery \in unheard'
           \/ pc = "done"
           \/ pc = "noted" /\ Mine(w).made + 1 >= Mine(w).of,
         posts'[Mine(w).delivery] <= Mine(w).made + Mine(w).stalls + 1
  PROVE  Running(w)'
  BY DEF Running, Excused, Decided, At, Real

LEMMA PostHistory ==
  ASSUME DeliveryInv, DeliveryTypeOK', HistoryInv, NEW w \in WebhookWorkers,
         Post(w)
  PROVE  HistoryInv'
<1> DEFINE d == Mine(w).delivery
<1>1. /\ DeliveryTypeOK /\ Working(w) /\ Real(Mine(w)) /\ At(w, "post")
      /\ UNCHANGED <<delivery, jobs, firing, unheard, faults>> /\ CountPost(d)
  BY DEF Post, Working, At, Real, DeliveryInv
<1>2. /\ Mine(w) \in Job /\ Running(w) /\ d \in Deliveries
      /\ faults.crashes \in Nat /\ Attempts \in Nat
      /\ Mine(w).made \in Nat /\ Mine(w).stalls \in Nat
      /\ Mine(w).made + 1 <= Attempts /\ posts[d] \in Nat
  BY <1>1, HeldJob, Counters DEF HistoryInv
<1>3. PICK pc \in {"answered", "failed"} : Goto(w, pc)
  BY DEF Post
<1>4. Mine(w)' = Mine(w) /\ At(w, pc)'
  BY <1>1, <1>3, GotoFact DEF Mine, At, Stages
<1>5. /\ \A x \in Deliveries \ {d} : posts'[x] = posts[x]
      /\ posts'[d] \in {posts[d], posts[d] + 1}
  BY <1>1, <1>2 DEF CountPost, DeliveryTypeOK
<1>6. posts[d] <= Mine(w).made + Mine(w).stalls
  BY <1>1, <1>2 DEF Running
<1>7. Decided(d) => Excused(Mine(w))
  BY <1>1, <1>2 DEF Running, At
<1>8. posts'[d] <= Mine(w).made + Mine(w).stalls + 1
  BY <1>2, <1>5, <1>6
<1>9. posts'[d] <= Attempts + faults'.crashes
  BY <1>1, <1>2, <1>5, <1>8 DEF Running
<1>10. Running(w)'
  <2>1. pump'[w].pc = pc /\ Mine(w).stalls <= faults'.crashes
    BY <1>1, <1>2, <1>4 DEF Running, At
  <2>2. delivery'[Mine(w).delivery].status \in {"DELIVERED", "FAILED"} =>
          Mine(w).stalls > 0 \/ Mine(w).delivery \in unheard'
    BY <1>1, <1>7 DEF Decided, Excused
  <2>3. QED
    BY <1>3, <1>4, <1>8, <2>1, <2>2, RunningThen
<1>11. Spares(d)
  BY <1>1, <1>2, <1>5 DEF Spares, Decided
<1>12. delivery'[d].status # "none"
  BY <1>1 DEF DeliveryInv, CarryInv, PumpInv, Sound
<1>13. QED
  BY <1>1, <1>3, <1>9, <1>10, <1>11, <1>12, MoveHistory DEF Stages

(* The row of a worker's delivery changes, or the update fails. *)
LEMMA RecordHistory ==
  ASSUME DeliveryInv, DeliveryTypeOK', HistoryInv, NEW w \in WebhookWorkers,
         RecordDelivered(w) \/ UpdateFails(w) \/ (RecordFailed(w) /\ Present(w))
  PROVE  HistoryInv'
<1> DEFINE d == Mine(w).delivery
<1>1. /\ DeliveryTypeOK /\ Working(w) /\ Real(Mine(w))
      /\ At(w, "answered") \/ At(w, "failed")
      /\ UNCHANGED <<jobs, firing, posts>>
  BY DEF RecordDelivered, UpdateFails, RecordFailed, Working, At, DeliveryInv, CarryInv,
         StageInv
<1>2. /\ Mine(w) \in Job /\ Running(w) /\ d \in Deliveries
      /\ faults.crashes \in Nat /\ Attempts \in Nat
      /\ Mine(w).made \in Nat /\ Mine(w).stalls \in Nat /\ posts[d] \in Nat
      /\ posts[d] <= Attempts + faults.crashes
  BY <1>1, HeldJob, Counters DEF HistoryInv, PostsBounded
<1>3. faults'.crashes = faults.crashes
  <2>1. UNCHANGED faults \/ CallFails
    BY DEF RecordDelivered, UpdateFails, RecordFailed
  <2>2. QED
    BY <1>1, <2>1 DEF CallFails, DeliveryTypeOK
<1>4. PICK pc \in {"failed", "noted", "done"} :
        /\ Goto(w, pc)
        /\ \/ pc = "failed" /\ NoNote
           \/ pc = "failed" /\ SetRow(w, "DELIVERED") /\ unheard' = unheard \cup {d}
           \/ pc = "noted" /\ SetRow(w, Verdict(Mine(w))) /\ unheard' = unheard \ {d}
           \/ pc = "done" /\ SetRow(w, "DELIVERED") /\ unheard' = unheard \ {d}
  BY DEF RecordDelivered, UpdateFails, RecordFailed, Note
<1>5. Mine(w)' = Mine(w) /\ At(w, pc)'
  BY <1>1, <1>4, GotoFact DEF Mine, At, Stages
<1>6. /\ \A x \in Deliveries \ {d} :
           delivery'[x] = delivery[x] /\ (x \in unheard => x \in unheard')
      /\ delivery'[d].status # "none"
      /\ \/ pc = "failed" /\ UNCHANGED <<delivery, unheard>>
         \/ pc = "failed" /\ d \in unheard'
         \/ pc = "noted" /\ delivery'[d].status = Verdict(Mine(w))
         \/ pc = "done"
  <2>1. CASE NoNote
    BY <1>1, <1>4, <2>1, NoteFact DEF NoNote, DeliveryInv, CarryInv, PumpInv, Sound, Verdict
  <2>2. CASE ~NoNote
    <3>1. PICK s \in {"RETRYING", "DELIVERED", "FAILED"} :
            /\ SetRow(w, s) /\ (pc = "noted" => s = Verdict(Mine(w)))
            /\ unheard' \in {unheard \ {d}, unheard \cup {d}}
      BY <1>4, <2>2 DEF Verdict
    <3>2. /\ \A x \in Deliveries \ {d} : delivery'[x] = delivery[x]
          /\ delivery'[d].status = s
      BY <1>1, <3>1, NoteFact
    <3>3. QED
      BY <1>4, <2>2, <3>1, <3>2
  <2>3. QED
    BY <2>1, <2>2
<1>7. Spares(d)
  BY <1>1, <1>2, <1>3, <1>6 DEF Spares, Decided
<1>8. Decided(d) => Excused(Mine(w))
  BY <1>1, <1>2 DEF Running, At
<1>9. posts[d] <= Mine(w).made + Mine(w).stalls + 1
  BY <1>1, <1>2 DEF Running, At
<1>10. delivery'[d].status \in {"DELIVERED", "FAILED"} =>
         \/ Mine(w).stalls > 0 \/ d \in unheard'
         \/ pc = "done"
         \/ pc = "noted" /\ Mine(w).made + 1 >= Mine(w).of
  BY <1>6, <1>8 DEF Decided, Excused, Verdict
<1>11. Running(w)'
  <2>1. /\ pump'[w].pc = pc /\ Mine(w).stalls <= faults'.crashes
        /\ posts'[d] = posts[d]
    BY <1>1, <1>2, <1>3, <1>5 DEF Running, At
  <2>2. QED
    BY <1>4, <1>5, <1>9, <1>10, <2>1, RunningThen
<1>12. QED
  BY <1>1, <1>2, <1>3, <1>4, <1>6, <1>7, <1>11, MoveHistory DEF Stages

(* A worker takes a queued job. *)
LEMMA TakeHistory ==
  ASSUME DeliveryInv, DeliveryTypeOK', HistoryInv, NEW w \in WebhookWorkers,
         NEW j \in jobs, Take(w, j)
  PROVE  HistoryInv'
<1>1. /\ UNCHANGED <<delivery, firing, unheard, posts, faults>> /\ jobs' = jobs \ {j}
      /\ pump'[w] = [pc |-> "post", job |-> j]
      /\ \A v \in WebhookWorkers : v # w => pump'[v] = pump[v]
      /\ DeliveryTypeOK /\ j \in Job
  BY DEF Take, DeliveryInv, DeliveryTypeOK
<1>2. Mine(w)' = j /\ At(w, "post")'
  BY <1>1 DEF Mine, At
<1>3. /\ j.made \in Nat /\ j.stalls \in Nat /\ Queued(j)
      /\ Real(j) => j.delivery \in Deliveries
      /\ faults.crashes \in Nat /\ \A d \in Deliveries : posts[d] \in Nat
  BY <1>1, Counters DEF HistoryInv
<1>4. Running(w)'
  <2>1. j.made + j.stalls + 0 = j.made + j.stalls
    BY <1>3
  <2>2. QED
    BY <1>1, <1>2, <1>3, <2>1 DEF Running, Queued, Excused, Decided, Real, At
<1>5. \A v \in WebhookWorkers : Working(v)' => Running(v)'
  <2> SUFFICES ASSUME NEW v \in WebhookWorkers, v # w, Working(v)'
      PROVE  Running(v)'
    BY <1>4
  <2>1. Working(v) /\ Running(v) /\ pump'[v] = pump[v]
    BY <1>1 DEF Working, At, HistoryInv
  <2>2. QED
    BY <1>1, <2>1 DEF Running, Excused, Decided, Mine, At
<1>6. QED
  BY <1>1, <1>5 DEF HistoryInv, Queued, Excused, Fresh, PostsBounded, Decided

(* Neither jobs nor workers change: rows at most become deleted, and what  *)
(* was about to be added at most is not.                                   *)
LEMMA AsideHistory ==
  ASSUME DeliveryInv, DeliveryTypeOK', HistoryInv,
         UNCHANGED <<jobs, pump, unheard, posts>>, FiringKept,
         faults'.crashes >= faults.crashes,
         \A d \in Deliveries : \/ delivery'[d] = delivery[d]
                               \/ delivery'[d].status = "deleted"
  PROVE  HistoryInv'
<1>0. DeliveryTypeOK /\ jobs \subseteq Job
  BY DEF DeliveryInv, DeliveryTypeOK
<1>1. Spares(NoDelivery)
  <2>1. \A d \in Deliveries : Decided(d)' => Decided(d)
    BY DEF Decided
  <2>2. QED
    BY <2>1 DEF Spares
<1>2. \A j \in jobs : Queued(j)'
  <2>1. \A j \in jobs : Real(j) => j.delivery # NoDelivery
    BY DEF Real
  <2>2. QED
    BY <1>0, <1>1, <2>1, SparedQueued DEF HistoryInv
<1>3. \A w \in WebhookWorkers : Working(w)' => Running(w)'
  <2> SUFFICES ASSUME NEW w \in WebhookWorkers, Working(w)'
      PROVE  Running(w)'
    OBVIOUS
  <2>1. Working(w) /\ Running(w) /\ pump'[w] = pump[w]
    BY DEF Working, At, HistoryInv
  <2>2. Real(Mine(w)) => Mine(w).delivery # NoDelivery
    BY DEF Real
  <2>3. QED
    BY <1>0, <1>1, <2>1, <2>2, SparedRunning
<1>4. \A v \in WebhookWorkers : \A i \in firing'[v].adding : Fresh(i)'
  <2>1. \A v \in WebhookWorkers : \A i \in firing[v].adding : i.delivery # NoDelivery
    BY DEF DeliveryInv, CarryInv, FiringInv, Real
  <2>2. QED
    BY <1>1, <2>1, SparedRest DEF FiringKept
<1>5. \A d \in Deliveries : /\ delivery'[d].status = "none" => posts'[d] = 0
                           /\ posts'[d] <= Attempts + faults'.crashes
  BY <1>1, SparedRest, WebhookAssumption
<1>6. QED
  BY <1>2, <1>3, <1>4, <1>5 DEF HistoryInv, PostsBounded

(* A dispute's event is queued. *)
LEMMA AnnounceHistory ==
  ASSUME DeliveryInv, HistoryInv, AnnounceDispute
  PROVE  HistoryInv'
<1> DEFINE news == [delivery |-> NoDelivery, endpoint |-> "none", secret |-> 0,
                    made |-> 0, of |-> 1, stalls |-> 0]
<1>1. /\ UNCHANGED <<delivery, firing, pump, unheard, posts, faults>>
      /\ jobs' = jobs \cup {news} /\ ~Real(news) /\ news.stalls = 0
  BY DEF AnnounceDispute, Real
<1> HIDE DEF news
<1>2. Queued(news)'
  BY <1>1, Counters DEF Queued, Real, DeliveryInv
<1>3. QED
  BY <1>1, <1>2 DEF HistoryInv, Queued, Running, Excused, Fresh, PostsBounded, Decided,
                    Real, Working, Mine, At

(* The row of a delivery is inserted, perhaps with a job about to be added. *)
LEMMA InsertHistory ==
  ASSUME DeliveryInv, DeliveryTypeOK', HistoryInv,
         NEW t, NEW d \in Deliveries, Insertable(t, d), Insert(t, d),
         UNCHANGED <<jobs, pump, unheard, posts>>, faults'.crashes = faults.crashes,
         NEW w \in WebhookWorkers, \A v \in WebhookWorkers : v # w => firing'[v] = firing[v],
         \A i \in firing'[w].adding : i.delivery = d /\ i.made = 0 /\ i.stalls = 0
  PROVE  HistoryInv'
<1>0. DeliveryTypeOK
  BY DEF DeliveryInv
<1>1. /\ \A x \in Deliveries : x # d => delivery'[x] = delivery[x]
      /\ delivery'[d].status = "PENDING" /\ delivery[d].status = "none"
  BY InsertFact
<1>2. /\ jobs \subseteq Job
      /\ \A v \in WebhookWorkers : Working(v) => Mine(v) \in Job
      /\ \A v \in WebhookWorkers : firing[v].adding \subseteq Job
      /\ \A j \in Job : Real(j) => j.delivery \in Deliveries
  BY <1>0, HeldJob, Counters DEF DeliveryTypeOK
<1>3. \A x \in Deliveries : Decided(x)' => Decided(x)
  BY <1>1 DEF Decided
<1>4. \A j \in jobs : Queued(j)'
  BY <1>2, <1>3 DEF HistoryInv, Queued, Excused, Real
<1>5. \A v \in WebhookWorkers : Working(v)' => Running(v)'
  BY <1>2, <1>3 DEF HistoryInv, Running, Excused, Real, Working, Mine, At
<1>6. \A v \in WebhookWorkers : \A i \in firing'[v].adding : Fresh(i)'
  <2>1. \A i \in firing'[w].adding : Fresh(i)'
    BY <1>1 DEF HistoryInv, Fresh, Decided
  <2>2. \A v \in WebhookWorkers : \A i \in firing[v].adding : Fresh(i)'
    BY <1>2, <1>3 DEF HistoryInv, Fresh, DeliveryInv, CarryInv, FiringInv
  <2>3. QED
    BY <2>1, <2>2
<1>7. \A x \in Deliveries : delivery'[x].status = "none" => posts'[x] = 0
  BY <1>1 DEF HistoryInv
<1>8. QED
  BY <1>4, <1>5, <1>6, <1>7 DEF HistoryInv, PostsBounded

(* fireWebhook's job reaches the queue. *)
LEMMA AddHistory ==
  ASSUME DeliveryInv, DeliveryTypeOK', HistoryInv, NEW w \in WebhookWorkers,
         jobs' = jobs \cup firing[w].adding, FiringKept,
         UNCHANGED <<delivery, pump, unheard, posts>>, faults'.crashes = faults.crashes
  PROVE  HistoryInv'
<1>1. faults.crashes \in Nat
  BY Counters DEF DeliveryInv
<1>2. \A i \in firing[w].adding : Queued(i)'
  BY <1>1 DEF HistoryInv, Fresh, Queued, Decided
<1>3. \A j \in jobs : Queued(j)'
  BY DEF HistoryInv, Queued, Excused, Decided, Real
<1>4. \A v \in WebhookWorkers : Working(v)' => Running(v)'
  BY DEF HistoryInv, Running, Excused, Decided, Real, Working, Mine, At
<1>5. \A v \in WebhookWorkers : \A i \in firing'[v].adding : Fresh(i)'
  BY DEF HistoryInv, Fresh, Decided, FiringKept
<1>6. QED
  BY <1>2, <1>3, <1>4, <1>5 DEF HistoryInv, PostsBounded

(* The steps of fireWebhook. *)
LEMMA FireHistory ==
  ASSUME DeliveryInv, DeliveryTypeOK', HistoryInv, NEW w \in WebhookWorkers,
         Fire(w) \/ FireStep(w) \/ FireFails(w)
  PROVE  HistoryInv'
<1>0. /\ DeliveryTypeOK /\ firing \in [WebhookWorkers -> Firings]
      /\ UNCHANGED <<pump, unheard, posts>>
      /\ UNCHANGED faults \/ CallFails
  BY DEF Fire, FireStep, FireFails, AddJob, AddFails, InsertDelivery, InsertRefused,
         InsertFails, DeliveryInv, DeliveryTypeOK, Firings
<1>1. faults'.crashes = faults.crashes /\ faults.crashes \in Nat
  BY <1>0, Counters DEF CallFails, DeliveryTypeOK
<1>2. CASE Fire(w)
  <2>1. FiringKept /\ UNCHANGED <<delivery, jobs>>
    BY <1>0, <1>2 DEF Fire, FiringKept, Firings
  <2>2. QED
    BY <1>0, <1>1, <2>1, AsideHistory
<1>3. CASE AddJob(w) \/ AddFails(w)
  <2>1. FiringKept /\ UNCHANGED delivery
    BY <1>0, <1>3, StopFact DEF AddJob, AddFails, FiringKept, Firings
  <2>2. jobs' = jobs \/ jobs' = jobs \cup firing[w].adding
    BY <1>3 DEF AddJob, AddFails
  <2>3. QED
    BY <1>0, <1>1, <2>1, <2>2, AsideHistory, AddHistory
<1>4. ASSUME NEW t \in firing[w].todo, InsertRefused(w, t)
      PROVE  HistoryInv'
  BY <1>0, <1>1, <1>4, StopFact, AsideHistory DEF InsertRefused
<1>5. ASSUME NEW t \in firing[w].todo, NEW d \in Deliveries, InsertDelivery(w, t, d)
      PROVE  HistoryInv'
  <2>1. /\ \A v \in WebhookWorkers : v # w => firing'[v] = firing[v]
        /\ \A i \in firing'[w].adding : i.delivery = d /\ i.made = 0 /\ i.stalls = 0
    BY <1>0, <1>5 DEF InsertDelivery
  <2>2. QED
    BY <1>0, <1>1, <1>5, <2>1, InsertHistory DEF InsertDelivery
<1>6. ASSUME NEW t \in firing[w].todo, InsertFails(w, t)
      PROVE  HistoryInv'
  <2>1. /\ FiringKept /\ firing'[w].adding = {} /\ UNCHANGED jobs
        /\ \A v \in WebhookWorkers : v # w => firing'[v] = firing[v]
    BY <1>0, <1>6, StopFact DEF InsertFails
  <2>2. CASE UNCHANGED delivery
    BY <1>0, <1>1, <2>1, <2>2, AsideHistory
  <2>3. ASSUME NEW d \in Deliveries, Insertable(t, d), Insert(t, d)
        PROVE  HistoryInv'
    BY <1>0, <1>1, <2>1, <2>3, InsertHistory
  <2>4. QED
    BY <1>6, <2>2, <2>3 DEF InsertFails
<1>7. QED
  BY <1>2, <1>3, <1>4, <1>5, <1>6 DEF FireStep, FireFails

LEMMA HistoryStep ==
  DeliveryInv /\ HistoryInv /\ [DeliveryNext]_webhookVars => HistoryInv'
<1> SUFFICES ASSUME DeliveryInv, HistoryInv, [DeliveryNext]_webhookVars
    PROVE  HistoryInv'
  OBVIOUS
<1>0. DeliveryTypeOK /\ DeliveryTypeOK'
  BY StepKeeps DEF DeliveryInv
<1>1. ASSUME NEW p \in Endpoints, EndpointStep(p)
      PROVE  HistoryInv'
  <2>1. /\ UNCHANGED <<firing, jobs, pump, unheard, posts, faults>>
        /\ \A d \in Deliveries : \/ delivery'[d] = delivery[d]
                                  \/ delivery'[d].status = "deleted"
    <3>1. CASE Register(p) \/ UpdateEndpoint(p) \/ RotateSecret(p)
      BY <3>1 DEF Register, UpdateEndpoint, RotateSecret, SetEndpoint
    <3>2. CASE DeleteEndpoint(p)
      BY <1>0, <3>2 DEF DeleteEndpoint, SetEndpoint, DeliveryTypeOK
    <3>3. QED
      BY <1>1, <3>1, <3>2 DEF EndpointStep
  <2>2. FiringKept /\ faults'.crashes >= faults.crashes
    BY <1>0, <2>1, Counters DEF FiringKept
  <2>3. QED
    BY <1>0, <2>1, <2>2, AsideHistory
<1>2. CASE AnnounceDispute
  BY <1>2, AnnounceHistory
<1>3. ASSUME NEW w \in WebhookWorkers,
             \/ Fire(w) \/ FireStep(w) \/ FireFails(w)
             \/ PumpStep(w) \/ UpdateFails(w) \/ NoteFails(w) \/ Crash(w)
      PROVE  HistoryInv'
  <2>1. ASSUME NEW j \in jobs, Take(w, j)
        PROVE  HistoryInv'
    BY <1>0, <2>1, TakeHistory
  <2>2. CASE RecordFailed(w)
    <3>1. Working(w)
      BY <2>2 DEF RecordFailed, Working, At
    <3>2. CASE Present(w)
      BY <1>0, <2>2, <3>2, RecordHistory
    <3>3. CASE ~Present(w)
      BY <1>0, <2>2, <3>1, <3>3, EndHistory
    <3>4. QED
      BY <3>2, <3>3
  <2>3. CASE Unsignable(w) \/ NoteFails(w) \/ Rethrow(w) \/ Complete(w) \/ Crash(w)
    <3>1. CASE Working(w)
      BY <1>0, <2>3, <3>1, EndHistory
    <3>2. CASE ~Working(w)
      <4>1. Crash(w)
        BY <2>3, <3>2 DEF Unsignable, NoteFails, Rethrow, Complete, Working, At
      <4>2. FiringKept /\ UNCHANGED <<delivery, jobs, pump, unheard, posts>>
        BY <1>0, <3>2, <4>1, IdleCrashFact, StopFact DEF Crash
      <4>3. faults'.crashes >= faults.crashes
        BY <1>0, <4>1, Counters DEF Crash, DeliveryTypeOK
      <4>4. QED
        BY <1>0, <4>2, <4>3, AsideHistory
    <3>3. QED
      BY <3>1, <3>2
  <2>4. CASE RecordDelivered(w) \/ UpdateFails(w)
    <3>1. RecordDelivered(w) \/ UpdateFails(w) \/ (RecordFailed(w) /\ Present(w))
      BY <2>4
    <3>2. QED
      BY <1>0, <3>1, RecordHistory
  <2>5. CASE Post(w)
    BY <1>0, <2>5, PostHistory
  <2>6. CASE Fire(w) \/ FireStep(w) \/ FireFails(w)
    BY <1>0, <2>6, FireHistory
  <2>7. QED
    BY <1>3, <2>1, <2>2, <2>3, <2>4, <2>5, <2>6 DEF PumpStep
<1>4. CASE UNCHANGED webhookVars
  BY <1>4 DEF webhookVars, HistoryInv, Queued, Running, Excused, Fresh, PostsBounded, Decided,
              Real, Working, Mine, At
<1>5. QED
  BY <1>1, <1>2, <1>3, <1>4 DEF DeliveryNext

LEMMA HistoryHolds == DeliverySpec => []HistoryInv
<1>1. DeliveryInit => HistoryInv
  <2> SUFFICES ASSUME DeliveryInit
      PROVE  HistoryInv
    OBVIOUS
  <2>1. Attempts \in Nat
    BY WebhookAssumption
  <2>2. QED
    BY <2>1 DEF DeliveryInit, HistoryInv, PostsBounded, Quiet, Resting, Working, At
<1>2. QED
  BY <1>1, HistoryStep, InvHolds, PTL DEF DeliverySpec

(* PostsCounted: no receiver gets an event more often than once per        *)
(* attempt and once per crash (PostsBounded), whatever else fails.         *)
THEOREM PostsCounted == DeliverySpec => []PostsBounded
<1>1. HistoryInv => PostsBounded
  BY DEF HistoryInv
<1>2. QED
  BY <1>1, HistoryHolds, PTL

(* OutcomesStand: a decided row is overwritten only by the job of a worker *)
(* that died or that did not hear of its own update, or deleted with its   *)
(* endpoint (OutcomeStands).                                               *)
THEOREM OutcomesStand == DeliverySpec => OutcomeStands
<1>1. ASSUME DeliveryInv, HistoryInv, [DeliveryNext]_webhookVars,
             NEW d \in Deliveries, Decided(d), delivery'[d] # delivery[d]
      PROVE  delivery'[d].status = "deleted" \/ Reopened(d)
  <2>0. DeliveryTypeOK
    BY <1>1 DEF DeliveryInv
  <2>1. ASSUME NEW p \in Endpoints, EndpointStep(p)
        PROVE  delivery'[d].status = "deleted"
    <3>1. CASE DeleteEndpoint(p)
      BY <1>1, <2>0, <3>1 DEF DeleteEndpoint, DeliveryTypeOK
    <3>2. ~DeleteEndpoint(p) => UNCHANGED delivery
      BY <2>1 DEF EndpointStep, Register, UpdateEndpoint, RotateSecret
    <3>3. QED
      BY <1>1, <3>1, <3>2
  <2>2. ASSUME NEW t, NEW x \in Deliveries, Insertable(t, x), Insert(t, x)
        PROVE  FALSE
    BY <1>1, <2>0, <2>2 DEF Insertable, Insert, Unborn, Decided, DeliveryTypeOK
  <2>3. ASSUME NEW w \in WebhookWorkers,
               RecordDelivered(w) \/ RecordFailed(w) \/ UpdateFails(w) \/ NoteFails(w)
        PROVE  Reopened(d)
    <3>1. /\ Working(w) /\ Real(Mine(w)) /\ Running(w)
          /\ At(w, "answered") \/ At(w, "failed")
      BY <1>1, <2>3 DEF RecordDelivered, RecordFailed, UpdateFails, NoteFails, Working, At,
                        DeliveryInv, CarryInv, StageInv, HistoryInv
    <3>2. \/ UNCHANGED delivery
          \/ \E s \in {"RETRYING", "DELIVERED", "FAILED"} : SetRow(w, s)
      BY <2>3 DEF RecordDelivered, RecordFailed, UpdateFails, NoteFails, Note, NoNote,
                  Verdict
    <3>3. Mine(w).delivery = d
      BY <1>1, <2>0, <3>1, <3>2, NoteFact
    <3>4. Excused(Mine(w))
      BY <1>1, <3>1, <3>3 DEF Running, At
    <3>5. QED
      BY <3>1, <3>3, <3>4 DEF Working, Excused, Reopened
  <2>4. QED
    BY <1>1, <2>1, <2>2, <2>3
       DEF DeliveryNext, webhookVars, AnnounceDispute, Fire, FireStep, FireFails, AddJob,
           AddFails, InsertDelivery, InsertRefused, InsertFails, PumpStep, Take,
           Unsignable, Post, Rethrow, Complete, Crash
<1>2. DeliveryInv /\ HistoryInv /\ [DeliveryNext]_webhookVars =>
        [\A d \in Deliveries : Decided(d) /\ delivery'[d] # delivery[d] =>
           delivery'[d].status = "deleted" \/ Reopened(d)]_webhookVars
  BY <1>1
<1>3. QED
  BY <1>2, InvHolds, HistoryHolds, PTL DEF DeliverySpec, OutcomeStands

-----------------------------------------------------------------------------
(* What is lost.  A step without a fault loses nothing, and a failed call  *)
(* or a death one delivery - or two, if the death also ends a job that had *)
(* been returned MaxStalls times.  To count these, the invariant adds up   *)
(* the stalls of the jobs that are still under way.                        *)
Held(w, d) == pump[w].pc # "idle" /\ pump[w].job.delivery = d

LEMMA LostMeans ==
  Lost = {d \in Deliveries :
            /\ delivery[d].status \in {"PENDING", "RETRYING"}
            /\ \A j \in jobs : j.delivery # d
            /\ \A w \in WebhookWorkers : ~Held(w, d)
            /\ \A w \in WebhookWorkers : \A j \in firing[w].adding : j.delivery # d}
  BY DEF Lost, Awaited, Carried, Held, At, Mine

LEMMA LostThen ==
  ASSUME NEW d \in Lost'
  PROVE  /\ d \in Deliveries
         /\ delivery'[d].status \in {"PENDING", "RETRYING"}
         /\ \A j \in jobs' : j.delivery # d
         /\ \A w \in WebhookWorkers :
              ~(pump'[w].pc # "idle" /\ pump'[w].job.delivery = d)
         /\ \A w \in WebhookWorkers : \A j \in firing'[w].adding : j.delivery # d
  BY DEF Lost, Awaited, Carried, At, Mine

(* fireWebhook going on loses nothing: what it adds reaches the queue.     *)
LEMMA FiringLosesNothing ==
  ASSUME DeliveryInv, NEW w \in WebhookWorkers, Fire(w) \/ FireStep(w)
  PROVE  Lost' \subseteq Lost
<1> SUFFICES ASSUME NEW d \in Lost'  PROVE d \in Lost
  OBVIOUS
<1>0. /\ d \in Deliveries /\ firing \in [WebhookWorkers -> Firings]
      /\ delivery'[d].status \in {"PENDING", "RETRYING"}
      /\ \A j \in jobs' : j.delivery # d
      /\ \A v \in WebhookWorkers :
           ~(pump'[v].pc # "idle" /\ pump'[v].job.delivery = d)
      /\ \A v \in WebhookWorkers : \A j \in firing'[v].adding : j.delivery # d
  BY LostThen DEF DeliveryInv, DeliveryTypeOK, Firings
<1>1. CASE Fire(w)
  <2>1. UNCHANGED <<delivery, jobs, pump>>
        /\ \A v \in WebhookWorkers : firing'[v].adding = firing[v].adding
    BY <1>0, <1>1 DEF Fire, Firings
  <2>2. QED
    BY <1>0, <2>1, LostMeans DEF Held
<1>2. CASE AddJob(w)
  <2>1. /\ UNCHANGED <<delivery, pump>> /\ jobs' = jobs \cup firing[w].adding
        /\ \A v \in WebhookWorkers : v # w => firing'[v] = firing[v]
    BY <1>0, <1>2 DEF AddJob
  <2>2. QED
    BY <1>0, <2>1, LostMeans DEF Held
<1>3. ASSUME NEW t \in firing[w].todo, InsertRefused(w, t)
      PROVE  d \in Lost
  <2>1. /\ UNCHANGED <<delivery, pump, jobs>> /\ firing[w].adding = {}
        /\ \A v \in WebhookWorkers : v # w => firing'[v] = firing[v]
    BY <1>3, StopFact DEF InsertRefused, DeliveryInv
  <2>2. QED
    BY <1>0, <2>1, LostMeans DEF Held
<1>4. ASSUME NEW t \in firing[w].todo, NEW x \in Deliveries, InsertDelivery(w, t, x)
      PROVE  d \in Lost
  <2> DEFINE new == [delivery |-> x, endpoint |-> t.endpoint, secret |-> t.secret,
                     made |-> 0, of |-> Attempts, stalls |-> 0]
  <2>1. /\ UNCHANGED <<pump, jobs>> /\ firing[w].adding = {}
        /\ \A v \in WebhookWorkers : v # w => firing'[v] = firing[v]
        /\ new \in firing'[w].adding /\ new.delivery = x
    BY <1>0, <1>4 DEF InsertDelivery
  <2>2. d # x
    BY <1>0, <2>1
  <2>3. delivery'[d] = delivery[d]
    BY <1>0, <1>4, <2>2, InsertFact DEF InsertDelivery
  <2>4. QED
    BY <1>0, <2>1, <2>3, LostMeans DEF Held
<1>5. QED
  BY <1>1, <1>2, <1>3, <1>4 DEF FireStep

(* A worker that goes on with its job loses nothing.                       *)
LEMMA MoveLosesNothing ==
  ASSUME DeliveryInv, NEW w \in WebhookWorkers, Working(w), NEW pc \in Stages, Goto(w, pc),
         UNCHANGED <<jobs, firing>>,
         UNCHANGED delivery \/
           (Real(Mine(w)) /\ \E s \in {"RETRYING", "DELIVERED", "FAILED"} : SetRow(w, s))
  PROVE  Lost' \subseteq Lost
<1> SUFFICES ASSUME NEW d \in Lost'  PROVE d \in Lost
  OBVIOUS
<1>1. /\ \A v \in WebhookWorkers : v # w => pump'[v] = pump[v]
      /\ pump'[w].pc # "idle" /\ pump'[w].job = pump[w].job
  BY GotoFact DEF DeliveryInv, Mine, Stages
<1>2. d # Mine(w).delivery
  BY <1>1, LostThen DEF Mine
<1>3. delivery'[d] = delivery[d]
  BY <1>2, LostThen, NoteFact DEF DeliveryInv
<1>4. QED
  BY <1>1, <1>3, LostThen, LostMeans DEF Held

(* A worker that ends its attempt loses at most its own delivery, and not  *)
(* that if the row is settled or a job for it goes back.                   *)
LEMMA EndLoses ==
  ASSUME DeliveryInv, NEW w \in WebhookWorkers, Working(w), Rest(w),
         jobs \subseteq jobs', UNCHANGED firing,
         \A d \in Deliveries : d # Mine(w).delivery => delivery'[d] = delivery[d]
  PROVE  Lost' \subseteq Lost \cup {Mine(w).delivery}
<1> SUFFICES ASSUME NEW d \in Lost', d # Mine(w).delivery  PROVE d \in Lost
  OBVIOUS
<1>1. \A v \in WebhookWorkers : v # w => pump'[v] = pump[v]
  BY RestFact DEF DeliveryInv
<1>2. delivery'[d] = delivery[d]
  BY LostThen
<1>3. QED
  BY <1>1, <1>2, LostThen, LostMeans DEF Held, Mine

LEMMA PumpLosesNothing ==
  ASSUME DeliveryInv, NEW w \in WebhookWorkers, PumpStep(w) \/ UpdateFails(w)
  PROVE  Lost' \subseteq Lost
<1>0. DeliveryTypeOK
  BY DEF DeliveryInv
<1>1. ASSUME NEW j \in jobs, Take(w, j)
      PROVE  Lost' \subseteq Lost
  <2>1. /\ pump'[w] = [pc |-> "post", job |-> j]
        /\ \A v \in WebhookWorkers : v # w => pump'[v] = pump[v]
        /\ jobs' = jobs \ {j} /\ pump[w].pc = "idle"
        /\ UNCHANGED <<delivery, firing>>
    BY <1>0, <1>1 DEF Take, At, DeliveryTypeOK
  <2>2. QED
    BY <2>1, LostThen, LostMeans DEF Held
<1>2. CASE Unsignable(w)
  <2>1. /\ Working(w) /\ Failed(w) /\ UNCHANGED <<delivery, firing>>
        /\ Mine(w).delivery \notin Deliveries
    BY <1>2, WebhookAssumption DEF Unsignable, Working, At
  <2>2. Rest(w) /\ jobs \subseteq jobs'
    BY <1>0, <2>1, FailedFact
  <2>3. Lost' \subseteq Lost \cup {Mine(w).delivery}
    BY <2>1, <2>2, EndLoses
  <2>4. QED
    BY <2>1, <2>3, LostThen
<1>3. CASE \/ Post(w) \/ UpdateFails(w) \/ RecordDelivered(w)
           \/ RecordFailed(w) /\ Present(w)
  <2>1. /\ Working(w) /\ Real(Mine(w)) /\ UNCHANGED <<jobs, firing>>
        /\ \E pc \in Stages : Goto(w, pc)
    BY <1>3 DEF Post, UpdateFails, RecordDelivered, RecordFailed, Working, At, Real, Stages,
                DeliveryInv, CarryInv, StageInv
  <2>2. UNCHANGED delivery \/ \E s \in {"RETRYING", "DELIVERED", "FAILED"} : SetRow(w, s)
    BY <1>3 DEF Post, UpdateFails, RecordDelivered, RecordFailed, Note, NoNote, Verdict
  <2>3. QED
    BY <2>1, <2>2, MoveLosesNothing
<1>4. CASE RecordFailed(w) /\ ~Present(w)
  <2>1. /\ Working(w) /\ Failed(w) /\ UNCHANGED <<delivery, firing>>
        /\ delivery[Mine(w).delivery].status = "deleted"
    BY <1>4 DEF RecordFailed, Present, NoNote, Working, At
  <2>2. Rest(w) /\ jobs \subseteq jobs'
    BY <1>0, <2>1, FailedFact
  <2>3. QED
    BY <2>1, <2>2, EndLoses, LostThen
<1>5. CASE Rethrow(w)
  <2>1. /\ Working(w) /\ Failed(w) /\ UNCHANGED <<delivery, firing>>
        /\ delivery[Mine(w).delivery].status \in {Verdict(Mine(w)), "deleted"}
    BY <1>5 DEF Rethrow, Working, At, DeliveryInv, CarryInv, StageInv
  <2>2. PICK j \in Job : /\ j.delivery = Mine(w).delivery
                         /\ \/ /\ Mine(w).made + 1 < Mine(w).of
                               /\ jobs' = jobs \cup {j}
                            \/ /\ Mine(w).made + 1 >= Mine(w).of
                               /\ jobs' = jobs
    BY <1>0, <2>1, FailedFact
  <2>3. Mine(w).delivery \notin Lost'
    BY <2>1, <2>2, LostThen DEF Verdict
  <2>4. QED
    BY <1>0, <2>1, <2>2, <2>3, FailedFact, EndLoses
<1>6. CASE Complete(w)
  <2>1. /\ Working(w) /\ Rest(w) /\ UNCHANGED <<delivery, jobs, firing>>
        /\ delivery[Mine(w).delivery].status \in {"DELIVERED", "deleted"}
    BY <1>6 DEF Complete, Working, At, DeliveryInv, CarryInv, StageInv
  <2>2. QED
    BY <2>1, EndLoses, LostThen
<1>7. QED
  BY <1>1, <1>2, <1>3, <1>4, <1>5, <1>6 DEF PumpStep

LEMMA NothingLost ==
  ASSUME DeliveryInv,
         \/ \E p \in Endpoints : EndpointStep(p)
         \/ AnnounceDispute
         \/ \E w \in WebhookWorkers : Fire(w) \/ FireStep(w) \/ PumpStep(w) \/ UpdateFails(w)
  PROVE  Lost' \subseteq Lost
<1>1. ASSUME NEW p \in Endpoints, EndpointStep(p)
      PROVE  Lost' \subseteq Lost
  <2>1. /\ UNCHANGED <<jobs, pump, firing>>
        /\ \A d \in Deliveries : \/ delivery'[d] = delivery[d]
                                 \/ delivery'[d].status = "deleted"
    <3>1. CASE Register(p) \/ UpdateEndpoint(p) \/ RotateSecret(p)
      BY <3>1 DEF Register, UpdateEndpoint, RotateSecret, SetEndpoint
    <3>2. CASE DeleteEndpoint(p)
      BY <3>2 DEF DeleteEndpoint, SetEndpoint, DeliveryInv, DeliveryTypeOK
    <3>3. QED
      BY <1>1, <3>1, <3>2 DEF EndpointStep
  <2>2. QED
    BY <2>1, LostThen, LostMeans DEF Held
<1>2. CASE AnnounceDispute
  <2>1. UNCHANGED <<delivery, pump, firing>> /\ jobs \subseteq jobs'
    BY <1>2 DEF AnnounceDispute
  <2>2. QED
    BY <2>1, LostThen, LostMeans DEF Held
<1>3. QED
  BY <1>1, <1>2, FiringLosesNothing, PumpLosesNothing

(* A failed call loses one delivery at most: the one inserted, the one     *)
(* whose job was to be added, or the one whose verdict was to be noted.    *)
LEMMA CallLosesOne ==
  ASSUME DeliveryInv, NEW w \in WebhookWorkers, FireFails(w) \/ NoteFails(w)
  PROVE  \E x : Lost' \subseteq Lost \cup {x}
<1>0. DeliveryTypeOK
  BY DEF DeliveryInv
<1>1. CASE AddFails(w)
  <2>1. /\ UNCHANGED <<delivery, pump>> /\ jobs \subseteq jobs'
        /\ \A v \in WebhookWorkers : v # w => firing'[v] = firing[v]
        /\ \A i, j \in firing[w].adding : i = j
    BY <1>0, <1>1, StopFact DEF AddFails, DeliveryInv, CarryInv, FiringInv
  <2>2. \E x : \A j \in firing[w].adding : j.delivery = x
    BY <2>1
  <2>3. PICK x : \A j \in firing[w].adding : j.delivery = x
    BY <2>2
  <2>4. ASSUME NEW d \in Lost', d # x
        PROVE  d \in Lost
    BY <2>1, <2>3, <2>4, LostThen, LostMeans DEF Held
  <2>5. QED
    BY <2>4
<1>2. ASSUME NEW t \in firing[w].todo, InsertFails(w, t)
      PROVE  \E x : Lost' \subseteq Lost \cup {x}
  <2>1. /\ UNCHANGED <<jobs, pump>> /\ firing[w].adding = {}
        /\ \A v \in WebhookWorkers : v # w => firing'[v] = firing[v]
    BY <1>0, <1>2, StopFact DEF InsertFails
  <2>2. PICK x : \A d \in Deliveries : d # x => delivery'[d] = delivery[d]
    <3>1. CASE UNCHANGED delivery
      BY <3>1
    <3>2. ASSUME NEW x \in Deliveries, Insertable(t, x), Insert(t, x)
          PROVE  \E y : \A d \in Deliveries : d # y => delivery'[d] = delivery[d]
      BY <3>2, InsertFact
    <3>3. QED
      BY <1>2, <3>1, <3>2 DEF InsertFails
  <2>3. ASSUME NEW d \in Lost', d # x
        PROVE  d \in Lost
    BY <2>1, <2>2, <2>3, LostThen, LostMeans DEF Held
  <2>4. QED
    BY <2>3
<1>3. CASE NoteFails(w)
  <2>1. /\ Working(w) /\ Real(Mine(w)) /\ Failed(w) /\ UNCHANGED firing
        /\ UNCHANGED delivery \/ SetRow(w, Verdict(Mine(w)))
    BY <1>3 DEF NoteFails, Note, NoNote, Working, At, DeliveryInv, CarryInv, StageInv
  <2>2. \A d \in Deliveries : d # Mine(w).delivery => delivery'[d] = delivery[d]
    BY <1>0, <2>1, NoteFact DEF Verdict
  <2>3. QED
    BY <1>0, <2>1, <2>2, FailedFact, EndLoses
<1>4. QED
  BY <1>1, <1>2, <1>3 DEF FireFails

(* So does a death; if its job is not returned, two.                       *)
LEMMA CrashLoses ==
  ASSUME DeliveryInv, NEW w \in WebhookWorkers, Crash(w)
  PROVE  \E x : Lost' \subseteq
           Lost \cup {x} \cup
             (IF Working(w) /\ Real(Mine(w)) /\ jobs' = jobs THEN {Mine(w).delivery} ELSE {})
<1>0. DeliveryTypeOK
  BY DEF DeliveryInv
<1>1. /\ UNCHANGED delivery
      /\ \A v \in WebhookWorkers : v # w => firing'[v] = firing[v]
      /\ \A v \in WebhookWorkers : v # w => pump'[v] = pump[v]
      /\ \A i, j \in firing[w].adding : i = j
  BY <1>0, StopFact, RestFact DEF Crash, DeliveryInv, CarryInv, FiringInv
<1>2. \E x : \A j \in firing[w].adding : j.delivery = x
  BY <1>1
<1>3. PICK x : \A j \in firing[w].adding : j.delivery = x
  BY <1>2
<1>4. jobs \subseteq jobs'
  BY <1>0, CrashFact, IdleCrashFact
<1>5. ASSUME NEW d \in Lost', d # x,
             ~(Working(w) /\ Real(Mine(w)) /\ jobs' = jobs /\ d = Mine(w).delivery)
      PROVE  d \in Lost
  <2>1. ~Held(w, d)
    <3> SUFFICES ASSUME Held(w, d)  PROVE FALSE
      OBVIOUS
    <3>1. Working(w) /\ d = Mine(w).delivery /\ d \in Deliveries
      BY LostThen DEF Held, Working, At, Mine
    <3>2. Real(Mine(w))
      BY <3>1, WebhookAssumption DEF Real
    <3>3. \E j \in jobs' : j.delivery = d
      BY <1>0, <1>5, <3>1, <3>2, CrashFact
    <3>4. QED
      BY <3>3, LostThen
  <2>2. QED
    BY <1>1, <1>3, <1>4, <1>5, <2>1, LostThen, LostMeans DEF Held
<1>6. QED
  BY <1>5

(* How often the job that carries a delivery has been stalled.             *)
Carries(j, d) == /\ j.delivery = d
                 /\ j \in jobs \/ \E w \in WebhookWorkers : Working(w) /\ Mine(w) = j
Worn == [d \in Deliveries |-> IF \E j \in Job : Carries(j, d)
                              THEN (CHOOSE j \in Job : Carries(j, d)).stalls ELSE 0]

WornIs ==
  /\ Worn \in [Deliveries -> 0..MaxStalls]
  /\ \A d \in Deliveries, j \in Job : Carries(j, d) => Worn[d] = j.stalls
  /\ \A d \in Deliveries : (\A j \in Job : ~Carries(j, d)) => Worn[d] = 0

LEMMA WornMeans == DeliveryInv => WornIs
<1> SUFFICES ASSUME DeliveryInv
    PROVE  /\ Worn \in [Deliveries -> 0..MaxStalls]
           /\ \A d \in Deliveries, j \in Job : Carries(j, d) => Worn[d] = j.stalls
           /\ \A d \in Deliveries : (\A j \in Job : ~Carries(j, d)) => Worn[d] = 0
  BY DEF WornIs
<1>1. ASSUME NEW d \in Deliveries, NEW i \in Job, NEW j \in Job, Carries(i, d), Carries(j, d)
      PROVE  i = j
  <2>1. Real(i) /\ Real(j)
    BY <1>1, WebhookAssumption DEF Carries, Real
  <2>2. QED
    BY <1>1, <2>1 DEF Carries, DeliveryInv, CarryInv, QueueInv, PumpInv
<1>2. ASSUME NEW d \in Deliveries, NEW j \in Job, Carries(j, d)
      PROVE  Worn[d] = j.stalls /\ Worn[d] \in 0..MaxStalls
  <2>1. (CHOOSE i \in Job : Carries(i, d)) \in Job /\ Carries(CHOOSE i \in Job : Carries(i, d), d)
    BY <1>2
  <2>2. (CHOOSE i \in Job : Carries(i, d)) = j
    BY <1>1, <1>2, <2>1
  <2>3. Worn[d] = (CHOOSE i \in Job : Carries(i, d)).stalls
    BY <1>2 DEF Worn
  <2>4. QED
    BY <2>2, <2>3 DEF Job
<1>3. ASSUME NEW d \in Deliveries, \A j \in Job : ~Carries(j, d)
      PROVE  Worn[d] = 0 /\ Worn[d] \in 0..MaxStalls
  <2>1. Worn[d] = 0
    BY <1>3 DEF Worn
  <2>2. QED
    BY <2>1, WebhookAssumption
<1>4. \A d \in Deliveries : Worn[d] \in 0..MaxStalls
  BY <1>2, <1>3
<1>5. Worn = [d \in Deliveries |-> Worn[d]]
  BY DEF Worn
<1>6. QED
  BY <1>2, <1>3, <1>4, <1>5

LEMMA WornThen == DeliveryInv' => WornIs'
  BY WornMeans, PTL

(* Where the same jobs carry it, a delivery is as worn as it was.          *)
LEMMA WornSame ==
  ASSUME DeliveryInv, DeliveryInv', NEW d \in Deliveries,
         \A j \in Job : Carries(j, d)' <=> Carries(j, d)
  PROVE  Worn'[d] = Worn[d]
<1>1. CASE \E j \in Job : Carries(j, d)
  BY <1>1, WornMeans, WornThen DEF WornIs
<1>2. CASE \A j \in Job : ~Carries(j, d)
  BY <1>2, WornMeans, WornThen DEF WornIs
<1>3. QED
  BY <1>1, <1>2

(* A job added is not worn. *)
LEMMA WornByAdding ==
  ASSUME DeliveryInv, DeliveryInv', HistoryInv, NEW w \in WebhookWorkers,
         jobs' = jobs \cup firing[w].adding, UNCHANGED pump, NEW d \in Deliveries
  PROVE  Worn'[d] = Worn[d]
<1>1. CASE \A i \in firing[w].adding : i.delivery # d
  <2>1. \A j \in Job : Carries(j, d)' <=> Carries(j, d)
    BY <1>1 DEF Carries, Working, At, Mine
  <2>2. QED
    BY <2>1, WornSame
<1>2. ASSUME NEW i \in firing[w].adding, i.delivery = d
      PROVE  Worn'[d] = Worn[d]
  <2>1. i \in Job /\ Carries(i, d)' /\ i.stalls = 0
    BY <1>2 DEF DeliveryInv, DeliveryTypeOK, HistoryInv, Fresh, Carries
  <2>2. \A j \in Job : ~Carries(j, d)
    BY <1>2 DEF Carries, DeliveryInv, CarryInv, FiringInv
  <2>3. QED
    BY <2>1, <2>2, WornMeans, WornThen DEF WornIs
<1>3. QED
  BY <1>1, <1>2

(* A worker that ends its attempt takes its job's stalls with it, or puts  *)
(* those of the job it puts back in their place.                           *)
LEMMA WornByEnding ==
  ASSUME DeliveryInv, DeliveryInv', NEW w \in WebhookWorkers, Working(w), Rest(w),
         NEW e, e = Mine(w).delivery,
         NEW j \in Job, j.delivery = e,
         jobs' = jobs \/ jobs' = jobs \cup {j}
  PROVE  /\ \A d \in Deliveries : d # e => Worn'[d] = Worn[d]
         /\ Real(Mine(w)) =>
              /\ e \in Deliveries
              /\ Worn[e] = Mine(w).stalls
              /\ jobs' = jobs => Worn'[e] = 0
              /\ jobs' = jobs \cup {j} => Worn'[e] = j.stalls
<1>1. /\ \A v \in WebhookWorkers : v # w => pump'[v] = pump[v]
      /\ ~Working(w)' /\ Mine(w) \in Job
  BY RestFact, HeldJob DEF DeliveryInv, Working, At
<1>2. ASSUME NEW d \in Deliveries, d # e
      PROVE  Worn'[d] = Worn[d]
  <2>1. \A i \in Job : Carries(i, d)' <=> Carries(i, d)
    BY <1>1, <1>2 DEF Carries, Working, At, Mine
  <2>2. QED
    BY <2>1, WornSame
<1>3. ASSUME Real(Mine(w))
      PROVE  /\ e \in Deliveries
             /\ Worn[e] = Mine(w).stalls
             /\ jobs' = jobs => Worn'[e] = 0
             /\ jobs' = jobs \cup {j} => Worn'[e] = j.stalls
  <2>1. e \in Deliveries /\ Carries(Mine(w), e)
    BY <1>1, <1>3 DEF Job, Real, Carries
  <2>2. \A v \in WebhookWorkers : Working(v)' => Mine(v)'.delivery # e
    BY <1>1, <1>3 DEF Working, At, Mine, DeliveryInv, CarryInv, PumpInv, Real
  <2>3. \A i \in jobs : i.delivery # e
    BY <1>3 DEF DeliveryInv, CarryInv, PumpInv, Real
  <2>4. jobs' = jobs => \A i \in Job : ~Carries(i, e)'
    BY <2>2, <2>3 DEF Carries
  <2>5. jobs' = jobs \cup {j} => Carries(j, e)'
    BY DEF Carries
  <2>6. Worn[e] = Mine(w).stalls
    BY <1>1, <2>1, WornMeans DEF WornIs
  <2>7. QED
    BY <2>1, <2>4, <2>5, <2>6, WornThen DEF WornIs
<1>4. QED
  BY <1>2, <1>3

-----------------------------------------------------------------------------
(* The count. *)
Wear    == SumFunctionOnSet(Worn, Deliveries)
Excess  == Cardinality(Lost) - faults.crashes - faults.db
LossInv == (MaxStalls + 1) * Excess + Wear <= faults.crashes

CountsAre ==
  /\ IsFiniteSet(Lost) /\ Cardinality(Lost) \in Nat
  /\ faults.crashes \in Nat /\ faults.db \in Nat
  /\ Wear \in Nat
  /\ \A d \in Deliveries : Worn[d] \in 0..MaxStalls

LEMMA CountsMean == DeliveryInv => CountsAre
<1> SUFFICES ASSUME DeliveryInv
    PROVE  /\ IsFiniteSet(Lost) /\ Cardinality(Lost) \in Nat
           /\ faults.crashes \in Nat /\ faults.db \in Nat
           /\ Wear \in Nat
           /\ \A d \in Deliveries : Worn[d] \in 0..MaxStalls
  BY DEF CountsAre
<1>1. IsFiniteSet(Lost) /\ Cardinality(Lost) \in Nat
  <2>1. Lost \in SUBSET Deliveries
    BY DEF Lost
  <2>2. QED
    BY <2>1, WebhookAssumption, FS_Subset, FS_CardinalityType
<1>2. faults.crashes \in Nat /\ faults.db \in Nat
  BY WebhookAssumption DEF DeliveryInv, DeliveryTypeOK
<1>3. \A d \in Deliveries : Worn[d] \in 0..MaxStalls
  BY WornMeans DEF WornIs
<1>4. Wear \in Nat
  <2>1. \A d \in Deliveries : Worn[d] \in Nat
    BY <1>3, WebhookAssumption
  <2>2. QED
    BY <2>1, WebhookAssumption, SumBound DEF Wear
<1>5. QED
  BY <1>1, <1>2, <1>3, <1>4

LEMMA CountsThen == DeliveryInv' => CountsAre'
  BY CountsMean, PTL

(* What is lost one by one. *)
LEMMA LostCount ==
  ASSUME DeliveryInv, DeliveryInv'
  PROVE  /\ Lost' \subseteq Lost => Cardinality(Lost') <= Cardinality(Lost)
         /\ \A x : Lost' \subseteq Lost \cup {x} =>
              Cardinality(Lost') <= Cardinality(Lost) + 1
         /\ \A x, y : Lost' \subseteq Lost \cup {x} \cup {y} =>
              Cardinality(Lost') <= Cardinality(Lost) + 2
<1>1. /\ IsFiniteSet(Lost) /\ Cardinality(Lost) \in Nat
      /\ Cardinality(Lost') \in Nat
  BY CountsMean, CountsThen DEF CountsAre
<1>2. ASSUME NEW S, IsFiniteSet(S), NEW x
      PROVE  /\ IsFiniteSet(S \cup {x}) /\ Cardinality(S \cup {x}) \in Nat
             /\ Cardinality(S) \in Nat /\ Cardinality(S \cup {x}) <= Cardinality(S) + 1
  <2>1. Cardinality(S) \in Nat /\ IsFiniteSet(S \cup {x})
    BY <1>2, FS_CardinalityType, FS_AddElement
  <2>2. Cardinality(S \cup {x}) \in {Cardinality(S), Cardinality(S) + 1}
    BY <1>2, FS_AddElement
  <2>3. QED
    BY <2>1, <2>2
<1>3. ASSUME NEW S, IsFiniteSet(S), Lost' \subseteq S
      PROVE  Cardinality(Lost') <= Cardinality(S)
  BY <1>3, FS_Subset
<1>4. ASSUME NEW x, Lost' \subseteq Lost \cup {x}
      PROVE  Cardinality(Lost') <= Cardinality(Lost) + 1
  <2> DEFINE A == Lost \cup {x}
  <2>1. /\ IsFiniteSet(A) /\ Cardinality(A) \in Nat
        /\ Cardinality(A) <= Cardinality(Lost) + 1
    BY <1>1, <1>2
  <2> HIDE DEF A
  <2>2. Cardinality(Lost') <= Cardinality(A)
    BY <1>3, <1>4, <2>1 DEF A
  <2>3. QED
    BY <1>1, <2>1, <2>2
<1>5. ASSUME NEW x, NEW y, Lost' \subseteq Lost \cup {x} \cup {y}
      PROVE  Cardinality(Lost') <= Cardinality(Lost) + 2
  <2> DEFINE A == Lost \cup {x}
             B == A \cup {y}
  <2>1. /\ IsFiniteSet(A) /\ Cardinality(A) \in Nat
        /\ Cardinality(A) <= Cardinality(Lost) + 1
    BY <1>1, <1>2
  <2> HIDE DEF A
  <2>2. /\ IsFiniteSet(B) /\ Cardinality(B) \in Nat
        /\ Cardinality(B) <= Cardinality(A) + 1
    BY <1>2, <2>1
  <2> HIDE DEF B
  <2>3. Cardinality(Lost') <= Cardinality(B)
    BY <1>3, <1>5, <2>2 DEF A, B
  <2>4. QED
    BY <1>1, <2>1, <2>2, <2>3
<1>6. QED
  BY <1>1, <1>3, <1>4, <1>5

(* What one delivery's wear adds to all of them. *)
LEMMA WearSame ==
  ASSUME DeliveryInv, DeliveryInv', \A d \in Deliveries : Worn'[d] = Worn[d]
  PROVE  Wear' = Wear
  BY WebhookAssumption, SumSame DEF Wear

LEMMA WearChanged ==
  ASSUME DeliveryInv, DeliveryInv', NEW e,
         \A d \in Deliveries : d # e => Worn'[d] = Worn[d]
  PROVE  /\ e \in Deliveries => Wear' = Wear - Worn[e] + Worn'[e]
         /\ e \notin Deliveries => Wear' = Wear
<1>1. \A d \in Deliveries : Worn[d] \in Int /\ Worn'[d] \in Int
  BY CountsMean, CountsThen, WebhookAssumption DEF CountsAre
<1>2. ASSUME e \in Deliveries
      PROVE  Wear' = Wear - Worn[e] + Worn'[e]
  BY <1>1, <1>2, WebhookAssumption, SumChanged DEF Wear
<1>3. QED
  BY <1>2, WearSame

(* The product, one step further. *)
LEMMA Times ==
  ASSUME NEW K \in Nat, NEW x \in Int, NEW y \in Int
  PROVE  /\ K * x \in Int /\ K * y \in Int
         /\ y <= x => K * y <= K * x
         /\ y <= x + 1 => K * y <= K * x + K
<1>1. K * x \in Int /\ K * y \in Int /\ K * (x + 1) = K * x + K
  OBVIOUS
<1>2. \A a, b \in Int : a <= b => K * a <= K * b
  <2> SUFFICES ASSUME NEW a \in Int, NEW b \in Int, a <= b  PROVE K * a <= K * b
    OBVIOUS
  <2>1. K * (b - a) >= 0
    BY SMTT(30)
  <2>2. K * (b - a) = K * b - K * a
    OBVIOUS
  <2>3. K * a \in Int /\ K * b \in Int
    OBVIOUS
  <2>4. QED
    BY <2>1, <2>2, <2>3
<1>3. QED
  BY <1>1, <1>2

(* A step that the count survives: it loses no more than it uses up, or    *)
(* one more at the price of a job's MaxStalls stalls.                      *)
LEMMA CountKept ==
  ASSUME DeliveryInv, DeliveryInv', LossInv,
         \/ Excess' <= Excess /\ Wear' + faults.crashes <= Wear + faults'.crashes
         \/ /\ Excess' <= Excess + 1
            /\ Wear' = Wear - MaxStalls /\ faults'.crashes = faults.crashes + 1
  PROVE  LossInv'
<1>1. /\ Excess \in Int /\ Excess' \in Int /\ Wear \in Nat /\ Wear' \in Nat
      /\ faults.crashes \in Nat /\ faults'.crashes \in Nat
      /\ MaxStalls \in Nat /\ MaxStalls + 1 \in Nat
  BY CountsMean, CountsThen, WebhookAssumption DEF Excess, CountsAre
<1> DEFINE K == MaxStalls + 1
           old == K * Excess
           new == K * Excess'
<1>2. /\ old \in Int /\ new \in Int
      /\ Excess' <= Excess => new <= old
      /\ Excess' <= Excess + 1 => new <= old + K
  BY <1>1, Times
<1>3. old + Wear <= faults.crashes
  BY DEF LossInv
<1>4. K = MaxStalls + 1
  OBVIOUS
<1> HIDE DEF K, old, new
<1>5. new + Wear' <= faults'.crashes
  BY <1>1, <1>2, <1>3, <1>4
<1>6. QED
  BY <1>5 DEF new, K, LossInv

(* Steps without a fault. *)
LEMMA WearQuiet ==
  ASSUME DeliveryInv, DeliveryInv', HistoryInv,
         \/ \E p \in Endpoints : EndpointStep(p)
         \/ AnnounceDispute
         \/ \E w \in WebhookWorkers :
              Fire(w) \/ FireStep(w) \/ FireFails(w) \/ PumpStep(w) \/ UpdateFails(w)
              \/ NoteFails(w)
  PROVE  Wear' <= Wear
<1>0. /\ DeliveryTypeOK /\ Wear \in Nat /\ Wear' \in Nat
      /\ \A d \in Deliveries : Worn[d] \in 0..MaxStalls
  BY CountsMean, CountsThen DEF DeliveryInv, CountsAre
<1>1. ASSUME \A d \in Deliveries, j \in Job : Carries(j, d)' <=> Carries(j, d)
      PROVE  Wear' <= Wear
  BY <1>0, <1>1, WornSame, WearSame
<1>2. ASSUME UNCHANGED <<jobs, pump>>
      PROVE  Wear' <= Wear
  <2>1. \A d \in Deliveries, j \in Job : Carries(j, d)' <=> Carries(j, d)
    BY <1>2 DEF Carries, Working, At, Mine
  <2>2. QED
    BY <1>1, <2>1
<1>3. ASSUME NEW p \in Endpoints, EndpointStep(p)
      PROVE  Wear' <= Wear
  BY <1>2, <1>3 DEF EndpointStep, Register, UpdateEndpoint, DeleteEndpoint, RotateSecret,
                    SetEndpoint
<1>4. CASE AnnounceDispute
  <2> DEFINE n == [delivery |-> NoDelivery, endpoint |-> "none", secret |-> 0,
                   made |-> 0, of |-> 1, stalls |-> 0]
  <2>1. UNCHANGED pump /\ jobs' = jobs \cup {n} /\ n.delivery = NoDelivery
    BY <1>4 DEF AnnounceDispute
  <2> HIDE DEF n
  <2>2. \A d \in Deliveries, j \in Job : Carries(j, d)' <=> Carries(j, d)
    BY <2>1, WebhookAssumption DEF Carries, Working, At, Mine
  <2>3. QED
    BY <1>1, <2>2
<1>5. ASSUME NEW w \in WebhookWorkers, Fire(w) \/ FireStep(w) \/ FireFails(w)
      PROVE  Wear' <= Wear
  <2>1. UNCHANGED pump /\ (jobs' = jobs \/ jobs' = jobs \cup firing[w].adding)
    BY <1>5 DEF Fire, FireStep, FireFails, AddJob, AddFails, InsertDelivery, InsertRefused,
                InsertFails
  <2>2. CASE jobs' = jobs
    BY <1>2, <2>1, <2>2
  <2>3. CASE jobs' = jobs \cup firing[w].adding
    BY <1>0, <2>1, <2>3, WornByAdding, WearSame
  <2>4. QED
    BY <2>1, <2>2, <2>3
<1>6. ASSUME NEW w \in WebhookWorkers, NEW j \in jobs, Take(w, j)
      PROVE  Wear' <= Wear
  <2>1. /\ pump'[w] = [pc |-> "post", job |-> j] /\ pump[w].pc = "idle"
        /\ \A v \in WebhookWorkers : v # w => pump'[v] = pump[v]
        /\ jobs' = jobs \ {j}
    BY <1>0, <1>6 DEF Take, At, DeliveryTypeOK
  <2>2. \A d \in Deliveries, i \in Job : Carries(i, d)' <=> Carries(i, d)
    BY <2>1 DEF Carries, Working, At, Mine
  <2>3. QED
    BY <1>1, <2>2
<1>7. ASSUME NEW w \in WebhookWorkers, Working(w), UNCHANGED jobs,
             NEW pc \in Stages, Goto(w, pc)
      PROVE  Wear' <= Wear
  <2>1. /\ \A v \in WebhookWorkers : v # w => pump'[v] = pump[v]
        /\ pump'[w].pc = pc /\ pump'[w].job = pump[w].job
    BY <1>0, <1>7, GotoFact DEF Mine
  <2>2. \A d \in Deliveries, i \in Job : Carries(i, d)' <=> Carries(i, d)
    BY <1>7, <2>1 DEF Carries, Working, At, Mine, Stages
  <2>3. QED
    BY <1>1, <2>2
<1>8. ASSUME NEW w \in WebhookWorkers, Working(w), Rest(w),
             NEW j \in Job, j.delivery = Mine(w).delivery, j.stalls = Mine(w).stalls,
             jobs' = jobs \/ jobs' = jobs \cup {j}
      PROVE  Wear' <= Wear
  <2>1. CASE Real(Mine(w))
    <3>1. /\ Mine(w).delivery \in Deliveries
          /\ Worn'[Mine(w).delivery] \in {0, Worn[Mine(w).delivery]}
          /\ Wear' = Wear - Worn[Mine(w).delivery] + Worn'[Mine(w).delivery]
      BY <1>8, <2>1, WornByEnding, WearChanged
    <3>2. Worn[Mine(w).delivery] \in Nat
      BY <1>0, <3>1, WebhookAssumption
    <3>3. QED
      BY <1>0, <3>1, <3>2
  <2>2. CASE ~Real(Mine(w))
    <3>1. Mine(w).delivery \notin Deliveries
      BY <2>2, WebhookAssumption DEF Real
    <3>2. QED
      BY <1>0, <1>8, <3>1, WornByEnding, WearChanged
  <2>3. QED
    BY <2>1, <2>2
<1>9. ASSUME NEW w \in WebhookWorkers, Working(w), Failed(w)
      PROVE  Wear' <= Wear
  BY <1>0, <1>8, <1>9, FailedFact
<1>10. ASSUME NEW w \in WebhookWorkers, Complete(w)
       PROVE  Wear' <= Wear
  <2>1. Working(w) /\ Rest(w) /\ jobs' = jobs
    BY <1>10 DEF Complete, Working, At
  <2>2. Mine(w) \in Job
    BY <1>0, <2>1, HeldJob
  <2>3. QED
    BY <1>8, <2>1, <2>2
<1>11. ASSUME NEW w \in WebhookWorkers,
              \/ Unsignable(w) \/ Post(w) \/ RecordDelivered(w) \/ RecordFailed(w)
              \/ Rethrow(w) \/ UpdateFails(w) \/ NoteFails(w)
       PROVE  Wear' <= Wear
  <2>1. /\ Working(w)
        /\ \/ Failed(w)
           \/ UNCHANGED jobs /\ \E pc \in Stages : Goto(w, pc)
    BY <1>11 DEF Unsignable, Post, RecordDelivered, RecordFailed, Rethrow, UpdateFails,
                 NoteFails, Working, At, Stages
  <2>2. QED
    BY <1>7, <1>9, <2>1
<1>12. QED
  BY <1>3, <1>4, <1>5, <1>6, <1>10, <1>11 DEF PumpStep

(* Faults are counted. *)
LEMMA FaultsUsed ==
  ASSUME DeliveryInv, [DeliveryNext]_webhookVars
  PROVE  \/ /\ UNCHANGED faults
            /\ \/ \E p \in Endpoints : EndpointStep(p)
               \/ AnnounceDispute
               \/ \E w \in WebhookWorkers : Fire(w) \/ FireStep(w) \/ PumpStep(w)
               \/ UNCHANGED webhookVars
         \/ /\ faults'.crashes = faults.crashes /\ faults'.db = faults.db + 1
            /\ \E w \in WebhookWorkers : FireFails(w) \/ UpdateFails(w) \/ NoteFails(w)
         \/ /\ faults'.crashes = faults.crashes + 1 /\ faults'.db = faults.db
            /\ \E w \in WebhookWorkers : Crash(w)
<1>1. faults \in [crashes : 0..MaxCrashes, db : 0..MaxFaults]
  BY DEF DeliveryInv, DeliveryTypeOK
<1>2. ASSUME NEW w \in WebhookWorkers, FireFails(w) \/ UpdateFails(w) \/ NoteFails(w)
      PROVE  faults'.crashes = faults.crashes /\ faults'.db = faults.db + 1
  BY <1>1, <1>2 DEF FireFails, AddFails, InsertFails, UpdateFails, NoteFails, CallFails
<1>3. ASSUME NEW w \in WebhookWorkers, Crash(w)
      PROVE  faults'.crashes = faults.crashes + 1 /\ faults'.db = faults.db
  BY <1>1, <1>3 DEF Crash
<1>4. ASSUME NEW w \in WebhookWorkers, Fire(w) \/ FireStep(w) \/ PumpStep(w)
      PROVE  UNCHANGED faults
  BY <1>4 DEF Fire, FireStep, AddJob, InsertDelivery, InsertRefused, PumpStep, Take,
              Unsignable, Post, RecordDelivered, RecordFailed, Rethrow, Complete
<1>5. ASSUME \/ AnnounceDispute \/ UNCHANGED webhookVars
             \/ \E p \in Endpoints : EndpointStep(p)
      PROVE  UNCHANGED faults
  BY <1>5 DEF AnnounceDispute, webhookVars, EndpointStep, Register, UpdateEndpoint,
              DeleteEndpoint, RotateSecret, SetEndpoint
<1>6. QED
  BY <1>2, <1>3, <1>4, <1>5 DEF DeliveryNext

LEMMA LossStep ==
  DeliveryInv /\ HistoryInv /\ LossInv /\ [DeliveryNext]_webhookVars => LossInv'
<1> SUFFICES ASSUME DeliveryInv, HistoryInv, LossInv, [DeliveryNext]_webhookVars
    PROVE  LossInv'
  OBVIOUS
<1>0. DeliveryInv'
  BY StepKeeps
<1>1. /\ Cardinality(Lost) \in Nat /\ Cardinality(Lost') \in Nat
      /\ faults.crashes \in Nat /\ faults.db \in Nat
      /\ faults'.crashes \in Nat /\ faults'.db \in Nat
      /\ Wear \in Nat /\ Wear' \in Nat /\ MaxStalls \in Nat
  BY <1>0, CountsMean, CountsThen, WebhookAssumption DEF CountsAre
<1>2. CASE \/ \E p \in Endpoints : EndpointStep(p)
           \/ AnnounceDispute
           \/ \E w \in WebhookWorkers : Fire(w) \/ FireStep(w) \/ PumpStep(w)
  <2>1. Cardinality(Lost') <= Cardinality(Lost)
    BY <1>0, <1>2, NothingLost, LostCount
  <2>2. Wear' <= Wear
    BY <1>0, <1>2, WearQuiet
  <2>3. CASE UNCHANGED faults
    BY <1>0, <1>1, <2>1, <2>2, <2>3, CountKept DEF Excess
  <2>4. CASE faults'.crashes = faults.crashes /\ faults'.db = faults.db + 1
    BY <1>0, <1>1, <2>1, <2>2, <2>4, CountKept DEF Excess
  <2>5. CASE faults'.crashes = faults.crashes + 1 /\ faults'.db = faults.db
    BY <1>0, <1>1, <2>1, <2>2, <2>5, CountKept DEF Excess
  <2>6. QED
    BY <2>3, <2>4, <2>5, FaultsUsed
<1>3. ASSUME NEW w \in WebhookWorkers, FireFails(w) \/ UpdateFails(w) \/ NoteFails(w),
             faults'.crashes = faults.crashes, faults'.db = faults.db + 1
      PROVE  LossInv'
  <2>1. Cardinality(Lost') <= Cardinality(Lost) + 1
    <3>1. CASE UpdateFails(w)
      BY <1>0, <1>1, <3>1, NothingLost, LostCount
    <3>2. CASE FireFails(w) \/ NoteFails(w)
      BY <1>0, <3>2, CallLosesOne, LostCount
    <3>3. QED
      BY <1>3, <3>1, <3>2
  <2>2. Wear' <= Wear
    BY <1>0, <1>3, WearQuiet
  <2>3. QED
    BY <1>0, <1>1, <1>3, <2>1, <2>2, CountKept DEF Excess
<1>4. ASSUME NEW w \in WebhookWorkers, Crash(w),
             faults'.crashes = faults.crashes + 1, faults'.db = faults.db
      PROVE  LossInv'
  <2> DEFINE e == Mine(w).delivery
  <2>0. DeliveryTypeOK
    BY DEF DeliveryInv
  <2>1. PICK x : Lost' \subseteq
           Lost \cup {x} \cup (IF Working(w) /\ Real(Mine(w)) /\ jobs' = jobs THEN {e} ELSE {})
    BY <1>4, CrashLoses
  <2>2. CASE ~Working(w)
    <3>1. UNCHANGED <<jobs, pump>>
      BY <1>4, <2>0, <2>2, IdleCrashFact
    <3>2. \A d \in Deliveries, j \in Job : Carries(j, d)' <=> Carries(j, d)
      BY <3>1 DEF Carries, Working, At, Mine
    <3>3. Wear' = Wear
      BY <1>0, <3>2, WornSame, WearSame
    <3>4. Lost' \subseteq Lost \cup {x}
      BY <2>1, <2>2
    <3>5. Cardinality(Lost') <= Cardinality(Lost) + 1
      BY <1>0, <3>4, LostCount
    <3>6. QED
      BY <1>0, <1>1, <1>4, <3>3, <3>5, CountKept DEF Excess
  <2>3. CASE Working(w)
    <3>1. PICK j \in Job : /\ j.delivery = e
                           /\ \/ jobs' = jobs /\ Mine(w).stalls = MaxStalls
                              \/ jobs' = jobs \cup {j} /\ j.stalls = Mine(w).stalls + 1
      BY <1>4, <2>0, <2>3, CrashFact
    <3>2. Rest(w) /\ Mine(w) \in Job /\ Mine(w).stalls \in Nat
      BY <1>4, <2>0, <2>3, HeldJob, Counters DEF Crash
    <3>3. /\ \A d \in Deliveries : d # e => Worn'[d] = Worn[d]
          /\ Real(Mine(w)) =>
               /\ e \in Deliveries /\ Worn[e] = Mine(w).stalls
               /\ jobs' = jobs => Worn'[e] = 0
               /\ jobs' = jobs \cup {j} => Worn'[e] = j.stalls
      BY <1>0, <2>3, <3>1, <3>2, WornByEnding
    <3>4. /\ e \in Deliveries => Wear' = Wear - Worn[e] + Worn'[e]
          /\ e \notin Deliveries => Wear' = Wear
      BY <1>0, <3>3, WearChanged
    <3>5. CASE ~Real(Mine(w))
      <4>1. e \notin Deliveries
        BY <3>5, WebhookAssumption DEF Real
      <4>2. Lost' \subseteq Lost \cup {x}
        BY <2>1, <3>5
      <4>3. Cardinality(Lost') <= Cardinality(Lost) + 1
        BY <1>0, <4>2, LostCount
      <4>4. QED
        BY <1>0, <1>1, <1>4, <3>4, <4>1, <4>3, CountKept DEF Excess
    <3>6. CASE Real(Mine(w)) /\ jobs' = jobs /\ Mine(w).stalls = MaxStalls
      <4>1. Wear' = Wear - MaxStalls
        BY <1>1, <3>3, <3>4, <3>6
      <4>2. Lost' \subseteq Lost \cup {x} \cup {e}
        BY <2>1
      <4>3. Cardinality(Lost') <= Cardinality(Lost) + 2
        BY <1>0, <4>2, LostCount
      <4>4. QED
        BY <1>0, <1>1, <1>4, <4>1, <4>3, CountKept DEF Excess
    <3>7. CASE Real(Mine(w)) /\ jobs' = jobs \cup {j} /\ j.stalls = Mine(w).stalls + 1
      <4>1. Wear' = Wear + 1
        BY <1>1, <3>2, <3>3, <3>4, <3>7
      <4>2. jobs' # jobs
        BY <2>3, <3>1, <3>7 DEF DeliveryInv, CarryInv, PumpInv, Real
      <4>3. Lost' \subseteq Lost \cup {x}
        BY <2>1, <4>2
      <4>4. Cardinality(Lost') <= Cardinality(Lost) + 1
        BY <1>0, <4>3, LostCount
      <4>5. QED
        BY <1>0, <1>1, <1>4, <4>1, <4>4, CountKept DEF Excess
    <3>8. QED
      BY <3>1, <3>5, <3>6, <3>7
  <2>4. QED
    BY <2>2, <2>3
<1>5. CASE UNCHANGED webhookVars
  <2>1. Lost' = Lost /\ UNCHANGED <<jobs, pump, faults>>
    BY <1>5 DEF webhookVars, Lost, Awaited, Carried, At, Mine
  <2>2. \A d \in Deliveries, j \in Job : Carries(j, d)' <=> Carries(j, d)
    BY <2>1 DEF Carries, Working, At, Mine
  <2>3. Wear' = Wear
    BY <1>0, <2>2, WornSame, WearSame
  <2>4. QED
    BY <1>0, <1>1, <2>1, <2>3, CountKept DEF Excess
<1>6. QED
  BY <1>2, <1>3, <1>4, <1>5, FaultsUsed DEF DeliveryNext

(* LossesCounted: a delivery that nothing will ever settle was lost by a   *)
(* death or a failed call; each loses one, and only every MaxStalls + 1    *)
(* deaths one more (LostOnlyByFaults), for any number of them.             *)
THEOREM LossesCounted == DeliverySpec => []LostOnlyByFaults
<1>1. DeliveryInit => LossInv
  <2> SUFFICES ASSUME DeliveryInit
      PROVE  LossInv
    OBVIOUS
  <2>0. DeliveryInv
    BY InitHolds
  <2>1. Lost = {}
    BY DEF DeliveryInit, Lost, Awaited, Unborn
  <2>2. Cardinality(Lost) = 0
    BY <2>1, FS_EmptySet
  <2>3. faults.crashes = 0 /\ faults.db = 0
    BY DEF DeliveryInit
  <2>4. \A d \in Deliveries, j \in Job : ~Carries(j, d)
    BY DEF DeliveryInit, Carries, Working, At, Resting
  <2>5. \A d \in Deliveries : Worn[d] = 0
    BY <2>0, <2>4, WornMeans DEF WornIs
  <2>6. Wear = 0
    <3> DEFINE zero == [d \in Deliveries |-> 0]
               G == {T \in SUBSET Deliveries : SumFunctionOnSet(Worn, T) = 0}
    <3>1. ASSUME NEW T \in SUBSET Deliveries, \A U \in SUBSET T : U # T => U \in G
          PROVE  T \in G
      <4>1. CASE T = {}
        BY <4>1, SumEmpty
      <4>2. CASE T # {}
        <5>1. PICK y \in T : TRUE
          BY <4>2
        <5>2. IsFiniteSet(T) /\ \A d \in T : Worn[d] \in Int
          BY <2>5, WebhookAssumption, FS_Subset
        <5>3. SumFunctionOnSet(Worn, T) = Worn[y] + SumFunctionOnSet(Worn, T \ {y})
          BY <5>2, SumRemove
        <5>4. T \ {y} \in G /\ y \in Deliveries
          BY <3>1
        <5>5. QED
          BY <2>5, <5>3, <5>4
      <4>3. QED
        BY <4>1, <4>2
    <3> HIDE DEF G
    <3>2. SUBSET Deliveries \subseteq G
      BY <3>1, WebhookAssumption, SubsetInduction
    <3>3. QED
      BY <3>2 DEF G, Wear
  <2>7. (MaxStalls + 1) * 0 = 0
    BY WebhookAssumption
  <2>8. Excess = 0
    BY <2>2, <2>3 DEF Excess
  <2>9. QED
    BY <2>3, <2>6, <2>7, <2>8 DEF LossInv
<1>2. DeliveryInv /\ LossInv => LostOnlyByFaults
  <2> SUFFICES ASSUME DeliveryInv, LossInv
      PROVE  (MaxStalls + 1) * Excess <= faults.crashes
    BY DEF LostOnlyByFaults, Excess
  <2>1. /\ Excess \in Int /\ Wear \in Nat /\ faults.crashes \in Nat
        /\ MaxStalls + 1 \in Nat
    BY CountsMean, WebhookAssumption DEF Excess, CountsAre
  <2>2. (MaxStalls + 1) * Excess \in Int
    BY <2>1, Times
  <2> DEFINE product == (MaxStalls + 1) * Excess
  <2>3. product + Wear <= faults.crashes /\ product \in Int
    BY <2>2 DEF LossInv
  <2> HIDE DEF product
  <2>4. product <= faults.crashes
    BY <2>1, <2>3
  <2>5. QED
    BY <2>4 DEF product
<1>3. QED
  BY <1>1, <1>2, LossStep, InvHolds, HistoryHolds, PTL DEF DeliverySpec
=============================================================================
