--------------------------- MODULE Dashboard_proofs ---------------------------
(***************************************************************************)
(* Proofs about the dashboard, for any users, queries, pages, writes and   *)
(* bounds.                                                                 *)
(***************************************************************************)
EXTENDS Dashboard, SequenceTheorems, TLAPS

Flow  == {"sent", "committed", "refused"}
Sides == {"waiting", "left", "gone", "succeeded", "failed"}
Send  == [kind : Kinds, of : Users, target : Endpoints \cup Nat, form : Nat, press : Nat,
          server : Flow, next : Nat, client : Sides, told : {"no", "yes", "late"},
          at : [Tracked -> Nat], outrun : SUBSET Tracked]

ViewTypes  == /\ user \in Users \cup {Nobody}
              /\ page \in Visited \cup {"login", "overview"}
              /\ page # "login" => user \in Users
CacheType  == [of : Users \cup {Nobody}, version : Nat, stale : BOOLEAN, invalid : BOOLEAN]
FetchType  == [of : Users, read : Nat \cup {-1}] \cup {Idle}
ClientTypes == cache \in [Tracked -> CacheType] /\ fetch \in [Tracked -> FetchType]
DbTypes    == db \in [Topics -> [Users -> Nat]]
SendTypes  == sends \in Seq(Send)
Types ==
  /\ ViewTypes /\ ClientTypes /\ DbTypes /\ SendTypes
  /\ {draft, undrawn, shown} \subseteq 0..Len(sends)

(* Data and answers hold no change that has not been made, and an answer   *)
(* is no older than the same user's data it is to replace.                 *)
Fresh(q) ==
  /\ HasData(q) => cache[q].version <= Rows(db, q, cache[q].of)
  /\ InFlight(q) => fetch[q].read <= Rows(db, q, fetch[q].of)
  /\ InFlight(q) /\ fetch[q].of = cache[q].of /\ fetch[q].read # -1
       => fetch[q].read >= cache[q].version

Sent(i) ==
  /\ sends[i].form <= i
  /\ HasForm(sends[i].kind) <=> sends[i].form # 0
  /\ sends[i].client = "succeeded" => sends[i].server = "committed"
  /\ \A q \in Tracked : sends[i].at[q] <= Rows(db, q, sends[i].of)

(* Once a write has succeeded, data from before it are flagged, and no      *)
(* fetch under way has read from before it.                                *)
Honoured(i, q) ==
  /\ cache[q].of = sends[i].of => cache[q].version >= sends[i].at[q] \/ cache[q].invalid
  /\ fetch[q].of = sends[i].of /\ fetch[q].read # -1 => fetch[q].read >= sends[i].at[q]
Sees(i) ==
  sends[i].client = "succeeded" =>
    \A q \in Matching(sends[i].kind) \ sends[i].outrun : Honoured(i, q)

(* The sends of the content now in the form are on this page's form, wait  *)
(* or have failed, and are the last with a form.                           *)
DraftInv ==
  draft # 0 =>
    /\ page # "login"
    /\ \A i \in DOMAIN sends : sends[i].form = draft =>
         Writes[sends[i].kind].page = page /\ sends[i].client \in {"waiting", "failed"}
    /\ \A i \in DOMAIN sends : i >= draft /\ sends[i].form # 0 => sends[i].form = draft

(* The press not yet drawn is of a form, and includes all sends since.     *)
UndrawnInv ==
  undrawn # 0 =>
    /\ sends[undrawn].form # 0
    /\ \A i \in DOMAIN sends : i >= undrawn /\ sends[i].form # 0 => sends[i].press = undrawn

(* Of each kind sent one is the last to be sent: the button follows it.    *)
Latest(i, l) == /\ l >= i /\ sends[l].kind = sends[i].kind
                /\ \A j \in DOMAIN sends : j > l => sends[j].kind # sends[i].kind
LatestInv == \A i \in DOMAIN sends : \E l \in DOMAIN sends : Latest(i, l)

(* A second send of a form's content belongs to the same press, or follows *)
(* a failure of the first.                                                 *)
PressFailed(i) == \E t \in DOMAIN sends : /\ sends[t].press = sends[i].press
                                         /\ sends[t].client = "failed"
OnceInv ==
  \A i, j \in DOMAIN sends :
    i < j /\ sends[i].form # 0 /\ sends[i].form = sends[j].form
      => sends[i].press = sends[j].press \/ PressFailed(i)

(* The page shows a secret it has been told of; what replaces a secret     *)
(* sets one; and of a secret that is shown and replaced, the page has not  *)
(* been told of the replacement, or was told of it first.                  *)
SecretInv ==
  /\ \A i \in DOMAIN sends : sends[i].told # "no" => sends[i].client = "succeeded"
  /\ \A i \in DOMAIN sends : sends[i].next # 0 =>
       /\ sends[i].next \in DOMAIN sends \ {i}
       /\ SetsSecret(sends[sends[i].next].kind)
  /\ SecretShownIsLast

DashInv ==
  /\ Types
  /\ \A q \in Tracked : Fresh(q)
  /\ \A i \in DOMAIN sends : Sent(i) /\ Sees(i)
  /\ DraftInv /\ UndrawnInv /\ LatestInv /\ OnceInv /\ SecretInv

-----------------------------------------------------------------------------
(* The writes as a sequence. *)

LEMMA SendFact ==
  ASSUME SendTypes, NEW i \in DOMAIN sends
  PROVE  /\ Len(sends) \in Nat /\ DOMAIN sends = 1..Len(sends) /\ i \in 1..Len(sends)
         /\ sends[i] \in Send
<1>1. Len(sends) \in Nat /\ DOMAIN sends = 1..Len(sends)
  BY LenProperties DEF SendTypes
<1> QED  BY <1>1, ElementOfSeq DEF SendTypes

(* One write changes. *)
LEMMA OneFact ==
  ASSUME SendTypes, NEW i \in DOMAIN sends, NEW r \in Send, sends' = [sends EXCEPT ![i] = r]
  PROVE  /\ SendTypes' /\ Len(sends') = Len(sends) /\ DOMAIN sends' = DOMAIN sends
         /\ sends'[i] = r
         /\ \A j \in DOMAIN sends : j # i => sends'[j] = sends[j]
<1>1. i \in 1..Len(sends)
  BY SendFact
<1>2. /\ sends' \in Seq(Send) /\ Len(sends') = Len(sends)
  BY <1>1, ExceptSeq DEF SendTypes
<1> QED  BY <1>2 DEF SendTypes

(* The page's sends are left behind. *)
LEMMA AllFact ==
  ASSUME SendTypes, NEW f \in [DOMAIN sends -> Send], sends' = f
  PROVE  SendTypes' /\ Len(sends') = Len(sends) /\ DOMAIN sends' = DOMAIN sends
<1>1. Len(sends) \in Nat /\ DOMAIN sends = 1..Len(sends)
  BY LenProperties DEF SendTypes
<1>2. f \in Seq(Send)
  BY <1>1, SeqDef
<1>3. DOMAIN f = 1..Len(f) /\ Len(f) \in Nat
  BY <1>2, LenProperties
<1>4. Len(f) = Len(sends)
  BY <1>1, <1>3
<1> QED  BY <1>1, <1>2, <1>4 DEF SendTypes

(* A write is added. *)
LEMMA AppendFact ==
  ASSUME SendTypes, NEW r \in Send, sends' = Append(sends, r)
  PROVE  /\ SendTypes' /\ Len(sends') = Len(sends) + 1
         /\ DOMAIN sends' = DOMAIN sends \cup {Len(sends) + 1}
         /\ Len(sends) + 1 \notin DOMAIN sends
         /\ sends'[Len(sends) + 1] = r
         /\ \A j \in DOMAIN sends : sends'[j] = sends[j]
<1>1. Len(sends) \in Nat /\ DOMAIN sends = 1..Len(sends)
  BY LenProperties DEF SendTypes
<1>2. /\ sends' \in Seq(Send) /\ Len(sends') = Len(sends) + 1
      /\ \A j \in 1..Len(sends) : sends'[j] = sends[j]
      /\ sends'[Len(sends) + 1] = r
  BY <1>1, AppendProperties DEF SendTypes
<1>3. DOMAIN sends' = 1..(Len(sends) + 1)
  BY <1>2, LenProperties
<1> QED  BY <1>1, <1>2, <1>3 DEF SendTypes

-----------------------------------------------------------------------------
(* The server's rows. *)

LEMMA RowsFact ==
  ASSUME NEW q \in Tracked, NEW d \in [Topics -> [Users -> Nat]], NEW u \in Users
  PROVE  /\ Topic(q) \in Topics
         /\ Rows(d, q, u) = d[Topic(q)][u] /\ Rows(d, q, u) \in Nat
<1>1. Topic(q) \in Topics
  BY DEF Topics
<1>2. CASE q = Balance
  BY <1>1, <1>2 DEF Rows, GetBalance, Balance, Topic
<1>3. CASE q = Webhooks
  BY <1>1, <1>3 DEF Rows, ListEndpoints, Balance, Webhooks, Topic
<1>4. CASE q \in {"transactions", "escrows", "disputes"} \X Nat
  <2>1. q # Balance
    BY <1>4 DEF Balance
  <2>2. Topic(q) \in {"transactions", "escrows", "disputes"}
    BY <1>4 DEF Topic
  <2> QED  BY <1>1, <2>1, <2>2 DEF Rows, GetTransactions, ListEscrows, ListDisputes
<1> QED  BY <1>2, <1>3, <1>4, DashAssumption

(* Changes are only added. *)
DbGrows ==
  /\ DbTypes'
  /\ \A t \in Topics, u \in Users : db[t][u] <= db'[t][u]

LEMMA GrowFact ==
  ASSUME DbTypes, DbGrows, NEW q \in Tracked, NEW u \in Users
  PROVE  /\ Rows(db, q, u) \in Nat /\ Rows(db', q, u) \in Nat
         /\ Rows(db, q, u) <= Rows(db', q, u)
<1>1. /\ Topic(q) \in Topics
      /\ Rows(db, q, u) = db[Topic(q)][u] /\ Rows(db, q, u) \in Nat
  BY RowsFact DEF DbTypes
<1>2. Rows(db', q, u) = db'[Topic(q)][u] /\ Rows(db', q, u) \in Nat
  BY RowsFact DEF DbGrows, DbTypes
<1> QED  BY <1>1, <1>2 DEF DbGrows

LEMMA DbStep ==
  ASSUME Types, [DashNext]_vars
  PROVE  DbGrows
<1>0. DbTypes /\ SendTypes
  BY DEF Types
<1>1. ASSUME NEW i \in DOMAIN sends, Commit(i)  PROVE DbGrows
  <2> DEFINE s == sends[i]
  <2>1. s.of \in Users
    BY <1>0, SendFact DEF Send
  <2>2. db' = [t \in Topics |-> IF t \in Writes[s.kind].changes
                               THEN [db[t] EXCEPT ![s.of] = @ + 1] ELSE db[t]]
    BY <1>1 DEF Commit
  <2>3. ASSUME NEW t \in Topics
        PROVE  /\ [db[t] EXCEPT ![s.of] = @ + 1] \in [Users -> Nat]
               /\ db[t] \in [Users -> Nat]
               /\ \A u \in Users : db[t][u] <= [db[t] EXCEPT ![s.of] = @ + 1][u]
    <3>1. db[t] \in [Users -> Nat]
      BY <1>0 DEF DbTypes
    <3> QED  BY <2>1, <3>1
  <2> HIDE DEF s
  <2> QED  BY <2>2, <2>3 DEF DbGrows, DbTypes
<1>2. ASSUME NEW u \in Users, NEW t \in Topics, OtherChange(u, t)  PROVE DbGrows
  BY <1>0, <1>2 DEF OtherChange, DbGrows, DbTypes
<1>3. ASSUME db' = db  PROVE DbGrows
  BY <1>0, <1>3 DEF DbGrows, DbTypes
<1>4. PageStep \/ QueryStep \/ UNCHANGED vars => db' = db
  BY DEF PageStep, QueryStep, Go, SignIn, SignOut, Reload, Serve, Load, FetchFails, Age,
     Collect, Interval, Focus, vars
<1>5. WriteStep => db' = db \/ \E i \in DOMAIN sends : Commit(i)
  BY DEF WriteStep, Submit, Draw, Cancel, DismissSecret, Refuse, Succeed, Fail
<1> QED  BY <1>1, <1>2, <1>3, <1>4, <1>5 DEF DashNext

-----------------------------------------------------------------------------
(* The query cache: what a step may do to one query. *)

Asking == {Idle} \cup {Asked(u) : u \in Users}
Kept(q)    == /\ cache'[q].of = cache[q].of /\ cache'[q].version = cache[q].version
              /\ cache[q].invalid => cache'[q].invalid
              /\ fetch'[q] \in {fetch[q]} \cup Asking
Dropped(q) == cache'[q] = NoData /\ fetch'[q] \in Asking
Served(q)  == /\ cache'[q] = cache[q] /\ db' = db /\ InFlight(q) /\ fetch[q].read = -1
              /\ fetch'[q] = [of |-> fetch[q].of, read |-> Rows(db, q, fetch[q].of)]
Loaded(q)  == /\ InFlight(q) /\ fetch[q].read # -1 /\ db' = db
              /\ cache'[q] = [of |-> fetch[q].of, version |-> fetch[q].read,
                              stale |-> FALSE, invalid |-> FALSE]
              /\ fetch'[q] = Idle
QMove(q) == Kept(q) \/ Dropped(q) \/ Served(q) \/ Loaded(q)

LEMMA ClientFact ==
  ASSUME ClientTypes, NEW q \in Tracked
  PROVE  /\ cache[q] \in CacheType /\ fetch[q] \in FetchType
         /\ cache[q].of \in Users \cup {Nobody} /\ cache[q].version \in Nat
         /\ cache[q].invalid \in BOOLEAN
         /\ fetch[q].read \in Nat \cup {-1}
         /\ InFlight(q) => fetch[q].of \in Users
         /\ InFlight(q) => fetch[q] = [of |-> fetch[q].of, read |-> fetch[q].read]
         /\ fetch[q].of \in Users => InFlight(q)
  BY DashAssumption DEF ClientTypes, CacheType, FetchType, InFlight, Idle

LEMMA AskingFact == Asking \subseteq FetchType
  BY DEF Asking, FetchType, Asked

LEMMA LoginFact == On("login") = {}
  BY DEF On

LEMMA MountFact ==
  ASSUME ClientTypes, NEW u \in Users, NEW Q, Mounting(u, Q), cache' = cache
  PROVE  ClientTypes' /\ \A q \in Tracked : QMove(q)
<1>1. \A q \in Tracked : fetch'[q] \in {fetch[q], Asked(u)}
  BY DEF Mounting
<1>2. Asked(u) \in Asking
  BY DEF Asking
<1>3. fetch' \in [Tracked -> FetchType]
  BY <1>1, <1>2, AskingFact DEF Mounting, ClientTypes
<1> QED  BY <1>1, <1>2, <1>3 DEF ClientTypes, QMove, Kept

(* One query changes. *)
LEMMA QueryFact ==
  ASSUME ClientTypes, NEW p \in Tracked, NEW c \in CacheType, NEW f \in FetchType,
         cache' = [cache EXCEPT ![p] = c], fetch' = [fetch EXCEPT ![p] = f]
  PROVE  /\ ClientTypes' /\ cache'[p] = c /\ fetch'[p] = f
         /\ \A q \in Tracked : q # p => QMove(q)
  BY DEF ClientTypes, QMove, Kept

LEMMA QueryMoves ==
  ASSUME Types, [DashNext]_vars
  PROVE  ClientTypes' /\ \A q \in Tracked : QMove(q)
<1> DEFINE Goal == ClientTypes' /\ \A q \in Tracked : QMove(q)
<1>0. ClientTypes /\ DbTypes /\ ViewTypes
  BY DEF Types
<1>1. CASE UNCHANGED client
  BY <1>0, <1>1 DEF ClientTypes, QMove, Kept, client
<1>2. ASSUME NEW p \in Visited, Go(p)  PROVE Goal
  <2>1. user \in Users
    BY <1>0, <1>2 DEF Go, ViewTypes
  <2> QED  BY <1>0, <1>2, <2>1, MountFact DEF Go
<1>3. ASSUME NEW u \in Users, SignIn(u)  PROVE Goal
  BY <1>0, <1>3, MountFact DEF SignIn
<1>4. CASE Focus
  <2>1. user \in Users
    BY <1>0, <1>4, LoginFact DEF Focus, Observed, ViewTypes
  <2> QED  BY <1>0, <1>4, <2>1, MountFact DEF Focus
<1>5. ASSUME NEW u \in Users \cup {Nobody}, Reload(u)  PROVE Goal
  <2>1. \A q \in Tracked : fetch'[q] \in Asking
    <3>1. u = Nobody => On(page') = {}
      BY <1>5, LoginFact DEF Reload
    <3>2. \A q \in Tracked : fetch'[q] = IF q \in On(page') THEN Asked(u) ELSE Idle
      BY <1>5 DEF Reload
    <3> QED  BY <3>1, <3>2 DEF Asking
  <2>2. /\ cache' = [q \in Tracked |-> NoData] /\ fetch' = [q \in Tracked |-> fetch'[q]]
    BY <1>5 DEF Reload
  <2>3. NoData \in CacheType
    BY DEF NoData, CacheType
  <2> QED  BY <2>1, <2>2, <2>3, AskingFact DEF ClientTypes, QMove, Dropped
<1>6. ASSUME NEW p \in Tracked, Serve(p)  PROVE Goal
  <2> DEFINE f == [of |-> fetch[p].of, read |-> Rows(db, p, fetch[p].of)]
  <2>1. InFlight(p) /\ fetch[p].read = -1 /\ cache' = cache /\ db' = db
    BY <1>6 DEF Serve
  <2>2. fetch[p].of \in Users /\ fetch[p] = [of |-> fetch[p].of, read |-> fetch[p].read]
    BY <1>0, <2>1, ClientFact
  <2>3. Rows(db, p, fetch[p].of) \in Nat
    BY <1>0, <2>2, RowsFact DEF DbTypes
  <2>4. f \in FetchType /\ fetch' = [fetch EXCEPT ![p] = f]
    <3>1. [fetch[p] EXCEPT !.read = Rows(db, p, fetch[p].of)] = f
      BY <2>2
    <3> QED  BY <1>6, <2>2, <2>3, <3>1 DEF Serve, FetchType
  <2>5. cache' = [cache EXCEPT ![p] = cache[p]] /\ cache[p] \in CacheType
    BY <1>0, <2>1 DEF ClientTypes
  <2>6. /\ ClientTypes' /\ fetch'[p] = f
        /\ \A q \in Tracked : q # p => QMove(q)
    <3> HIDE DEF f
    <3> QED  BY <1>0, <2>4, <2>5, QueryFact
  <2>7. QMove(p)
    BY <2>1, <2>6 DEF QMove, Served
  <2> QED  BY <2>6, <2>7
<1>7. ASSUME NEW p \in Tracked, Load(p)  PROVE Goal
  <2> DEFINE c == [of |-> fetch[p].of, version |-> fetch[p].read,
                   stale |-> FALSE, invalid |-> FALSE]
  <2>1. /\ InFlight(p) /\ fetch[p].read # -1 /\ db' = db
        /\ cache' = [cache EXCEPT ![p] = c] /\ fetch' = [fetch EXCEPT ![p] = Idle]
    BY <1>7 DEF Load
  <2>2. c \in CacheType /\ Idle \in FetchType
    BY <1>0, <2>1, ClientFact DEF CacheType, FetchType
  <2>3. ClientTypes' /\ cache'[p] = c /\ fetch'[p] = Idle /\ \A q \in Tracked : q # p => QMove(q)
    <3> HIDE DEF c
    <3> QED  BY <1>0, <2>1, <2>2, QueryFact
  <2>4. QMove(p)
    BY <2>1, <2>3 DEF QMove, Loaded
  <2> QED  BY <2>3, <2>4
<1>8. ASSUME NEW p \in Tracked, NEW f \in Asking, fetch' = [fetch EXCEPT ![p] = f], cache' = cache
      PROVE  Goal
  <2>1. f \in FetchType
    BY AskingFact
  <2> QED  BY <1>0, <1>8, <2>1 DEF ClientTypes, QMove, Kept
<1>9. ASSUME NEW p \in Tracked, FetchFails(p)  PROVE Goal
  <2>1. p \in Observed => user \in Users
    BY <1>0, LoginFact DEF Observed, ViewTypes
  <2>2. \E f \in Asking : fetch' = [fetch EXCEPT ![p] = f]
    BY <1>9, <2>1 DEF FetchFails, Asking
  <2>3. cache' = cache
    BY <1>9 DEF FetchFails
  <2> QED  BY <1>8, <2>2, <2>3
<1>10. CASE Interval
  <2>1. Balance \in Tracked /\ user \in Users
    BY <1>0, <1>10, LoginFact DEF Interval, Observed, On, ViewTypes
  <2>2. Asked(user) \in Asking
    BY <2>1 DEF Asking
  <2> QED  BY <1>8, <1>10, <2>1, <2>2 DEF Interval
<1>11. ASSUME NEW p \in Tracked, Age(p)  PROVE Goal
  <2> DEFINE c == [cache[p] EXCEPT !.stale = TRUE]
  <2>1. /\ c \in CacheType /\ c.of = cache[p].of /\ c.version = cache[p].version
        /\ c.invalid = cache[p].invalid
    BY <1>0, ClientFact DEF CacheType
  <2>2. cache' = [cache EXCEPT ![p] = c] /\ fetch' = fetch
    BY <1>11 DEF Age
  <2> HIDE DEF c
  <2> QED  BY <1>0, <2>1, <2>2 DEF ClientTypes, QMove, Kept
<1>12. ASSUME NEW p \in Tracked, Collect(p)  PROVE Goal
  <2>1. /\ cache' = [cache EXCEPT ![p] = NoData] /\ fetch' = fetch /\ fetch[p] = Idle
    BY <1>12 DEF Collect, InFlight
  <2>2. NoData \in CacheType /\ Idle \in Asking
    BY DEF NoData, CacheType, Asking
  <2> QED  BY <1>0, <2>1, <2>2 DEF ClientTypes, QMove, Kept, Dropped
<1>13. ASSUME NEW i \in DOMAIN sends, Succeed(i)  PROVE Goal
  <2> DEFINE Q == Matching(sends[i].kind)
             flagged(q) == [cache[q] EXCEPT !.invalid = q \in Q \/ @]
  <2>1. /\ cache' = [q \in Tracked |-> flagged(q)]
        /\ fetch' = [q \in Tracked |-> IF q \in (Q \cap Observed) \ Outrun(Q)
                                       THEN Asked(user) ELSE fetch[q]]
    BY <1>13 DEF Succeed, Invalidate
  <2>2. \A q \in Tracked : /\ flagged(q) \in CacheType
                           /\ flagged(q).of = cache[q].of /\ flagged(q).version = cache[q].version
                           /\ cache[q].invalid => flagged(q).invalid
    BY <1>0, ClientFact DEF CacheType
  <2>3. Observed # {} => Asked(user) \in Asking
    BY <1>0, LoginFact DEF Observed, ViewTypes, Asking
  <2>4. \A q \in Tracked : fetch'[q] \in {fetch[q]} \cup Asking
    BY <2>1, <2>3
  <2>5. fetch' \in [Tracked -> FetchType]
    <3>1. \A q \in Tracked : fetch'[q] \in FetchType
      BY <1>0, <2>4, AskingFact, ClientFact
    <3> QED  BY <2>1, <3>1
  <2> HIDE DEF flagged
  <2>6. cache' \in [Tracked -> CacheType] /\ \A q \in Tracked : cache'[q] = flagged(q)
    BY <2>1, <2>2
  <2> QED  BY <2>2, <2>4, <2>5, <2>6 DEF ClientTypes, QMove, Kept
<1>14. PageStep => \/ UNCHANGED client
                   \/ \E p \in Visited : Go(p)
                   \/ \E u \in Users : SignIn(u)
                   \/ \E u \in Users \cup {Nobody} : Reload(u)
  BY DEF PageStep, SignOut
<1>15. WriteStep => UNCHANGED client \/ \E i \in DOMAIN sends : Succeed(i)
  BY DEF WriteStep, Submit, Draw, Cancel, DismissSecret, Commit, Refuse, Fail
<1>16. (\E u \in Users, t \in Topics : OtherChange(u, t)) \/ UNCHANGED vars => UNCHANGED client
  BY DEF OtherChange, vars
<1> QED  BY <1>1, <1>2, <1>3, <1>4, <1>5, <1>6, <1>7, <1>9, <1>10, <1>11, <1>12, <1>13, <1>14,
            <1>15, <1>16 DEF DashNext, QueryStep
-----------------------------------------------------------------------------
(* The writes: what a step may do to them and to the page's state.         *)

Same(i) == /\ sends'[i].kind = sends[i].kind /\ sends'[i].of = sends[i].of
           /\ sends'[i].form = sends[i].form /\ sends'[i].press = sends[i].press
Steady  == /\ SendTypes' /\ Len(sends') = Len(sends) /\ DOMAIN sends' = DOMAIN sends
           /\ \A i \in DOMAIN sends : Same(i)
Only(i) == Steady /\ \A j \in DOMAIN sends : j # i => sends'[j] = sends[j]
Page    == <<draft, undrawn, shown, page>>

Still == /\ sends' = sends
         /\ draft' \in {draft, 0} /\ undrawn' \in {undrawn, 0} /\ shown' \in {shown, 0}
         /\ page' = page \/ page = "login"
Parting(old, new) == IF old \in {"waiting", "left"} THEN new \in {"left", "gone"}
                                                    ELSE new = old
(* The page is left, or loaded anew: its sends go on without it, or end.   *)
Parted == /\ Steady /\ draft' = 0 /\ undrawn' = 0 /\ shown' = 0
          /\ \A i \in DOMAIN sends :
               /\ sends'[i].server = sends[i].server /\ sends'[i].at = sends[i].at
               /\ sends'[i].outrun = sends[i].outrun
               /\ sends'[i].next = sends[i].next /\ sends'[i].told = sends[i].told
               /\ Parting(sends[i].client, sends'[i].client)
Added(k) ==
  LET i == Len(sends) + 1 IN
  /\ SendTypes' /\ Len(sends') = i
  /\ DOMAIN sends' = DOMAIN sends \cup {i} /\ i \notin DOMAIN sends
  /\ \A j \in DOMAIN sends : sends'[j] = sends[j]
  /\ sends'[i].kind = k /\ sends'[i].server = "sent" /\ sends'[i].client = "waiting"
  /\ sends'[i].next = 0 /\ sends'[i].told = "no"
  /\ sends'[i].at = [q \in Tracked |-> 0]
  /\ sends'[i].form = IF ~HasForm(k) THEN 0 ELSE IF draft = 0 THEN i ELSE draft
  /\ sends'[i].press = IF PressedAgain(k) THEN undrawn ELSE i
  /\ draft' = IF HasForm(k) THEN sends'[i].form ELSE draft
  /\ undrawn' = IF HasForm(k) THEN sends'[i].press ELSE undrawn
  /\ page = Writes[k].page /\ Enabled(k)
  /\ UNCHANGED <<page, shown>>
(* A commit also ends the secrets it replaces. *)
Committed(i) ==
  /\ Steady /\ sends[i].server = "sent" /\ sends'[i].server = "committed"
  /\ \A j \in DOMAIN sends :
       /\ sends'[j].client = sends[j].client /\ sends'[j].told = sends[j].told
       /\ sends'[j].outrun = sends[j].outrun
       /\ sends'[j].next = sends[j].next
            \/ (j # i /\ sends'[j].next = i /\ SetsSecret(sends[i].kind))
       /\ j # i => sends'[j].server = sends[j].server /\ sends'[j].at = sends[j].at
  /\ \A q \in Tracked : sends'[i].at[q] \in {0, Rows(db', q, sends[i].of)}
  /\ UNCHANGED Page
Refused(i) ==
  /\ Only(i) /\ sends[i].server = "sent" /\ sends'[i].server = "refused"
  /\ sends'[i].client = sends[i].client /\ sends'[i].outrun = sends[i].outrun
  /\ sends'[i].next = sends[i].next /\ sends'[i].told = sends[i].told
  /\ sends'[i].at = sends[i].at
  /\ UNCHANGED Page
Shows(i) == sends[i].client = "waiting" /\ SetsSecret(sends[i].kind)
Late(i)  == sends[i].next # 0 /\ sends[sends[i].next].told # "no"
Succeeded(i) ==
  /\ Only(i) /\ sends[i].client \in {"waiting", "left"} /\ sends'[i].client = "succeeded"
  /\ sends[i].server = "committed" /\ sends'[i].server = "committed"
  /\ sends'[i].at = sends[i].at /\ sends'[i].next = sends[i].next
  /\ sends'[i].told = (IF ~Shows(i) THEN "no" ELSE IF Late(i) THEN "late" ELSE "yes")
  /\ sends'[i].outrun = Outrun(Matching(sends[i].kind))
  /\ Invalidate(Matching(sends[i].kind))
  /\ draft' = (IF sends[i].client = "waiting" /\ HasForm(sends[i].kind) THEN 0 ELSE draft)
  /\ shown' = (IF Shows(i) THEN i ELSE shown)
  /\ UNCHANGED <<page, undrawn>>
Failed(i) ==
  /\ Only(i) /\ sends[i].client \in {"waiting", "left"} /\ sends'[i].client = "failed"
  /\ sends'[i].server = sends[i].server /\ sends'[i].at = sends[i].at
  /\ sends'[i].next = sends[i].next /\ sends'[i].told = sends[i].told
  /\ sends'[i].outrun = sends[i].outrun
  /\ UNCHANGED Page

LEMMA OnlyFact ==
  ASSUME SendTypes, NEW i \in DOMAIN sends, NEW r \in Send, sends' = [sends EXCEPT ![i] = r],
         r.kind = sends[i].kind, r.of = sends[i].of, r.form = sends[i].form,
         r.press = sends[i].press
  PROVE  Only(i) /\ sends'[i] = r
  BY OneFact DEF Only, Steady, Same

(* Every write may change, none is added. *)
LEMMA EachFact ==
  ASSUME SendTypes, NEW f \in [DOMAIN sends -> Send], sends' = f,
         \A i \in DOMAIN sends :
           /\ f[i].kind = sends[i].kind /\ f[i].of = sends[i].of
           /\ f[i].form = sends[i].form /\ f[i].press = sends[i].press
  PROVE  Steady
<1>1. SendTypes' /\ Len(sends') = Len(sends) /\ DOMAIN sends' = DOMAIN sends
  BY AllFact
<1>2. ASSUME NEW i \in DOMAIN sends  PROVE Same(i)
  BY Zenon DEF Same
<1> QED  BY <1>1, <1>2, Zenon DEF Steady

LEMMA PartedFact ==
  ASSUME SendTypes, NEW c \in [DOMAIN sends -> Sides],
         \A i \in DOMAIN sends : Parting(sends[i].client, c[i]),
         sends' = [i \in DOMAIN sends |-> [sends[i] EXCEPT !.client = c[i]]],
         draft' = 0, undrawn' = 0, shown' = 0
  PROVE  Parted
<1> DEFINE n(i) == [sends[i] EXCEPT !.client = c[i]]
           f == [i \in DOMAIN sends |-> n(i)]
<1>1. \A i \in DOMAIN sends :
        /\ n(i) \in Send
        /\ n(i).kind = sends[i].kind /\ n(i).of = sends[i].of /\ n(i).form = sends[i].form
        /\ n(i).press = sends[i].press
        /\ n(i).server = sends[i].server /\ n(i).at = sends[i].at
        /\ n(i).next = sends[i].next /\ n(i).told = sends[i].told
        /\ n(i).outrun = sends[i].outrun /\ n(i).client = c[i]
  BY SendFact DEF Send
<1> HIDE DEF n
<1>2. f \in [DOMAIN sends -> Send] /\ sends' = f /\ \A i \in DOMAIN sends : f[i] = n(i)
  BY <1>1 DEF n
<1> HIDE DEF f
<1>3. Steady
  BY <1>1, <1>2, EachFact
<1>4. \A i \in DOMAIN sends : sends'[i] = n(i)
  BY <1>2
<1>5. \A i \in DOMAIN sends :
        /\ sends'[i].server = sends[i].server /\ sends'[i].at = sends[i].at
        /\ sends'[i].next = sends[i].next /\ sends'[i].told = sends[i].told
        /\ sends'[i].outrun = sends[i].outrun /\ Parting(sends[i].client, sends'[i].client)
  BY <1>1, <1>4
<1> QED  BY <1>3, <1>5 DEF Parted

SendMove ==
  \/ Still \/ Parted
  \/ \E k \in Kinds : Added(k)
  \/ \E i \in DOMAIN sends : Committed(i) \/ Refused(i) \/ Succeeded(i) \/ Failed(i)

LEMMA SendMoves ==
  ASSUME Types, [DashNext]_vars
  PROVE  SendMove
<1>0. SendTypes /\ DbTypes /\ DbTypes'
  BY DbStep DEF Types, DbGrows
<1>1. ASSUME UNCHANGED <<sends, draft, undrawn, shown, page>>  PROVE Still
  BY <1>1 DEF Still
<1>2. ASSUME Unmount  PROVE Parted
  <2> DEFINE c == [i \in DOMAIN sends |->
                     IF sends[i].client = "waiting" THEN "left" ELSE sends[i].client]
  <2>1. c \in [DOMAIN sends -> Sides]
    BY <1>0, SendFact DEF Send, Sides
  <2>2. sends' = [i \in DOMAIN sends |-> [sends[i] EXCEPT !.client = c[i]]]
    BY <1>2 DEF Unmount
  <2>3. \A i \in DOMAIN sends : Parting(sends[i].client, c[i])
    BY DEF Parting
  <2>4. draft' = 0 /\ undrawn' = 0 /\ shown' = 0
    BY <1>2 DEF Unmount
  <2> HIDE DEF c
  <2> QED  BY <1>0, <2>1, <2>2, <2>3, <2>4, PartedFact
<1>3. ASSUME NEW u \in Users \cup {Nobody}, Reload(u)  PROVE Parted
  <2> DEFINE c == [i \in DOMAIN sends |->
                     IF sends[i].client \in {"waiting", "left"} THEN "gone" ELSE sends[i].client]
  <2>1. c \in [DOMAIN sends -> Sides]
    BY <1>0, SendFact DEF Send, Sides
  <2>2. sends' = [i \in DOMAIN sends |-> [sends[i] EXCEPT !.client = c[i]]]
    BY <1>3 DEF Reload
  <2>3. \A i \in DOMAIN sends : Parting(sends[i].client, c[i])
    BY DEF Parting
  <2>4. draft' = 0 /\ undrawn' = 0 /\ shown' = 0
    BY <1>3 DEF Reload
  <2> HIDE DEF c
  <2> QED  BY <1>0, <2>1, <2>2, <2>3, <2>4, PartedFact
<1>4. PageStep => Still \/ Parted
  <2>1. ASSUME NEW p \in Visited, Go(p)  PROVE Parted
    BY <1>2, <2>1 DEF Go
  <2>2. SignOut => Parted
    BY <1>2 DEF SignOut
  <2>3. ASSUME NEW u \in Users, SignIn(u)  PROVE Still
    BY <2>3 DEF SignIn, Still
  <2> QED  BY <1>3, <2>1, <2>2, <2>3 DEF PageStep
<1>5. QueryStep \/ UNCHANGED vars => Still
  BY <1>1 DEF QueryStep, Serve, Load, FetchFails, Age, Collect, Interval, Focus, view, vars
<1>6. (\E u \in Users, t \in Topics : OtherChange(u, t)) => Still
  BY <1>1 DEF OtherChange, view
<1>7. Draw \/ Cancel \/ DismissSecret => Still
  BY DEF Draw, Cancel, DismissSecret, Still, view
<1>8. ASSUME NEW k \in Kinds, Submit(k)  PROVE Added(k)
  <2> DEFINE i == Len(sends) + 1
             form == IF ~HasForm(k) THEN 0 ELSE IF draft = 0 THEN i ELSE draft
             press == IF PressedAgain(k) THEN undrawn ELSE i
             r(t) == [kind |-> k, of |-> user, target |-> t, form |-> form, press |-> press,
                      server |-> "sent", next |-> 0, client |-> "waiting", told |-> "no",
                      at |-> [q \in Tracked |-> 0], outrun |-> {}]
  <2>1. PICK t \in Targets(k) : sends' = Append(sends, r(t))
    BY <1>8 DEF Submit
  <2>2. /\ Len(sends) \in Nat /\ DOMAIN sends = 1..Len(sends)
        /\ user \in Users /\ draft \in Nat /\ undrawn \in Nat
    BY <1>0, <1>8, LenProperties DEF SendTypes, Submit, Types, ViewTypes
  <2>3. t \in Endpoints \cup Nat /\ form \in Nat /\ press \in Nat
    BY <2>2 DEF Targets, Registered
  <2>4. /\ r(t) \in Send /\ r(t).kind = k /\ r(t).server = "sent" /\ r(t).client = "waiting"
        /\ r(t).next = 0 /\ r(t).told = "no" /\ r(t).at = [q \in Tracked |-> 0]
        /\ r(t).form = form /\ r(t).press = press
    <3> HIDE DEF form, press
    <3> QED  BY <2>2, <2>3 DEF Send, Flow, Sides
  <2>5. /\ SendTypes' /\ Len(sends') = i
        /\ DOMAIN sends' = DOMAIN sends \cup {i} /\ i \notin DOMAIN sends
        /\ \A j \in DOMAIN sends : sends'[j] = sends[j]
        /\ sends'[i] = r(t)
    <3> HIDE DEF r
    <3> QED  BY <1>0, <2>1, <2>4, AppendFact
  <2>6. /\ draft' = (IF HasForm(k) THEN form ELSE draft)
        /\ undrawn' = (IF HasForm(k) THEN press ELSE undrawn)
        /\ page = Writes[k].page /\ Enabled(k) /\ page' = page /\ shown' = shown
    BY <1>8 DEF Submit, view
  <2> HIDE DEF r
  <2> QED  BY <2>4, <2>5, <2>6 DEF Added
<1>9. ASSUME NEW i \in DOMAIN sends  PROVE sends[i] \in Send /\ i \in Nat
  BY <1>0, SendFact
<1>10. ASSUME NEW i \in DOMAIN sends, Commit(i)  PROVE Committed(i)
  <2> DEFINE s == sends[i]
             a == [q \in Tracked |-> IF q \in Matching(s.kind) THEN Rows(db', q, s.of) ELSE 0]
             r == [s EXCEPT !.server = "committed", !.at = a]
             x(j) == IF Replaces(i, j) THEN i ELSE sends[j].next
             n(j) == IF j = i THEN r ELSE [sends[j] EXCEPT !.next = x(j)]
             f == [j \in DOMAIN sends |-> n(j)]
  <2>1. s \in Send /\ s.of \in Users
    BY <1>9 DEF Send
  <2>2. a \in [Tracked -> Nat]
    BY <1>0, <2>1, RowsFact DEF DbTypes
  <2>3. sends' = f
    BY <1>10 DEF Commit
  <2>4. \A q \in Tracked : a[q] \in {0, Rows(db', q, s.of)}
    OBVIOUS
  <2> HIDE DEF a
  <2>5. /\ r \in Send /\ r.kind = s.kind /\ r.of = s.of /\ r.form = s.form
        /\ r.press = s.press /\ r.server = "committed" /\ r.client = s.client
        /\ r.next = s.next /\ r.told = s.told /\ r.at = a /\ r.outrun = s.outrun
    BY <2>1, <2>2 DEF Send, Flow
  <2>6. ASSUME NEW j \in DOMAIN sends
        PROVE  /\ x(j) \in Nat
               /\ x(j) = sends[j].next \/ (x(j) = i /\ SetsSecret(s.kind))
    BY <1>9 DEF Replaces, Send
  <2> HIDE DEF r, x
  <2>7. ASSUME NEW j \in DOMAIN sends
        PROVE  /\ n(j) \in Send /\ n(j).kind = sends[j].kind /\ n(j).of = sends[j].of
               /\ n(j).form = sends[j].form /\ n(j).press = sends[j].press
               /\ n(j).client = sends[j].client /\ n(j).told = sends[j].told
               /\ n(j).outrun = sends[j].outrun
               /\ n(j).next = sends[j].next \/ (j # i /\ n(j).next = i /\ SetsSecret(s.kind))
               /\ j # i => n(j).server = sends[j].server /\ n(j).at = sends[j].at
    <3>1. CASE j = i
      BY <2>5, <3>1
    <3>2. CASE j # i
      BY <1>9, <2>6, <3>2 DEF Send
    <3> QED  BY <3>1, <3>2
  <2>8. n(i) = r
    OBVIOUS
  <2> HIDE DEF n
  <2>9. f \in [DOMAIN sends -> Send] /\ \A j \in DOMAIN sends : f[j] = n(j)
    BY <2>7
  <2> HIDE DEF f
  <2>10. Steady /\ \A j \in DOMAIN sends : sends'[j] = n(j)
    BY <1>0, <2>3, <2>7, <2>9, EachFact
  <2>11. s.server = "sent" /\ UNCHANGED Page
    BY <1>10 DEF Commit, Page, view
  <2> QED  BY <2>4, <2>5, <2>7, <2>8, <2>10, <2>11 DEF Committed
<1>11. ASSUME NEW i \in DOMAIN sends, Refuse(i)  PROVE Refused(i)
  <2> DEFINE s == sends[i]
             r == [s EXCEPT !.server = "refused"]
  <2>1. /\ r \in Send /\ r.kind = s.kind /\ r.of = s.of /\ r.form = s.form
        /\ r.press = s.press /\ r.server = "refused" /\ r.client = s.client
        /\ r.next = s.next /\ r.told = s.told /\ r.at = s.at /\ r.outrun = s.outrun
    BY <1>9 DEF Send, Flow
  <2>2. sends' = [sends EXCEPT ![i] = r]
    BY <1>11 DEF Refuse
  <2> HIDE DEF r
  <2>3. Only(i) /\ sends'[i] = r
    BY <1>0, <2>1, <2>2, OnlyFact
  <2> QED  BY <1>11, <2>1, <2>3 DEF Refuse, Refused, Page, view
<1>12. ASSUME NEW i \in DOMAIN sends, Succeed(i)  PROVE Succeeded(i)
  <2> DEFINE s == sends[i]
             o == Outrun(Matching(s.kind))
             d == IF ~Shows(i) THEN "no" ELSE IF Late(i) THEN "late" ELSE "yes"
             r == [s EXCEPT !.client = "succeeded", !.told = d, !.outrun = o]
  <2>1. o \in SUBSET Tracked /\ d \in {"no", "yes", "late"}
    BY DEF Outrun, Matching
  <2>2. sends' = [sends EXCEPT ![i] = r]
    BY <1>12 DEF Succeed, Shows, Late
  <2>3. /\ draft' = (IF s.client = "waiting" /\ HasForm(s.kind) THEN 0 ELSE draft)
        /\ shown' = (IF Shows(i) THEN i ELSE shown)
        /\ s.server = "committed" /\ s.client \in {"waiting", "left"}
        /\ Invalidate(Matching(s.kind)) /\ page' = page /\ undrawn' = undrawn
    BY <1>12 DEF Succeed, Shows, view
  <2> HIDE DEF o, d
  <2>4. /\ r \in Send /\ r.kind = s.kind /\ r.of = s.of /\ r.form = s.form
        /\ r.press = s.press /\ r.server = s.server /\ r.client = "succeeded"
        /\ r.next = s.next /\ r.told = d /\ r.at = s.at /\ r.outrun = o
    BY <1>9, <2>1 DEF Send, Sides
  <2> HIDE DEF r
  <2>5. Only(i) /\ sends'[i] = r
    BY <1>0, <2>2, <2>4, OnlyFact
  <2> QED  BY <2>3, <2>4, <2>5 DEF Succeeded, o, d
<1>13. ASSUME NEW i \in DOMAIN sends, Fail(i)  PROVE Failed(i)
  <2> DEFINE s == sends[i]
             r == [s EXCEPT !.client = "failed"]
  <2>1. /\ r \in Send /\ r.kind = s.kind /\ r.of = s.of /\ r.form = s.form
        /\ r.press = s.press /\ r.server = s.server /\ r.client = "failed"
        /\ r.next = s.next /\ r.told = s.told /\ r.at = s.at /\ r.outrun = s.outrun
    BY <1>9 DEF Send, Sides
  <2>2. sends' = [sends EXCEPT ![i] = r]
    BY <1>13 DEF Fail
  <2> HIDE DEF r
  <2>3. Only(i) /\ sends'[i] = r
    BY <1>0, <2>1, <2>2, OnlyFact
  <2> QED  BY <1>13, <2>1, <2>3 DEF Fail, Failed, Page, view
<1> QED  BY <1>4, <1>5, <1>6, <1>7, <1>8, <1>10, <1>11, <1>12, <1>13
         DEF DashNext, WriteStep, SendMove

-----------------------------------------------------------------------------
(* The invariant, part by part. *)

LEMMA ViewStep ==
  ASSUME ViewTypes, [DashNext]_vars
  PROVE  ViewTypes'
<1>1. CASE UNCHANGED view
  BY <1>1 DEF ViewTypes, view
<1>2. CASE PageStep
  BY <1>2, DashAssumption DEF ViewTypes, PageStep, Go, SignIn, SignOut, Reload
<1>3. QueryStep => UNCHANGED view
  BY DEF QueryStep, Serve, Load, FetchFails, Age, Collect, Interval, Focus
<1>4. WriteStep => UNCHANGED view
  BY DEF WriteStep, Submit, Draw, Cancel, DismissSecret, Commit, Refuse, Succeed, Fail
<1>5. (\E u \in Users, t \in Topics : OtherChange(u, t)) \/ UNCHANGED vars => UNCHANGED view
  BY DEF OtherChange, vars
<1> QED  BY <1>1, <1>2, <1>3, <1>4, <1>5 DEF DashNext

LEMMA TypesStep ==
  ASSUME Types, [DashNext]_vars
  PROVE  Types'
<1>1. SendTypes /\ Len(sends) \in Nat /\ DOMAIN sends = 1..Len(sends)
  BY LenProperties DEF Types, SendTypes
<1>2. draft \in 0..Len(sends) /\ shown \in 0..Len(sends) /\ undrawn \in 0..Len(sends)
  BY DEF Types
<1>3. SendTypes' /\ draft' \in 0..Len(sends') /\ shown' \in 0..Len(sends')
      /\ undrawn' \in 0..Len(sends')
  <2>1. CASE Still
    BY <1>1, <1>2, <2>1 DEF Still, SendTypes
  <2>2. CASE Parted
    BY <1>1, <1>2, <2>2 DEF Parted, Steady
  <2>3. ASSUME NEW k \in Kinds, Added(k)
        PROVE  SendTypes' /\ draft' \in 0..Len(sends') /\ shown' \in 0..Len(sends')
               /\ undrawn' \in 0..Len(sends')
    BY <1>1, <1>2, <2>3 DEF Added
  <2>4. ASSUME NEW i \in DOMAIN sends, Committed(i) \/ Refused(i) \/ Succeeded(i) \/ Failed(i)
        PROVE  SendTypes' /\ draft' \in 0..Len(sends') /\ shown' \in 0..Len(sends')
               /\ undrawn' \in 0..Len(sends')
    <3>1. SendTypes' /\ Len(sends') = Len(sends)
      BY <2>4 DEF Committed, Refused, Succeeded, Failed, Only, Steady
    <3>2. draft' \in {draft, 0} /\ shown' \in {shown, i} /\ undrawn' = undrawn
      BY <2>4 DEF Committed, Refused, Succeeded, Failed, Page
    <3> QED  BY <1>1, <1>2, <3>1, <3>2
  <2> QED  BY <2>1, <2>2, <2>3, <2>4, SendMoves DEF SendMove
<1>4. ViewTypes' /\ ClientTypes' /\ DbTypes'
  BY ViewStep, QueryMoves, DbStep DEF Types, DbGrows
<1> QED  BY <1>3, <1>4 DEF Types

LEMMA AskedFact == \A f \in Asking : f.read = -1 /\ (f # Idle => f.of \in Users)
  BY DEF Asking, Asked, Idle

LEMMA FreshStep ==
  ASSUME Types, [DashNext]_vars, NEW q \in Tracked, Fresh(q)
  PROVE  Fresh(q)'
<1>0. QMove(q) /\ ClientTypes /\ DbTypes /\ DbGrows
  BY QueryMoves, DbStep DEF Types
<1>1. \A u \in Users : /\ Rows(db, q, u) \in Nat /\ Rows(db', q, u) \in Nat
                       /\ Rows(db, q, u) <= Rows(db', q, u)
  BY <1>0, GrowFact
<1>2. /\ cache[q].of \in Users \cup {Nobody} /\ cache[q].version \in Nat
      /\ fetch[q].read \in Nat \cup {-1}
      /\ InFlight(q) => fetch[q].of \in Users
      /\ fetch[q].of \in Users => InFlight(q)
  BY <1>0, ClientFact
<1>3. Nobody \notin Users
  BY DashAssumption
<1>4. HasData(q) => cache[q].version <= Rows(db, q, cache[q].of)
  BY DEF Fresh
<1>5. InFlight(q) => fetch[q].read <= Rows(db, q, fetch[q].of)
  BY DEF Fresh
<1>6. InFlight(q) /\ fetch[q].of = cache[q].of /\ fetch[q].read # -1
        => fetch[q].read >= cache[q].version
  BY DEF Fresh
<1>7. SUFFICES
        /\ cache'[q].of # Nobody => cache'[q].version <= Rows(db', q, cache'[q].of)
        /\ fetch'[q] # Idle => fetch'[q].read <= Rows(db', q, fetch'[q].of)
        /\ fetch'[q] # Idle /\ fetch'[q].of = cache'[q].of /\ fetch'[q].read # -1
             => fetch'[q].read >= cache'[q].version
  BY DEF Fresh, HasData, InFlight
<1>8. CASE Kept(q)
  <2>1. cache'[q].of # Nobody => cache'[q].version <= Rows(db', q, cache'[q].of)
    BY <1>1, <1>2, <1>4, <1>8 DEF Kept, HasData
  <2>2. CASE fetch'[q] = fetch[q]
    BY <1>1, <1>2, <1>5, <1>6, <1>8, <2>1, <2>2 DEF Kept, InFlight
  <2>3. CASE fetch'[q] \in Asking
    BY <1>1, <2>1, <2>3, AskedFact
  <2> QED  BY <1>8, <2>2, <2>3 DEF Kept
<1>9. CASE Dropped(q)
  BY <1>1, <1>9, AskedFact DEF Dropped, NoData
<1>10. CASE Served(q)
  BY <1>1, <1>2, <1>3, <1>4, <1>10 DEF Served, HasData
<1>11. CASE Loaded(q)
  BY <1>1, <1>2, <1>5, <1>11 DEF Loaded
<1> QED  BY <1>0, <1>8, <1>9, <1>10, <1>11 DEF QMove

LEMMA SentStep ==
  ASSUME Types, \A i \in DOMAIN sends : Sent(i), [DashNext]_vars, NEW i \in DOMAIN sends'
  PROVE  Sent(i)'
<1>0. Types' /\ DbGrows /\ SendTypes /\ SendTypes' /\ DbTypes
  BY TypesStep, DbStep DEF Types
<1>1. /\ sends'[i] \in Send /\ Len(sends') \in Nat
      /\ Len(sends) \in Nat /\ DOMAIN sends = 1..Len(sends)
  <2>1. DOMAIN sends' = 1..Len(sends') /\ Len(sends') \in Nat
    BY <1>0, LenProperties DEF SendTypes
  <2>2. sends'[i] \in Send
    BY <1>0, <2>1, ElementOfSeq DEF SendTypes
  <2> QED  BY <1>0, <2>1, <2>2, LenProperties DEF SendTypes
<1>2. \A u \in Users, q \in Tracked : /\ Rows(db, q, u) \in Nat /\ Rows(db', q, u) \in Nat
                                      /\ Rows(db, q, u) <= Rows(db', q, u)
  BY <1>0, GrowFact
<1>3. ASSUME sends'[i].form <= i,
             HasForm(sends'[i].kind) <=> sends'[i].form # 0,
             sends'[i].client = "succeeded" => sends'[i].server = "committed",
             \A q \in Tracked : sends'[i].at[q] <= Rows(db', q, sends'[i].of)
      PROVE  Sent(i)'
  BY <1>3 DEF Sent, HasForm
<1>4. ASSUME i \in DOMAIN sends, Same(i),
             sends'[i].client = "succeeded" => sends'[i].server = "committed",
             \A q \in Tracked :
               sends'[i].at[q] \in {0, sends[i].at[q], Rows(db', q, sends[i].of)}
      PROVE  Sent(i)'
  <2>1. sends[i] \in Send /\ Sent(i)
    BY <1>0, <1>4, SendFact
  <2>2. /\ sends[i].form \in Nat /\ sends[i].of \in Users
        /\ \A q \in Tracked : sends[i].at[q] \in Nat
    BY <2>1 DEF Send
  <2>3. \A q \in Tracked : sends[i].at[q] <= Rows(db, q, sends[i].of)
    BY <2>1 DEF Sent
  <2>4. \A q \in Tracked : sends'[i].at[q] <= Rows(db', q, sends'[i].of)
    BY <1>2, <1>4, <2>2, <2>3 DEF Same
  <2>5. sends[i].form <= i /\ (HasForm(sends[i].kind) <=> sends[i].form # 0)
    BY <2>1 DEF Sent
  <2>6. sends'[i].form <= i
    BY <1>4, <2>5 DEF Same
  <2>7. HasForm(sends'[i].kind) <=> sends'[i].form # 0
    BY <1>4, <2>5 DEF Same
  <2> QED  BY <1>4, <2>4, <2>6, <2>7 DEF Sent, HasForm
<1>5. i \in DOMAIN sends => (sends[i].client = "succeeded" => sends[i].server = "committed")
  BY DEF Sent
<1>6. CASE Still
  BY <1>1, <1>4, <1>5, <1>6 DEF Still, Same
<1>7. CASE Parted
  <2>1. i \in DOMAIN sends /\ Same(i)
    BY <1>7 DEF Parted, Steady
  <2>2. sends'[i].server = sends[i].server /\ sends'[i].at = sends[i].at
    BY <1>7, <2>1 DEF Parted
  <2>3. sends'[i].client = "succeeded" => sends[i].client = "succeeded"
    BY <1>7, <2>1 DEF Parted, Parting
  <2> QED  BY <1>1, <1>4, <1>5, <2>1, <2>2, <2>3
<1>8. ASSUME NEW k \in Kinds, Added(k)  PROVE Sent(i)'
  <2>1. CASE i \in DOMAIN sends
    BY <1>1, <1>4, <1>5, <1>8, <2>1 DEF Added, Same
  <2>2. CASE i = Len(sends) + 1
    <3>1. /\ Len(sends') = i /\ sends'[i].kind = k /\ sends'[i].client = "waiting"
          /\ sends'[i].at = [q \in Tracked |-> 0]
          /\ sends'[i].form = IF ~HasForm(k) THEN 0 ELSE IF draft = 0 THEN i ELSE draft
      BY <1>8, <2>2 DEF Added
    <3>2. draft \in 0..Len(sends)
      BY DEF Types
    <3>3. sends'[i].of \in Users
      BY <1>1 DEF Send
    <3> QED  BY <1>1, <1>2, <1>3, <2>2, <3>1, <3>2, <3>3
  <2> QED  BY <1>8, <2>1, <2>2 DEF Added
<1>9. ASSUME NEW j \in DOMAIN sends, Refused(j) \/ Succeeded(j) \/ Failed(j)
      PROVE  Sent(i)'
  <2>1. Only(j)
    BY <1>9 DEF Refused, Succeeded, Failed
  <2>2. i \in DOMAIN sends /\ Same(i)
    BY <2>1 DEF Only, Steady
  <2>3. CASE i # j
    BY <1>1, <1>4, <1>5, <2>1, <2>2, <2>3 DEF Only
  <2>4. CASE i = j
    <3>1. sends'[i].client = "succeeded" => sends'[i].server = "committed"
      BY <1>5, <1>9, <2>4 DEF Refused, Succeeded, Failed
    <3>2. sends'[i].at = sends[i].at
      BY <1>9, <2>4 DEF Refused, Succeeded, Failed
    <3> QED  BY <1>4, <2>2, <3>1, <3>2
  <2> QED  BY <2>3, <2>4
<1>10. ASSUME NEW j \in DOMAIN sends, Committed(j)  PROVE Sent(i)'
  <2>1. i \in DOMAIN sends /\ Same(i)
    BY <1>10 DEF Committed, Steady
  <2>2. /\ sends'[i].client = sends[i].client
        /\ sends'[i].server = "committed" \/ sends'[i].server = sends[i].server
    BY <1>10, <2>1 DEF Committed
  <2>3. \A q \in Tracked :
          sends'[i].at[q] \in {0, sends[i].at[q], Rows(db', q, sends[i].of)}
    BY <1>10, <2>1 DEF Committed
  <2> QED  BY <1>4, <1>5, <2>1, <2>2, <2>3
<1> QED  BY <1>6, <1>7, <1>8, <1>9, <1>10, SendMoves DEF SendMove

LEMMA HonouredStep ==
  ASSUME Types, [DashNext]_vars, NEW q \in Tracked, NEW i \in DOMAIN sends, Sent(i), Honoured(i, q)
  PROVE  /\ cache'[q].of = sends[i].of
              => cache'[q].version >= sends[i].at[q] \/ cache'[q].invalid
         /\ fetch'[q].of = sends[i].of /\ fetch'[q].read # -1
              => fetch'[q].read >= sends[i].at[q]
<1> DEFINE u == sends[i].of
           a == sends[i].at[q]
<1>0. QMove(q) /\ ClientTypes /\ DbTypes /\ SendTypes
  BY QueryMoves DEF Types
<1>1. u \in Users /\ a \in Nat /\ a <= Rows(db, q, u)
  BY <1>0, SendFact DEF Send, Sent
<1>2. cache[q].of = u => cache[q].version >= a \/ cache[q].invalid
  BY DEF Honoured
<1>3. fetch[q].of = u /\ fetch[q].read # -1 => fetch[q].read >= a
  BY DEF Honoured
<1>4. u # Nobody
  BY <1>1, DashAssumption
<1> HIDE DEF u, a
<1>5. CASE Kept(q)
  <2>1. cache'[q].of = u => cache'[q].version >= a \/ cache'[q].invalid
    BY <1>2, <1>5 DEF Kept
  <2>2. fetch'[q].of = u /\ fetch'[q].read # -1 => fetch'[q].read >= a
    BY <1>3, <1>5, AskedFact DEF Kept
  <2> QED  BY <2>1, <2>2 DEF u, a
<1>6. CASE Dropped(q)
  <2>1. cache'[q].of # u
    BY <1>4, <1>6 DEF Dropped, NoData
  <2>2. fetch'[q].read = -1
    BY <1>6, AskedFact DEF Dropped
  <2> QED  BY <2>1, <2>2 DEF u, a
<1>7. CASE Served(q)
  <2>1. cache'[q].of = u => cache'[q].version >= a \/ cache'[q].invalid
    BY <1>2, <1>7 DEF Served
  <2>2. fetch'[q].of = u => fetch'[q].read >= a
    <3>1. Rows(db, q, u) \in Nat
      BY <1>0, <1>1, RowsFact DEF DbTypes
    <3> QED  BY <1>1, <1>7, <3>1 DEF Served
  <2> QED  BY <2>1, <2>2 DEF u, a
<1>8. CASE Loaded(q)
  <2>1. cache'[q].of = u => cache'[q].version >= a
    BY <1>3, <1>8 DEF Loaded
  <2>2. fetch'[q].read = -1
    BY <1>8 DEF Loaded, Idle
  <2> QED  BY <2>1, <2>2 DEF u, a
<1> QED  BY <1>0, <1>5, <1>6, <1>7, <1>8 DEF QMove

(* What invalidation does to a query whose running fetch it cannot outrun. *)
LEMMA InvalidateFact ==
  ASSUME ClientTypes, NEW Q \in SUBSET Tracked, Invalidate(Q), NEW q \in Q \ Outrun(Q)
  PROVE  cache'[q].invalid = TRUE /\ fetch'[q].read = -1
<1>1. cache'[q].invalid = TRUE
  <2>1. cache' = [p \in Tracked |-> [cache[p] EXCEPT !.invalid = p \in Q \/ @]]
    BY DEF Invalidate
  <2>2. cache'[q] = [cache[q] EXCEPT !.invalid = q \in Q \/ @]
    BY <2>1
  <2>3. cache[q] \in CacheType
    BY ClientFact
  <2> QED  BY <2>2, <2>3 DEF CacheType
<1>2. CASE q \in Observed
  <2>1. fetch'[q] = Asked(user)
    BY <1>2 DEF Invalidate
  <2> QED  BY <1>1, <2>1 DEF Asked
<1>3. CASE q \notin Observed
  <2>1. fetch'[q] = fetch[q] /\ ~InFlight(q)
    BY <1>3 DEF Invalidate, Outrun
  <2> QED  BY <1>1, <2>1 DEF InFlight, Idle
<1> QED  BY <1>2, <1>3

LEMMA SeesStep ==
  ASSUME Types, \A i \in DOMAIN sends : Sent(i) /\ Sees(i), [DashNext]_vars,
         NEW i \in DOMAIN sends'
  PROVE  Sees(i)'
<1>0. ClientTypes
  BY DEF Types
<1>1. ASSUME i \in DOMAIN sends, sends[i].client = "succeeded", Same(i),
             sends'[i].at = sends[i].at, sends'[i].outrun = sends[i].outrun
      PROVE  Sees(i)'
  <2>1. ASSUME NEW q \in Matching(sends[i].kind) \ sends[i].outrun
        PROVE  Honoured(i, q)'
    <3>1. q \in Tracked /\ Sent(i) /\ Honoured(i, q)
      BY <1>1 DEF Matching, Sees
    <3> QED  BY <1>1, <3>1, HonouredStep DEF Honoured, Same
  <2> QED  BY <1>1, <2>1 DEF Sees, Same, Matching
<1>2. ASSUME i \in DOMAIN sends, Succeeded(i)  PROVE Sees(i)'
  <2> DEFINE Q == Matching(sends[i].kind)
  <2>1. /\ Q \in SUBSET Tracked /\ Invalidate(Q) /\ sends'[i].outrun = Outrun(Q)
        /\ sends'[i].kind = sends[i].kind
    BY <1>2 DEF Succeeded, Only, Steady, Same, Matching
  <2>2. ASSUME NEW q \in Q \ Outrun(Q)  PROVE Honoured(i, q)'
    BY <1>0, <2>1, <2>2, InvalidateFact DEF Honoured
  <2> QED  BY <2>1, <2>2 DEF Sees, Matching
<1>3. ASSUME sends'[i].client # "succeeded"  PROVE Sees(i)'
  BY <1>3 DEF Sees
<1>4. i \in DOMAIN sends => (sends[i].client = "succeeded" => sends[i].server = "committed")
  BY DEF Sent
<1>5. CASE Still
  BY <1>1, <1>3, <1>5 DEF Still, Same
<1>6. CASE Parted
  <2>1. i \in DOMAIN sends /\ Same(i)
    BY <1>6 DEF Parted, Steady
  <2>2. /\ sends'[i].at = sends[i].at /\ sends'[i].outrun = sends[i].outrun
        /\ sends'[i].client = "succeeded" => sends[i].client = "succeeded"
    BY <1>6, <2>1 DEF Parted, Parting
  <2> QED  BY <1>1, <1>3, <2>1, <2>2
<1>7. ASSUME NEW k \in Kinds, Added(k)  PROVE Sees(i)'
  <2>1. CASE i \in DOMAIN sends
    BY <1>1, <1>3, <1>7, <2>1 DEF Added, Same
  <2>2. CASE i = Len(sends) + 1
    BY <1>3, <1>7, <2>2 DEF Added
  <2> QED  BY <1>7, <2>1, <2>2 DEF Added
<1>8. ASSUME NEW j \in DOMAIN sends, Refused(j) \/ Succeeded(j) \/ Failed(j)
      PROVE  Sees(i)'
  <2>1. Only(j)
    BY <1>8 DEF Refused, Succeeded, Failed
  <2>2. i \in DOMAIN sends /\ Same(i)
    BY <2>1 DEF Only, Steady
  <2>3. CASE i # j
    BY <1>1, <1>3, <2>1, <2>2, <2>3 DEF Only
  <2>4. CASE i = j /\ ~Succeeded(i)
    <3>1. sends'[i].client # "succeeded"
      BY <1>4, <1>8, <2>4 DEF Refused, Failed
    <3> QED  BY <1>3, <3>1
  <2> QED  BY <1>2, <1>8, <2>2, <2>3, <2>4
<1>9. ASSUME NEW j \in DOMAIN sends, Committed(j)  PROVE Sees(i)'
  <2>1. /\ i \in DOMAIN sends /\ Same(i)
        /\ sends'[i].client = sends[i].client /\ sends'[i].outrun = sends[i].outrun
    BY <1>9 DEF Committed, Steady
  <2>2. sends[i].client = "succeeded" => sends'[i].at = sends[i].at
    BY <1>4, <1>9, <2>1 DEF Committed
  <2> QED  BY <1>1, <1>3, <2>1, <2>2
<1> QED  BY <1>5, <1>6, <1>7, <1>8, <1>9, SendMoves DEF SendMove

(* No page with a form is the sign-in page. *)
LEMMA PageFact == ASSUME NEW k \in Kinds  PROVE Writes[k].page # "login"
<1>1. k \in {"create", "topup", "withdraw", "dispute", "register", "delete", "rotate"}
  BY DashAssumption DEF Writes
<1> QED  BY <1>1 DEF Writes, CreateEscrow, Topup, Withdrawal, OpenDispute, RegisterWebhook,
                     DeleteWebhook, RotateSecret

(* The steps that end no send but by failing it. *)
Quiet == /\ Steady /\ draft' = draft /\ undrawn' = undrawn /\ page' = page
         /\ \A j \in DOMAIN sends : sends'[j].client \in {sends[j].client, "failed"}

LEMMA QuietFact ==
  ASSUME NEW i \in DOMAIN sends, Committed(i) \/ Refused(i) \/ Failed(i)
  PROVE  Quiet
<1>1. CASE Committed(i)
  BY <1>1 DEF Committed, Page, Quiet
<1>2. CASE Refused(i) \/ Failed(i)
  <2>1. /\ Only(i) /\ draft' = draft /\ undrawn' = undrawn /\ page' = page
        /\ sends'[i].client \in {sends[i].client, "failed"}
    BY <1>2 DEF Refused, Failed, Page
  <2> QED  BY <2>1 DEF Quiet, Only
<1> QED  BY <1>1, <1>2

LEMMA FormFact ==
  ASSUME Types, \A i \in DOMAIN sends : Sent(i)
  PROVE  /\ SendTypes /\ draft \in Nat /\ undrawn \in Nat /\ shown \in Nat
         /\ Len(sends) \in Nat /\ DOMAIN sends = 1..Len(sends)
         /\ undrawn # 0 => undrawn \in DOMAIN sends
         /\ shown # 0 => shown \in DOMAIN sends
         /\ \A i \in DOMAIN sends :
              /\ i \in Nat /\ i # 0 /\ i <= Len(sends)
              /\ sends[i].form \in Nat /\ sends[i].form <= i /\ sends[i].press \in Nat
              /\ HasForm(sends[i].kind) <=> sends[i].form # 0
<1>1. SendTypes /\ {draft, undrawn, shown} \subseteq 0..Len(sends)
  BY DEF Types
<1>2. Len(sends) \in Nat /\ DOMAIN sends = 1..Len(sends)
  BY <1>1, LenProperties DEF SendTypes
<1>3. \A i \in DOMAIN sends :
        /\ sends[i] \in Send /\ sends[i].form <= i
        /\ HasForm(sends[i].kind) <=> sends[i].form # 0
  BY <1>1, SendFact DEF Sent
<1> QED  BY <1>1, <1>2, <1>3 DEF Send

LEMMA DraftStep ==
  ASSUME Types, \A i \in DOMAIN sends : Sent(i), DraftInv, [DashNext]_vars
  PROVE  DraftInv'
<1>0. /\ draft \in Nat /\ Len(sends) \in Nat /\ DOMAIN sends = 1..Len(sends)
      /\ \A i \in DOMAIN sends : /\ i <= Len(sends) /\ sends[i].form \in Nat
                                 /\ sends[i].form <= i
  BY FormFact
<1>1. ASSUME draft' # 0 =>
               /\ page' # "login"
               /\ \A i \in DOMAIN sends' : sends'[i].form = draft' =>
                    /\ Writes[sends'[i].kind].page = page'
                    /\ sends'[i].client \in {"waiting", "failed"}
               /\ \A i \in DOMAIN sends' : i >= draft' /\ sends'[i].form # 0
                                             => sends'[i].form = draft'
      PROVE  DraftInv'
  BY <1>1 DEF DraftInv
<1>2. ASSUME draft # 0
      PROVE  /\ page # "login"
             /\ \A i \in DOMAIN sends : sends[i].form = draft =>
                  Writes[sends[i].kind].page = page /\ sends[i].client \in {"waiting", "failed"}
             /\ \A i \in DOMAIN sends : i >= draft /\ sends[i].form # 0 => sends[i].form = draft
  BY <1>2 DEF DraftInv
<1>3. CASE Still
  BY <1>1, <1>2, <1>3 DEF Still
<1>4. CASE Parted
  BY <1>1, <1>4 DEF Parted
<1>5. ASSUME NEW k \in Kinds, Added(k)  PROVE DraftInv'
  <2> DEFINE n == Len(sends) + 1
  <2>1. /\ DOMAIN sends' = DOMAIN sends \cup {n} /\ n \notin DOMAIN sends
        /\ \A j \in DOMAIN sends : sends'[j] = sends[j]
        /\ sends'[n].kind = k /\ sends'[n].client = "waiting"
        /\ page = Writes[k].page /\ page' = page
    BY <1>5 DEF Added
  <2>2. page # "login"
    BY <2>1, PageFact
  <2>3. CASE ~HasForm(k)
    <3>1. draft' = draft /\ sends'[n].form = 0
      BY <1>5, <2>3 DEF Added
    <3> QED  BY <1>1, <1>2, <2>1, <2>2, <3>1
  <2>4. CASE HasForm(k) /\ draft # 0
    <3>1. draft' = draft /\ sends'[n].form = draft
      BY <1>5, <2>4 DEF Added
    <3> QED  BY <1>1, <1>2, <2>1, <2>2, <2>4, <3>1
  <2>5. CASE HasForm(k) /\ draft = 0
    <3>1. draft' = n /\ sends'[n].form = n
      BY <1>5, <2>5 DEF Added
    <3>2. \A j \in DOMAIN sends : sends'[j].form # draft' /\ ~(j >= draft')
      BY <1>0, <2>1, <3>1
    <3> QED  BY <1>1, <2>1, <2>2, <3>1, <3>2
  <2> QED  BY <2>3, <2>4, <2>5
<1>6. ASSUME Quiet  PROVE DraftInv'
  <2>1. \A j \in DOMAIN sends' : /\ j \in DOMAIN sends /\ Same(j)
                                 /\ sends'[j].client \in {sends[j].client, "failed"}
    BY <1>6 DEF Quiet, Steady
  <2> QED  BY <1>1, <1>2, <1>6, <2>1 DEF Quiet, Same
<1>7. ASSUME NEW i \in DOMAIN sends, Succeeded(i)  PROVE DraftInv'
  <2>1. /\ \A j \in DOMAIN sends' : j \in DOMAIN sends /\ Same(j)
        /\ \A j \in DOMAIN sends : j # i => sends'[j] = sends[j]
        /\ sends[i].client \in {"waiting", "left"} /\ page' = page
        /\ draft' = IF sends[i].client = "waiting" /\ HasForm(sends[i].kind) THEN 0 ELSE draft
    BY <1>7 DEF Succeeded, Only, Steady
  <2>2. CASE draft' = 0
    BY <1>1, <2>2
  <2>3. CASE draft' = draft /\ draft # 0
    <3>1. HasForm(sends[i].kind) <=> sends[i].form # 0
      BY DEF Sent
    <3>2. sends[i].form # draft
      BY <1>2, <2>1, <2>3, <3>1
    <3> QED  BY <1>1, <1>2, <2>1, <2>3, <3>2 DEF Same
  <2> QED  BY <2>1, <2>2, <2>3
<1> QED  BY <1>3, <1>4, <1>5, <1>6, <1>7, QuietFact, SendMoves DEF SendMove

LEMMA UndrawnStep ==
  ASSUME Types, \A i \in DOMAIN sends : Sent(i), UndrawnInv, [DashNext]_vars
  PROVE  UndrawnInv'
<1>0. /\ undrawn \in Nat /\ Len(sends) \in Nat /\ DOMAIN sends = 1..Len(sends)
      /\ undrawn # 0 => undrawn \in DOMAIN sends
      /\ \A i \in DOMAIN sends : i <= Len(sends)
  BY FormFact
<1>1. ASSUME undrawn' # 0 =>
               /\ sends'[undrawn'].form # 0
               /\ \A i \in DOMAIN sends' : i >= undrawn' /\ sends'[i].form # 0
                                             => sends'[i].press = undrawn'
      PROVE  UndrawnInv'
  BY <1>1 DEF UndrawnInv
<1>2. ASSUME undrawn # 0
      PROVE  /\ sends[undrawn].form # 0
             /\ \A i \in DOMAIN sends : i >= undrawn /\ sends[i].form # 0
                                          => sends[i].press = undrawn
  BY <1>2 DEF UndrawnInv
<1>3. CASE Still
  BY <1>1, <1>2, <1>3 DEF Still
<1>4. CASE Parted
  BY <1>1, <1>4 DEF Parted
<1>5. ASSUME NEW k \in Kinds, Added(k)  PROVE UndrawnInv'
  <2> DEFINE n == Len(sends) + 1
  <2>1. /\ DOMAIN sends' = DOMAIN sends \cup {n} /\ n \notin DOMAIN sends
        /\ \A j \in DOMAIN sends : sends'[j] = sends[j]
        /\ sends'[n].form = IF ~HasForm(k) THEN 0 ELSE IF draft = 0 THEN n ELSE draft
        /\ sends'[n].press = IF PressedAgain(k) THEN undrawn ELSE n
        /\ undrawn' = IF HasForm(k) THEN sends'[n].press ELSE undrawn
    BY <1>5 DEF Added
  <2>2. CASE ~HasForm(k)
    BY <1>0, <1>1, <1>2, <2>1, <2>2
  <2>3. CASE HasForm(k) /\ PressedAgain(k)
    <3>1. undrawn' = undrawn /\ sends'[n].press = undrawn /\ undrawn # 0
      BY <2>1, <2>3 DEF PressedAgain
    <3> QED  BY <1>0, <1>1, <1>2, <2>1, <3>1
  <2>4. CASE HasForm(k) /\ ~PressedAgain(k)
    <3>1. undrawn' = n /\ sends'[n].press = n
      BY <2>1, <2>4
    <3>2. sends'[n].form # 0
      BY <1>0, <2>1, <2>4
    <3> QED  BY <1>0, <1>1, <2>1, <3>1, <3>2
  <2> QED  BY <2>2, <2>3, <2>4
<1>6. ASSUME Steady, undrawn' = undrawn  PROVE UndrawnInv'
  <2>1. /\ DOMAIN sends' = DOMAIN sends
        /\ \A j \in DOMAIN sends : /\ sends'[j].form = sends[j].form
                                   /\ sends'[j].press = sends[j].press
    BY <1>6 DEF Steady, Same
  <2> QED  BY <1>0, <1>1, <1>2, <1>6, <2>1
<1>7. ASSUME NEW i \in DOMAIN sends, Committed(i) \/ Refused(i) \/ Succeeded(i) \/ Failed(i)
      PROVE  Steady /\ undrawn' = undrawn
  BY <1>7 DEF Committed, Refused, Succeeded, Failed, Only, Page
<1> QED  BY <1>3, <1>4, <1>5, <1>6, <1>7, SendMoves DEF SendMove

LEMMA LatestStep ==
  ASSUME Types, \A i \in DOMAIN sends : Sent(i), LatestInv, [DashNext]_vars
  PROVE  LatestInv'
<1>0. /\ Len(sends) \in Nat /\ DOMAIN sends = 1..Len(sends)
      /\ \A i \in DOMAIN sends : i <= Len(sends)
  BY FormFact
<1>1. ASSUME NEW i \in DOMAIN sends
      PROVE  \E l \in DOMAIN sends :
               /\ l >= i /\ sends[l].kind = sends[i].kind
               /\ \A j \in DOMAIN sends : j > l => sends[j].kind # sends[i].kind
  BY DEF LatestInv, Latest
<1>2. ASSUME \A i \in DOMAIN sends' : \E l \in DOMAIN sends' :
               /\ l >= i /\ sends'[l].kind = sends'[i].kind
               /\ \A j \in DOMAIN sends' : j > l => sends'[j].kind # sends'[i].kind
      PROVE  LatestInv'
  BY <1>2 DEF LatestInv, Latest
<1>3. ASSUME DOMAIN sends' = DOMAIN sends,
             \A j \in DOMAIN sends : sends'[j].kind = sends[j].kind
      PROVE  LatestInv'
  BY <1>1, <1>2, <1>3
<1>4. Still \/ Parted => LatestInv'
  BY <1>3 DEF Still, Parted, Steady, Same
<1>5. ASSUME NEW k \in Kinds, Added(k)  PROVE LatestInv'
  <2> DEFINE n == Len(sends) + 1
  <2>1. /\ DOMAIN sends' = DOMAIN sends \cup {n} /\ n \notin DOMAIN sends
        /\ \A j \in DOMAIN sends : sends'[j] = sends[j]
        /\ sends'[n].kind = k
    BY <1>5 DEF Added
  <2>2. ASSUME NEW i \in DOMAIN sends'
        PROVE  \E l \in DOMAIN sends' :
                 /\ l >= i /\ sends'[l].kind = sends'[i].kind
                 /\ \A j \in DOMAIN sends' : j > l => sends'[j].kind # sends'[i].kind
    <3>1. CASE sends'[i].kind = k
      <4>1. n >= i /\ \A j \in DOMAIN sends' : ~(j > n)
        BY <1>0, <2>1
      <4> QED  BY <2>1, <3>1, <4>1
    <3>2. CASE sends'[i].kind # k
      <4>1. i \in DOMAIN sends
        BY <2>1, <3>2
      <4>2. PICK l \in DOMAIN sends :
              /\ l >= i /\ sends[l].kind = sends[i].kind
              /\ \A j \in DOMAIN sends : j > l => sends[j].kind # sends[i].kind
        BY <1>1, <4>1
      <4> QED  BY <2>1, <3>2, <4>1, <4>2
    <3> QED  BY <3>1, <3>2
  <2> QED  BY <1>2, <2>2
<1>6. ASSUME NEW i \in DOMAIN sends, Committed(i) \/ Refused(i) \/ Succeeded(i) \/ Failed(i)
      PROVE  LatestInv'
  BY <1>3, <1>6 DEF Committed, Refused, Succeeded, Failed, Only, Steady, Same
<1> QED  BY <1>4, <1>5, <1>6, SendMoves DEF SendMove

(* What a press finds: whatever was sent with the same content belongs to  *)
(* the press not yet drawn, or the last request of its kind has failed.    *)
LEMMA PressFact ==
  ASSUME Types, \A i \in DOMAIN sends : Sent(i), DraftInv, UndrawnInv, LatestInv, OnceInv,
         NEW k \in Kinds, HasForm(k), Enabled(k),
         NEW i \in DOMAIN sends, sends[i].form # 0, sends[i].form = draft
  PROVE  PressFailed(i) \/ (PressedAgain(k) /\ sends[i].press = undrawn)
<1>0. /\ draft \in Nat /\ undrawn \in Nat
      /\ undrawn # 0 => undrawn \in DOMAIN sends
      /\ \A j \in DOMAIN sends : /\ j \in Nat /\ sends[j].form \in Nat /\ sends[j].form <= j
                                 /\ HasForm(sends[j].kind) <=> sends[j].form # 0
  BY FormFact
<1>1. ASSUME NEW j \in DOMAIN sends, i < j, sends[j].form = draft
      PROVE  sends[i].press = sends[j].press \/ PressFailed(i)
  BY <1>1 DEF OnceInv
<1>2. CASE PressedAgain(k)
  <2>1. undrawn \in DOMAIN sends /\ sends[undrawn].form = draft /\ undrawn # 0
    BY <1>0, <1>2 DEF PressedAgain
  <2>2. \A j \in DOMAIN sends : j >= undrawn /\ sends[j].form # 0 => sends[j].press = undrawn
    BY <2>1 DEF UndrawnInv
  <2>3. sends[undrawn].press = undrawn
    BY <1>0, <2>1, <2>2
  <2>4. CASE i >= undrawn
    BY <1>2, <2>2, <2>4
  <2>5. CASE i < undrawn
    BY <1>1, <1>2, <2>1, <2>3, <2>5
  <2> QED  BY <1>0, <2>1, <2>4, <2>5
<1>3. CASE ~PressedAgain(k)
  <2>1. Pending(page) = {}
    BY <1>3 DEF Enabled
  <2>2. PICK l \in DOMAIN sends : Latest(i, l)
    BY DEF LatestInv
  <2>3. /\ l >= i /\ sends[l].kind = sends[i].kind
        /\ \A j \in DOMAIN sends : j > l => sends[j].kind # sends[l].kind
    BY <2>2 DEF Latest
  <2>4. HasForm(sends[l].kind) /\ sends[l].form # 0
    BY <1>0, <2>3
  <2>5. sends[l].form = draft
    <3>1. l >= draft
      BY <1>0, <2>3
    <3> QED  BY <2>4, <3>1 DEF DraftInv
  <2>6. Writes[sends[l].kind].page = page /\ sends[l].client \in {"waiting", "failed"}
    BY <2>4, <2>5 DEF DraftInv
  <2>7. sends[l].client # "waiting"
    BY <2>1, <2>3, <2>4, <2>6 DEF Pending
  <2>8. sends[l].client = "failed"
    BY <2>6, <2>7
  <2>9. CASE l = i
    BY <2>8, <2>9 DEF PressFailed
  <2>10. CASE i < l
    BY <1>1, <2>5, <2>8, <2>10 DEF PressFailed
  <2> QED  BY <1>0, <2>3, <2>9, <2>10
<1> QED  BY <1>2, <1>3

LEMMA OnceStep ==
  ASSUME Types, \A i \in DOMAIN sends : Sent(i), DraftInv, UndrawnInv, LatestInv, OnceInv,
         [DashNext]_vars
  PROVE  OnceInv'
<1>0. /\ Len(sends) \in Nat /\ DOMAIN sends = 1..Len(sends)
      /\ \A i \in DOMAIN sends : /\ i <= Len(sends) /\ sends[i].form \in Nat
                                 /\ sends[i].form <= i
  BY FormFact
<1>1. ASSUME \A i, j \in DOMAIN sends' :
               i < j /\ sends'[i].form # 0 /\ sends'[i].form = sends'[j].form
                 => \/ sends'[i].press = sends'[j].press
                    \/ \E t \in DOMAIN sends' : /\ sends'[t].press = sends'[i].press
                                                /\ sends'[t].client = "failed"
      PROVE  OnceInv'
  BY <1>1 DEF OnceInv, PressFailed
<1>2. \A i, j \in DOMAIN sends :
        i < j /\ sends[i].form # 0 /\ sends[i].form = sends[j].form
          => \/ sends[i].press = sends[j].press
             \/ \E t \in DOMAIN sends : /\ sends[t].press = sends[i].press
                                        /\ sends[t].client = "failed"
  BY DEF OnceInv, PressFailed
<1>3. ASSUME Steady,
             \A j \in DOMAIN sends : sends[j].client = "failed" => sends'[j].client = "failed"
      PROVE  OnceInv'
  <2>1. /\ DOMAIN sends' = DOMAIN sends
        /\ \A j \in DOMAIN sends : /\ sends'[j].form = sends[j].form
                                   /\ sends'[j].press = sends[j].press
    BY <1>3 DEF Steady, Same
  <2> QED  BY <1>1, <1>2, <1>3, <2>1
<1>4. CASE Still
  BY <1>1, <1>2, <1>4 DEF Still
<1>5. CASE Parted
  BY <1>3, <1>5 DEF Parted, Parting
<1>6. ASSUME NEW k \in Kinds, Added(k)  PROVE OnceInv'
  <2> DEFINE n == Len(sends) + 1
  <2>1. /\ DOMAIN sends' = DOMAIN sends \cup {n} /\ n \notin DOMAIN sends
        /\ \A j \in DOMAIN sends : sends'[j] = sends[j]
        /\ sends'[n].form = IF ~HasForm(k) THEN 0 ELSE IF draft = 0 THEN n ELSE draft
        /\ sends'[n].press = IF PressedAgain(k) THEN undrawn ELSE n
        /\ Enabled(k)
    BY <1>6 DEF Added
  <2>2. ASSUME NEW i \in DOMAIN sends, sends[i].form # 0, sends[i].form = sends'[n].form
        PROVE  \/ sends[i].press = sends'[n].press
               \/ \E t \in DOMAIN sends : /\ sends[t].press = sends[i].press
                                          /\ sends[t].client = "failed"
    <3>1. HasForm(k) /\ draft = sends[i].form
      BY <1>0, <2>1, <2>2
    <3>2. PressFailed(i) \/ (PressedAgain(k) /\ sends[i].press = undrawn)
      BY <2>1, <2>2, <3>1, PressFact
    <3> QED  BY <2>1, <3>2 DEF PressFailed
  <2>3. ASSUME NEW i \in DOMAIN sends', NEW j \in DOMAIN sends', i < j,
               sends'[i].form # 0, sends'[i].form = sends'[j].form
        PROVE  \/ sends'[i].press = sends'[j].press
               \/ \E t \in DOMAIN sends' : /\ sends'[t].press = sends'[i].press
                                           /\ sends'[t].client = "failed"
    <3>1. i \in DOMAIN sends
      BY <1>0, <2>1, <2>3
    <3>2. CASE j \in DOMAIN sends
      BY <1>2, <2>1, <2>3, <3>1, <3>2
    <3>3. CASE j = n
      BY <2>1, <2>2, <2>3, <3>1, <3>3
    <3> QED  BY <2>1, <3>2, <3>3
  <2> QED  BY <1>1, <2>3
<1>7. ASSUME NEW i \in DOMAIN sends, Committed(i) \/ Refused(i) \/ Failed(i)  PROVE OnceInv'
  BY <1>3, <1>7, QuietFact DEF Quiet
<1>8. ASSUME NEW i \in DOMAIN sends, Succeeded(i)  PROVE OnceInv'
  BY <1>3, <1>8 DEF Succeeded, Only
<1> QED  BY <1>4, <1>5, <1>6, <1>7, <1>8, SendMoves DEF SendMove

LEMMA SecretStep ==
  ASSUME Types, \A i \in DOMAIN sends : Sent(i), SecretInv, [DashNext]_vars
  PROVE  SecretInv'
<1>0. /\ Len(sends) \in Nat /\ DOMAIN sends = 1..Len(sends)
      /\ shown # 0 => shown \in DOMAIN sends
      /\ \A i \in DOMAIN sends : i # 0
  BY FormFact
<1>1. ASSUME \A i \in DOMAIN sends' : sends'[i].told # "no" => sends'[i].client = "succeeded",
             \A i \in DOMAIN sends' : sends'[i].next # 0 =>
               /\ sends'[i].next \in DOMAIN sends' \ {i}
               /\ SetsSecret(sends'[sends'[i].next].kind),
             shown' # 0 /\ sends'[shown'].next # 0 /\ sends'[sends'[shown'].next].told # "no"
               => sends'[shown'].told = "late"
      PROVE  SecretInv'
  BY <1>1 DEF SecretInv, SecretShownIsLast, SetsSecret
<1>2. /\ \A i \in DOMAIN sends : sends[i].told # "no" => sends[i].client = "succeeded"
      /\ \A i \in DOMAIN sends : sends[i].next # 0 =>
           /\ sends[i].next \in DOMAIN sends \ {i}
           /\ SetsSecret(sends[sends[i].next].kind)
      /\ shown # 0 /\ sends[shown].next # 0 /\ sends[sends[shown].next].told # "no"
           => sends[shown].told = "late"
  BY DEF SecretInv, SecretShownIsLast
<1>3. CASE Still
  BY <1>1, <1>2, <1>3 DEF Still
<1>4. CASE Parted
  BY <1>1, <1>2, <1>4 DEF Parted, Steady, Same, Parting
<1>5. ASSUME NEW k \in Kinds, Added(k)  PROVE SecretInv'
  <2> DEFINE n == Len(sends) + 1
  <2>1. /\ DOMAIN sends' = DOMAIN sends \cup {n} /\ n \notin DOMAIN sends
        /\ \A j \in DOMAIN sends : sends'[j] = sends[j]
        /\ sends'[n].next = 0 /\ sends'[n].told = "no" /\ shown' = shown
    BY <1>5 DEF Added
  <2> QED  BY <1>0, <1>1, <1>2, <2>1
<1>6. ASSUME NEW i \in DOMAIN sends, Committed(i)  PROVE SecretInv'
  <2>1. /\ DOMAIN sends' = DOMAIN sends /\ shown' = shown
        /\ \A j \in DOMAIN sends :
             /\ sends'[j].kind = sends[j].kind
             /\ sends'[j].client = sends[j].client /\ sends'[j].told = sends[j].told
             /\ sends'[j].next = sends[j].next
                  \/ (j # i /\ sends'[j].next = i /\ SetsSecret(sends[i].kind))
    BY <1>6 DEF Committed, Steady, Same, Page
  <2>2. sends[i].told = "no"
    <3>1. sends[i].client # "succeeded"
      BY <1>6 DEF Committed, Sent
    <3> QED  BY <1>2, <3>1
  <2> QED  BY <1>0, <1>1, <1>2, <2>1, <2>2
<1>7. ASSUME NEW i \in DOMAIN sends, Refused(i) \/ Failed(i)  PROVE SecretInv'
  <2>1. /\ DOMAIN sends' = DOMAIN sends /\ shown' = shown
        /\ \A j \in DOMAIN sends :
             /\ sends'[j].kind = sends[j].kind
             /\ sends'[j].told = sends[j].told /\ sends'[j].next = sends[j].next
             /\ sends[j].client = "succeeded" => sends'[j].client = "succeeded"
    BY <1>7 DEF Refused, Failed, Only, Steady, Same, Page
  <2> QED  BY <1>0, <1>1, <1>2, <2>1
<1>8. ASSUME NEW i \in DOMAIN sends, Succeeded(i)  PROVE SecretInv'
  <2>1. /\ DOMAIN sends' = DOMAIN sends
        /\ \A j \in DOMAIN sends : sends'[j].kind = sends[j].kind /\ sends'[j].next = sends[j].next
        /\ \A j \in DOMAIN sends : j # i => sends'[j] = sends[j]
        /\ sends[i].client \in {"waiting", "left"} /\ sends'[i].client = "succeeded"
    BY <1>8 DEF Succeeded, Only, Steady, Same
  <2>2. /\ sends'[i].told = IF ~Shows(i) THEN "no" ELSE IF Late(i) THEN "late" ELSE "yes"
        /\ shown' = IF Shows(i) THEN i ELSE shown
    BY <1>8 DEF Succeeded
  <2>3. sends[i].told = "no"
    BY <1>2, <2>1
  <2>4. \A j \in DOMAIN sends' : sends'[j].told # "no" => sends'[j].client = "succeeded"
    BY <1>2, <2>1
  <2>5. CASE Shows(i)
    <3>1. shown' = i /\ sends'[i].told = (IF Late(i) THEN "late" ELSE "yes")
      BY <2>2, <2>5
    <3>2. ASSUME sends[i].next # 0, sends'[sends[i].next].told # "no"
          PROVE  Late(i)
      BY <1>2, <2>1, <3>2 DEF Late
    <3> QED  BY <1>1, <1>2, <2>1, <2>4, <3>1, <3>2
  <2>6. CASE ~Shows(i)
    <3>1. shown' = shown /\ sends'[i].told = "no"
      BY <2>2, <2>6
    <3>2. \A j \in DOMAIN sends : sends'[j].told = sends[j].told
      BY <2>1, <2>3, <3>1
    <3> QED  BY <1>0, <1>1, <1>2, <2>1, <2>4, <3>1, <3>2
  <2> QED  BY <2>5, <2>6
<1> QED  BY <1>3, <1>4, <1>5, <1>6, <1>7, <1>8, SendMoves DEF SendMove

-----------------------------------------------------------------------------
(* The invariant, and what follows from it. *)

LEMMA InitInv == DashInit => DashInv
<1> SUFFICES ASSUME DashInit  PROVE DashInv
  OBVIOUS
<1>1. sends = <<>> /\ DOMAIN sends = {} /\ Len(sends) = 0 /\ sends \in Seq(Send)
  BY EmptySeq DEF DashInit
<1>2. /\ user = Nobody /\ page = "login" /\ draft = 0 /\ undrawn = 0 /\ shown = 0
      /\ cache = [q \in Tracked |-> NoData] /\ fetch = [q \in Tracked |-> Idle]
      /\ db = [t \in Topics |-> [u \in Users |-> 0]]
  BY DEF DashInit
<1>3. ViewTypes
  BY <1>2 DEF ViewTypes
<1>4. ClientTypes
  BY <1>2 DEF ClientTypes, CacheType, FetchType, NoData
<1>5. DbTypes
  BY <1>2 DEF DbTypes
<1>6. {draft, undrawn, shown} \subseteq 0..Len(sends)
  BY <1>1, <1>2
<1>7. \A q \in Tracked : Fresh(q)
  BY <1>2 DEF Fresh, HasData, InFlight, NoData
<1>8. DraftInv /\ UndrawnInv /\ SecretInv
  BY <1>1, <1>2 DEF DraftInv, UndrawnInv, SecretInv, SecretShownIsLast
<1>9. OnceInv /\ LatestInv /\ \A i \in DOMAIN sends : Sent(i) /\ Sees(i)
  BY <1>1 DEF OnceInv, LatestInv
<1> QED  BY <1>1, <1>3, <1>4, <1>5, <1>6, <1>7, <1>8, <1>9 DEF DashInv, Types, SendTypes

LEMMA StepInv == DashInv /\ [DashNext]_vars => DashInv'
<1> SUFFICES ASSUME DashInv, [DashNext]_vars  PROVE DashInv'
  OBVIOUS
<1>1. /\ Types /\ \A q \in Tracked : Fresh(q)
      /\ \A i \in DOMAIN sends : Sent(i) /\ Sees(i)
      /\ DraftInv /\ UndrawnInv /\ LatestInv /\ OnceInv /\ SecretInv
  BY DEF DashInv
<1>2. Types'
  BY <1>1, TypesStep
<1>3. \A q \in Tracked : Fresh(q)'
  BY <1>1, FreshStep
<1>4. \A i \in DOMAIN sends' : Sent(i)'
  BY <1>1, SentStep
<1>5. \A i \in DOMAIN sends' : Sees(i)'
  BY <1>1, SeesStep
<1>6. DraftInv' /\ UndrawnInv' /\ LatestInv' /\ OnceInv' /\ SecretInv'
  BY <1>1, DraftStep, UndrawnStep, LatestStep, OnceStep, SecretStep
<1> QED  BY <1>2, <1>3, <1>4, <1>5, <1>6 DEF DashInv

LEMMA DashInvariant == DashSpec => []DashInv
  BY InitInv, StepInv, PTL DEF DashSpec

(* Well typed: whatever the user, the network and the server do, the cache *)
(* and the answers under way belong to a user and hold no change of that   *)
(* user's rows that has not been made, and the page's form and secret are  *)
(* those of writes it has sent.                                            *)
THEOREM DashWellTyped == DashSpec => []DashTypeOK
<1>1. DashInv => DashTypeOK
  <2> SUFFICES ASSUME DashInv  PROVE DashTypeOK
    OBVIOUS
  <2>1. ClientTypes /\ ViewTypes /\ {draft, undrawn, shown} \subseteq 0..Len(sends)
    BY DEF DashInv, Types
  <2>2. ASSUME NEW q \in Tracked
        PROVE  /\ cache[q] \in CacheType
               /\ HasData(q) => cache[q].version <= Rows(db, q, cache[q].of)
               /\ InFlight(q) => /\ fetch[q].of \in Users
                                 /\ fetch[q].read <= Rows(db, q, fetch[q].of)
    <3>1. Fresh(q)
      BY DEF DashInv
    <3> QED  BY <2>1, <3>1, ClientFact DEF Fresh
  <2> QED  BY <2>1, <2>2 DEF DashTypeOK, ViewTypes, CacheType
<1> QED  BY <1>1, DashInvariant, PTL

(* No invalidation is forgotten: after a write's success handler has run,  *)
(* data from before the write stay flagged until a fetch that saw it has   *)
(* replaced them, through any navigation, refetch, failure, collection or  *)
(* further write, unless the handler met a fetch it could not cancel.      *)
THEOREM NoInvalidationForgotten == DashSpec => []InvalidationHonoured
<1>1. DashInv => InvalidationHonoured
  BY DEF DashInv, Sees, Honoured, InvalidationHonoured
<1> QED  BY <1>1, DashInvariant, PTL

(* A form's content is committed twice only if one press of the button ran *)
(* into the next before the page was drawn, or a request of the first      *)
(* press failed in the browser: apart from those the disabled button and   *)
(* the reset of the form suffice, however many writes are sent and         *)
(* wherever the user goes.                                                 *)
THEOREM FormsSentOnce == DashSpec => []FormSentOnce
<1>1. DashInv => FormSentOnce
  BY DEF DashInv, OnceInv, PressFailed, Sent, FormSentOnce
<1> QED  BY <1>1, DashInvariant, PTL

(* A secret the server has replaced stays on the page only while the       *)
(* answer to the rotation that replaced it is under way, or because that   *)
(* answer was lost or came to a page left since, or because the answers of *)
(* the two came in the order opposite to the server's: of rotations under  *)
(* way together too, the page shows the last, if their answers keep order. *)
THEOREM ShownSecretIsLast == DashSpec => []SecretShownIsLast
<1>1. DashInv => SecretShownIsLast
  BY DEF DashInv, SecretInv
<1> QED  BY <1>1, DashInvariant, PTL
=============================================================================
