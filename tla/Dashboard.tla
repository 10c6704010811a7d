------------------------------ MODULE Dashboard ------------------------------
(***************************************************************************)
(* One browser tab of the dashboard: its pages, the query cache they share *)
(* (one QueryClient of TanStack Query per page load), and the writes their *)
(* forms send.  The cache holds, per query key, which user's data it is    *)
(* and how many changes of the server's rows it includes; rows themselves  *)
(* are left out.  Next to the code stand the library's rules it relies on: *)
(*   - a page that mounts a query fetches it unless its data are fresh;    *)
(*   - a fetch is joined, never doubled, except that invalidation cancels  *)
(*     one that has earlier data to fall back on;                          *)
(*   - the success handler of a write runs even after its page is left.    *)
(* The session behind the requests is SessionRefresh's.                    *)
(***************************************************************************)
EXTENDS Integers, Sequences

CONSTANTS Users, Nobody,
          Tracked,      \* the query keys followed
          Visited,      \* the pages opened
          Kinds,        \* the writes sent
          Endpoints,    \* each user's webhook endpoints, as registered before
          MaxWrites,    \* bound on writes, the changes made by others included
          MaxFaults     \* bound on failed fetches and unanswered writes

NoParams == 0

(* queryKeys *)
Balance             == <<"balance">>
Transactions(limit) == <<"transactions", limit>>
Escrows(limit)      == <<"escrows", limit>>
Disputes(limit)     == <<"disputes", limit>>
Webhooks            == <<"webhooks">>

Topic(key) == key[1]
Topics == {Topic(q) : q \in Tracked}

(* What the hooks of each page observe. *)
OverviewPage == {Balance, Transactions(5), Escrows(5)}
WalletPage   == {Balance, Transactions(20)}
EscrowPage   == {Escrows(20)}
DisputesPage == {Disputes(20)}
WebhooksPage == {Webhooks}

On(p) ==
  Tracked \cap CASE p = "overview" -> OverviewPage
                 [] p = "wallet"   -> WalletPage
                 [] p = "escrow"   -> EscrowPage
                 [] p = "disputes" -> DisputesPage
                 [] p = "webhooks" -> WebhooksPage
                 [] OTHER          -> {}

(* The writes: the page with the form, the rows the server changes, and    *)
(* the keys the hook's success handler invalidates.                        *)
CreateEscrow == [page |-> "escrow", changes |-> {"escrows", "transactions", "balance"},
                 filters |-> {Escrows(NoParams), Balance}]
Topup == [page |-> "wallet", changes |-> {"transactions"},
          filters |-> {Balance, Transactions(NoParams)}]
Withdrawal == [page |-> "wallet", changes |-> {"transactions", "balance"},
               filters |-> {Balance}]
OpenDispute == [page |-> "disputes", changes |-> {"disputes", "escrows"},
                filters |-> {Disputes(NoParams)}]
RegisterWebhook == [page |-> "webhooks", changes |-> {"webhooks"}, filters |-> {Webhooks}]
DeleteWebhook == [page |-> "webhooks", changes |-> {"webhooks"}, filters |-> {Webhooks}]
RotateSecret == [page |-> "webhooks", changes |-> {}, filters |-> {}]

Writes == [create |-> CreateEscrow, topup |-> Topup, withdraw |-> Withdrawal,
           dispute |-> OpenDispute, register |-> RegisterWebhook,
           delete |-> DeleteWebhook, rotate |-> RotateSecret]

(* The keys are those of queryKeys, the writes those listed above.         *)
ASSUME DashAssumption ==
  /\ Nobody \notin Users
  /\ Tracked \subseteq {Balance, Webhooks}
                         \cup ({"transactions", "escrows", "disputes"} \X Nat)
  /\ Kinds \subseteq DOMAIN Writes
  /\ Endpoints \cap Nat = {}

VARIABLES user,      \* whose token requests carry
          page,
          cache,     \* query -> [of, version, stale, invalid]
          fetch,     \* query -> [of, read], the fetch in flight
          db,        \* topic -> user the rows are filed under -> changes made
          sends,     \* the writes so far
          draft,     \* the first send of the form's content, 0: not sent
          undrawn,   \* the press the page is not yet drawn after, 0: none
          shown,     \* the send whose secret is on the page, 0: none
          others, faults

view   == <<user, page>>
client == <<cache, fetch>>
vars   == <<view, client, db, sends, draft, undrawn, shown, others, faults>>

NoData == [of |-> Nobody, version |-> 0, stale |-> FALSE, invalid |-> FALSE]
Idle   == [of |-> Nobody, read |-> -1]
Asked(u) == [of |-> u, read |-> -1]

InFlight(q) == fetch[q] # Idle
HasData(q)  == cache[q].of # Nobody
Observed    == On(page)

DashInit ==
  /\ user = Nobody /\ page = "login"
  /\ cache = [q \in Tracked |-> NoData] /\ fetch = [q \in Tracked |-> Idle]
  /\ db = [t \in Topics |-> [u \in Users |-> 0]]
  /\ sends = <<>> /\ draft = 0 /\ undrawn = 0 /\ shown = 0
  /\ others = 0 /\ faults = 0

-----------------------------------------------------------------------------
(* Pages. *)

NeedsFetch(q) == ~HasData(q) \/ cache[q].stale \/ cache[q].invalid

Mounting(u, Q) ==
  fetch' = [q \in Tracked |-> IF q \in Q /\ NeedsFetch(q) /\ ~InFlight(q)
                              THEN Asked(u) ELSE fetch[q]]

(* The page's component goes: its form, its pending state and its secret; *)
(* what it has sent goes on without it.                                   *)
Unmount ==
  /\ draft' = 0 /\ undrawn' = 0 /\ shown' = 0
  /\ sends' = [i \in DOMAIN sends |->
                 [sends[i] EXCEPT !.client = IF @ = "waiting" THEN "left" ELSE @]]

Go(p) ==
  /\ user # Nobody /\ p \in Visited \ {page}
  /\ page' = p
  /\ Mounting(user, On(p))
  /\ Unmount
  /\ UNCHANGED <<user, cache, db, others, faults>>

(* router.push keeps the QueryClient, whoever signs in next. *)
SignIn(u) ==
  /\ page = "login"
  /\ user' = u /\ page' = "overview"
  /\ Mounting(u, On("overview"))
  /\ UNCHANGED <<cache, db, sends, draft, undrawn, shown, others, faults>>

SignOut ==
  /\ user # Nobody
  /\ user' = Nobody /\ page' = "login"
  /\ Unmount
  /\ UNCHANGED <<client, db, others, faults>>

(* A reload by the user, or by the client after a 401 it could not mend. *)
Reload(u) ==
  /\ user # Nobody /\ u \in {user, Nobody}
  /\ user' = u /\ page' = IF u = Nobody THEN "login" ELSE page
  /\ cache' = [q \in Tracked |-> NoData]
  /\ fetch' = [q \in Tracked |-> IF q \in On(page') THEN Asked(u) ELSE Idle]
  /\ draft' = 0 /\ undrawn' = 0 /\ shown' = 0
  /\ sends' = [i \in DOMAIN sends |->
                 [sends[i] EXCEPT !.client = IF @ \in {"waiting", "left"} THEN "gone" ELSE @]]
  /\ UNCHANGED <<db, others, faults>>

-----------------------------------------------------------------------------
(* The server's reads: how many of the changes in d user u's query covers. *)
(* A row is filed under the user whose query selects it: an escrow under   *)
(* its client, a dispute under whoever raised it.                          *)

GetBalance(d, u)      == d["balance"][u]
GetTransactions(d, u) == d["transactions"][u]
ListEscrows(d, u)     == d["escrows"][u]      \* those u is the client of
ListDisputes(d, u)    == d["disputes"][u]     \* those u has raised
ListEndpoints(d, u)   == d["webhooks"][u]

Rows(d, q, u) ==
  CASE q = Balance              -> GetBalance(d, u)
    [] Topic(q) = "transactions" -> GetTransactions(d, u)
    [] Topic(q) = "escrows"     -> ListEscrows(d, u)
    [] Topic(q) = "disputes"    -> ListDisputes(d, u)
    [] OTHER                    -> ListEndpoints(d, u)

-----------------------------------------------------------------------------
(* Queries. *)

Serve(q) ==
  /\ InFlight(q) /\ fetch[q].read = -1
  /\ fetch' = [fetch EXCEPT ![q].read = Rows(db, q, fetch[q].of)]
  /\ UNCHANGED <<view, cache, db, sends, draft, undrawn, shown, others, faults>>

Mut_LoadsAsUser(q) ==
  /\ InFlight(q) /\ fetch[q].read # -1
  /\ cache' = [cache EXCEPT ![q] = [of |-> user, version |-> fetch[q].read,
                                    stale |-> FALSE, invalid |-> FALSE]]
  /\ fetch' = [fetch EXCEPT ![q] = Idle]
  /\ UNCHANGED <<view, db, sends, draft, undrawn, shown, others, faults>>
Load(q) ==
  /\ InFlight(q) /\ fetch[q].read # -1
  /\ cache' = [cache EXCEPT ![q] = [of |-> fetch[q].of, version |-> fetch[q].read,
                                    stale |-> FALSE, invalid |-> FALSE]]
  /\ fetch' = [fetch EXCEPT ![q] = Idle]
  /\ UNCHANGED <<view, db, sends, draft, undrawn, shown, others, faults>>

(* A failed attempt that is retried, as two are while somebody looks, or *)
(* the last of them: then the old data stay, and the error is not modelled. *)
FetchFails(q) ==
  /\ InFlight(q) /\ faults < MaxFaults
  /\ \/ fetch' = [fetch EXCEPT ![q] = Idle]
     \/ q \in Observed /\ fetch' = [fetch EXCEPT ![q] = Asked(user)]
  /\ faults' = faults + 1
  /\ UNCHANGED <<view, cache, db, sends, draft, undrawn, shown, others>>

(* refetchInterval, which only the balance has *)
Mut_IntervalIfInvalid ==
  /\ Balance \in Observed /\ ~InFlight(Balance) /\ cache[Balance].invalid
  /\ fetch' = [fetch EXCEPT ![Balance] = Asked(user)]
  /\ UNCHANGED <<view, cache, db, sends, draft, undrawn, shown, others, faults>>
Interval ==
  /\ Balance \in Observed /\ ~InFlight(Balance)
  /\ fetch' = [fetch EXCEPT ![Balance] = Asked(user)]
  /\ UNCHANGED <<view, cache, db, sends, draft, undrawn, shown, others, faults>>

(* staleTime has passed *)
Age(q) ==
  /\ HasData(q) /\ ~cache[q].stale
  /\ cache' = [cache EXCEPT ![q].stale = TRUE]
  /\ UNCHANGED <<view, fetch, db, sends, draft, undrawn, shown, others, faults>>

(* refetchOnWindowFocus *)
Focus ==
  /\ \E q \in Observed : NeedsFetch(q) /\ ~InFlight(q)
  /\ Mounting(user, Observed)
  /\ UNCHANGED <<view, cache, db, sends, draft, undrawn, shown, others, faults>>

(* gcTime *)
Collect(q) ==
  /\ q \notin Observed /\ HasData(q) /\ ~InFlight(q)
  /\ cache' = [cache EXCEPT ![q] = NoData]
  /\ UNCHANGED <<view, fetch, db, sends, draft, undrawn, shown, others, faults>>

-----------------------------------------------------------------------------
(* Writes. *)

(* A page has one form, whose button is disabled while the hook's last     *)
(* request is pending, from the next drawing of the page on; the rotate    *)
(* and delete buttons have none and stay enabled.                          *)
HasForm(k) == k \notin {"rotate", "delete"}
Pending(p) == {i \in DOMAIN sends :
                 /\ sends[i].client = "waiting"
                 /\ HasForm(sends[i].kind) /\ Writes[sends[i].kind].page = p
                 /\ \A j \in DOMAIN sends : j > i => sends[j].kind # sends[i].kind}

(* The button as last drawn, pressed again with the same content. *)
PressedAgain(k) == /\ undrawn # 0 /\ sends[undrawn].kind = k
                   /\ sends[undrawn].form = draft

Mut_AlwaysEnabled(k) == TRUE
Enabled(k) == HasForm(k) => Pending(page) = {} \/ PressedAgain(k)

(* What is written to: an endpoint is one of before, or the send that      *)
(* registered it; of the other rows none is told from another.             *)
Registered == {i \in DOMAIN sends : /\ sends[i].kind = "register" /\ sends[i].of = user
                                    /\ sends[i].server = "committed"}
Targets(k) == CASE k = "rotate"   -> Endpoints \cup Registered
                [] k = "register" -> {Len(sends) + 1}
                [] OTHER          -> {0}

Submit(k) ==
  LET i     == Len(sends) + 1
      form  == IF ~HasForm(k) THEN 0 ELSE IF draft = 0 THEN i ELSE draft
      press == IF PressedAgain(k) THEN undrawn ELSE i IN
  /\ user # Nobody /\ page = Writes[k].page /\ Enabled(k)
  /\ i + others <= MaxWrites
  /\ draft' = IF HasForm(k) THEN form ELSE draft
  /\ undrawn' = IF HasForm(k) THEN press ELSE undrawn
  /\ \E t \in Targets(k) :
       sends' = Append(sends, [kind |-> k, of |-> user, target |-> t,
                               form |-> form, press |-> press,
                               server |-> "sent", next |-> 0,
                               client |-> "waiting", told |-> "no",
                               at |-> [q \in Tracked |-> 0], outrun |-> {}])
  /\ UNCHANGED <<view, client, db, shown, others, faults>>

(* The page is drawn with the button disabled. *)
Draw ==
  /\ undrawn # 0 /\ undrawn' = 0
  /\ UNCHANGED <<view, client, db, sends, draft, shown, others, faults>>

(* The form is cancelled, or filled in anew. *)
Cancel ==
  /\ draft # 0 /\ draft' = 0
  /\ UNCHANGED <<view, client, db, sends, undrawn, shown, others, faults>>

DismissSecret ==
  /\ shown # 0 /\ shown' = 0
  /\ UNCHANGED <<view, client, db, sends, draft, undrawn, others, faults>>

(* A filter matches the keys it is a prefix of.  A list's key ends in its   *)
(* params: the filter made without params ends in undefined, which none has. *)
Matches(q, filter) ==
  Len(filter) <= Len(q) /\ \A n \in DOMAIN filter : q[n] = filter[n]
Matching(k) == {q \in Tracked : \E f \in Writes[k].filters : Matches(q, f)}

(* The server's part: the change commits, or is refused.  A rotation's     *)
(* secret replaces the one its endpoint has, which a registration or an    *)
(* earlier rotation has set.                                               *)
SetsSecret(k)  == k \in {"register", "rotate"}
Replaces(i, j) == /\ SetsSecret(sends[i].kind) /\ SetsSecret(sends[j].kind)
                  /\ sends[i].of = sends[j].of /\ sends[i].target = sends[j].target
                  /\ sends[j].server = "committed" /\ sends[j].next = 0

Commit(i) ==
  LET s    == sends[i]
      rows == [t \in Topics |-> IF t \in Writes[s.kind].changes
                               THEN [db[t] EXCEPT ![s.of] = @ + 1] ELSE db[t]]
      done == [s EXCEPT !.server = "committed",
                        !.at = [q \in Tracked |-> IF q \in Matching(s.kind)
                                                  THEN Rows(rows, q, s.of) ELSE 0]]
  IN
  /\ s.server = "sent"
  /\ db' = rows
  /\ sends' = [j \in DOMAIN sends |->
                 IF j = i THEN done
                 ELSE [sends[j] EXCEPT !.next = IF Replaces(i, j) THEN i ELSE @]]
  /\ UNCHANGED <<view, client, draft, undrawn, shown, others, faults>>

Refuse(i) ==
  /\ sends[i].server = "sent"
  /\ sends' = [sends EXCEPT ![i].server = "refused"]
  /\ UNCHANGED <<view, client, db, draft, undrawn, shown, others, faults>>

(* invalidateQueries flags the matching queries and refetches those on the *)
(* page, cancelling a running refetch but joining a first load.  A fetch   *)
(* it does not cancel will clear the flag with an answer read before.      *)
Outrun(Q) == {q \in Q : InFlight(q) /\ (q \notin Observed \/ ~HasData(q))}

Mut_InvalidateJoins(Q) ==
  /\ cache' = [q \in Tracked |-> [cache[q] EXCEPT !.invalid = q \in Q \/ @]]
  /\ fetch' = [q \in Tracked |->
                 IF q \in Q \cap Observed /\ ~InFlight(q) THEN Asked(user) ELSE fetch[q]]
Invalidate(Q) ==
  /\ cache' = [q \in Tracked |-> [cache[q] EXCEPT !.invalid = q \in Q \/ @]]
  /\ fetch' = [q \in Tracked |->
                 IF q \in (Q \cap Observed) \ Outrun(Q) THEN Asked(user) ELSE fetch[q]]

Mut_FirstSecretStays(i) ==
  LET s     == sends[i]
      here  == s.client = "waiting"
      shows == here /\ SetsSecret(s.kind)
      late  == s.next # 0 /\ sends[s.next].told # "no" IN
  /\ s.server = "committed" /\ s.client \in {"waiting", "left"}
  /\ sends' = [sends EXCEPT ![i].client = "succeeded",
                            ![i].told = IF ~shows THEN "no" ELSE IF late THEN "late" ELSE "yes",
                            ![i].outrun = Outrun(Matching(s.kind))]
  /\ Invalidate(Matching(s.kind))
  /\ draft' = IF here /\ HasForm(s.kind) THEN 0 ELSE draft
  /\ shown' = IF shows /\ shown = 0 THEN i ELSE shown
  /\ UNCHANGED <<view, db, undrawn, others, faults>>

(* The page, if it is still there, resets its form and shows the secret of *)
(* the answer; told notes an answer that comes after the one to the        *)
(* rotation which has replaced its secret.                                 *)
Succeed(i) ==
  LET s     == sends[i]
      here  == s.client = "waiting"
      shows == here /\ SetsSecret(s.kind)
      late  == s.next # 0 /\ sends[s.next].told # "no" IN
  /\ s.server = "committed" /\ s.client \in {"waiting", "left"}
  /\ sends' = [sends EXCEPT ![i].client = "succeeded",
                            ![i].told = IF ~shows THEN "no" ELSE IF late THEN "late" ELSE "yes",
                            ![i].outrun = Outrun(Matching(s.kind))]
  /\ Invalidate(Matching(s.kind))
  /\ draft' = IF here /\ HasForm(s.kind) THEN 0 ELSE draft
  /\ shown' = IF shows THEN i ELSE shown
  /\ UNCHANGED <<view, db, undrawn, others, faults>>

(* An error answer, or none within the client's timeout, whatever the      *)
(* server did: a message, and the form stays as it was filled in.          *)
Fail(i) ==
  /\ sends[i].client \in {"waiting", "left"}
  /\ \/ sends[i].server = "refused" /\ UNCHANGED faults
     \/ faults < MaxFaults /\ faults' = faults + 1
  /\ sends' = [sends EXCEPT ![i].client = "failed"]
  /\ UNCHANGED <<view, client, db, draft, undrawn, shown, others>>

(* The worker, the counterparty or another device changes rows of a user. *)
OtherChange(u, t) ==
  /\ others + Len(sends) < MaxWrites /\ others' = others + 1
  /\ db' = [db EXCEPT ![t][u] = @ + 1]
  /\ UNCHANGED <<view, client, sends, draft, undrawn, shown, faults>>

-----------------------------------------------------------------------------
PageStep ==
  \/ \E p \in Visited : Go(p)
  \/ \E u \in Users : SignIn(u)
  \/ SignOut
  \/ \E u \in Users \cup {Nobody} : Reload(u)

QueryStep ==
  \/ \E q \in Tracked : Serve(q) \/ Load(q) \/ FetchFails(q) \/ Age(q) \/ Collect(q)
  \/ Interval
  \/ Focus

WriteStep ==
  \/ \E k \in Kinds : Submit(k)
  \/ Draw
  \/ Cancel
  \/ DismissSecret
  \/ \E i \in DOMAIN sends : Commit(i) \/ Refuse(i) \/ Succeed(i) \/ Fail(i)

DashNext ==
  \/ PageStep
  \/ QueryStep
  \/ WriteStep
  \/ \E u \in Users, t \in Topics : OtherChange(u, t)

DashSpec == DashInit /\ [][DashNext]_vars

(* The API answers what it is asked, and the timer of the balance runs. *)
FairDashSpec ==
  /\ DashSpec
  /\ WF_vars(Interval)
  /\ \A q \in Tracked : WF_vars(Serve(q) \/ Load(q))

-----------------------------------------------------------------------------
(* Types; and data and answers are a user's, and hold no change of that    *)
(* user's rows that has not been made.                                     *)
DashTypeOK ==
  /\ user \in Users \cup {Nobody} /\ page \in Visited \cup {"login", "overview"}
  /\ \A q \in Tracked :
       /\ cache[q] \in [of : Users \cup {Nobody}, version : Nat,
                        stale : BOOLEAN, invalid : BOOLEAN]
       /\ HasData(q) => cache[q].version <= Rows(db, q, cache[q].of)
       /\ InFlight(q) => /\ fetch[q].of \in Users
                         /\ fetch[q].read <= Rows(db, q, fetch[q].of)
  /\ {draft, undrawn, shown} \subseteq 0..Len(sends)

(* InvalidationHonoured: once a write's success handler has invalidated a  *)
(* query, the page never takes data from before the write for fresh again: *)
(* through navigation, failed refetches, garbage collection and further    *)
(* writes they stay flagged until a fetch that saw the write has replaced  *)
(* them - unless the handler met a fetch it could not cancel.              *)
InvalidationHonoured ==
  \A i \in DOMAIN sends :
    sends[i].client = "succeeded" =>
      \A q \in Matching(sends[i].kind) \ sends[i].outrun :
        cache[q].of = sends[i].of =>
          cache[q].version >= sends[i].at[q] \/ cache[q].invalid

(* BalanceCatchesUp: a user who stays on a page with the balance sees the  *)
(* current one in the end (the hook's toast: "Your balance will update     *)
(* shortly."), whoever changed it, although nothing is pushed to the       *)
(* browser and refetches may fail or be cancelled.                         *)
BalanceCatchesUp ==
  <>[][~PageStep]_vars =>
    <>[](Balance \in Observed =>
           /\ cache[Balance].of = user
           /\ cache[Balance].version = GetBalance(db, user))

(* FormSentOnce: content filled into a form once is committed twice only   *)
(* if its button was pressed twice before the page was drawn again, or     *)
(* after a request of the first press has failed in the browser, refused   *)
(* or its answer lost: nor does a return to the page repeat a write.       *)
(* Nothing else prevents it: each request carries an idempotency key of    *)
(* its own.                                                                *)
FormSentOnce ==
  \A i, j \in DOMAIN sends :
    (/\ i < j /\ HasForm(sends[i].kind) /\ sends[i].form = sends[j].form
     /\ sends[i].server = "committed" /\ sends[j].server = "committed")
      => \/ sends[i].press = sends[j].press
         \/ \E t \in DOMAIN sends : /\ sends[t].press = sends[i].press
                                    /\ sends[t].client = "failed"

(* SecretShownIsLast: whatever rotations and registrations are sent, one   *)
(* after another or together, a page shows a secret that a rotation has    *)
(* replaced at the server only while that rotation's answer is under way,  *)
(* or because it was lost or came to a page left since, or because the two *)
(* answers came in the order opposite to the server's.                     *)
SecretShownIsLast ==
  (shown # 0 /\ sends[shown].next # 0) =>
    (sends[sends[shown].next].told # "no" => sends[shown].told = "late")
=============================================================================
