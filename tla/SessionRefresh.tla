---------------------------- MODULE SessionRefresh ----------------------------
(***************************************************************************)
(* One user's session: the refresh tokens of AuthService, rotated by       *)
(* refresh, and the browser's axios client, which answers a 401 by         *)
(* refreshing and sending the call again.  Each tab keeps its pair of       *)
(* tokens in memory and in the localStorage that all tabs share.           *)
(***************************************************************************)
EXTENDS Integers, FiniteSets

CONSTANTS Tabs,
          Calls,   \* API calls that the tabs may have under way at once
          MaxSends, MaxLogins, MaxLogouts, MaxReloads, MaxFaults   \* bounds

ASSUME SessionAssumption ==
  /\ {MaxSends, MaxLogins, MaxLogouts, MaxReloads, MaxFaults} \subseteq Nat
  /\ IsFiniteSet(Tabs) /\ IsFiniteSet(Calls)

None == 0    \* no pair; pairs are numbered from 1 as they are issued

VARIABLES user,             \* status of the row in users
          issued,           \* pairs issued: their rows in refresh_tokens
          revoked, lapsed,  \* rows with isRevoked, rows past expiresAt
          store, storage,   \* tab -> pair in its memory; pair in localStorage
          call,             \* call -> where the browser is with it
          refresh,          \* call -> the refresh handler it has started
          entry,            \* tab -> registration or login under way
          leave,            \* tab -> logout under way
          adrift,           \* what sign-ins and logouts that no browser waits for
                            \*   have yet to do: pairs to issue, tokens to revoke
          used, cut,        \* history: how often each tab has presented each
                            \*   token; tokens whose answer a reload cut off
          raced,            \* history: how often a handler has accepted a token
                            \*   that another had accepted and not yet revoked
          broken,           \* history: calls whose refresh a fault has broken
          spent             \* used of each bound

browser == <<store, storage, call>>
desk    == <<entry, leave, adrift>>
tokens  == <<issued, revoked>>
history == <<used, cut, raced, broken>>
sessionVars ==
  <<user, tokens, lapsed, browser, refresh, desk, history, spent>>

MaxPairs == MaxLogins + MaxSends
Pairs    == 1..MaxPairs
Issued   == 1..issued
Live     == Issued \ revoked

NoEntry == [at |-> "none", pair |-> None]
NoCall == [pc |-> "idle"]
NoLeave == [at |-> "none", token |-> None]
NoRefresh == [at |-> "none", token |-> None, pair |-> None]

SessionTypeOK ==
  /\ user \in {"none", "PENDING_VERIFICATION", "SUSPENDED"}
  /\ issued \in 0..MaxPairs
  /\ revoked \subseteq Issued /\ lapsed \subseteq Issued
  /\ store \in [Tabs -> Issued \cup {None}] /\ storage \in Issued \cup {None}
  /\ call \in [Calls -> [pc : {"asked", "refreshing", "resend", "asked_again"},
                         tab : Tabs, token : Issued \cup {None}] \cup {NoCall}]
  /\ refresh \in [Calls -> [at : {"none", "find", "revoke", "issue", "answered", "refused"},
                            token : Issued \cup {None}, pair : Issued \cup {None}]]
  /\ entry \in [Tabs -> [at : {"none", "issue", "answered"}, pair : Issued \cup {None}]]
  /\ leave \in [Tabs -> [at : {"none", "sent", "answered"}, token : Issued \cup {None}]]
  /\ adrift \in [issues : Nat, revokes : SUBSET Issued]
  /\ used \in [Pairs -> [Tabs -> Nat]] /\ cut \subseteq Issued
  /\ raced \in Nat /\ broken \subseteq Calls

SessionInit ==
  /\ user \in {"none", "PENDING_VERIFICATION"} /\ issued = 0 /\ revoked = {} /\ lapsed = {}
  /\ store = [t \in Tabs |-> None] /\ storage = None
  /\ call = [c \in Calls |-> NoCall]
  /\ refresh = [c \in Calls |-> NoRefresh]
  /\ entry = [t \in Tabs |-> NoEntry] /\ leave = [t \in Tabs |-> NoLeave]
  /\ adrift = [issues |-> 0, revokes |-> {}]
  /\ used = [n \in Pairs |-> [t \in Tabs |-> 0]] /\ cut = {} /\ raced = 0 /\ broken = {}
  /\ spent = [sends |-> 0, logins |-> 0, logouts |-> 0, reloads |-> 0, faults |-> 0]

Spend(what, max) == spent[what] < max /\ spent' = [spent EXCEPT ![what] = @ + 1]

-----------------------------------------------------------------------------
(* The store: every change of a tab's memory is written to localStorage;    *)
(* no tab notices what another has written until it is reloaded.           *)

SetTokens(t, n) == store' = [store EXCEPT ![t] = n] /\ storage' = n
ClearAuth(t) == SetTokens(t, None)

At(c, pc) == call[c].pc = pc
Goto(c, pc) == call' = [call EXCEPT ![c].pc = pc]
End(c) == call' = [call EXCEPT ![c] = NoCall]
Forget(c) == refresh' = [refresh EXCEPT ![c] = NoRefresh] /\ broken' = broken \ {c}
Break(c) == Spend("faults", MaxFaults) /\ broken' = broken \cup {c}
Tab(c) == call[c].tab
Handler(c, at) == refresh[c].at = at
Present(n, t) == used' = [used EXCEPT ![n][t] = @ + 1]

-----------------------------------------------------------------------------
(* A call of a tab.  A login with a wrong password is one as well.         *)

(* The request interceptor attaches the access token the tab holds. *)
Send(c, t) ==
  /\ At(c, "idle") /\ refresh[c] = NoRefresh
  /\ Spend("sends", MaxSends)
  /\ call' = [call EXCEPT ![c] = [pc |-> "asked", tab |-> t, token |-> store[t]]]
  /\ UNCHANGED <<user, tokens, lapsed, store, storage, refresh, desk, history>>

Allowed(c) ==
  /\ At(c, "asked") \/ At(c, "asked_again")
  /\ call[c].token # None /\ user # "SUSPENDED"
  /\ End(c)
  /\ UNCHANGED <<user, tokens, lapsed, store, storage, refresh, desk, history, spent>>

(* 401: no token, a suspended user, or (the missing guard) an expired one. *)
(* A call that is refused a second time is rejected.                       *)
Mut_AwaitedResend(c) ==
  /\ At(c, "asked_again")
  /\ ClearAuth(Tab(c))
  /\ End(c)
  /\ UNCHANGED <<user, tokens, lapsed, refresh, desk, history, spent>>
DeniedAgain(c) ==
  /\ At(c, "asked_again")
  /\ End(c)
  /\ UNCHANGED <<user, tokens, lapsed, store, storage, refresh, desk, history, spent>>

DeniedSignedOut(c) ==
  /\ At(c, "asked") /\ store[Tab(c)] = None
  /\ ClearAuth(Tab(c))
  /\ End(c)
  /\ UNCHANGED <<user, tokens, lapsed, refresh, desk, history, spent>>

(* The refresh token is the one the tab holds now. *)
StartRefresh(c) ==
  LET n == store[Tab(c)] IN
  /\ At(c, "asked") /\ n # None
  /\ Goto(c, "refreshing")
  /\ refresh' = [refresh EXCEPT ![c] = [at |-> "find", token |-> n, pair |-> None]]
  /\ Present(n, Tab(c))
  /\ UNCHANGED <<user, tokens, lapsed, store, storage, desk, cut, raced, broken, spent>>

Mut_KeepsRefreshToken(c) ==
  /\ At(c, "refreshing") /\ Handler(c, "answered")
  /\ SetTokens(Tab(c), refresh[c].token)
  /\ call' = [call EXCEPT ![c].pc = "resend", ![c].token = refresh[c].pair]
  /\ Forget(c)
  /\ UNCHANGED <<user, tokens, lapsed, desk, used, cut, raced, spent>>
StoreTokens(c) ==
  /\ At(c, "refreshing") /\ Handler(c, "answered")
  /\ SetTokens(Tab(c), refresh[c].pair)
  /\ call' = [call EXCEPT ![c].pc = "resend", ![c].token = refresh[c].pair]
  /\ Forget(c)
  /\ UNCHANGED <<user, tokens, lapsed, desk, used, cut, raced, spent>>

(* The request interceptor runs again, over the header just set. *)
Resend(c) ==
  /\ At(c, "resend")
  /\ call' = [call EXCEPT ![c].pc = "asked_again",
                           ![c].token = IF store[Tab(c)] # None THEN store[Tab(c)] ELSE @]
  /\ UNCHANGED <<user, tokens, lapsed, store, storage, refresh, desk, history, spent>>

(* The catch: any failure of the refresh signs the tab out. *)
RefreshFails(c) ==
  /\ At(c, "refreshing") /\ Handler(c, "refused")
  /\ ClearAuth(Tab(c))
  /\ End(c) /\ Forget(c)
  /\ UNCHANGED <<user, tokens, lapsed, desk, used, cut, raced, spent>>

(* The connection breaks; the handler goes on without the browser. *)
Disconnect(c) ==
  /\ At(c, "refreshing")
  /\ Break(c)
  /\ ClearAuth(Tab(c))
  /\ End(c)
  /\ UNCHANGED <<user, tokens, lapsed, refresh, desk, used, cut, raced>>

-----------------------------------------------------------------------------
(* AuthService.refresh, one step per statement. *)

Accept(c) ==
  /\ refresh' = [refresh EXCEPT ![c].at = "revoke"]
  /\ raced' = IF \E d \in Calls : Handler(d, "revoke") /\ refresh[d].token = refresh[c].token
              THEN raced + 1 ELSE raced
Refuse(c) == refresh' = [refresh EXCEPT ![c].at = "refused"] /\ UNCHANGED raced

Mut_RevokedAccepted(c) ==
  /\ Handler(c, "find")
  /\ IF refresh[c].token \in lapsed THEN Refuse(c) ELSE Accept(c)
  /\ UNCHANGED <<user, tokens, lapsed, browser, desk, used, cut, broken, spent>>
Find(c) ==
  /\ Handler(c, "find")
  /\ IF refresh[c].token \in revoked \cup lapsed THEN Refuse(c) ELSE Accept(c)
  /\ UNCHANGED <<user, tokens, lapsed, browser, desk, used, cut, broken, spent>>

Revoke(c) ==
  /\ Handler(c, "revoke")
  /\ revoked' = revoked \cup {refresh[c].token}
  /\ refresh' = [refresh EXCEPT ![c].at = "issue"]
  /\ UNCHANGED <<user, issued, lapsed, browser, desk, history, spent>>

Issue(c) ==
  /\ Handler(c, "issue")
  /\ issued' = issued + 1
  /\ refresh' = [refresh EXCEPT ![c].at = "answered", ![c].pair = issued']
  /\ UNCHANGED <<user, revoked, lapsed, browser, desk, history, spent>>

(* Nobody waits for the answer any more. *)
Unheard(c) ==
  /\ At(c, "idle")
  /\ Handler(c, "answered") \/ Handler(c, "refused")
  /\ Forget(c)
  /\ UNCHANGED <<user, tokens, lapsed, browser, desk, used, cut, raced, spent>>

(* A statement throws, and perhaps it was made: the browser gets a 500. *)
StatementFails(c) ==
  /\ Handler(c, "find") \/ Handler(c, "revoke") \/ Handler(c, "issue")
  /\ Break(c)
  /\ refresh' = [refresh EXCEPT ![c].at = "refused"]
  /\ \/ UNCHANGED tokens
     \/ Handler(c, "revoke") /\ revoked' = revoked \cup {refresh[c].token} /\ UNCHANGED issued
     \/ Handler(c, "issue") /\ issued' = issued + 1 /\ UNCHANGED revoked
  /\ UNCHANGED <<user, lapsed, browser, desk, used, cut, raced>>

-----------------------------------------------------------------------------
(* Signing in and out. *)

Enter(t) ==
  /\ store[t] = None /\ entry[t] = NoEntry
  /\ entry' = [entry EXCEPT ![t].at = "issue"]
  /\ Spend("logins", MaxLogins)
  /\ UNCHANGED <<tokens, lapsed, browser, refresh, leave, adrift, history>>

Register(t) ==
  /\ user = "none" /\ user' = "PENDING_VERIFICATION"
  /\ Enter(t)

Login(t) ==
  /\ user \notin {"none", "SUSPENDED"} /\ UNCHANGED user
  /\ Enter(t)

IssueFirst(t) ==
  /\ entry[t].at = "issue"
  /\ issued' = issued + 1
  /\ entry' = [entry EXCEPT ![t] = [at |-> "answered", pair |-> issued']]
  /\ UNCHANGED <<user, revoked, lapsed, browser, refresh, leave, adrift, history, spent>>

Entered(t) ==
  /\ entry[t].at = "answered"
  /\ SetTokens(t, entry[t].pair)
  /\ entry' = [entry EXCEPT ![t] = NoEntry]
  /\ UNCHANGED <<user, tokens, lapsed, call, refresh, leave, adrift, history, spent>>

(* Its answer does not come: the request fails, or goes on unwatched. *)
EnterLost(t) ==
  /\ entry[t] # NoEntry
  /\ Spend("faults", MaxFaults)
  /\ entry' = [entry EXCEPT ![t] = NoEntry]
  /\ \/ UNCHANGED adrift
     \/ entry[t].at = "issue" /\ adrift' = [adrift EXCEPT !.issues = @ + 1]
  /\ UNCHANGED <<user, tokens, lapsed, browser, refresh, leave, history>>

(* handleLogout: revoke the token, whatever the answer clear the store. *)
Mut_LogoutUnguarded(t) ==
  /\ leave[t] = NoLeave
  /\ leave' = [leave EXCEPT ![t] = [at |-> "sent", token |-> store[t]]]
  /\ Present(store[t], t)
  /\ Spend("logouts", MaxLogouts)
  /\ UNCHANGED <<user, tokens, lapsed, browser, refresh, entry, adrift, cut, raced, broken>>
Logout(t) ==
  /\ store[t] # None /\ leave[t] = NoLeave
  /\ leave' = [leave EXCEPT ![t] = [at |-> "sent", token |-> store[t]]]
  /\ Present(store[t], t)
  /\ Spend("logouts", MaxLogouts)
  /\ UNCHANGED <<user, tokens, lapsed, browser, refresh, entry, adrift, cut, raced, broken>>

LogoutRevokes(t) ==
  /\ leave[t].at = "sent"
  /\ revoked' = revoked \cup {leave[t].token}
  /\ leave' = [leave EXCEPT ![t].at = "answered"]
  /\ UNCHANGED <<user, issued, lapsed, browser, refresh, entry, adrift, history, spent>>

LogoutLost(t) ==
  /\ leave[t].at = "sent"
  /\ Spend("faults", MaxFaults)
  /\ leave' = [leave EXCEPT ![t].at = "answered"]
  /\ adrift' \in {adrift, [adrift EXCEPT !.revokes = @ \cup {leave[t].token}]}
  /\ UNCHANGED <<user, tokens, lapsed, browser, refresh, entry, history>>

LoggedOut(t) ==
  /\ leave[t].at = "answered"
  /\ ClearAuth(t)
  /\ leave' = [leave EXCEPT ![t] = NoLeave]
  /\ UNCHANGED <<user, tokens, lapsed, call, refresh, entry, adrift, history, spent>>

(* What goes on at the server although no browser waits for it. *)
IssueAdrift ==
  /\ adrift.issues > 0
  /\ issued' = issued + 1
  /\ adrift' = [adrift EXCEPT !.issues = @ - 1]
  /\ UNCHANGED <<user, revoked, lapsed, browser, refresh, entry, leave, history, spent>>

RevokeAdrift ==
  \E n \in adrift.revokes :
    /\ revoked' = revoked \cup {n}
    /\ adrift' = [adrift EXCEPT !.revokes = @ \ {n}]
    /\ UNCHANGED <<user, issued, lapsed, browser, refresh, entry, leave, history, spent>>

-----------------------------------------------------------------------------
(* A tab is reloaded, by its user or by the redirect to the login page;    *)
(* the requests it had sent go on at the server.                           *)

Reload(t) ==
  /\ Spend("reloads", MaxReloads)
  /\ store' = [store EXCEPT ![t] = storage]
  /\ call' = [c \in Calls |-> IF ~At(c, "idle") /\ Tab(c) = t THEN NoCall
                              ELSE call[c]]
  /\ cut' = cut \cup {refresh[c].token : c \in {d \in Calls : At(d, "refreshing") /\ Tab(d) = t}}
                \cup (IF leave[t] = NoLeave THEN {} ELSE {leave[t].token})
  /\ entry' = [entry EXCEPT ![t] = NoEntry]
  /\ leave' = [leave EXCEPT ![t] = NoLeave]
  /\ adrift' = [issues  |-> adrift.issues + (IF entry[t].at = "issue" THEN 1 ELSE 0),
                revokes |-> adrift.revokes \cup
                              (IF leave[t].at = "sent" THEN {leave[t].token} ELSE {})]
  /\ UNCHANGED <<user, tokens, lapsed, storage, refresh, used, raced, broken>>

(* Thirty days pass: every refresh token issued so far is past its date. *)
MonthPasses ==
  /\ lapsed = {}
  /\ lapsed' = Issued
  /\ UNCHANGED <<user, tokens, browser, refresh, desk, history, spent>>

(* Nothing in the repository writes this status; operators do. *)
Suspend ==
  /\ user = "PENDING_VERIFICATION" /\ user' = "SUSPENDED"
  /\ UNCHANGED <<tokens, lapsed, browser, refresh, desk, history, spent>>

-----------------------------------------------------------------------------
CallStep(c) ==
  \/ Allowed(c) \/ DeniedAgain(c) \/ DeniedSignedOut(c) \/ StartRefresh(c)
  \/ StoreTokens(c) \/ Resend(c) \/ RefreshFails(c)

HandlerStep(c) == Find(c) \/ Revoke(c) \/ Issue(c) \/ Unheard(c)

TabStep(t) ==
  \/ Register(t) \/ Login(t) \/ IssueFirst(t) \/ Entered(t) \/ EnterLost(t)
  \/ Logout(t) \/ LogoutRevokes(t) \/ LogoutLost(t) \/ LoggedOut(t) \/ Reload(t)

SessionNext ==
  \/ \E c \in Calls :
       CallStep(c) \/ HandlerStep(c) \/ StatementFails(c) \/ Disconnect(c)
  \/ \E t \in Tabs : TabStep(t) \/ \E c \in Calls : Send(c, t)
  \/ IssueAdrift \/ RevokeAdrift
  \/ MonthPasses \/ Suspend

SessionSpec == SessionInit /\ [][SessionNext]_sessionVars

-----------------------------------------------------------------------------
(* Properties. *)

(* RotationKeepsOne: rotation replaces a token, it never multiplies them:   *)
(* there are at most as many refresh tokens that are not revoked as there  *)
(* were sign-ins, through failing statements, lost connections, logouts    *)
(* and requests that go on without their tab - and one more for each time  *)
(* a handler read a token that another had read and not yet revoked.       *)
RotationKeepsOne == Cardinality(Live) <= spent.logins + raced

(* HeldTokenIsLive: a tab with no refresh or logout under way holds a token *)
(* that is not revoked, in whatever order the answers to its calls came -   *)
(* unless another tab has used it, or a reload has cut off the answer.     *)
Quiet(t) ==
  leave[t] = NoLeave /\ \A c \in Calls : At(c, "refreshing") => Tab(c) # t
HeldTokenIsLive ==
  \A t \in Tabs : Quiet(t) /\ store[t] \in revoked =>
    \/ store[t] \in cut
    \/ \E u \in Tabs \ {t} : used[store[t]][u] > 0

(* SignOutHasCause: a tab loses its tokens only when its logout ends; when *)
(* it is reloaded after another tab has cleared localStorage; or when its  *)
(* refresh fails - because a fault has broken that very refresh, because   *)
(* the token was past its date, or because the token had also been         *)
(* presented by another request, of this tab or of another.                *)
LogoutEnds(t) == leave[t].at = "answered" /\ leave'[t] = NoLeave
Reloaded      == spent'.reloads > spent.reloads
RefreshEnds(c) == At(c, "refreshing") /\ ~At(c, "refreshing")'
Others(n, t)   == \E u \in Tabs : used[n][u] > (IF u = t THEN 1 ELSE 0)
SignOutHasCause ==
  [][\A t \in Tabs : store[t] # None /\ store'[t] = None =>
       \/ LogoutEnds(t)
       \/ Reloaded /\ storage = None
       \/ \E c \in Calls :
            /\ RefreshEnds(c) /\ Tab(c) = t
            /\ \/ c \in broken \cup broken'
               \/ refresh[c].token \in lapsed
               \/ Others(refresh[c].token, t)]_sessionVars
=============================================================================
