------------------------ MODULE SessionRefresh_proofs ------------------------
(***************************************************************************)
(* Proofs about the refresh tokens, for any number of tabs, calls,         *)
(* sign-ins, logouts, reloads and faults.                                  *)
(***************************************************************************)
EXTENDS SessionRefresh, FiniteSetTheorems, TLAPS

SpentOK ==
  spent \in [sends : 0..MaxSends, logins : 0..MaxLogins, logouts : Nat,
             reloads : Nat, faults : Nat]

(* A refresh handler and a logout have a token that was issued, and a call *)
(* that waits for a refresh has its handler.                               *)
HeldInv ==
  /\ \A c \in Calls : ~Handler(c, "none") => refresh[c].token \in Issued
  /\ \A c \in Calls : At(c, "refreshing") => ~Handler(c, "none")
  /\ \A t \in Tabs : leave[t] = NoLeave \/ leave[t].token \in Issued

(* A pair is issued for a sign-in, perhaps of a tab that has gone, or for a *)
(* call that was sent.                                                     *)
Asked    == {c \in Calls : At(c, "asked")}
Busy     == {c \in Calls : refresh[c].at \in {"find", "revoke", "issue"}}
Entering == {t \in Tabs : entry[t].at = "issue"}
IssueInv ==
  issued + Cardinality(Asked) + Cardinality(Busy) + Cardinality(Entering) + adrift.issues
    <= spent.logins + spent.sends

(* A sign-in has one token: a live one that no handler has accepted, one   *)
(* for each handler that has accepted a token, or one that will be issued. *)
(* A handler that accepts a token another has accepted adds one.           *)
Claims   == {refresh[c].token : c \in {d \in Calls : Handler(d, "revoke")}}
Free     == Live \ Claims
Claiming == {c \in Calls : Handler(c, "revoke")}
Issuing  == {c \in Calls : Handler(c, "issue")}
Shares   == Cardinality(Free) + Cardinality(Claiming) + Cardinality(Issuing)
Owed     == Shares + Cardinality(Entering) + adrift.issues
KeepInv  == Owed <= spent.logins + raced

SessionInv == SessionTypeOK /\ SpentOK /\ HeldInv /\ IssueInv /\ KeepInv

-----------------------------------------------------------------------------
(* Counting. *)

LEMMA CardLess ==
  ASSUME NEW S, NEW T, IsFiniteSet(T), S \subseteq T
  PROVE  /\ IsFiniteSet(S) /\ Cardinality(S) <= Cardinality(T)
         /\ Cardinality(S) \in Nat /\ Cardinality(T) \in Nat
  BY FS_Subset, FS_CardinalityType

LEMMA CardGain ==
  ASSUME NEW S, NEW T, NEW x, IsFiniteSet(T), S \subseteq T \cup {x}
  PROVE  /\ IsFiniteSet(S) /\ Cardinality(S) <= Cardinality(T) + 1
         /\ Cardinality(S) \in Nat /\ Cardinality(T) \in Nat
<1>1. Cardinality(T) \in Nat
  BY FS_CardinalityType
<1>2. /\ IsFiniteSet(T \cup {x})
      /\ Cardinality(T \cup {x}) = IF x \in T THEN Cardinality(T) ELSE Cardinality(T) + 1
  BY FS_AddElement
<1>3. Cardinality(T \cup {x}) <= Cardinality(T) + 1
  BY <1>1, <1>2
<1> QED  BY <1>1, <1>2, <1>3, FS_Subset, FS_CardinalityType

LEMMA CardDrop ==
  ASSUME NEW S, NEW T, NEW x \in T, IsFiniteSet(T), S \subseteq T \ {x}
  PROVE  /\ IsFiniteSet(S) /\ Cardinality(S) + 1 <= Cardinality(T)
         /\ Cardinality(S) \in Nat /\ Cardinality(T) \in Nat
<1>1. IsFiniteSet(T \ {x}) /\ Cardinality(T \ {x}) = Cardinality(T) - 1
  BY FS_RemoveElement
<1>2. Cardinality(S) <= Cardinality(T \ {x})
  BY <1>1, FS_Subset
<1> QED  BY <1>1, <1>2, FS_Subset, FS_CardinalityType

LEMMA Finite ==
  ASSUME SessionTypeOK, HeldInv
  PROVE  /\ IsFiniteSet(Asked) /\ IsFiniteSet(Busy) /\ IsFiniteSet(Entering)
         /\ IsFiniteSet(Issuing) /\ IsFiniteSet(Claiming) /\ IsFiniteSet(Free)
         /\ IsFiniteSet(Live)
<1>1. /\ IsFiniteSet(Asked) /\ IsFiniteSet(Busy)
      /\ IsFiniteSet(Issuing) /\ IsFiniteSet(Claiming)
  BY SessionAssumption, FS_Subset DEF Asked, Busy, Issuing, Claiming
<1>2. IsFiniteSet(Entering)
  BY SessionAssumption, FS_Subset DEF Entering
<1>3. issued \in Nat
  BY SessionAssumption DEF SessionTypeOK, MaxPairs
<1>4. IsFiniteSet(Issued)
  BY <1>3, FS_Interval DEF Issued
<1>5. Free \subseteq Issued /\ Live \subseteq Issued
  BY DEF Live, Free
<1> QED  BY <1>1, <1>2, <1>4, <1>5, FS_Subset

-----------------------------------------------------------------------------
(* The bounds are counted. *)

LEMMA SpendFact ==
  ASSUME SpentOK,
         NEW what \in {"sends", "logins", "logouts", "reloads", "faults"}, NEW max,
         Spend(what, max),
         what = "sends" => max = MaxSends, what = "logins" => max = MaxLogins
  PROVE  /\ SpentOK'
         /\ spent'[what] = spent[what] + 1
         /\ what # "sends" => spent'.sends = spent.sends
         /\ what # "logins" => spent'.logins = spent.logins
<1>1. /\ MaxSends \in Nat /\ MaxLogins \in Nat
  BY SessionAssumption
<1>2. /\ spent[what] < max /\ spent' = [spent EXCEPT ![what] = spent[what] + 1]
  BY DEF Spend
<1>3. CASE what = "sends"
  BY <1>1, <1>2, <1>3 DEF SpentOK
<1>4. CASE what = "logins"
  BY <1>1, <1>2, <1>4 DEF SpentOK
<1>5. CASE what = "logouts"
  BY <1>1, <1>2, <1>5 DEF SpentOK
<1>6. CASE what = "reloads"
  BY <1>1, <1>2, <1>6 DEF SpentOK
<1>7. CASE what = "faults"
  BY <1>1, <1>2, <1>7 DEF SpentOK
<1> QED  BY <1>3, <1>4, <1>5, <1>6, <1>7

-----------------------------------------------------------------------------
LEMMA SpentStep ==
  ASSUME SpentOK, [SessionNext]_sessionVars
  PROVE  SpentOK'
<1>1. ASSUME NEW c \in Calls, CallStep(c) \/ HandlerStep(c)  PROVE SpentOK'
  BY <1>1 DEF CallStep, Allowed, DeniedAgain, DeniedSignedOut, StartRefresh, StoreTokens,
       Resend, RefreshFails, HandlerStep, Find, Revoke, Issue, Unheard, SpentOK
<1>2. ASSUME NEW c \in Calls, StatementFails(c) \/ Disconnect(c)  PROVE SpentOK'
  BY <1>2, SpendFact DEF StatementFails, Disconnect, Break
<1>3. ASSUME NEW t \in Tabs, TabStep(t)  PROVE SpentOK'
  <2>1. CASE Register(t) \/ Login(t)
    BY <2>1, SpendFact DEF Register, Login, Enter
  <2>2. CASE Logout(t) \/ LogoutLost(t) \/ EnterLost(t) \/ Reload(t)
    BY <2>2, SpendFact DEF Logout, LogoutLost, EnterLost, Reload
  <2>3. CASE IssueFirst(t) \/ Entered(t) \/ LogoutRevokes(t) \/ LoggedOut(t)
    BY <2>3 DEF IssueFirst, Entered, LogoutRevokes, LoggedOut, SpentOK
  <2> QED  BY <1>3, <2>1, <2>2, <2>3 DEF TabStep
<1>4. ASSUME NEW t \in Tabs, NEW c \in Calls, Send(c, t)  PROVE SpentOK'
  BY <1>4, SpendFact DEF Send
<1>5. CASE \/ IssueAdrift \/ RevokeAdrift
           \/ MonthPasses \/ Suspend \/ UNCHANGED sessionVars
  BY <1>5 DEF IssueAdrift, RevokeAdrift, MonthPasses, Suspend, sessionVars, SpentOK
<1> QED  BY <1>1, <1>2, <1>3, <1>4, <1>5 DEF SessionNext

(* Parts of the types, so that a leaf need not see all of them. *)
HandlerTypes ==
  refresh \in [Calls -> [at : {"none", "find", "revoke", "issue", "answered", "refused"},
                         token : Issued \cup {None}, pair : Issued \cup {None}]]
CallTypes ==
  call \in [Calls -> [pc : {"asked", "refreshing", "resend", "asked_again"},
                      tab : Tabs, token : Issued \cup {None}] \cup {NoCall}]
LeaveTypes ==
  leave \in [Tabs -> [at : {"none", "sent", "answered"}, token : Issued \cup {None}]]

LEMMA Parts ==
  ASSUME SessionTypeOK
  PROVE  /\ issued \in Nat /\ HandlerTypes /\ CallTypes /\ LeaveTypes
         /\ adrift \in [issues : Nat, revokes : SUBSET Issued] /\ raced \in Nat
         /\ store \in [Tabs -> Issued \cup {None}]
  BY SessionAssumption DEF SessionTypeOK, MaxPairs, HandlerTypes, CallTypes, LeaveTypes

LEMMA GotoFact ==
  ASSUME CallTypes, NEW c \in Calls, ~At(c, "idle"), NEW pc, NEW token,
         \/ Goto(c, pc)
         \/ call' = [call EXCEPT ![c].pc = pc, ![c].token = token]
  PROVE  /\ call'[c].pc = pc
         /\ \A d \in Calls \ {c} : call'[d] = call[d]
         /\ Tab(c) \in Tabs
<1>1. call[c] \in [pc : {"asked", "refreshing", "resend", "asked_again"},
                   tab : Tabs, token : Issued \cup {None}]
  BY DEF CallTypes, At, NoCall
<1> QED  BY <1>1 DEF CallTypes, Goto, Tab

LEMMA EndFact ==
  ASSUME CallTypes, NEW c \in Calls, End(c)
  PROVE  /\ call'[c] = NoCall /\ At(c, "idle")'
         /\ \A d \in Calls \ {c} : call'[d] = call[d]
  BY DEF CallTypes, End, NoCall, At

LEMMA HandlerFact ==
  ASSUME HandlerTypes, NEW c \in Calls, NEW at,
         refresh' = [refresh EXCEPT ![c].at = at]
  PROVE  /\ refresh'[c] = [refresh[c] EXCEPT !.at = at]
         /\ refresh'[c].at = at /\ refresh'[c].token = refresh[c].token
         /\ \A d \in Calls \ {c} : refresh'[d] = refresh[d]
  BY DEF HandlerTypes

LEMMA AnswerFact ==
  ASSUME NEW T, NEW n \in T, NEW c \in Calls,
         NEW f \in [Calls -> [at : {"none", "find", "revoke", "issue", "answered", "refused"},
                             token : T, pair : T]]
  PROVE  [f EXCEPT ![c].at = "answered", ![c].pair = n]
           \in [Calls -> [at : {"none", "find", "revoke", "issue", "answered", "refused"},
                         token : T, pair : T]]
  OBVIOUS

LEMMA HeldStep ==
  ASSUME SessionTypeOK, HeldInv, [SessionNext]_sessionVars
  PROVE  HeldInv' /\ Issued \subseteq Issued'
<1>0. /\ issued \in Nat /\ HandlerTypes /\ CallTypes /\ LeaveTypes
      /\ store \in [Tabs -> Issued \cup {None}]
  BY Parts
<1> USE DEF HeldInv
<1>1. ASSUME NEW c \in Calls, CallStep(c)  PROVE HeldInv' /\ Issued \subseteq Issued'
  <2>1. CASE Allowed(c) \/ DeniedAgain(c) \/ DeniedSignedOut(c)
    BY <1>0, <2>1, EndFact DEF Allowed, DeniedAgain, DeniedSignedOut, At, NoCall, Handler,
         tokens, desk, Issued
  <2>2. CASE Resend(c)
    <3>1. call'[c].pc = "asked_again"
      BY <1>0, <2>2, GotoFact DEF Resend, At
    <3>2. \A d \in Calls \ {c} : call'[d] = call[d]
      BY <1>0, <2>2, GotoFact DEF Resend, At
    <3> QED  BY <2>2, <3>1, <3>2 DEF Resend, At, Handler, tokens, desk, Issued
  <2>3. CASE StartRefresh(c)
    <3>1. /\ \A d \in Calls \ {c} : call'[d] = call[d]
          /\ store[Tab(c)] \in Issued
      BY <1>0, <2>3, GotoFact DEF StartRefresh, At
    <3>2. /\ refresh'[c] = [at |-> "find", token |-> store[Tab(c)], pair |-> None]
          /\ \A d \in Calls \ {c} : refresh'[d] = refresh[d]
      BY <1>0, <2>3 DEF StartRefresh, HandlerTypes
    <3>3. Issued' = Issued /\ leave' = leave
      BY <2>3 DEF StartRefresh, tokens, desk, Issued
    <3> QED  BY <3>1, <3>2, <3>3 DEF At, Handler
  <2>4. CASE StoreTokens(c)
    BY <2>4 DEF StoreTokens, Forget, At, Handler, NoRefresh, tokens, desk, Issued, SessionTypeOK
  <2>5. CASE RefreshFails(c)
    BY <2>5 DEF RefreshFails, Forget, End, NoCall, At, Handler, NoRefresh, tokens, desk,
         Issued, SessionTypeOK
  <2> QED  BY <1>1, <2>1, <2>2, <2>3, <2>4, <2>5 DEF CallStep
<1>2. ASSUME NEW c \in Calls, HandlerStep(c)  PROVE HeldInv' /\ Issued \subseteq Issued'
  <2>1. CASE Find(c) \/ Revoke(c)
    <3>1. PICK at \in {"refused", "revoke", "issue"} : refresh' = [refresh EXCEPT ![c].at = at]
      BY <2>1 DEF Find, Accept, Refuse, Revoke
    <3>2. ~Handler(c, "none")
      BY <2>1 DEF Find, Revoke, Handler
    <3>3. Issued' = Issued /\ leave' = leave /\ call' = call
      BY <2>1 DEF Find, Revoke, tokens, browser, desk, Issued
    <3> QED  BY <1>0, <3>1, <3>2, <3>3, HandlerFact DEF At, Handler
  <2>2. CASE Issue(c)
    BY <1>0, <2>2 DEF Issue, At, Handler, browser, desk, Issued, SessionTypeOK
  <2>3. CASE Unheard(c)
    BY <2>3 DEF Unheard, Forget, NoRefresh, At, Handler, tokens, browser, desk, Issued,
         SessionTypeOK
  <2> QED  BY <1>2, <2>1, <2>2, <2>3 DEF HandlerStep
<1>3. ASSUME NEW c \in Calls, StatementFails(c)  PROVE HeldInv' /\ Issued \subseteq Issued'
  <2>1. refresh' = [refresh EXCEPT ![c].at = "refused"] /\ ~Handler(c, "none")
    BY <1>3 DEF StatementFails, Handler
  <2>2. Issued \subseteq Issued' /\ leave' = leave /\ call' = call
    BY <1>0, <1>3 DEF StatementFails, tokens, browser, desk, Issued
  <2> QED  BY <1>0, <2>1, <2>2, HandlerFact DEF At, Handler
<1>4. ASSUME NEW c \in Calls, Disconnect(c)  PROVE HeldInv' /\ Issued \subseteq Issued'
  BY <1>0, <1>4, EndFact DEF Disconnect, NoCall, At, Handler, tokens, desk, Issued
<1>5. ASSUME NEW t \in Tabs, TabStep(t)  PROVE HeldInv' /\ Issued \subseteq Issued'
  <2>1. CASE Register(t) \/ Login(t) \/ Entered(t) \/ EnterLost(t)
    BY <2>1 DEF Register, Login, Enter, Entered, EnterLost, At, Handler, tokens, browser, Issued
  <2>2. CASE IssueFirst(t)
    BY <1>0, <2>2 DEF IssueFirst, At, Handler, browser, Issued
  <2>3. CASE Logout(t)
    <3>1. /\ leave'[t].token \in Issued
          /\ \A u \in Tabs \ {t} : leave'[u] = leave[u]
      BY <1>0, <2>3 DEF Logout, LeaveTypes
    <3>2. Issued' = Issued /\ call' = call /\ refresh' = refresh
      BY <2>3 DEF Logout, tokens, browser, Issued
    <3> QED  BY <3>1, <3>2 DEF At, Handler
  <2>4. CASE LogoutRevokes(t) \/ LogoutLost(t)
    <3>1. leave[t] # NoLeave /\ leave' = [leave EXCEPT ![t].at = "answered"]
      BY <2>4 DEF LogoutRevokes, LogoutLost, NoLeave
    <3>2. /\ leave'[t].token = leave[t].token
          /\ \A u \in Tabs \ {t} : leave'[u] = leave[u]
      BY <1>0, <3>1 DEF LeaveTypes
    <3>3. Issued' = Issued /\ call' = call /\ refresh' = refresh
      BY <2>4 DEF LogoutRevokes, LogoutLost, tokens, browser, Issued
    <3> QED  BY <3>1, <3>2, <3>3 DEF At, Handler
  <2>5. CASE LoggedOut(t)
    BY <2>5 DEF LoggedOut, NoLeave, At, Handler, tokens, Issued, SessionTypeOK
  <2>6. CASE Reload(t)
    BY <2>6 DEF Reload, NoLeave, NoCall, At, Handler, tokens, Issued, SessionTypeOK
  <2> QED  BY <1>5, <2>1, <2>2, <2>3, <2>4, <2>5, <2>6 DEF TabStep
<1>6. ASSUME NEW t \in Tabs, NEW c \in Calls, Send(c, t)
      PROVE  HeldInv' /\ Issued \subseteq Issued'
  BY <1>6 DEF Send, At, Handler, tokens, desk, Issued, SessionTypeOK
<1>7. CASE RevokeAdrift \/ MonthPasses \/ Suspend \/ UNCHANGED sessionVars
  BY <1>7 DEF RevokeAdrift, MonthPasses, Suspend, sessionVars, At, Handler, tokens, browser,
       desk, Issued
<1>8. CASE IssueAdrift
  BY <1>0, <1>8 DEF IssueAdrift, At, Handler, browser, Issued
<1> QED  BY <1>1, <1>2, <1>3, <1>4, <1>5, <1>6, <1>7, <1>8 DEF SessionNext

-----------------------------------------------------------------------------
(* Pairs are issued for sign-ins and calls. *)

LEMMA IssueStep ==
  ASSUME SessionTypeOK, SpentOK, HeldInv, IssueInv, [SessionNext]_sessionVars
  PROVE  IssueInv'
<1> DEFINE A == Cardinality(Asked)
           B == Cardinality(Busy)
           E == Cardinality(Entering)
<1>0. /\ issued \in Nat /\ HandlerTypes /\ CallTypes
      /\ entry \in [Tabs -> [at : {"none", "issue", "answered"}, pair : Issued \cup {None}]]
      /\ spent.logins \in Nat /\ spent.sends \in Nat
      /\ IsFiniteSet(Asked) /\ IsFiniteSet(Busy) /\ IsFiniteSet(Entering)
      /\ A \in Nat /\ B \in Nat /\ E \in Nat
      /\ adrift \in [issues : Nat, revokes : SUBSET Issued] /\ adrift.issues \in Nat
  <2>1. /\ issued \in Nat /\ HandlerTypes /\ CallTypes
        /\ entry \in [Tabs -> [at : {"none", "issue", "answered"}, pair : Issued \cup {None}]]
        /\ adrift \in [issues : Nat, revokes : SUBSET Issued]
    BY Parts DEF SessionTypeOK
  <2>2. spent.logins \in Nat /\ spent.sends \in Nat
    BY SessionAssumption DEF SpentOK
  <2> QED  BY <2>1, <2>2, Finite, FS_CardinalityType
<1>1. ASSUME Asked' \subseteq Asked, Busy' \subseteq Busy, Entering' \subseteq Entering,
             adrift'.issues = adrift.issues,
             issued' = issued, spent'.logins = spent.logins, spent'.sends = spent.sends
      PROVE  IssueInv'
  <2>1. A' <= A /\ B' <= B /\ E' <= E /\ A' \in Nat /\ B' \in Nat /\ E' \in Nat
    BY <1>0, <1>1, CardLess
  <2> QED  BY <1>0, <1>1, <2>1 DEF IssueInv
<1>2. ASSUME NEW c \in Calls, CallStep(c)  PROVE IssueInv'
  <2>1. CASE Allowed(c) \/ DeniedAgain(c) \/ DeniedSignedOut(c)
    <3>1. Asked' \subseteq Asked
      BY <1>0, <2>1, EndFact DEF Allowed, DeniedAgain, DeniedSignedOut, Asked, At, NoCall
    <3> QED  BY <1>1, <2>1, <3>1 DEF Allowed, DeniedAgain, DeniedSignedOut, tokens, desk,
               Busy, Entering
  <2>2. CASE Resend(c)
    <3>0. ~At(c, "idle") /\ c \notin Asked
      BY <2>2 DEF Resend, At, Asked
    <3>a. call'[c].pc = "asked_again" /\ \A d \in Calls \ {c} : call'[d] = call[d]
      BY <1>0, <2>2, <3>0, GotoFact DEF Resend
    <3>1. Asked' \subseteq Asked
      BY <3>a DEF Asked, At
    <3> QED  BY <1>1, <2>2, <3>1 DEF Resend, tokens, desk, Busy, Entering
  <2>3. CASE StartRefresh(c)
    <3>a. call'[c].pc = "refreshing" /\ \A d \in Calls \ {c} : call'[d] = call[d]
      BY <1>0, <2>3, GotoFact DEF StartRefresh, At
    <3>1. Asked' \subseteq Asked \ {c} /\ c \in Asked
      BY <2>3, <3>a DEF StartRefresh, Asked, At
    <3>2. Busy' \subseteq Busy \cup {c}
      BY <1>0, <2>3 DEF StartRefresh, Busy, HandlerTypes
    <3>3. Entering' = Entering /\ issued' = issued /\ spent' = spent /\ adrift' = adrift
      BY <2>3 DEF StartRefresh, tokens, desk, Entering
    <3>4. A' + 1 <= A /\ B' <= B + 1 /\ A' \in Nat /\ B' \in Nat
      BY <1>0, <3>1, <3>2, CardDrop, CardGain
    <3> QED  BY <1>0, <3>3, <3>4 DEF IssueInv
  <2>4. CASE StoreTokens(c)
    <3>0. ~At(c, "idle") /\ c \notin Asked
      BY <2>4 DEF StoreTokens, At, Asked
    <3>a. call'[c].pc = "resend" /\ \A d \in Calls \ {c} : call'[d] = call[d]
      BY <1>0, <2>4, <3>0, GotoFact DEF StoreTokens
    <3>1. Asked' \subseteq Asked
      BY <3>a DEF Asked, At
    <3>2. Busy' \subseteq Busy
      BY <1>0, <2>4 DEF StoreTokens, Forget, NoRefresh, Busy, HandlerTypes
    <3> QED  BY <1>1, <2>4, <3>1, <3>2 DEF StoreTokens, tokens, desk, Entering
  <2>5. CASE RefreshFails(c)
    <3>1. Asked' \subseteq Asked
      BY <1>0, <2>5, EndFact DEF RefreshFails, Asked, At, NoCall
    <3>2. Busy' \subseteq Busy
      BY <1>0, <2>5 DEF RefreshFails, Forget, NoRefresh, Busy, HandlerTypes
    <3> QED  BY <1>1, <2>5, <3>1, <3>2 DEF RefreshFails, tokens, desk, Entering
  <2> QED  BY <1>2, <2>1, <2>2, <2>3, <2>4, <2>5 DEF CallStep
<1>3. ASSUME NEW c \in Calls, HandlerStep(c)  PROVE IssueInv'
  <2>1. CASE Find(c) \/ Revoke(c)
    <3>1. PICK at \in {"refused", "revoke", "issue"} : refresh' = [refresh EXCEPT ![c].at = at]
      BY <2>1 DEF Find, Accept, Refuse, Revoke
    <3>2. Busy' \subseteq Busy
      BY <1>0, <2>1, <3>1, HandlerFact DEF Find, Revoke, Handler, Busy
    <3> QED  BY <1>1, <2>1, <3>2 DEF Find, Revoke, tokens, browser, desk, Asked, At, Entering
  <2>2. CASE Issue(c)
    <3>1. Busy' \subseteq Busy \ {c} /\ c \in Busy
      BY <1>0, <2>2 DEF Issue, Handler, Busy, HandlerTypes
    <3>2. B' + 1 <= B /\ B' \in Nat
      BY <1>0, <3>1, CardDrop
    <3>3. /\ issued' = issued + 1 /\ Asked' = Asked /\ Entering' = Entering
          /\ spent' = spent /\ adrift' = adrift
      BY <2>2 DEF Issue, browser, desk, Asked, At, Entering
    <3> QED  BY <1>0, <3>2, <3>3 DEF IssueInv
  <2>3. CASE Unheard(c)
    <3>1. Busy' \subseteq Busy
      BY <1>0, <2>3 DEF Unheard, Forget, NoRefresh, Busy, HandlerTypes
    <3> QED  BY <1>1, <2>3, <3>1 DEF Unheard, tokens, browser, desk, Asked, At, Entering
  <2> QED  BY <1>3, <2>1, <2>2, <2>3 DEF HandlerStep
<1>4. ASSUME NEW c \in Calls, StatementFails(c)  PROVE IssueInv'
  <2>1. Busy' \subseteq Busy \ {c} /\ c \in Busy
    <3>1. refresh' = [refresh EXCEPT ![c].at = "refused"]
      BY <1>4 DEF StatementFails
    <3>2. refresh'[c].at = "refused" /\ \A d \in Calls \ {c} : refresh'[d] = refresh[d]
      BY <1>0, <3>1, HandlerFact
    <3>3. c \in Busy
      BY <1>4 DEF StatementFails, Handler, Busy
    <3> QED  BY <3>2, <3>3 DEF Busy
  <2>2. B' + 1 <= B /\ B' \in Nat
    BY <1>0, <2>1, CardDrop
  <2>3. spent'.logins = spent.logins /\ spent'.sends = spent.sends
    BY <1>4, SpendFact DEF StatementFails, Break
  <2>4. /\ issued' \in {issued, issued + 1} /\ Asked' = Asked /\ Entering' = Entering
        /\ adrift' = adrift
    BY <1>4 DEF StatementFails, tokens, browser, desk, Asked, At, Entering
  <2> QED  BY <1>0, <2>2, <2>3, <2>4 DEF IssueInv
<1>5. ASSUME NEW c \in Calls, Disconnect(c)  PROVE IssueInv'
  <2>1. Asked' \subseteq Asked
    BY <1>0, <1>5, EndFact DEF Disconnect, Asked, At, NoCall
  <2>2. spent'.logins = spent.logins /\ spent'.sends = spent.sends
    BY <1>5, SpendFact DEF Disconnect, Break
  <2> QED  BY <1>1, <1>5, <2>1, <2>2 DEF Disconnect, tokens, desk, Busy, Entering
<1>6. ASSUME NEW t \in Tabs, TabStep(t)  PROVE IssueInv'
  <2>1. CASE Register(t) \/ Login(t)
    <3>1. Entering' \subseteq Entering \cup {t}
      BY <1>0, <2>1 DEF Register, Login, Enter, Entering
    <3>2. E' <= E + 1 /\ E' \in Nat
      BY <1>0, <3>1, CardGain
    <3>3. spent'.logins = spent.logins + 1 /\ spent'.sends = spent.sends
      BY <2>1, SpendFact DEF Register, Login, Enter
    <3>4. issued' = issued /\ Asked' = Asked /\ Busy' = Busy /\ adrift' = adrift
      BY <2>1 DEF Register, Login, Enter, tokens, browser, Asked, At, Busy
    <3> QED  BY <1>0, <3>2, <3>3, <3>4 DEF IssueInv
  <2>2. CASE IssueFirst(t)
    <3>1. Entering' \subseteq Entering \ {t} /\ t \in Entering
      BY <1>0, <2>2 DEF IssueFirst, Entering
    <3>2. E' + 1 <= E /\ E' \in Nat
      BY <1>0, <3>1, CardDrop
    <3>3. /\ issued' = issued + 1 /\ Asked' = Asked /\ Busy' = Busy
          /\ spent' = spent /\ adrift' = adrift
      BY <2>2 DEF IssueFirst, browser, Asked, At, Busy
    <3> QED  BY <1>0, <3>2, <3>3 DEF IssueInv
  <2>3. CASE Entered(t)
    <3>1. Entering' \subseteq Entering
      BY <1>0, <2>3 DEF Entered, NoEntry, Entering
    <3> QED  BY <1>1, <2>3, <3>1 DEF Entered, tokens, Asked, At, Busy
  <2>4. CASE Logout(t) \/ LogoutLost(t)
    <3>1. spent'.logins = spent.logins /\ spent'.sends = spent.sends
      BY <2>4, SpendFact DEF Logout, LogoutLost
    <3>2. adrift'.issues = adrift.issues
      BY <1>0, <2>4 DEF Logout, LogoutLost
    <3> QED  BY <1>1, <2>4, <3>1, <3>2 DEF Logout, LogoutLost, tokens, browser, Asked, At, Busy,
               Entering
  <2>5. CASE LogoutRevokes(t) \/ LoggedOut(t)
    BY <1>1, <2>5 DEF LogoutRevokes, LoggedOut, tokens, browser, Asked, At, Busy, Entering
  <2>6. CASE Reload(t)
    <3>1. spent'.logins = spent.logins /\ spent'.sends = spent.sends
      BY <2>6, SpendFact DEF Reload
    <3>2. A' <= A /\ A' \in Nat
      <4>1. Asked' \subseteq Asked
        BY <2>6 DEF Reload, Asked, At, NoCall
      <4> QED  BY <1>0, <4>1, CardLess
    <3>3. CASE t \notin Entering
      <4>1. Entering' \subseteq Entering /\ adrift'.issues = adrift.issues
        BY <1>0, <2>6, <3>3 DEF Reload, NoEntry, Entering
      <4>2. Asked' \subseteq Asked
        BY <2>6 DEF Reload, Asked, At, NoCall
      <4> QED  BY <1>1, <2>6, <3>1, <4>1, <4>2 DEF Reload, tokens, Busy
    <3>4. CASE t \in Entering
      <4>1. Entering' \subseteq Entering \ {t} /\ adrift'.issues = adrift.issues + 1
        BY <1>0, <2>6, <3>4 DEF Reload, NoEntry, Entering
      <4>2. E' + 1 <= E /\ E' \in Nat
        BY <1>0, <3>4, <4>1, CardDrop
      <4>3. issued' = issued /\ Busy' = Busy
        BY <2>6 DEF Reload, tokens, Busy
      <4> QED  BY <1>0, <3>1, <3>2, <4>1, <4>2, <4>3 DEF IssueInv
    <3> QED  BY <3>3, <3>4
  <2>7. CASE EnterLost(t)
    <3>1. spent'.logins = spent.logins /\ spent'.sends = spent.sends
      BY <2>7, SpendFact DEF EnterLost
    <3>2. issued' = issued /\ Busy' = Busy /\ Asked' = Asked
      BY <2>7 DEF EnterLost, tokens, browser, Busy, Asked, At
    <3>3. CASE adrift' = adrift
      <4>1. Entering' \subseteq Entering
        BY <1>0, <2>7 DEF EnterLost, NoEntry, Entering
      <4> QED  BY <1>1, <3>1, <3>2, <3>3, <4>1
    <3>4. CASE t \in Entering /\ adrift'.issues = adrift.issues + 1
      <4>1. Entering' \subseteq Entering \ {t}
        BY <1>0, <2>7 DEF EnterLost, NoEntry, Entering
      <4>2. E' + 1 <= E /\ E' \in Nat
        BY <1>0, <3>4, <4>1, CardDrop
      <4> QED  BY <1>0, <3>1, <3>2, <3>4, <4>2 DEF IssueInv
    <3> QED  BY <1>0, <2>7, <3>3, <3>4 DEF EnterLost, Entering
  <2> QED  BY <1>6, <2>1, <2>2, <2>3, <2>4, <2>5, <2>6, <2>7 DEF TabStep
<1>7. ASSUME NEW t \in Tabs, NEW c \in Calls, Send(c, t)  PROVE IssueInv'
  <2>1. Asked' \subseteq Asked \cup {c}
    BY <1>0, <1>7 DEF Send, Asked, At, CallTypes
  <2>2. A' <= A + 1 /\ A' \in Nat
    BY <1>0, <2>1, CardGain
  <2>3. spent'.sends = spent.sends + 1 /\ spent'.logins = spent.logins
    BY <1>7, SpendFact DEF Send
  <2>4. issued' = issued /\ Busy' = Busy /\ Entering' = Entering /\ adrift' = adrift
    BY <1>7 DEF Send, tokens, desk, Busy, Entering
  <2> QED  BY <1>0, <2>2, <2>3, <2>4 DEF IssueInv
<1>8. CASE MonthPasses \/ Suspend \/ UNCHANGED sessionVars
  BY <1>1, <1>8 DEF MonthPasses, Suspend, sessionVars, tokens, browser, desk, Asked, At,
       Busy, Entering
<1>9. CASE IssueAdrift \/ RevokeAdrift
  <2>1. /\ Asked' = Asked /\ Busy' = Busy /\ Entering' = Entering /\ spent' = spent
        /\ issued' + adrift'.issues = issued + adrift.issues
    BY <1>0, <1>9 DEF IssueAdrift, RevokeAdrift, browser, Asked, At, Busy, Entering
  <2>2. issued' \in Nat /\ adrift'.issues \in Int
    BY <1>0, <1>9 DEF IssueAdrift, RevokeAdrift
  <2> QED  BY <1>0, <2>1, <2>2 DEF IssueInv
<1> QED  BY <1>2, <1>3, <1>4, <1>5, <1>6, <1>7, <1>8, <1>9 DEF SessionNext

-----------------------------------------------------------------------------
(* Each sign-in keeps one token. *)

LEMMA RaceStays ==
  ASSUME SessionTypeOK, [SessionNext]_sessionVars
  PROVE  raced' \in {raced, raced + 1}
<1>1. ASSUME NEW c \in Calls, Find(c)  PROVE raced' \in {raced, raced + 1}
  <2>1. CASE Accept(c)
    <3>1. raced' = raced \/ raced' = raced + 1
      BY <2>1, Zenon DEF Accept
    <3> QED  BY <3>1
  <2>2. CASE Refuse(c)
    BY <2>2 DEF Refuse
  <2> QED  BY <1>1, <2>1, <2>2, Zenon DEF Find
<1>2. raced' = raced \/ \E c \in Calls : Find(c)
  BY DEF SessionNext, sessionVars, history, CallStep, Allowed, DeniedAgain, DeniedSignedOut,
     StartRefresh, StoreTokens, Resend, RefreshFails, HandlerStep, Revoke, Issue, Unheard,
     StatementFails, Disconnect, TabStep, Register, Login, Enter, IssueFirst, Entered, EnterLost,
     Logout, LogoutRevokes, LogoutLost, LoggedOut, Reload, Send, IssueAdrift, RevokeAdrift,
     MonthPasses, Suspend
<1> QED  BY <1>1, <1>2

LEMMA ShareTypes ==
  ASSUME SessionTypeOK, HeldInv
  PROVE  /\ Cardinality(Free) \in Nat /\ Cardinality(Claiming) \in Nat
         /\ Cardinality(Issuing) \in Nat /\ Shares \in Nat
<1>1. /\ Cardinality(Free) \in Nat /\ Cardinality(Claiming) \in Nat
      /\ Cardinality(Issuing) \in Nat
  BY Finite, FS_CardinalityType
<1> QED  BY <1>1 DEF Shares

(* No handler moves, and no token is added. *)
LEMMA SharesStay ==
  ASSUME SessionTypeOK, HeldInv,
         refresh' = refresh, issued' = issued, revoked \subseteq revoked'
  PROVE  Shares' \in Nat /\ Shares' <= Shares
<1>1. Claims' = Claims /\ Issuing' = Issuing /\ Claiming' = Claiming
  BY DEF Claims, Issuing, Claiming, Handler
<1>2. Free' \subseteq Free
  BY <1>1 DEF Free, Live, Issued
<1>3. Cardinality(Free') <= Cardinality(Free) /\ Cardinality(Free') \in Nat
  BY <1>2, Finite, CardLess
<1> QED  BY <1>1, <1>3, ShareTypes DEF Shares

(* A pair is issued for a sign-in. *)
LEMMA SharesGain ==
  ASSUME SessionTypeOK, HeldInv,
         refresh' = refresh, issued' = issued + 1, revoked' = revoked
  PROVE  Shares' \in Nat /\ Shares' <= Shares + 1
<1>1. Claims' = Claims /\ Issuing' = Issuing /\ Claiming' = Claiming
  BY DEF Claims, Issuing, Claiming, Handler
<1>2. Free' \subseteq Free \cup {issued + 1}
  BY <1>1, Parts DEF Free, Live, Issued
<1>3. Cardinality(Free') <= Cardinality(Free) + 1 /\ Cardinality(Free') \in Nat
  BY <1>2, Finite, CardGain
<1> QED  BY <1>1, <1>3, ShareTypes DEF Shares

(* A handler that starts or comes to an end owes nothing; the token it had *)
(* accepted may be as live as before.                                      *)
LEMMA SharesEnd ==
  ASSUME SessionTypeOK, HeldInv,
         NEW c \in Calls, refresh'[c].at \notin {"revoke", "issue"},
         \A d \in Calls \ {c} : refresh'[d] = refresh[d],
         issued' = issued, revoked \subseteq revoked'
  PROVE  Shares' \in Nat /\ Shares' <= Shares
<1> DEFINE n == refresh[c].token
<1>1. Issuing' \subseteq Issuing
  BY DEF Issuing, Handler
<1>2. Cardinality(Issuing') <= Cardinality(Issuing) /\ Cardinality(Issuing') \in Nat
  BY <1>1, Finite, CardLess
<1>3. CASE Handler(c, "revoke")
  <2>1. Claims \subseteq Claims' \cup {n} /\ Claiming' \subseteq Claiming \ {c} /\ c \in Claiming
    BY <1>3 DEF Claims, Claiming, Handler
  <2>2. Free' \subseteq Free \cup {n}
    BY <2>1 DEF Free, Live, Issued
  <2>3. Cardinality(Free') <= Cardinality(Free) + 1 /\ Cardinality(Free') \in Nat
    BY <2>2, Finite, CardGain
  <2>4. Cardinality(Claiming') + 1 <= Cardinality(Claiming) /\ Cardinality(Claiming') \in Nat
    BY <2>1, Finite, CardDrop
  <2> QED  BY <1>2, <2>3, <2>4, ShareTypes DEF Shares
<1>4. CASE ~Handler(c, "revoke")
  <2>1. Claims' = Claims /\ Claiming' = Claiming
    BY <1>4 DEF Claims, Claiming, Handler
  <2>2. Free' \subseteq Free
    BY <2>1 DEF Free, Live, Issued
  <2>3. Cardinality(Free') <= Cardinality(Free) /\ Cardinality(Free') \in Nat
    BY <2>2, Finite, CardLess
  <2> QED  BY <1>2, <2>1, <2>3, ShareTypes DEF Shares
<1> QED  BY <1>3, <1>4

(* A handler accepts a token: nothing is added but by a race. *)
LEMMA SharesAccept ==
  ASSUME SessionTypeOK, HeldInv, NEW c \in Calls, Find(c), Accept(c),
         refresh[c].token \notin revoked
  PROVE  /\ Shares' \in Nat
         /\ \/ Shares' <= Shares /\ raced' = raced
            \/ Shares' <= Shares + 1 /\ raced' = raced + 1
<1> DEFINE n == refresh[c].token
<1>0. /\ HandlerTypes /\ raced \in Nat
  BY Parts
<1>1. /\ refresh'[c].at = "revoke" /\ refresh'[c].token = n
      /\ \A d \in Calls \ {c} : refresh'[d] = refresh[d]
  BY <1>0, HandlerFact DEF Accept
<1>2. Handler(c, "find") /\ issued' = issued /\ revoked' = revoked
  BY DEF Find, tokens
<1>3. Claims' = Claims \cup {n} /\ Claiming' \subseteq Claiming \cup {c} /\ Issuing' = Issuing
  BY <1>1, <1>2 DEF Claims, Claiming, Issuing, Handler
<1>4. Cardinality(Claiming') <= Cardinality(Claiming) + 1 /\ Cardinality(Claiming') \in Nat
  BY <1>3, Finite, CardGain
<1>5. CASE n \in Claims
  <2>1. raced' = raced + 1
    <3>1. \E d \in Calls : Handler(d, "revoke") /\ refresh[d].token = refresh[c].token
      BY <1>5 DEF Claims
    <3> QED  BY <3>1, Zenon DEF Accept
  <2>2. Free' = Free
    BY <1>2, <1>3, <1>5 DEF Free, Live, Issued
  <2> QED  BY <1>0, <1>3, <1>4, <2>1, <2>2, ShareTypes DEF Shares
<1>6. CASE n \notin Claims
  <2>1. raced' = raced
    <3>1. ~\E d \in Calls : Handler(d, "revoke") /\ refresh[d].token = refresh[c].token
      BY <1>6 DEF Claims
    <3> QED  BY <3>1, Zenon DEF Accept
  <2>2. n \in Free /\ Free' \subseteq Free \ {n}
    BY <1>2, <1>3, <1>6 DEF Free, Live, Issued, HeldInv, Handler
  <2>3. Cardinality(Free') + 1 <= Cardinality(Free) /\ Cardinality(Free') \in Nat
    BY <2>2, Finite, CardDrop
  <2> QED  BY <1>0, <1>3, <1>4, <2>1, <2>3, ShareTypes DEF Shares
<1> QED  BY <1>5, <1>6

(* The token is revoked: its handler owes a pair instead. *)
LEMMA SharesRevoke ==
  ASSUME SessionTypeOK, HeldInv, NEW c \in Calls, Revoke(c)
  PROVE  Shares' \in Nat /\ Shares' <= Shares
<1> DEFINE n == refresh[c].token
<1>1. /\ refresh'[c].at = "issue" /\ \A d \in Calls \ {c} : refresh'[d] = refresh[d]
      /\ Handler(c, "revoke") /\ issued' = issued /\ revoked' = revoked \cup {n}
  BY Parts, HandlerFact DEF Revoke
<1>2. /\ Claims \subseteq Claims' \cup {n} /\ Claiming' \subseteq Claiming \ {c} /\ c \in Claiming
      /\ Issuing' \subseteq Issuing \cup {c}
  BY <1>1 DEF Claims, Claiming, Issuing, Handler
<1>3. Free' \subseteq Free
  BY <1>1, <1>2 DEF Free, Live, Issued
<1>4. Cardinality(Free') <= Cardinality(Free) /\ Cardinality(Free') \in Nat
  BY <1>3, Finite, CardLess
<1>5. Cardinality(Claiming') + 1 <= Cardinality(Claiming) /\ Cardinality(Claiming') \in Nat
  BY <1>2, Finite, CardDrop
<1>6. Cardinality(Issuing') <= Cardinality(Issuing) + 1 /\ Cardinality(Issuing') \in Nat
  BY <1>2, Finite, CardGain
<1> QED  BY <1>4, <1>5, <1>6, ShareTypes DEF Shares

(* The pair is issued, and answered or lost. *)
LEMMA SharesIssue ==
  ASSUME SessionTypeOK, HeldInv, NEW c \in Calls, Handler(c, "issue"),
         refresh'[c].at \notin {"revoke", "issue"},
         \A d \in Calls \ {c} : refresh'[d] = refresh[d],
         issued' = issued + 1, revoked' = revoked
  PROVE  Shares' \in Nat /\ Shares' <= Shares
<1>1. /\ Claims' = Claims /\ Claiming' = Claiming
      /\ Issuing' \subseteq Issuing \ {c} /\ c \in Issuing
  BY DEF Claims, Claiming, Issuing, Handler
<1>2. Free' \subseteq Free \cup {issued + 1}
  BY <1>1, Parts DEF Free, Live, Issued
<1>3. Cardinality(Free') <= Cardinality(Free) + 1 /\ Cardinality(Free') \in Nat
  BY <1>2, Finite, CardGain
<1>4. Cardinality(Issuing') + 1 <= Cardinality(Issuing) /\ Cardinality(Issuing') \in Nat
  BY <1>1, Finite, CardDrop
<1> QED  BY <1>1, <1>3, <1>4, ShareTypes DEF Shares

LEMMA KeepStep ==
  ASSUME SessionTypeOK, SpentOK, HeldInv, KeepInv, [SessionNext]_sessionVars
  PROVE  KeepInv'
<1> DEFINE E == Cardinality(Entering)
           A == adrift.issues
<1>0. /\ issued \in Nat /\ HandlerTypes /\ raced \in Nat
      /\ adrift \in [issues : Nat, revokes : SUBSET Issued] /\ A \in Nat
      /\ entry \in [Tabs -> [at : {"none", "issue", "answered"}, pair : Issued \cup {None}]]
      /\ spent.logins \in Nat /\ IsFiniteSet(Entering) /\ E \in Nat /\ Shares \in Nat
  <2>1. /\ issued \in Nat /\ HandlerTypes /\ raced \in Nat
        /\ adrift \in [issues : Nat, revokes : SUBSET Issued] /\ A \in Nat
        /\ entry \in [Tabs -> [at : {"none", "issue", "answered"}, pair : Issued \cup {None}]]
    BY Parts DEF SessionTypeOK
  <2>2. spent.logins \in Nat
    BY SessionAssumption DEF SpentOK
  <2>3. IsFiniteSet(Entering) /\ E \in Nat
    BY Finite, FS_CardinalityType
  <2> QED  BY <2>1, <2>2, <2>3, ShareTypes
<1>a. Shares + E + A <= spent.logins + raced
  BY DEF KeepInv, Owed
<1>b. raced' \in Nat /\ raced <= raced'
  BY <1>0, RaceStays
<1>1. ASSUME Shares' \in Nat, Shares' <= Shares, Entering' = Entering,
             adrift'.issues = adrift.issues, spent'.logins = spent.logins
      PROVE  KeepInv'
  <2>1. E' = E
    BY <1>1
  <2> QED  BY <1>0, <1>a, <1>b, <1>1, <2>1 DEF KeepInv, Owed
<1>2. ASSUME NEW c \in Calls, CallStep(c)  PROVE KeepInv'
  <2>0. Entering' = Entering /\ spent' = spent /\ tokens' = tokens /\ adrift' = adrift
    BY <1>2 DEF CallStep, Allowed, DeniedAgain, DeniedSignedOut, StartRefresh, StoreTokens,
         Resend, RefreshFails, desk, Entering
  <2>1. CASE Allowed(c) \/ DeniedAgain(c) \/ DeniedSignedOut(c) \/ Resend(c)
    <3>1. refresh' = refresh
      BY <2>1 DEF Allowed, DeniedAgain, DeniedSignedOut, Resend
    <3>2. Shares' \in Nat /\ Shares' <= Shares
      BY <2>0, <3>1, SharesStay DEF tokens
    <3> QED  BY <1>1, <2>0, <3>2
  <2>2. CASE StartRefresh(c) \/ StoreTokens(c) \/ RefreshFails(c)
    <3>1. /\ refresh'[c].at \in {"find", "none"}
          /\ \A d \in Calls \ {c} : refresh'[d] = refresh[d]
      BY <1>0, <2>2 DEF StartRefresh, StoreTokens, RefreshFails, Forget, NoRefresh, HandlerTypes
    <3>2. Shares' \in Nat /\ Shares' <= Shares
      BY <2>0, <3>1, SharesEnd DEF tokens
    <3> QED  BY <1>1, <2>0, <3>2
  <2> QED  BY <1>2, <2>1, <2>2 DEF CallStep
<1>3. ASSUME NEW c \in Calls, HandlerStep(c)  PROVE KeepInv'
  <2>0. Entering' = Entering /\ spent' = spent /\ adrift' = adrift
    BY <1>3 DEF HandlerStep, Find, Revoke, Issue, Unheard, desk, Entering
  <2>1. CASE Find(c)
    <3>1. CASE Refuse(c)
      <4>1. refresh'[c].at = "refused" /\ \A d \in Calls \ {c} : refresh'[d] = refresh[d]
        BY <1>0, <3>1, HandlerFact DEF Refuse
      <4>2. Shares' \in Nat /\ Shares' <= Shares
        BY <2>1, <4>1, SharesEnd DEF Find, tokens
      <4> QED  BY <1>1, <2>0, <4>2
    <3>2. CASE Accept(c) /\ refresh[c].token \notin revoked
      <4>1. /\ Shares' \in Nat
            /\ \/ Shares' <= Shares /\ raced' = raced
               \/ Shares' <= Shares + 1 /\ raced' = raced + 1
        BY <2>1, <3>2, SharesAccept
      <4>2. E' = E /\ A' = A /\ spent'.logins = spent.logins
        BY <2>0
      <4> QED  BY <1>0, <1>a, <1>b, <4>1, <4>2 DEF KeepInv, Owed
    <3> QED  BY <2>1, <3>1, <3>2, Zenon DEF Find
  <2>2. CASE Revoke(c)
    BY <1>1, <2>0, <2>2, SharesRevoke
  <2>3. CASE Issue(c)
    <3>1. /\ refresh'[c].at = "answered" /\ \A d \in Calls \ {c} : refresh'[d] = refresh[d]
          /\ Handler(c, "issue") /\ issued' = issued + 1 /\ revoked' = revoked
      BY <1>0, <2>3 DEF Issue, HandlerTypes
    <3>2. Shares' \in Nat /\ Shares' <= Shares
      BY <3>1, SharesIssue
    <3> QED  BY <1>1, <2>0, <3>2
  <2>4. CASE Unheard(c)
    <3>1. /\ refresh'[c].at = "none" /\ \A d \in Calls \ {c} : refresh'[d] = refresh[d]
          /\ issued' = issued /\ revoked' = revoked
      BY <1>0, <2>4 DEF Unheard, Forget, NoRefresh, HandlerTypes, tokens
    <3>2. Shares' \in Nat /\ Shares' <= Shares
      BY <3>1, SharesEnd
    <3> QED  BY <1>1, <2>0, <3>2
  <2> QED  BY <1>3, <2>1, <2>2, <2>3, <2>4 DEF HandlerStep
<1>4. ASSUME NEW c \in Calls, StatementFails(c)  PROVE KeepInv'
  <2>1. refresh' = [refresh EXCEPT ![c].at = "refused"]
    BY <1>4 DEF StatementFails
  <2>2. refresh'[c].at = "refused" /\ \A d \in Calls \ {c} : refresh'[d] = refresh[d]
    BY <1>0, <2>1, HandlerFact
  <2>3. Shares' \in Nat /\ Shares' <= Shares
    <3>1. CASE issued' = issued /\ revoked \subseteq revoked'
      BY <2>2, <3>1, SharesEnd
    <3>2. CASE Handler(c, "issue") /\ issued' = issued + 1 /\ revoked' = revoked
      BY <2>2, <3>2, SharesIssue
    <3> QED  BY <1>4, <3>1, <3>2 DEF StatementFails, tokens
  <2>4. spent'.logins = spent.logins
    BY <1>4, SpendFact DEF StatementFails, Break
  <2>5. Entering' = Entering /\ adrift' = adrift
    BY <1>4 DEF StatementFails, desk, Entering
  <2> QED  BY <1>1, <2>3, <2>4, <2>5
<1>5. ASSUME NEW c \in Calls, NEW t \in Tabs, Send(c, t)  PROVE KeepInv'
  <2>1. spent'.logins = spent.logins
    BY <1>5, SpendFact DEF Send
  <2>2. /\ refresh' = refresh /\ issued' = issued /\ revoked' = revoked
        /\ Entering' = Entering /\ adrift' = adrift
    BY <1>5 DEF Send, tokens, desk, Entering
  <2>3. Shares' \in Nat /\ Shares' <= Shares
    BY <2>2, SharesStay
  <2> QED  BY <1>1, <2>1, <2>2, <2>3
<1>6. ASSUME NEW t \in Tabs, TabStep(t)  PROVE KeepInv'
  <2>1. CASE Register(t) \/ Login(t)
    <3>1. Entering' \subseteq Entering \cup {t}
      BY <1>0, <2>1 DEF Register, Login, Enter, Entering
    <3>2. E' <= E + 1 /\ E' \in Nat
      BY <1>0, <3>1, CardGain
    <3>3. spent'.logins = spent.logins + 1
      BY <2>1, SpendFact DEF Register, Login, Enter
    <3>4. refresh' = refresh /\ issued' = issued /\ revoked' = revoked /\ adrift' = adrift
      BY <2>1 DEF Register, Login, Enter, tokens
    <3>5. Shares' \in Nat /\ Shares' <= Shares
      BY <3>4, SharesStay
    <3> QED  BY <1>0, <1>a, <1>b, <3>2, <3>3, <3>4, <3>5 DEF KeepInv, Owed
  <2>2. CASE IssueFirst(t)
    <3>1. Entering' \subseteq Entering \ {t} /\ t \in Entering
      BY <1>0, <2>2 DEF IssueFirst, Entering
    <3>2. E' + 1 <= E /\ E' \in Nat
      BY <1>0, <3>1, CardDrop
    <3>3. /\ issued' = issued + 1 /\ revoked' = revoked /\ spent' = spent
          /\ refresh' = refresh /\ adrift' = adrift
      BY <2>2 DEF IssueFirst
    <3>4. Shares' \in Nat /\ Shares' <= Shares + 1
      BY <3>3, SharesGain
    <3> QED  BY <1>0, <1>a, <1>b, <3>2, <3>3, <3>4 DEF KeepInv, Owed
  <2>3. CASE \/ Entered(t) \/ Logout(t) \/ LogoutLost(t) \/ LogoutRevokes(t) \/ LoggedOut(t)
    <3>1. spent'.logins = spent.logins
      BY <2>3, SpendFact DEF Entered, Logout, LogoutLost, LogoutRevokes, LoggedOut
    <3>2. /\ refresh' = refresh /\ issued' = issued /\ revoked \subseteq revoked'
          /\ adrift'.issues = adrift.issues
      BY <1>0, <2>3 DEF Entered, Logout, LogoutLost, LogoutRevokes, LoggedOut, tokens
    <3>3. Entering' \subseteq Entering
      BY <1>0, <2>3 DEF Entered, Logout, LogoutLost, LogoutRevokes, LoggedOut, NoEntry,
           Entering
    <3>4. E' <= E /\ E' \in Nat
      BY <1>0, <3>3, CardLess
    <3>5. Shares' \in Nat /\ Shares' <= Shares
      BY <3>2, SharesStay
    <3> QED  BY <1>0, <1>a, <1>b, <3>1, <3>2, <3>4, <3>5 DEF KeepInv, Owed
  <2>4. CASE Reload(t) \/ EnterLost(t)
    <3>1. spent'.logins = spent.logins
      BY <2>4, SpendFact DEF Reload, EnterLost
    <3>2. refresh' = refresh /\ issued' = issued /\ revoked' = revoked
      BY <2>4 DEF Reload, EnterLost, tokens
    <3>3. Shares' \in Nat /\ Shares' <= Shares
      BY <3>2, SharesStay
    <3>4. Entering' \subseteq Entering \ {t}
      BY <1>0, <2>4 DEF Reload, EnterLost, NoEntry, Entering
    <3>5. CASE adrift'.issues = adrift.issues
      <4>1. E' <= E /\ E' \in Nat
        BY <1>0, <3>4, CardLess
      <4> QED  BY <1>0, <1>a, <1>b, <3>1, <3>3, <3>5, <4>1 DEF KeepInv, Owed
    <3>6. CASE adrift'.issues = adrift.issues + 1 /\ t \in Entering
      <4>1. E' + 1 <= E /\ E' \in Nat
        BY <1>0, <3>4, <3>6, CardDrop
      <4> QED  BY <1>0, <1>a, <1>b, <3>1, <3>3, <3>6, <4>1 DEF KeepInv, Owed
    <3>7. \/ adrift'.issues = adrift.issues
          \/ adrift'.issues = adrift.issues + 1 /\ t \in Entering
      BY <1>0, <2>4 DEF Reload, EnterLost, Entering
    <3> QED  BY <3>5, <3>6, <3>7
  <2> QED  BY <1>6, <2>1, <2>2, <2>3, <2>4 DEF TabStep
<1>7. CASE IssueAdrift
  <2>1. /\ issued' = issued + 1 /\ revoked' = revoked /\ spent' = spent /\ refresh' = refresh
        /\ Entering' = Entering /\ adrift'.issues + 1 = adrift.issues /\ adrift'.issues \in Nat
    BY <1>0, <1>7 DEF IssueAdrift, Entering
  <2>2. Shares' \in Nat /\ Shares' <= Shares + 1
    BY <2>1, SharesGain
  <2>3. E' = E
    BY <2>1
  <2> QED  BY <1>0, <1>a, <1>b, <2>1, <2>2, <2>3 DEF KeepInv, Owed
<1>8. CASE RevokeAdrift \/ MonthPasses \/ Suspend \/ UNCHANGED sessionVars
  <2>1. /\ refresh' = refresh /\ issued' = issued /\ revoked \subseteq revoked'
        /\ Entering' = Entering /\ spent' = spent /\ adrift'.issues = adrift.issues
    BY <1>0, <1>8 DEF RevokeAdrift, MonthPasses, Suspend, sessionVars, tokens, desk, Entering
  <2>2. Shares' \in Nat /\ Shares' <= Shares
    BY <2>1, SharesStay
  <2> QED  BY <1>1, <2>1, <2>2
<1>9. ASSUME NEW c \in Calls, Disconnect(c)  PROVE KeepInv'
  <2>1. spent'.logins = spent.logins
    BY <1>9, SpendFact DEF Disconnect, Break
  <2>2. /\ refresh' = refresh /\ issued' = issued /\ revoked' = revoked
        /\ Entering' = Entering /\ adrift' = adrift
    BY <1>9 DEF Disconnect, tokens, desk, Entering
  <2>3. Shares' \in Nat /\ Shares' <= Shares
    BY <2>2, SharesStay
  <2> QED  BY <1>1, <2>1, <2>2, <2>3
<1> QED  BY <1>2, <1>3, <1>4, <1>5, <1>6, <1>7, <1>8, <1>9 DEF SessionNext

-----------------------------------------------------------------------------
(* Types. *)

LEMMA TypeStep ==
  ASSUME SessionTypeOK, HeldInv, issued' \in 0..MaxPairs, Issued \subseteq Issued',
         [SessionNext]_sessionVars
  PROVE  SessionTypeOK'
<1>0. /\ issued \in Nat /\ HandlerTypes /\ CallTypes /\ LeaveTypes
      /\ store \in [Tabs -> Issued \cup {None}] /\ storage \in Issued \cup {None}
      /\ entry \in [Tabs -> [at : {"none", "issue", "answered"}, pair : Issued \cup {None}]]
      /\ used \in [Pairs -> [Tabs -> Nat]] /\ Issued \subseteq Pairs
  BY Parts, SessionAssumption DEF SessionTypeOK, Issued, Pairs, MaxPairs
<1>1. HandlerTypes' /\ CallTypes' /\ LeaveTypes'
  <2> DEFINE H == [at : {"none", "find", "revoke", "issue", "answered", "refused"},
                   token : Issued' \cup {None}, pair : Issued' \cup {None}]
             C == [pc : {"asked", "refreshing", "resend", "asked_again"},
                   tab : Tabs, token : Issued' \cup {None}]
             V == [at : {"none", "sent", "answered"}, token : Issued' \cup {None}]
  <2>0. refresh \in [Calls -> H] /\ call \in [Calls -> C \cup {NoCall}] /\ leave \in [Tabs -> V]
    BY <1>0 DEF HandlerTypes, CallTypes, LeaveTypes
  <2>1. refresh' \in [Calls -> H]
    <3>1. ASSUME NEW c \in Calls, CallStep(c)  PROVE refresh' \in [Calls -> H]
      <4>1. CASE StartRefresh(c)
        <5>1. store[Tab(c)] \in Issued'
          BY <1>0, <4>1, GotoFact DEF StartRefresh, At
        <5> QED  BY <2>0, <4>1, <5>1 DEF StartRefresh
      <4>2. CASE StoreTokens(c) \/ RefreshFails(c)
        <5>1. refresh' = [refresh EXCEPT ![c] = NoRefresh]
          BY <4>2 DEF StoreTokens, RefreshFails, Forget
        <5> QED  BY <2>0, <5>1 DEF NoRefresh
      <4>3. CASE Allowed(c) \/ DeniedAgain(c) \/ DeniedSignedOut(c) \/ Resend(c)
        BY <2>0, <4>3 DEF Allowed, DeniedAgain, DeniedSignedOut, Resend
      <4> QED  BY <3>1, <4>1, <4>2, <4>3 DEF CallStep
    <3>2. ASSUME NEW c \in Calls, HandlerStep(c) \/ StatementFails(c)
          PROVE  refresh' \in [Calls -> H]
      <4>1. CASE Find(c) \/ Revoke(c) \/ StatementFails(c)
        <5>1. PICK at \in {"refused", "revoke", "issue"} :
                refresh' = [refresh EXCEPT ![c].at = at]
          BY <4>1 DEF Find, Accept, Refuse, Revoke, StatementFails
        <5> QED  BY <2>0, <5>1
      <4>2. CASE Issue(c)
        <5>1. issued' \in Issued'
          BY <1>0, <4>2 DEF Issue, Issued
        <5>2. refresh' = [refresh EXCEPT ![c].at = "answered", ![c].pair = issued']
          BY <4>2 DEF Issue
        <5> QED  BY <2>0, <5>1, <5>2, AnswerFact
      <4>3. CASE Unheard(c)
        BY <2>0, <4>3 DEF Unheard, Forget, NoRefresh
      <4> QED  BY <3>2, <4>1, <4>2, <4>3 DEF HandlerStep
    <3>3. ASSUME refresh' = refresh  PROVE refresh' \in [Calls -> H]
      BY <2>0, <3>3
    <3> QED  BY <3>1, <3>2, <3>3 DEF SessionNext, sessionVars, Disconnect, TabStep, Register,
               Login, Enter, EnterLost, IssueFirst, Entered, Logout, LogoutRevokes, LogoutLost,
               LoggedOut, Reload, Send, IssueAdrift, RevokeAdrift, MonthPasses, Suspend
  <2>2. call' \in [Calls -> C \cup {NoCall}]
    <3>1. ASSUME NEW c \in Calls, CallStep(c) \/ Disconnect(c)
          PROVE  call' \in [Calls -> C \cup {NoCall}]
      <4>1. CASE End(c)
        BY <2>0, <4>1 DEF End
      <4>2. CASE StartRefresh(c) \/ StoreTokens(c) \/ Resend(c)
        <5>1. call[c] \in C
          BY <2>0, <4>2 DEF StartRefresh, StoreTokens, Resend, At, NoCall
        <5>2. CASE StartRefresh(c)
          BY <2>0, <5>1, <5>2 DEF StartRefresh, Goto
        <5>3. CASE StoreTokens(c)
          <6>1. refresh[c].pair \in Issued' \cup {None}
            BY <2>0
          <6> QED  BY <2>0, <5>1, <5>3, <6>1 DEF StoreTokens
        <5>4. CASE Resend(c)
          <6>1. /\ store[call[c].tab] \in Issued' \cup {None}
                /\ call[c].token \in Issued' \cup {None}
            BY <1>0, <5>1
          <6>2. PICK n \in Issued' \cup {None} :
                  call' = [call EXCEPT ![c].pc = "asked_again", ![c].token = n]
            BY <5>4, <6>1 DEF Resend, Tab
          <6> QED  BY <2>0, <5>1, <6>2
        <5> QED  BY <4>2, <5>2, <5>3, <5>4
      <4> QED  BY <3>1, <4>1, <4>2 DEF CallStep, Disconnect, Allowed, DeniedAgain,
                 DeniedSignedOut, RefreshFails
    <3>2. ASSUME NEW t \in Tabs, NEW c \in Calls, Send(c, t)
          PROVE  call' \in [Calls -> C \cup {NoCall}]
      BY <1>0, <2>0, <3>2 DEF Send
    <3>3. ASSUME NEW t \in Tabs, Reload(t)  PROVE call' \in [Calls -> C \cup {NoCall}]
      BY <2>0, <3>3 DEF Reload
    <3>4. ASSUME call' = call  PROVE call' \in [Calls -> C \cup {NoCall}]
      BY <2>0, <3>4
    <3> QED  BY <3>1, <3>2, <3>3, <3>4 DEF SessionNext, sessionVars, browser, HandlerStep, Find,
               Revoke, Issue, Unheard, StatementFails, TabStep, Register, Login, Enter,
               EnterLost, IssueFirst, Entered, Logout, LogoutRevokes, LogoutLost, LoggedOut,
               IssueAdrift, RevokeAdrift, MonthPasses, Suspend
  <2>3. leave' \in [Tabs -> V]
    <3>1. ASSUME NEW t \in Tabs, TabStep(t)  PROVE leave' \in [Tabs -> V]
      <4>1. CASE Logout(t)
        BY <1>0, <2>0, <4>1 DEF Logout
      <4>2. CASE LogoutRevokes(t) \/ LogoutLost(t)
        <5>1. leave' = [leave EXCEPT ![t].at = "answered"]
          BY <4>2 DEF LogoutRevokes, LogoutLost
        <5> QED  BY <2>0, <5>1
      <4>3. CASE LoggedOut(t) \/ Reload(t)
        BY <2>0, <4>3 DEF LoggedOut, Reload, NoLeave
      <4>4. CASE Register(t) \/ Login(t) \/ EnterLost(t) \/ IssueFirst(t) \/ Entered(t)
        BY <2>0, <4>4 DEF Register, Login, Enter, EnterLost, IssueFirst, Entered
      <4> QED  BY <3>1, <4>1, <4>2, <4>3, <4>4 DEF TabStep
    <3>2. ASSUME leave' = leave  PROVE leave' \in [Tabs -> V]
      BY <2>0, <3>2
    <3> QED  BY <3>1, <3>2 DEF SessionNext, sessionVars, desk, CallStep, Allowed, DeniedAgain,
               DeniedSignedOut, StartRefresh, StoreTokens, Resend, RefreshFails, HandlerStep,
               Find, Revoke, Issue, Unheard, StatementFails, Disconnect, Send, IssueAdrift,
               RevokeAdrift, MonthPasses, Suspend
  <2> QED  BY <2>1, <2>2, <2>3 DEF HandlerTypes, CallTypes, LeaveTypes
<1>2. user' \in {"none", "PENDING_VERIFICATION", "SUSPENDED"}
  <2>1. user' = user \/ user' \in {"PENDING_VERIFICATION", "SUSPENDED"}
    BY DEF SessionNext, sessionVars, CallStep, Allowed, DeniedAgain, DeniedSignedOut,
       StartRefresh, StoreTokens, Resend, RefreshFails, HandlerStep, Find, Revoke, Issue,
       Unheard, StatementFails, Disconnect, TabStep, Register, Login, IssueFirst, EnterLost,
       Entered, Logout, LogoutRevokes, LogoutLost, LoggedOut, Reload, Send, IssueAdrift,
       RevokeAdrift, MonthPasses, Suspend
  <2> QED  BY <2>1 DEF SessionTypeOK
<1>3. raced' \in Nat /\ broken' \subseteq Calls
  <2>1. raced' \in Nat
    BY Parts, RaceStays
  <2>2. ASSUME NEW c \in Calls, Forget(c) \/ Break(c)  PROVE broken' \subseteq Calls
    BY <2>2 DEF Forget, Break, SessionTypeOK
  <2>3. broken' = broken \/ \E c \in Calls : Forget(c) \/ Break(c)
    BY DEF SessionNext, sessionVars, history, CallStep, Allowed, DeniedAgain, DeniedSignedOut,
       StartRefresh, StoreTokens, Resend, RefreshFails, HandlerStep, Find, Revoke, Issue, Unheard,
       StatementFails, Disconnect, TabStep, Register, Login, Enter, EnterLost, IssueFirst, Entered,
       Logout, LogoutRevokes, LogoutLost, LoggedOut, Reload, Send, IssueAdrift, RevokeAdrift,
       MonthPasses, Suspend
  <2> QED  BY <2>1, <2>2, <2>3 DEF SessionTypeOK
<1>4. lapsed' \subseteq Issued'
  <2>1. lapsed' = lapsed \/ lapsed' = Issued
    BY DEF SessionNext, sessionVars, CallStep, Allowed, DeniedAgain, DeniedSignedOut,
       StartRefresh, StoreTokens, Resend, RefreshFails, HandlerStep, Find, Revoke, Issue,
       Unheard, StatementFails, Disconnect, TabStep, Register, Login, Enter, EnterLost,
       IssueFirst, Entered, Logout, LogoutRevokes, LogoutLost, LoggedOut, Reload, Send,
       IssueAdrift, RevokeAdrift, MonthPasses, Suspend
  <2> QED  BY <2>1 DEF SessionTypeOK
<1>5. revoked' \subseteq Issued'
  <2>1. ASSUME NEW c \in Calls, Revoke(c)  PROVE revoked' \subseteq Issued'
    <3>1. refresh[c].token \in Issued
      BY <2>1 DEF Revoke, Handler, HeldInv
    <3> QED  BY <2>1, <3>1 DEF Revoke, SessionTypeOK
  <2>2. ASSUME NEW t \in Tabs, LogoutRevokes(t)  PROVE revoked' \subseteq Issued'
    <3>1. leave[t].token \in Issued
      BY <2>2 DEF LogoutRevokes, NoLeave, HeldInv
    <3> QED  BY <2>2, <3>1 DEF LogoutRevokes, SessionTypeOK
  <2>4. ASSUME NEW c \in Calls, StatementFails(c)  PROVE revoked' \subseteq Issued'
    <3>1. Handler(c, "revoke") => refresh[c].token \in Issued
      BY DEF Handler, HeldInv
    <3> QED  BY <2>4, <3>1 DEF StatementFails, tokens, SessionTypeOK
  <2>5. CASE RevokeAdrift
    BY <2>5, Parts DEF RevokeAdrift, SessionTypeOK
  <2>3. \/ revoked' = revoked
        \/ \E c \in Calls : Revoke(c) \/ StatementFails(c)
        \/ \E t \in Tabs : LogoutRevokes(t)
        \/ RevokeAdrift
    BY DEF SessionNext, sessionVars, tokens, CallStep, Allowed, DeniedAgain, DeniedSignedOut,
       StartRefresh, StoreTokens, Resend, RefreshFails, HandlerStep, Find, Issue, Unheard,
       Disconnect, TabStep, Register, Login, Enter, EnterLost, IssueFirst, Entered, Logout,
       LogoutLost, LoggedOut, Reload, Send, IssueAdrift, MonthPasses, Suspend
  <2> QED  BY <2>1, <2>2, <2>3, <2>4, <2>5 DEF SessionTypeOK
<1>6. store' \in [Tabs -> Issued' \cup {None}] /\ storage' \in Issued' \cup {None}
  <2> DEFINE Fits == /\ store' \in [Tabs -> Issued' \cup {None}]
                     /\ storage' \in Issued' \cup {None}
  <2>0. /\ store \in [Tabs -> Issued' \cup {None}]
        /\ storage \in Issued' \cup {None}
    BY <1>0
  <2>1. ASSUME NEW t, NEW n \in Issued' \cup {None}, SetTokens(t, n)  PROVE Fits
    BY <2>0, <2>1 DEF SetTokens
  <2>2. ASSUME NEW t, ClearAuth(t)  PROVE Fits
    BY <2>1, <2>2 DEF ClearAuth
  <2>3. ASSUME NEW c \in Calls, StoreTokens(c)  PROVE Fits
    <3>1. refresh[c].pair \in Issued' \cup {None}
      BY <1>0 DEF HandlerTypes
    <3> QED  BY <2>1, <2>3, <3>1 DEF StoreTokens
  <2>4. ASSUME NEW t \in Tabs, Entered(t)  PROVE Fits
    <3>1. entry[t].pair \in Issued' \cup {None}
      BY <1>0
    <3> QED  BY <2>1, <2>4, <3>1 DEF Entered
  <2>5. ASSUME NEW t \in Tabs, Reload(t)  PROVE Fits
    BY <2>0, <2>5 DEF Reload
  <2>6. ASSUME store' = store, storage' = storage  PROVE Fits
    BY <2>0, <2>6
  <2>7. \/ \E t : ClearAuth(t)
        \/ \E c \in Calls : StoreTokens(c)
        \/ \E t \in Tabs : Entered(t) \/ Reload(t)
        \/ store' = store /\ storage' = storage
    BY DEF SessionNext, sessionVars, browser, CallStep, Allowed, DeniedAgain, DeniedSignedOut,
       StartRefresh, Resend, RefreshFails, HandlerStep, Find, Revoke, Issue, Unheard,
       StatementFails, Disconnect, TabStep, Register, Login, Enter, EnterLost, IssueFirst, Logout,
       LogoutRevokes, LogoutLost, LoggedOut, Send, IssueAdrift, RevokeAdrift, MonthPasses, Suspend
  <2> QED  BY <2>2, <2>3, <2>4, <2>5, <2>6, <2>7
<1>7. entry' \in [Tabs -> [at : {"none", "issue", "answered"}, pair : Issued' \cup {None}]]
  <2> DEFINE Fits == entry' \in [Tabs -> [at : {"none", "issue", "answered"},
                                         pair : Issued' \cup {None}]]
  <2>0. entry \in [Tabs -> [at : {"none", "issue", "answered"}, pair : Issued' \cup {None}]]
    BY <1>0
  <2>1. ASSUME NEW t \in Tabs, Enter(t)  PROVE Fits
    BY <2>0, <2>1 DEF Enter
  <2>2. ASSUME NEW t \in Tabs, IssueFirst(t)  PROVE Fits
    <3>1. issued' \in Issued'
      BY <1>0, <2>2 DEF IssueFirst, Issued
    <3> QED  BY <2>0, <2>2, <3>1 DEF IssueFirst
  <2>3. ASSUME NEW t \in Tabs, Entered(t) \/ EnterLost(t) \/ Reload(t)  PROVE Fits
    BY <2>0, <2>3 DEF Entered, EnterLost, Reload, NoEntry
  <2>4. ASSUME entry' = entry  PROVE Fits
    BY <2>0, <2>4
  <2>5. \/ entry' = entry
        \/ \E t \in Tabs : Enter(t) \/ IssueFirst(t) \/ Entered(t) \/ EnterLost(t) \/ Reload(t)
    BY DEF SessionNext, sessionVars, desk, CallStep, Allowed, DeniedAgain, DeniedSignedOut,
       StartRefresh, StoreTokens, Resend, RefreshFails, HandlerStep, Find, Revoke, Issue, Unheard,
       StatementFails, Disconnect, TabStep, Register, Login, Logout, LogoutRevokes, LogoutLost,
       LoggedOut, Send, IssueAdrift, RevokeAdrift, MonthPasses, Suspend
  <2> QED  BY <2>1, <2>2, <2>3, <2>4, <2>5
<1>8. used' \in [Pairs -> [Tabs -> Nat]]
  <2>1. ASSUME NEW n \in Issued, NEW t \in Tabs, Present(n, t)
        PROVE  used' \in [Pairs -> [Tabs -> Nat]]
    <3>1. n \in Pairs /\ used[n] \in [Tabs -> Nat]
      BY <1>0
    <3>2. [used[n] EXCEPT ![t] = used[n][t] + 1] \in [Tabs -> Nat]
      BY <3>1
    <3>3. used' = [used EXCEPT ![n] = [used[n] EXCEPT ![t] = used[n][t] + 1]]
      BY <1>0, <2>1, <3>1 DEF Present
    <3> QED  BY <1>0, <3>2, <3>3
  <2>2. ASSUME NEW c \in Calls, StartRefresh(c)  PROVE used' \in [Pairs -> [Tabs -> Nat]]
    <3>1. Tab(c) \in Tabs
      BY <1>0, <2>2, GotoFact DEF StartRefresh, At
    <3>2. store[Tab(c)] \in Issued /\ Present(store[Tab(c)], Tab(c))
      BY <1>0, <2>2, <3>1 DEF StartRefresh
    <3> QED  BY <2>1, <3>1, <3>2
  <2>3. ASSUME NEW t \in Tabs, Logout(t)  PROVE used' \in [Pairs -> [Tabs -> Nat]]
    <3>1. store[t] \in Issued /\ Present(store[t], t)
      BY <1>0, <2>3 DEF Logout
    <3> QED  BY <2>1, <3>1
  <2>4. \/ used' = used
        \/ \E c \in Calls : StartRefresh(c)
        \/ \E t \in Tabs : Logout(t)
    BY DEF SessionNext, sessionVars, history, CallStep, Allowed, DeniedAgain, DeniedSignedOut,
       StoreTokens, Resend, RefreshFails, HandlerStep, Find, Revoke, Issue, Unheard,
       StatementFails, Disconnect, TabStep, Register, Login, Enter, EnterLost, IssueFirst,
       Entered, LogoutRevokes, LogoutLost, LoggedOut, Reload, Send, IssueAdrift, RevokeAdrift,
       MonthPasses, Suspend
  <2> QED  BY <1>0, <2>2, <2>3, <2>4
<1>9. cut' \subseteq Issued'
  <2>1. cut \subseteq Issued'
    BY DEF SessionTypeOK
  <2>2. ASSUME NEW t \in Tabs, Reload(t)  PROVE cut' \subseteq Issued'
    <3>1. \A c \in Calls : At(c, "refreshing") => refresh[c].token \in Issued
      BY DEF HeldInv
    <3>2. leave[t] = NoLeave \/ leave[t].token \in Issued
      BY DEF HeldInv
    <3> QED  BY <2>1, <2>2, <3>1, <3>2 DEF Reload
  <2>3. cut' = cut \/ \E t \in Tabs : Reload(t)
    BY DEF SessionNext, sessionVars, history, CallStep, Allowed, DeniedAgain, DeniedSignedOut,
       StartRefresh, StoreTokens, Resend, RefreshFails, HandlerStep, Find, Revoke, Issue,
       Unheard, StatementFails, Disconnect, TabStep, Register, Login, Enter, EnterLost,
       IssueFirst, Entered, Logout, LogoutRevokes, LogoutLost, LoggedOut, Send, IssueAdrift,
       RevokeAdrift, MonthPasses, Suspend
  <2> QED  BY <2>1, <2>2, <2>3
<1>10. adrift' \in [issues : Nat, revokes : SUBSET Issued']
  <2>0. /\ adrift \in [issues : Nat, revokes : SUBSET Issued'] /\ adrift.issues \in Nat
        /\ \A t \in Tabs : leave[t] # NoLeave => leave[t].token \in Issued'
    BY Parts DEF HeldInv
  <2>1. ASSUME NEW t \in Tabs, EnterLost(t)
        PROVE  adrift' \in [issues : Nat, revokes : SUBSET Issued']
    BY <2>0, <2>1 DEF EnterLost
  <2>2. ASSUME NEW t \in Tabs, LogoutLost(t)
        PROVE  adrift' \in [issues : Nat, revokes : SUBSET Issued']
    <3>1. leave[t].token \in Issued'
      BY <2>0, <2>2 DEF LogoutLost, NoLeave
    <3> QED  BY <2>0, <2>2, <3>1 DEF LogoutLost
  <2>3. ASSUME NEW t \in Tabs, Reload(t)
        PROVE  adrift' \in [issues : Nat, revokes : SUBSET Issued']
    <3>1. leave[t].at = "sent" => leave[t].token \in Issued'
      BY <2>0 DEF NoLeave
    <3> QED  BY <2>0, <2>3, <3>1 DEF Reload
  <2>4. CASE IssueAdrift
    BY <2>0, <2>4 DEF IssueAdrift
  <2>5. CASE RevokeAdrift
    BY <2>0, <2>5 DEF RevokeAdrift
  <2>6. CASE adrift' = adrift
    BY <2>0, <2>6
  <2>7. \/ adrift' = adrift \/ IssueAdrift \/ RevokeAdrift
        \/ \E t \in Tabs : EnterLost(t) \/ LogoutLost(t) \/ Reload(t)
    BY DEF SessionNext, sessionVars, desk, CallStep, Allowed, DeniedAgain, DeniedSignedOut,
       StartRefresh, StoreTokens, Resend, RefreshFails, HandlerStep, Find, Revoke, Issue, Unheard,
       StatementFails, Disconnect, TabStep, Register, Login, Enter, IssueFirst, Entered, Logout,
       LogoutRevokes, LoggedOut, Send, MonthPasses, Suspend
  <2> QED  BY <2>1, <2>2, <2>3, <2>4, <2>5, <2>6, <2>7
<1> QED  BY <1>1, <1>2, <1>3, <1>4, <1>5, <1>6, <1>7, <1>8, <1>9, <1>10
         DEF SessionTypeOK, HandlerTypes, CallTypes, LeaveTypes
-----------------------------------------------------------------------------
(* The invariant, and the theorems. *)

LEMMA InvInit ==
  ASSUME SessionInit
  PROVE  SessionInv
<1>1. Issued = {}
  BY DEF SessionInit, Issued
<1>2. SessionTypeOK
  <2>1. issued \in 0..MaxPairs
    BY SessionAssumption DEF SessionInit, MaxPairs
  <2>2. /\ user \in {"none", "PENDING_VERIFICATION", "SUSPENDED"}
        /\ revoked \subseteq Issued /\ lapsed \subseteq Issued /\ cut \subseteq Issued
        /\ raced \in Nat /\ broken \subseteq Calls
        /\ adrift \in [issues : Nat, revokes : SUBSET Issued]
    BY DEF SessionInit
  <2>3. store \in [Tabs -> Issued \cup {None}] /\ storage \in Issued \cup {None}
    BY DEF SessionInit
  <2>4. used \in [Pairs -> [Tabs -> Nat]]
    BY DEF SessionInit
  <2>5. CallTypes
    BY DEF SessionInit, CallTypes
  <2>6. HandlerTypes
    BY DEF SessionInit, HandlerTypes, NoRefresh
  <2>7. LeaveTypes
    BY DEF SessionInit, LeaveTypes, NoLeave
  <2>8. entry \in [Tabs -> [at : {"none", "issue", "answered"}, pair : Issued \cup {None}]]
    BY DEF SessionInit, NoEntry
  <2> QED  BY <2>1, <2>2, <2>3, <2>4, <2>5, <2>6, <2>7, <2>8
           DEF SessionTypeOK, CallTypes, HandlerTypes, LeaveTypes
<1>3. SpentOK
  BY SessionAssumption DEF SessionInit, SpentOK
<1>4. HeldInv
  BY DEF SessionInit, HeldInv, Handler, At, NoCall, NoRefresh
<1>5. Cardinality({}) = 0
  BY FS_EmptySet
<1>6. Asked = {} /\ Busy = {} /\ Entering = {} /\ Issuing = {} /\ Claiming = {}
  BY DEF SessionInit, Asked, Busy, Entering, Issuing, Claiming, Handler, At, NoCall,
         NoRefresh, NoEntry
<1>7. Free = {}
  BY <1>1 DEF Free, Live
<1>8. issued = 0 /\ spent.logins = 0 /\ spent.sends = 0 /\ adrift.issues = 0 /\ raced = 0
  BY DEF SessionInit
<1>9. IssueInv
  BY <1>5, <1>6, <1>8 DEF IssueInv
<1>10. KeepInv
  BY <1>5, <1>6, <1>7, <1>8 DEF KeepInv, Owed, Shares
<1> QED  BY <1>2, <1>3, <1>4, <1>9, <1>10 DEF SessionInv

(* The bound on the pairs of SessionTypeOK follows from the count. *)
LEMMA IssuedStep ==
  ASSUME SessionTypeOK, SpentOK', IssueInv', [SessionNext]_sessionVars,
         IsFiniteSet(Asked'), IsFiniteSet(Busy'), IsFiniteSet(Entering'), adrift'.issues \in Nat
  PROVE  issued' \in 0..MaxPairs
<1>1. /\ Cardinality(Asked') \in Nat /\ Cardinality(Busy') \in Nat
      /\ Cardinality(Entering') \in Nat
  BY FS_CardinalityType
<1>2. issued \in Nat /\ MaxLogins \in Nat /\ MaxSends \in Nat
  BY Parts, SessionAssumption
<1>3. issued' \in Nat
  <2>1. issued' = issued \/ issued' = issued + 1
    BY DEF SessionNext, sessionVars, tokens, CallStep, Allowed, DeniedAgain, DeniedSignedOut,
       StartRefresh, StoreTokens, Resend, RefreshFails, HandlerStep, Find, Revoke, Issue,
       Unheard, StatementFails, Disconnect, TabStep, Register, Login, Enter, EnterLost,
       IssueFirst, Entered, Logout, LogoutRevokes, LogoutLost, LoggedOut, Reload, Send,
       IssueAdrift, RevokeAdrift, MonthPasses, Suspend
  <2> QED  BY <1>2, <2>1
<1>4. spent'.logins \in 0..MaxLogins /\ spent'.sends \in 0..MaxSends
  BY DEF SpentOK
<1> QED  BY <1>1, <1>2, <1>3, <1>4 DEF IssueInv, MaxPairs

LEMMA AdriftStep ==
  ASSUME SessionTypeOK, [SessionNext]_sessionVars
  PROVE  adrift'.issues \in Nat
<1>0. adrift \in [issues : Nat, revokes : SUBSET Issued] /\ adrift.issues \in Nat
  BY Parts
<1>1. ASSUME NEW t \in Tabs, EnterLost(t) \/ LogoutLost(t) \/ Reload(t)
      PROVE  adrift'.issues \in Nat
  BY <1>0, <1>1 DEF EnterLost, LogoutLost, Reload
<1>2. CASE IssueAdrift \/ RevokeAdrift
  BY <1>0, <1>2 DEF IssueAdrift, RevokeAdrift
<1>3. \/ adrift' = adrift \/ IssueAdrift \/ RevokeAdrift
      \/ \E t \in Tabs : EnterLost(t) \/ LogoutLost(t) \/ Reload(t)
  BY DEF SessionNext, sessionVars, desk, CallStep, Allowed, DeniedAgain, DeniedSignedOut,
     StartRefresh, StoreTokens, Resend, RefreshFails, HandlerStep, Find, Revoke, Issue, Unheard,
     StatementFails, Disconnect, TabStep, Register, Login, Enter, IssueFirst, Entered, Logout,
     LogoutRevokes, LoggedOut, Send, MonthPasses, Suspend
<1> QED  BY <1>0, <1>1, <1>2, <1>3

LEMMA InvStep ==
  ASSUME SessionInv, [SessionNext]_sessionVars
  PROVE  SessionInv'
<1>0. SessionTypeOK /\ SpentOK /\ HeldInv /\ IssueInv /\ KeepInv
  BY DEF SessionInv
<1>1. SpentOK'
  BY <1>0, SpentStep
<1>2. HeldInv' /\ Issued \subseteq Issued'
  BY <1>0, HeldStep
<1>3. IssueInv'
  BY <1>0, IssueStep
<1>4. KeepInv'
  BY <1>0, KeepStep
<1>5. IsFiniteSet(Asked') /\ IsFiniteSet(Busy') /\ IsFiniteSet(Entering')
  BY SessionAssumption, FS_Subset DEF Asked, Busy, Entering
<1>6. issued' \in 0..MaxPairs
  BY <1>0, <1>1, <1>3, <1>5, AdriftStep, IssuedStep
<1>7. SessionTypeOK'
  BY <1>0, <1>2, <1>6, TypeStep
<1> QED  BY <1>1, <1>2, <1>3, <1>4, <1>7 DEF SessionInv

LEMMA InvAlways == SessionSpec => []SessionInv
<1>1. SessionInit => SessionInv
  BY InvInit
<1>2. SessionInv /\ [SessionNext]_sessionVars => SessionInv'
  BY InvStep
<1> QED  BY <1>1, <1>2, PTL DEF SessionSpec

(* Whatever the order of calls, handlers, sign-ins and reloads, every token *)
(* that a tab, localStorage, a call, a handler or a logout holds belongs to *)
(* a pair that generateTokens has issued, and no more pairs are issued than *)
(* there were sign-ins and calls.                                           *)
THEOREM SessionsWellTyped == SessionSpec => []SessionTypeOK
<1>1. SessionInv => SessionTypeOK
  BY DEF SessionInv
<1> QED  BY <1>1, InvAlways, PTL

(* refresh replaces a refresh token, it never multiplies them: for any     *)
(* number of tabs, calls, failing statements, lost connections, logouts    *)
(* and requests that go on without their tab there are at most as many     *)
(* tokens that are not revoked as there were sign-ins, and one more for    *)
(* each time a handler read a token that another had read and not revoked. *)
THEOREM OneTokenPerSignIn == SessionSpec => []RotationKeepsOne
<1>1. ASSUME SessionInv  PROVE RotationKeepsOne
  <2>0. SessionTypeOK /\ HeldInv /\ SpentOK /\ Owed <= spent.logins + raced
    BY <1>1 DEF SessionInv, KeepInv
  <2>1. IsFiniteSet(Claims) /\ Cardinality(Claims) <= Cardinality(Claiming)
    <3> DEFINE f == [c \in Claiming |-> refresh[c].token]
    <3>1. f \in Surjection(Claiming, Claims)
      BY DEF Surjection, Claiming, Claims
    <3> QED  BY <2>0, <3>1, Finite, FS_Surjection
  <2>2. Cardinality(Live) <= Cardinality(Free) + Cardinality(Claims)
    <3>1. /\ IsFiniteSet(Free \cup Claims)
          /\ Cardinality(Free \cup Claims) =
               Cardinality(Free) + Cardinality(Claims) - Cardinality(Free \cap Claims)
      BY <2>0, <2>1, Finite, FS_Union
    <3>2. Live \subseteq Free \cup Claims /\ Free \cap Claims = {}
      BY DEF Free
    <3>3. Cardinality(Live) <= Cardinality(Free \cup Claims) /\ Cardinality(Live) \in Nat
      BY <3>1, <3>2, CardLess
    <3>4. Cardinality(Free) \in Nat /\ Cardinality(Claims) \in Nat
      BY <2>0, <2>1, Finite, FS_CardinalityType
    <3>5. Cardinality(Free \cap Claims) = 0
      BY <3>2, FS_EmptySet
    <3> QED  BY <3>1, <3>3, <3>4, <3>5
  <2>3. /\ Cardinality(Live) \in Nat /\ Cardinality(Claims) \in Nat
        /\ Cardinality(Entering) \in Nat
    BY <2>0, <2>1, Finite, FS_CardinalityType
  <2>4. adrift.issues \in Nat /\ raced \in Nat /\ spent.logins \in Nat
    BY <2>0, Parts, SessionAssumption DEF SpentOK
  <2> QED  BY <2>0, <2>1, <2>2, <2>3, <2>4, ShareTypes DEF Owed, Shares, RotationKeepsOne
<1> QED  BY <1>1, InvAlways, PTL
-----------------------------------------------------------------------------
(* Why a tab's token is live, and why it loses one. *)

Presented(n) == \E u \in Tabs : used[n][u] > 0

(* A token is presented before it is revoked, and by the tab whose request *)
(* is under way with it.                                                   *)
UsedInv ==
  /\ \A n \in Pairs, u \in Tabs : used[n][u] > 0 => n \in Issued
  /\ \A n \in revoked : Presented(n)
  /\ \A c \in Calls : ~Handler(c, "none") => Presented(refresh[c].token)
  /\ \A c \in Calls : At(c, "refreshing") => used[refresh[c].token][Tab(c)] > 0
  /\ \A t \in Tabs : leave[t] # NoLeave => used[leave[t].token][t] > 0
  /\ \A n \in adrift.revokes : Presented(n)

(* A pair on its way to the browser is nowhere else yet. *)
Unseen(n) == n \in Issued /\ n # storage /\ \A t \in Tabs : store[t] # n /\ used[n][t] = 0
NewInv ==
  /\ \A c \in Calls : Handler(c, "answered") => Unseen(refresh[c].pair)
  /\ \A t \in Tabs : entry[t].at = "answered" => Unseen(entry[t].pair)
  /\ \A c, d \in Calls : Handler(c, "answered") /\ Handler(d, "answered") /\ c # d
       => refresh[c].pair # refresh[d].pair
  /\ \A t, u \in Tabs : entry[t].at = "answered" /\ entry[u].at = "answered" /\ t # u
       => entry[t].pair # entry[u].pair
  /\ \A c \in Calls, t \in Tabs : Handler(c, "answered") /\ entry[t].at = "answered"
       => refresh[c].pair # entry[t].pair

(* What a tab has presented and still holds, or would hold after a reload, *)
(* it is waiting for an answer to, or a reload has cut the answer off.     *)
Waits(c, t) == At(c, "refreshing") /\ Tab(c) = t
Accounted(n, t) ==
  n # None /\ used[n][t] > 0 =>
    \/ n \in cut
    \/ \E c \in Calls : Waits(c, t) /\ refresh[c].token = n
    \/ leave[t] # NoLeave /\ leave[t].token = n
HoldInv == \A t \in Tabs : Accounted(store[t], t) /\ Accounted(storage, t)

(* Whoever else works with the token of a refresh has presented it; and a  *)
(* refresh that is refused has a cause.                                    *)
Cause(c, n, t) ==
  /\ \A d \in Calls \ {c} : ~Handler(d, "none") /\ refresh[d].token = n => Others(n, t)
  /\ \A u \in Tabs : leave[u] # NoLeave /\ leave[u].token = n => Others(n, t)
  /\ n \in adrift.revokes => Others(n, t)
  /\ n \in revoked /\ Handler(c, "find") => Others(n, t)
  /\ Handler(c, "refused") => c \in broken \/ n \in lapsed \/ Others(n, t)
CauseInv == \A c \in Calls : At(c, "refreshing") => Cause(c, refresh[c].token, Tab(c))

TokenInv == SessionInv /\ UsedInv /\ NewInv /\ HoldInv /\ CauseInv

(* What a step may do to the tokens. *)
CallsStay(C) ==
  \A c \in C : /\ call'[c].pc = "refreshing" <=> call[c].pc = "refreshing"
               /\ call[c].pc = "refreshing" => call'[c].tab = call[c].tab
HandlersStay(C) == \A c \in C : refresh'[c] = refresh[c]
EntriesStay(T) == \A t \in T : entry'[t].at = "answered" => entry'[t] = entry[t]
LeavesStay(T) == \A t \in T : leave'[t] = leave[t]
Emptied == (\A t \in Tabs : store'[t] = store[t]) /\ storage' \in {storage, None}
DriftStays == adrift'.revokes \subseteq adrift.revokes
DriftTakes(t) ==
  \A n \in adrift'.revokes : n \in adrift.revokes \/ (leave[t] # NoLeave /\ n = leave[t].token)
Held(t, n) == /\ store'[t] = n /\ storage' = n
              /\ \A u \in Tabs \ {t} : store'[u] = store[u]
Presents(n, t) ==
  /\ n \in Issued /\ n \in Pairs
  /\ used'[n][t] = used[n][t] + 1
  /\ \A m \in Pairs, u \in Tabs : m # n \/ u # t => used'[m][u] = used[m][u]

Calm ==
  /\ CallsStay(Calls) /\ HandlersStay(Calls) /\ Emptied /\ EntriesStay(Tabs) /\ LeavesStay(Tabs)
  /\ DriftStays /\ UNCHANGED <<tokens, used, cut>>
Starts(c) ==
  /\ call[c].pc # "refreshing" /\ call'[c].pc = "refreshing" /\ call'[c].tab \in Tabs
  /\ refresh'[c].at = "find" /\ refresh'[c].token = store[call'[c].tab]
  /\ Presents(refresh'[c].token, call'[c].tab)
  /\ CallsStay(Calls \ {c}) /\ HandlersStay(Calls \ {c})
  /\ DriftStays /\ UNCHANGED <<tokens, store, storage, entry, leave, cut>>
Ends(c) ==
  /\ Waits(c, Tab(c)) /\ Tab(c) \in Tabs /\ call'[c].pc # "refreshing"
  /\ CallsStay(Calls \ {c}) /\ HandlersStay(Calls \ {c})
  /\ \/ /\ Held(Tab(c), None) /\ refresh'[c] \in {refresh[c], NoRefresh}
        /\ Handler(c, "refused") \/ c \in broken'
     \/ /\ Handler(c, "answered")
        /\ Held(Tab(c), refresh[c].pair) /\ refresh'[c] = NoRefresh
  /\ DriftStays /\ UNCHANGED <<tokens, used, cut, entry, leave>>
Serves(c) ==
  /\ HandlersStay(Calls \ {c}) /\ DriftStays
  /\ UNCHANGED <<call, store, storage, entry, leave, used, cut>>
  /\ ~Handler(c, "none")
  /\ \/ /\ refresh'[c] = NoRefresh /\ ~At(c, "refreshing") /\ UNCHANGED tokens
     \/ /\ refresh'[c].token = refresh[c].token
        /\ \/ /\ Handler(c, "find") /\ refresh'[c].at = "refused" /\ UNCHANGED tokens
              /\ refresh[c].token \in revoked \cup lapsed
           \/ /\ refresh'[c].at = "refused" /\ c \in broken'
              /\ revoked' \in {revoked, revoked \cup {refresh[c].token}}
           \/ Handler(c, "find") /\ refresh'[c].at = "revoke" /\ UNCHANGED tokens
           \/ /\ refresh'[c].at = "issue" /\ issued' = issued
              /\ revoked' = revoked \cup {refresh[c].token}
           \/ /\ refresh'[c].at = "answered" /\ refresh'[c].pair = issued + 1
              /\ issued' = issued + 1 /\ revoked' = revoked
IssuesFirst(t) ==
  /\ entry'[t].at = "answered" /\ entry'[t].pair = issued + 1 /\ EntriesStay(Tabs \ {t})
  /\ issued' = issued + 1
  /\ DriftStays /\ UNCHANGED <<revoked, call, refresh, store, storage, leave, used, cut>>
Enters(t) ==
  /\ entry[t].at = "answered"
  /\ Held(t, entry[t].pair) /\ entry'[t] = NoEntry /\ EntriesStay(Tabs \ {t})
  /\ DriftStays /\ UNCHANGED <<tokens, call, refresh, leave, used, cut>>
Leaves(t) ==
  /\ leave[t] = NoLeave /\ leave'[t] # NoLeave /\ leave'[t].token = store[t]
  /\ LeavesStay(Tabs \ {t}) /\ Presents(store[t], t)
  /\ DriftStays /\ UNCHANGED <<tokens, call, refresh, store, storage, entry, cut>>
Answers(t) ==
  /\ leave[t] # NoLeave /\ leave'[t] # NoLeave /\ leave'[t].token = leave[t].token
  /\ LeavesStay(Tabs \ {t}) /\ issued' = issued
  /\ revoked' \in {revoked, revoked \cup {leave[t].token}}
  /\ DriftTakes(t)
  /\ UNCHANGED <<call, refresh, store, storage, entry, used, cut>>
Left(t) ==
  /\ Held(t, None) /\ leave[t].at = "answered" /\ leave'[t] = NoLeave /\ LeavesStay(Tabs \ {t})
  /\ DriftStays /\ UNCHANGED <<tokens, call, refresh, entry, used, cut>>
Reloads(t) ==
  /\ store'[t] = storage /\ storage' = storage
  /\ \A u \in Tabs \ {t} : store'[u] = store[u]
  /\ \A c \in Calls : IF Waits(c, t) THEN call'[c].pc # "refreshing" ELSE CallsStay({c})
  /\ cut \subseteq cut'
  /\ \A c \in Calls : Waits(c, t) => refresh[c].token \in cut'
  /\ leave[t] # NoLeave => leave[t].token \in cut'
  /\ leave'[t] = NoLeave /\ LeavesStay(Tabs \ {t}) /\ EntriesStay(Tabs)
  /\ DriftTakes(t) /\ Reloaded
  /\ UNCHANGED <<tokens, refresh, used>>
Drifts ==
  /\ \/ revoked' = revoked
     \/ \E n \in adrift.revokes : revoked' = revoked \cup {n}
  /\ DriftStays /\ UNCHANGED <<call, refresh, store, storage, entry, leave, used, cut>>

TokenMove ==
  \/ Calm \/ Drifts
  \/ \E c \in Calls : Starts(c) \/ Ends(c) \/ Serves(c)
  \/ \E t \in Tabs : IssuesFirst(t) \/ Enters(t) \/ Leaves(t) \/ Answers(t) \/ Left(t) \/ Reloads(t)
LEMMA SameCalls ==
  ASSUME NEW C, \A c \in C : call'[c] = call[c]  PROVE CallsStay(C)
  BY DEF CallsStay

LEMMA SetFact ==
  ASSUME store \in [Tabs -> Issued \cup {None}], NEW t \in Tabs, NEW n, SetTokens(t, n)
  PROVE  Held(t, n)
  BY DEF SetTokens, Held

LEMMA ForgetFact ==
  ASSUME HandlerTypes, NEW c \in Calls, Forget(c)
  PROVE  refresh'[c] = NoRefresh /\ HandlersStay(Calls \ {c})
  BY DEF HandlerTypes, Forget, HandlersStay

LEMMA PresentFact ==
  ASSUME SessionTypeOK, NEW n \in Issued, NEW t \in Tabs, Present(n, t)
  PROVE  Presents(n, t)
<1>1. n \in Pairs
  BY SessionAssumption DEF SessionTypeOK, Issued, Pairs, MaxPairs
<1>2. used \in [Pairs -> [Tabs -> Nat]]
  BY DEF SessionTypeOK
<1>3. used' = [used EXCEPT ![n] = [used[n] EXCEPT ![t] = used[n][t] + 1]]
  BY DEF Present
<1>4. /\ used'[n] = [used[n] EXCEPT ![t] = used[n][t] + 1]
      /\ \A m \in Pairs : m # n => used'[m] = used[m]
  BY <1>1, <1>2, <1>3
<1>5. used[n] \in [Tabs -> Nat]
  BY <1>1, <1>2
<1> QED  BY <1>1, <1>4, <1>5 DEF Presents

(* The steps that leave the tokens alone. *)
LEMMA CalmMoves ==
  ASSUME SessionTypeOK, NEW c, NEW t,
         \/ c \in Calls /\ t \in Tabs /\ Send(c, t)
         \/ c \in Calls /\ (Allowed(c) \/ DeniedAgain(c) \/ DeniedSignedOut(c) \/ Resend(c))
         \/ t \in Tabs /\ (Register(t) \/ Login(t) \/ EnterLost(t))
         \/ MonthPasses \/ Suspend \/ UNCHANGED sessionVars
  PROVE  Calm
<1>0. /\ HandlerTypes /\ CallTypes /\ store \in [Tabs -> Issued \cup {None}]
      /\ entry \in [Tabs -> [at : {"none", "issue", "answered"}, pair : Issued \cup {None}]]
  BY Parts DEF SessionTypeOK
<1>1. /\ HandlersStay(Calls) /\ LeavesStay(Tabs) /\ DriftStays
      /\ UNCHANGED <<tokens, used, cut>>
  BY Parts DEF Send, Allowed, DeniedAgain, DeniedSignedOut, Resend, Register, Login, Enter,
     EnterLost, MonthPasses, Suspend, DriftStays, sessionVars, tokens, desk, history,
     HandlersStay, LeavesStay
<1>2. EntriesStay(Tabs)
  <2>1. CASE t \in Tabs /\ (Register(t) \/ Login(t) \/ EnterLost(t))
    BY <1>0, <2>1 DEF Register, Login, Enter, EnterLost, NoEntry, EntriesStay
  <2> QED  BY <2>1 DEF Send, Allowed, DeniedAgain, DeniedSignedOut, Resend, MonthPasses, Suspend,
              sessionVars, desk, EntriesStay
<1>3. Emptied
  <2>1. CASE c \in Calls /\ DeniedSignedOut(c)
    BY <1>0, <2>1 DEF DeniedSignedOut, ClearAuth, SetTokens, Emptied
  <2> QED  BY <2>1 DEF Send, Allowed, DeniedAgain, Resend, Register, Login, Enter, EnterLost,
              MonthPasses, Suspend, sessionVars, browser, Emptied
<1>4. CallsStay(Calls)
  <2>1. CASE c \in Calls /\ t \in Tabs /\ Send(c, t)
    <3>1. /\ call[c].pc = "idle" /\ call'[c].pc = "asked"
          /\ \A d \in Calls \ {c} : call'[d] = call[d]
      BY <1>0, <2>1 DEF Send, CallTypes, At
    <3> QED  BY <3>1 DEF CallsStay
  <2>2. CASE c \in Calls /\ (Allowed(c) \/ DeniedAgain(c) \/ DeniedSignedOut(c))
    <3>1. c \in Calls /\ End(c) /\ call[c].pc # "refreshing"
      BY <2>2 DEF Allowed, DeniedAgain, DeniedSignedOut, At
    <3>2. call'[c].pc # "refreshing" /\ \A d \in Calls \ {c} : call'[d] = call[d]
      BY <1>0, <3>1, EndFact DEF NoCall
    <3> QED  BY <3>1, <3>2 DEF CallsStay
  <2>3. CASE c \in Calls /\ Resend(c)
    <3>1. call[c].pc = "resend"
      BY <2>3 DEF Resend, At
    <3>2. call'[c].pc = "asked_again" /\ \A d \in Calls \ {c} : call'[d] = call[d]
      BY <1>0, <2>3, <3>1, GotoFact DEF Resend, At
    <3> QED  BY <3>1, <3>2 DEF CallsStay
  <2>4. CASE \/ Register(t) \/ Login(t) \/ EnterLost(t)
             \/ MonthPasses \/ Suspend \/ UNCHANGED sessionVars
    BY <2>4, SameCalls DEF Register, Login, Enter, EnterLost, MonthPasses, Suspend, sessionVars,
         browser
  <2> QED  BY <2>1, <2>2, <2>3, <2>4
<1> QED  BY <1>1, <1>2, <1>3, <1>4 DEF Calm

LEMMA CallMoves ==
  ASSUME SessionTypeOK, SpentOK, HeldInv, NEW c \in Calls,
         StartRefresh(c) \/ StoreTokens(c) \/ RefreshFails(c) \/ Disconnect(c)
  PROVE  Starts(c) \/ Ends(c)
<1>0. /\ HandlerTypes /\ CallTypes /\ store \in [Tabs -> Issued \cup {None}]
  BY Parts
<1>1. Tab(c) \in Tabs
  BY <1>0, GotoFact DEF StartRefresh, StoreTokens, RefreshFails, Disconnect, At, CallTypes,
     NoCall, Tab
<1>2. CASE StartRefresh(c)
  <2> DEFINE n == store[Tab(c)]
  <2>1. n \in Issued /\ call[c].pc = "asked"
    BY <1>0, <1>1, <1>2 DEF StartRefresh, At
  <2>2. call'[c].pc = "refreshing" /\ call'[c].tab = Tab(c)
    BY <1>0, <1>2, <2>1 DEF StartRefresh, Goto, CallTypes, NoCall, Tab
  <2>3. \A d \in Calls \ {c} : call'[d] = call[d]
    BY <1>0, <1>2, <2>1, GotoFact DEF StartRefresh, At
  <2>4. /\ refresh'[c].at = "find" /\ refresh'[c].token = n
        /\ HandlersStay(Calls \ {c})
    BY <1>0, <1>2 DEF StartRefresh, HandlerTypes, HandlersStay
  <2>5. Presents(n, Tab(c))
    BY <1>1, <1>2, <2>1, PresentFact DEF StartRefresh
  <2>6. DriftStays /\ UNCHANGED <<tokens, store, storage, entry, leave, cut>>
    BY <1>2 DEF StartRefresh, desk, DriftStays
  <2> QED  BY <1>1, <2>1, <2>2, <2>3, <2>4, <2>5, <2>6, SameCalls DEF Starts
<1>3. CASE StoreTokens(c)
  <2>1. /\ Handler(c, "answered") /\ At(c, "refreshing")
        /\ DriftStays /\ UNCHANGED <<tokens, used, cut, entry, leave>>
    BY <1>3 DEF StoreTokens, desk, DriftStays
  <2>2. call'[c].pc = "resend" /\ \A d \in Calls \ {c} : call'[d] = call[d]
    BY <1>0, <1>3, <2>1, GotoFact DEF StoreTokens, At
  <2>3. Held(Tab(c), refresh[c].pair)
    BY <1>0, <1>1, <1>3, SetFact DEF StoreTokens
  <2>4. refresh'[c] = NoRefresh /\ HandlersStay(Calls \ {c})
    BY <1>0, <1>3, ForgetFact DEF StoreTokens
  <2> QED  BY <1>1, <2>1, <2>2, <2>3, <2>4, SameCalls DEF Ends, Waits
<1>4. CASE RefreshFails(c) \/ Disconnect(c)
  <2>1. /\ At(c, "refreshing") /\ ClearAuth(Tab(c)) /\ End(c)
        /\ DriftStays /\ UNCHANGED <<tokens, used, cut, entry, leave>>
    BY <1>4 DEF RefreshFails, Disconnect, desk, DriftStays
  <2>2. call'[c].pc # "refreshing" /\ \A d \in Calls \ {c} : call'[d] = call[d]
    BY <1>0, <2>1, EndFact DEF NoCall
  <2>3. Held(Tab(c), None)
    BY <1>0, <1>1, <2>1, SetFact DEF ClearAuth
  <2>4. refresh'[c] \in {refresh[c], NoRefresh} /\ HandlersStay(Calls \ {c})
    <3>1. RefreshFails(c) => Forget(c)
      BY DEF RefreshFails
    <3>2. Disconnect(c) => refresh' = refresh
      BY DEF Disconnect
    <3> QED  BY <1>0, <1>4, <3>1, <3>2, ForgetFact DEF HandlersStay
  <2>5. Handler(c, "refused") \/ c \in broken'
    <3>1. Disconnect(c) => c \in broken'
      BY DEF Disconnect, Break
    <3> QED  BY <1>4, <3>1 DEF RefreshFails
  <2> QED  BY <1>1, <2>1, <2>2, <2>3, <2>4, <2>5, SameCalls DEF Ends, Waits
<1> QED  BY <1>2, <1>3, <1>4
LEMMA ServeMoves ==
  ASSUME SessionTypeOK, SpentOK, NEW c \in Calls, HandlerStep(c) \/ StatementFails(c)
  PROVE  Serves(c)
<1>0. HandlerTypes
  BY Parts
<1>1. /\ UNCHANGED <<call, store, storage, entry, leave, used, cut>> /\ DriftStays
      /\ ~Handler(c, "none")
  BY DEF HandlerStep, Find, Revoke, Issue, Unheard, StatementFails, browser, desk, history,
     Handler, DriftStays
<1>2. CASE Find(c) \/ Revoke(c) \/ StatementFails(c)
  <2>1. PICK at \in {"refused", "revoke", "issue"} : refresh' = [refresh EXCEPT ![c].at = at]
    BY <1>2 DEF Find, Accept, Refuse, Revoke, StatementFails
  <2>2. /\ refresh'[c].at = at /\ refresh'[c].token = refresh[c].token
        /\ HandlersStay(Calls \ {c})
    BY <1>0, <2>1, HandlerFact DEF HandlersStay
  <2>3. CASE Find(c)
    <3>1. CASE Refuse(c) /\ refresh[c].token \in revoked \cup lapsed
      <4>1. refresh'[c].at = "refused"
        BY <1>0, <3>1, HandlerFact DEF Refuse
      <4> QED  BY <1>1, <2>2, <2>3, <3>1, <4>1 DEF Find, Serves
    <3>2. CASE Accept(c)
      <4>1. refresh'[c].at = "revoke"
        BY <1>0, <3>2, HandlerFact DEF Accept
      <4> QED  BY <1>1, <2>2, <2>3, <4>1 DEF Find, Serves
    <3> QED  BY <2>3, <3>1, <3>2, Zenon DEF Find
  <2>4. CASE Revoke(c)
    <3>1. refresh'[c].at = "issue"
      BY <1>0, <2>4, HandlerFact DEF Revoke
    <3> QED  BY <1>1, <2>2, <2>4, <3>1 DEF Revoke, Serves
  <2>5. CASE StatementFails(c)
    <3>1. refresh'[c].at = "refused"
      BY <1>0, <2>5, HandlerFact DEF StatementFails
    <3>2. c \in broken' /\ revoked' \in {revoked, revoked \cup {refresh[c].token}}
      BY <2>5 DEF StatementFails, Break, tokens
    <3> QED  BY <1>1, <2>2, <3>1, <3>2 DEF Serves
  <2> QED  BY <1>2, <2>3, <2>4, <2>5
<1>3. CASE Issue(c)
  <2>1. /\ issued' = issued + 1 /\ revoked' = revoked
        /\ refresh' = [refresh EXCEPT ![c].at = "answered", ![c].pair = issued']
    BY <1>3 DEF Issue
  <2>2. /\ refresh'[c].at = "answered" /\ refresh'[c].pair = issued'
        /\ refresh'[c].token = refresh[c].token /\ HandlersStay(Calls \ {c})
    BY <1>0, <2>1 DEF HandlerTypes, HandlersStay
  <2> QED  BY <1>1, <2>1, <2>2 DEF Serves
<1>4. CASE Unheard(c)
  <2>1. refresh'[c] = NoRefresh /\ HandlersStay(Calls \ {c})
    BY <1>0, <1>4, ForgetFact DEF Unheard
  <2> QED  BY <1>1, <1>4, <2>1 DEF Unheard, Serves, At
<1> QED  BY <1>2, <1>3, <1>4 DEF HandlerStep

LEMMA TabMoves ==
  ASSUME SessionTypeOK, SpentOK, NEW t \in Tabs,
         \/ IssueFirst(t) \/ Entered(t) \/ Logout(t) \/ LogoutRevokes(t) \/ LogoutLost(t)
         \/ LoggedOut(t) \/ Reload(t)
  PROVE  \/ IssuesFirst(t) \/ Enters(t) \/ Leaves(t) \/ Answers(t) \/ Left(t) \/ Reloads(t)
<1>0. /\ CallTypes /\ LeaveTypes /\ store \in [Tabs -> Issued \cup {None}]
      /\ adrift \in [issues : Nat, revokes : SUBSET Issued]
      /\ entry \in [Tabs -> [at : {"none", "issue", "answered"}, pair : Issued \cup {None}]]
  BY Parts DEF SessionTypeOK
<1>1. CASE IssueFirst(t)
  BY <1>0, <1>1 DEF IssueFirst, browser, history, IssuesFirst, EntriesStay, DriftStays
<1>2. CASE Entered(t)
  <2>1. /\ Held(t, entry[t].pair) /\ entry[t].at = "answered"
        /\ DriftStays /\ UNCHANGED <<tokens, call, refresh, leave, used, cut>>
    BY <1>0, <1>2, SetFact DEF Entered, history, DriftStays
  <2>2. entry'[t] = NoEntry /\ EntriesStay(Tabs \ {t})
    BY <1>0, <1>2 DEF Entered, EntriesStay
  <2> QED  BY <2>1, <2>2 DEF Enters
<1>3. CASE Logout(t)
  <2> DEFINE l == [at |-> "sent", token |-> store[t]]
  <2>1. /\ leave'[t] = l /\ LeavesStay(Tabs \ {t})
    BY <1>0, <1>3 DEF Logout, LeaveTypes, LeavesStay
  <2>2. l # NoLeave /\ l.token = store[t]
    BY DEF NoLeave
  <2>3. Presents(store[t], t)
    BY <1>0, <1>3, PresentFact DEF Logout
  <2> QED  BY <1>3, <2>1, <2>2, <2>3 DEF Logout, browser, Leaves, DriftStays
<1>4. CASE LogoutRevokes(t) \/ LogoutLost(t)
  <2>1. leave[t].at = "sent" /\ leave' = [leave EXCEPT ![t].at = "answered"]
    BY <1>4 DEF LogoutRevokes, LogoutLost
  <2>2. /\ leave'[t].at = "answered" /\ leave'[t].token = leave[t].token
        /\ LeavesStay(Tabs \ {t})
    BY <1>0, <2>1 DEF LeaveTypes, LeavesStay
  <2>3. leave[t] # NoLeave /\ leave'[t] # NoLeave
    BY <2>1, <2>2 DEF NoLeave
  <2>4. DriftTakes(t)
    BY <1>0, <1>4, <2>3 DEF LogoutRevokes, LogoutLost, DriftTakes
  <2> QED  BY <1>4, <2>2, <2>3, <2>4 DEF LogoutRevokes, LogoutLost, browser, history, tokens,
             Answers
<1>5. CASE LoggedOut(t)
  <2>1. Held(t, None)
    BY <1>0, <1>5, SetFact DEF LoggedOut, ClearAuth
  <2>2. leave'[t] = NoLeave /\ LeavesStay(Tabs \ {t})
    BY <1>0, <1>5 DEF LoggedOut, LeaveTypes, LeavesStay
  <2> QED  BY <1>5, <2>1, <2>2 DEF LoggedOut, history, Left, DriftStays
<1>6. CASE Reload(t)
  <2>1. /\ store'[t] = storage /\ storage' = storage
        /\ \A u \in Tabs \ {t} : store'[u] = store[u]
        /\ UNCHANGED <<tokens, refresh, used>>
    BY <1>0, <1>6 DEF Reload
  <2>2. \A c \in Calls : IF Waits(c, t) THEN call'[c].pc # "refreshing" ELSE CallsStay({c})
    <3>1. ASSUME NEW c \in Calls, Waits(c, t)  PROVE call'[c].pc # "refreshing"
      <4>1. call'[c] = NoCall
        BY <1>6, <3>1 DEF Reload, Waits, At
      <4> QED  BY <4>1 DEF NoCall
    <3>2. ASSUME NEW c \in Calls, ~Waits(c, t)  PROVE CallsStay({c})
      <4>1. CASE call'[c] = call[c]
        BY <4>1 DEF CallsStay
      <4>2. CASE Tab(c) = t /\ call'[c] = NoCall
        <5>1. call[c].pc # "refreshing" /\ call'[c].pc # "refreshing"
          BY <3>2, <4>2 DEF Waits, At, NoCall
        <5> QED  BY <5>1 DEF CallsStay
      <4> QED  BY <1>6, <4>1, <4>2 DEF Reload
    <3> QED  BY <3>1, <3>2
  <2>3. /\ cut \subseteq cut'
        /\ \A c \in Calls : Waits(c, t) => refresh[c].token \in cut'
        /\ leave[t] # NoLeave => leave[t].token \in cut'
    BY <1>6 DEF Reload, Waits
  <2>4. leave'[t] = NoLeave /\ LeavesStay(Tabs \ {t})
    BY <1>0, <1>6 DEF Reload, LeaveTypes, LeavesStay
  <2>5. EntriesStay(Tabs)
    <3>1. /\ entry'[t] = NoEntry
          /\ \A u \in Tabs \ {t} : entry'[u] = entry[u]
      BY <1>0, <1>6 DEF Reload
    <3> QED  BY <3>1 DEF EntriesStay, NoEntry
  <2>6. DriftTakes(t)
    BY <1>0, <1>6 DEF Reload, DriftTakes, NoLeave
  <2>7. Reloaded
    BY <1>6, SpendFact DEF Reload, Reloaded, SpentOK
  <2> QED  BY <2>1, <2>2, <2>3, <2>4, <2>5, <2>6, <2>7 DEF Reloads
<1> QED  BY <1>1, <1>2, <1>3, <1>4, <1>5, <1>6

LEMMA TokenMoves ==
  ASSUME SessionInv, [SessionNext]_sessionVars
  PROVE  TokenMove
<1>0. SessionTypeOK /\ SpentOK /\ HeldInv
  BY DEF SessionInv
<1>1. ASSUME NEW c \in Calls, CallStep(c) \/ Disconnect(c)  PROVE TokenMove
  <2>1. CASE StartRefresh(c) \/ StoreTokens(c) \/ RefreshFails(c) \/ Disconnect(c)
    BY <1>0, <2>1, CallMoves DEF TokenMove
  <2>2. CASE Allowed(c) \/ DeniedAgain(c) \/ DeniedSignedOut(c) \/ Resend(c)
    BY <1>0, <2>2, CalmMoves DEF TokenMove
  <2> QED  BY <1>1, <2>1, <2>2 DEF CallStep
<1>2. ASSUME NEW c \in Calls, HandlerStep(c) \/ StatementFails(c)  PROVE TokenMove
  BY <1>0, <1>2, ServeMoves DEF TokenMove
<1>3. ASSUME NEW t \in Tabs, TabStep(t)  PROVE TokenMove
  <2>1. CASE Register(t) \/ Login(t) \/ EnterLost(t)
    BY <1>0, <2>1, CalmMoves DEF TokenMove
  <2>2. CASE ~(Register(t) \/ Login(t) \/ EnterLost(t))
    BY <1>0, <1>3, <2>2, TabMoves DEF TabStep, TokenMove
  <2> QED  BY <2>1, <2>2
<1>4. ASSUME NEW t \in Tabs, NEW c \in Calls, Send(c, t)  PROVE TokenMove
  BY <1>0, <1>4, CalmMoves DEF TokenMove
<1>5. CASE MonthPasses \/ Suspend \/ UNCHANGED sessionVars
  BY <1>0, <1>5, CalmMoves DEF TokenMove
<1>6. CASE IssueAdrift \/ RevokeAdrift
  <2>1. DriftStays
    BY <1>0, <1>6, Parts DEF IssueAdrift, RevokeAdrift, DriftStays
  <2> QED  BY <1>6, <2>1 DEF IssueAdrift, RevokeAdrift, browser, history, Drifts, TokenMove
<1> QED  BY <1>1, <1>2, <1>3, <1>4, <1>5, <1>6 DEF SessionNext
-----------------------------------------------------------------------------
(* What a step does to one handler, call, logout or token. *)

LEMMA OneHandlerMoves ==
  ASSUME TokenMove, NEW c \in Calls
  PROVE  \/ refresh'[c] = refresh[c] \/ refresh'[c] = NoRefresh \/ Starts(c)
         \/ Serves(c) /\ ~Handler(c, "none") /\ refresh'[c].token = refresh[c].token
<1>1. (\E d \in Calls : Starts(d) \/ Ends(d) \/ Serves(d)) =>
        \/ refresh'[c] = refresh[c] \/ refresh'[c] = NoRefresh \/ Starts(c)
        \/ Serves(c) /\ ~Handler(c, "none") /\ refresh'[c].token = refresh[c].token
  <2> SUFFICES ASSUME NEW d \in Calls, Starts(d) \/ Ends(d) \/ Serves(d),
                      refresh'[c] # refresh[c], refresh'[c] # NoRefresh, ~Starts(c)
               PROVE  Serves(c) /\ ~Handler(c, "none") /\ refresh'[c].token = refresh[c].token
    OBVIOUS
  <2>1. d = c
    BY DEF Starts, Ends, Serves, HandlersStay
  <2> QED  BY <2>1 DEF Ends, Serves
<1> QED  BY <1>1 DEF TokenMove, Drifts, Calm, IssuesFirst, Enters, Leaves, Answers, Left, Reloads,
            HandlersStay

LEMMA OneCallMoves ==
  ASSUME TokenMove, NEW c \in Calls, call'[c].pc = "refreshing"
  PROVE  \/ Starts(c)
         \/ /\ At(c, "refreshing") /\ call'[c].tab = Tab(c)
            /\ refresh'[c].token = refresh[c].token
            /\ refresh'[c] = refresh[c] \/ Serves(c)
<1> USE DEF At, Tab
<1>1. CASE Calm
  BY <1>1 DEF Calm, CallsStay, HandlersStay
<1>2. ASSUME NEW d \in Calls, Starts(d)
      PROVE  \/ Starts(c)
             \/ /\ At(c, "refreshing") /\ call'[c].tab = Tab(c) /\ refresh'[c] = refresh[c]
  BY <1>2 DEF Starts, CallsStay, HandlersStay
<1>3. ASSUME NEW d \in Calls, Ends(d)
      PROVE  At(c, "refreshing") /\ call'[c].tab = Tab(c) /\ refresh'[c] = refresh[c]
  BY <1>3 DEF Ends, CallsStay, HandlersStay
<1>4. ASSUME NEW d \in Calls, Serves(d)
      PROVE  /\ At(c, "refreshing") /\ call'[c].tab = Tab(c)
             /\ refresh'[c].token = refresh[c].token
             /\ refresh'[c] = refresh[c] \/ Serves(c)
  <2>1. call' = call
    BY <1>4 DEF Serves
  <2>2. CASE d # c
    BY <1>4, <2>1, <2>2 DEF Serves, HandlersStay
  <2>3. CASE d = c
    BY <1>4, <2>1, <2>3 DEF Serves
  <2> QED  BY <2>2, <2>3
<1>5. ASSUME NEW t \in Tabs, IssuesFirst(t) \/ Enters(t) \/ Leaves(t) \/ Answers(t) \/ Left(t)
      PROVE  At(c, "refreshing") /\ call'[c].tab = Tab(c) /\ refresh'[c] = refresh[c]
  BY <1>5 DEF IssuesFirst, Enters, Leaves, Answers, Left
<1>6. ASSUME NEW t \in Tabs, Reloads(t)
      PROVE  At(c, "refreshing") /\ call'[c].tab = Tab(c) /\ refresh'[c] = refresh[c]
  <2>1. CallsStay({c})
    BY <1>6 DEF Reloads
  <2> QED  BY <1>6, <2>1 DEF Reloads, CallsStay
<1> QED  BY <1>1, <1>2, <1>3, <1>4, <1>5, <1>6 DEF TokenMove, Drifts

LEMMA OneLeaveMoves ==
  ASSUME TokenMove, NEW t \in Tabs, leave'[t] # NoLeave
  PROVE  Leaves(t) \/ (leave[t] # NoLeave /\ leave'[t].token = leave[t].token)
<1>1. ASSUME NEW u \in Tabs, Leaves(u) \/ Answers(u) \/ Left(u) \/ Reloads(u)
      PROVE  Leaves(t) \/ (leave[t] # NoLeave /\ leave'[t].token = leave[t].token)
  <2>1. CASE u # t
    BY <1>1, <2>1 DEF Leaves, Answers, Left, Reloads, LeavesStay
  <2>2. CASE u = t
    BY <1>1, <2>2 DEF Answers, Left, Reloads
  <2> QED  BY <2>1, <2>2
<1> QED  BY <1>1 DEF TokenMove, Drifts, Calm, Starts, Ends, Serves, IssuesFirst, Enters, LeavesStay

LEMMA OneTokenMoves ==
  ASSUME TokenMove, NEW n \in revoked'
  PROVE  \/ n \in revoked
         \/ \E c \in Calls : /\ ~Handler(c, "none") /\ refresh[c].token = n
                             /\ refresh'[c].at # "find"
         \/ \E t \in Tabs : leave[t] # NoLeave /\ leave[t].token = n
         \/ n \in adrift.revokes
<1>1. ASSUME NEW c \in Calls, Serves(c)
      PROVE  \/ n \in revoked
             \/ ~Handler(c, "none") /\ refresh[c].token = n /\ refresh'[c].at # "find"
  BY <1>1 DEF Serves, tokens, NoRefresh
<1>2. ASSUME NEW t \in Tabs, Answers(t)
      PROVE  n \in revoked \/ (leave[t] # NoLeave /\ leave[t].token = n)
  BY <1>2 DEF Answers
<1> QED  BY <1>1, <1>2 DEF TokenMove, Drifts, Calm, Starts, Ends, IssuesFirst, Enters, Leaves,
            Left, Reloads, tokens

LEMMA DriftMoves ==
  ASSUME TokenMove, NEW n \in adrift'.revokes
  PROVE  n \in adrift.revokes \/ \E t \in Tabs : leave[t] # NoLeave /\ leave[t].token = n
BY DEF TokenMove, Drifts, Calm, Starts, Ends, Serves, IssuesFirst, Enters, Leaves, Answers, Left,
   Reloads, DriftStays, DriftTakes

LEMMA UsedMoves ==
  ASSUME TokenMove
  PROVE  \/ used' = used
         \/ \E n \in Pairs, t \in Tabs : n \in Issued /\ n = store[t] /\ Presents(n, t)
<1>1. ASSUME NEW t \in Tabs, Presents(store[t], t)
      PROVE  \E n \in Pairs, u \in Tabs : n \in Issued /\ n = store[u] /\ Presents(n, u)
  BY <1>1 DEF Presents
<1>2. ASSUME NEW c \in Calls, Starts(c)
      PROVE  \E t \in Tabs : Presents(store[t], t)
  <2>1. call'[c].tab \in Tabs /\ Presents(store[call'[c].tab], call'[c].tab)
    BY <1>2 DEF Starts
  <2> QED  BY <2>1
<1>3. ASSUME NEW t \in Tabs, Leaves(t)
      PROVE  Presents(store[t], t)
  BY <1>3 DEF Leaves
<1> QED  BY <1>1, <1>2, <1>3 DEF TokenMove, Drifts, Calm, Ends, Serves, IssuesFirst, Enters,
            Answers, Left, Reloads

(* Presentations are only added. *)
LEMMA UsedGrows ==
  ASSUME SessionTypeOK, TokenMove, NEW n \in Pairs
  PROVE  /\ \A u \in Tabs : /\ used[n][u] \in Nat /\ used'[n][u] \in Nat
                            /\ used[n][u] <= used'[n][u]
         /\ Presented(n) => \E u \in Tabs : used'[n][u] > 0
         /\ \A t \in Tabs : Others(n, t) => \E u \in Tabs : used'[n][u] > (IF u = t THEN 1 ELSE 0)
<1>1. used \in [Pairs -> [Tabs -> Nat]]
  BY DEF SessionTypeOK
<1>2. \A u \in Tabs : used[n][u] \in Nat
  BY <1>1
<1>3. ASSUME NEW u \in Tabs
      PROVE  used'[n][u] \in Nat /\ used[n][u] <= used'[n][u]
  <2>1. CASE used' = used
    BY <1>2, <2>1
  <2>2. ASSUME NEW m \in Pairs, NEW t \in Tabs, Presents(m, t)
        PROVE  used'[n][u] \in Nat /\ used[n][u] <= used'[n][u]
    <3>1. CASE m = n /\ t = u
      BY <1>2, <2>2, <3>1 DEF Presents
    <3>2. CASE m # n \/ t # u
      BY <1>2, <2>2, <3>2 DEF Presents
    <3> QED  BY <3>1, <3>2
  <2> QED  BY <2>1, <2>2, UsedMoves
<1>4. Presented(n) => \E u \in Tabs : used'[n][u] > 0
  BY <1>2, <1>3 DEF Presented
<1>5. ASSUME NEW t \in Tabs, Others(n, t)
      PROVE  \E u \in Tabs : used'[n][u] > (IF u = t THEN 1 ELSE 0)
  <2>1. PICK u \in Tabs : used[n][u] > (IF u = t THEN 1 ELSE 0)
    BY <1>5 DEF Others
  <2>2. used'[n][u] > (IF u = t THEN 1 ELSE 0)
    BY <1>2, <1>3, <2>1
  <2> QED  BY <2>2
<1> QED  BY <1>2, <1>3, <1>4, <1>5
-----------------------------------------------------------------------------
(* The invariant, part by part. *)

LEMMA PairFact ==
  ASSUME SessionTypeOK, HeldInv
  PROVE  /\ issued \in Nat /\ Issued \subseteq Pairs /\ None \notin Issued
         /\ revoked \subseteq Issued /\ adrift.revokes \subseteq Issued
         /\ \A c \in Calls : ~Handler(c, "none") => refresh[c].token \in Pairs
         /\ \A c \in Calls : At(c, "refreshing") =>
              ~Handler(c, "none") /\ refresh[c].token \in Pairs /\ Tab(c) \in Tabs
         /\ \A t \in Tabs : leave[t] # NoLeave => leave[t].token \in Pairs
         /\ \A t \in Tabs : store[t] \in Issued \cup {None}
         /\ storage \in Issued \cup {None}
<1>1. issued \in Nat /\ Issued \subseteq Pairs /\ None \notin Issued
  BY SessionAssumption DEF SessionTypeOK, Issued, Pairs, MaxPairs, None
<1>2. \A c \in Calls : At(c, "refreshing") => Tab(c) \in Tabs
  BY Parts DEF CallTypes, NoCall, At, Tab
<1>3. /\ revoked \subseteq Issued /\ adrift.revokes \subseteq Issued
      /\ \A t \in Tabs : store[t] \in Issued \cup {None}
      /\ storage \in Issued \cup {None}
  BY DEF SessionTypeOK
<1> QED  BY <1>1, <1>2, <1>3 DEF HeldInv

LEMMA UsedStep ==
  ASSUME SessionTypeOK, HeldInv, UsedInv, TokenMove, Issued \subseteq Issued'
  PROVE  UsedInv'
<1>0. /\ \A c \in Calls : ~Handler(c, "none") => refresh[c].token \in Pairs
      /\ \A c \in Calls : At(c, "refreshing") => refresh[c].token \in Pairs /\ Tab(c) \in Tabs
      /\ \A t \in Tabs : leave[t] # NoLeave => leave[t].token \in Pairs
      /\ revoked \subseteq Pairs /\ adrift.revokes \subseteq Pairs
  BY PairFact
<1>1. ASSUME NEW n \in Pairs, NEW u \in Tabs, used'[n][u] > 0  PROVE n \in Issued'
  <2>1. CASE used' = used
    BY <1>1, <2>1 DEF UsedInv
  <2>2. ASSUME NEW m \in Pairs, NEW t \in Tabs, m \in Issued, Presents(m, t)  PROVE n \in Issued'
    <3>1. CASE m = n
      BY <2>2, <3>1
    <3>2. CASE m # n
      BY <1>1, <2>2, <3>2 DEF Presents, UsedInv
    <3> QED  BY <3>1, <3>2
  <2> QED  BY <2>1, <2>2, UsedMoves
<1>2. ASSUME NEW n \in revoked'  PROVE \E u \in Tabs : used'[n][u] > 0
  <2>1. n \in Pairs /\ Presented(n)
    <3>1. ASSUME NEW t \in Tabs, leave[t] # NoLeave, leave[t].token = n
          PROVE  n \in Pairs /\ Presented(n)
      BY <1>0, <3>1 DEF UsedInv, Presented
    <3>2. ASSUME NEW c \in Calls, ~Handler(c, "none"), refresh[c].token = n
          PROVE  n \in Pairs /\ Presented(n)
      BY <1>0, <3>2 DEF UsedInv
    <3>3. ASSUME n \in revoked \cup adrift.revokes  PROVE n \in Pairs /\ Presented(n)
      BY <1>0, <3>3 DEF UsedInv
    <3> QED  BY <3>1, <3>2, <3>3, OneTokenMoves
  <2> QED  BY <2>1, UsedGrows
<1>3. ASSUME NEW c \in Calls, refresh'[c].at # "none"
      PROVE  \E u \in Tabs : used'[refresh'[c].token][u] > 0
  <2>1. CASE Starts(c)
    <3> DEFINE n == refresh'[c].token
               t == call'[c].tab
    <3>1. t \in Tabs /\ Presents(n, t)
      BY <2>1 DEF Starts
    <3>2. n \in Pairs /\ used'[n][t] = used[n][t] + 1
      BY <3>1 DEF Presents
    <3>3. used[n][t] \in Nat
      BY <3>1, <3>2, UsedGrows
    <3>4. used'[n][t] > 0
      BY <3>2, <3>3
    <3> QED  BY <3>1, <3>4
  <2>2. CASE ~Handler(c, "none") /\ refresh'[c].token = refresh[c].token
    <3>1. Presented(refresh[c].token) /\ refresh[c].token \in Pairs
      BY <1>0, <2>2 DEF UsedInv
    <3> QED  BY <2>2, <3>1, UsedGrows
  <2>3. refresh'[c] # NoRefresh
    BY <1>3 DEF NoRefresh
  <2>4. refresh'[c] = refresh[c] => ~Handler(c, "none")
    BY <1>3 DEF Handler
  <2> QED  BY <2>1, <2>2, <2>3, <2>4, OneHandlerMoves
<1>4. ASSUME NEW c \in Calls, call'[c].pc = "refreshing"
      PROVE  used'[refresh'[c].token][call'[c].tab] > 0
  <2>1. CASE Starts(c)
    <3> DEFINE n == refresh'[c].token
               t == call'[c].tab
    <3>1. t \in Tabs /\ Presents(n, t)
      BY <2>1 DEF Starts
    <3>2. n \in Pairs /\ used'[n][t] = used[n][t] + 1
      BY <3>1 DEF Presents
    <3>3. used[n][t] \in Nat
      BY <3>1, <3>2, UsedGrows
    <3>4. used'[n][t] > 0
      BY <3>2, <3>3
    <3> QED  BY <3>4
  <2>2. CASE At(c, "refreshing") /\ call'[c].tab = Tab(c) /\ refresh'[c].token = refresh[c].token
    <3> DEFINE n == refresh[c].token
    <3>1. n \in Pairs /\ Tab(c) \in Tabs /\ used[n][Tab(c)] > 0
      BY <1>0, <2>2 DEF UsedInv
    <3> HIDE DEF n
    <3>2. /\ used[n][Tab(c)] \in Nat /\ used'[n][Tab(c)] \in Nat
          /\ used[n][Tab(c)] <= used'[n][Tab(c)]
      BY <3>1, UsedGrows
    <3>3. used'[n][Tab(c)] > 0
      BY <3>1, <3>2
    <3> QED  BY <2>2, <3>3 DEF n
  <2> QED  BY <1>4, <2>1, <2>2, OneCallMoves
<1>5. ASSUME NEW t \in Tabs, leave'[t] # NoLeave
      PROVE  used'[leave'[t].token][t] > 0
  <2> DEFINE n == leave'[t].token
  <2>1. CASE Leaves(t)
    <3>1. n \in Pairs /\ used'[n][t] = used[n][t] + 1
      BY <2>1 DEF Leaves, Presents
    <3>2. used[n][t] \in Nat
      BY <3>1, UsedGrows
    <3> HIDE DEF n
    <3>3. used'[n][t] > 0
      BY <3>1, <3>2
    <3> QED  BY <3>3 DEF n
  <2>2. CASE leave[t] # NoLeave /\ leave'[t].token = leave[t].token
    <3>1. n \in Pairs /\ used[n][t] > 0
      BY <1>0, <2>2 DEF UsedInv
    <3> HIDE DEF n
    <3>2. used[n][t] \in Nat /\ used'[n][t] \in Nat /\ used[n][t] <= used'[n][t]
      BY <3>1, UsedGrows
    <3>3. used'[n][t] > 0
      BY <3>1, <3>2
    <3> QED  BY <3>3 DEF n
  <2> QED  BY <1>5, <2>1, <2>2, OneLeaveMoves
<1>7. ASSUME NEW n \in adrift'.revokes  PROVE \E u \in Tabs : used'[n][u] > 0
  <2>1. n \in Pairs /\ Presented(n)
    <3>1. ASSUME NEW t \in Tabs, leave[t] # NoLeave, leave[t].token = n
          PROVE  n \in Pairs /\ Presented(n)
      BY <1>0, <3>1 DEF UsedInv, Presented
    <3>2. ASSUME n \in adrift.revokes  PROVE n \in Pairs /\ Presented(n)
      BY <1>0, <3>2 DEF UsedInv
    <3> QED  BY <3>1, <3>2, DriftMoves
  <2> QED  BY <2>1, UsedGrows
<1>6. UsedInv' <=>
        /\ \A n \in Pairs, u \in Tabs : used'[n][u] > 0 => n \in Issued'
        /\ \A n \in revoked' : \E u \in Tabs : used'[n][u] > 0
        /\ \A c \in Calls : refresh'[c].at # "none"
             => \E u \in Tabs : used'[refresh'[c].token][u] > 0
        /\ \A c \in Calls : call'[c].pc = "refreshing"
             => used'[refresh'[c].token][call'[c].tab] > 0
        /\ \A t \in Tabs : leave'[t] # NoLeave => used'[leave'[t].token][t] > 0
        /\ \A n \in adrift'.revokes : \E u \in Tabs : used'[n][u] > 0
  BY DEF UsedInv, Presented, Handler, At, Tab, Pairs, MaxPairs
<1> QED  BY <1>1, <1>2, <1>3, <1>4, <1>5, <1>6, <1>7

(* One more presentation of a token, next to another tab's or an earlier one. *)
LEMMA ExtraFact ==
  ASSUME SessionTypeOK, TokenMove, NEW n \in Pairs, NEW t \in Tabs, NEW w \in Tabs, NEW v \in Tabs,
         Presents(n, w), used[n][v] > 0, v = t \/ w = t
  PROVE  \E u \in Tabs : used'[n][u] > (IF u = t THEN 1 ELSE 0)
<1>1. \A u \in Tabs : used[n][u] \in Nat /\ used'[n][u] \in Nat /\ used[n][u] <= used'[n][u]
  BY UsedGrows
<1>2. used'[n][w] = used[n][w] + 1
  BY DEF Presents
<1>3. \/ used'[n][w] > (IF w = t THEN 1 ELSE 0)
      \/ used'[n][v] > (IF v = t THEN 1 ELSE 0)
  <2>1. CASE v = w
    BY <1>1, <1>2, <2>1
  <2>2. CASE v # w /\ w # t
    BY <1>1, <1>2, <2>2
  <2>3. CASE v # w /\ w = t
    BY <1>1, <2>3
  <2> QED  BY <2>1, <2>2, <2>3
<1> QED  BY <1>3

LEMMA AgeStep ==
  ASSUME [SessionNext]_sessionVars
  PROVE  lapsed \subseteq lapsed'
BY DEF SessionNext, sessionVars, CallStep, Allowed, DeniedAgain, DeniedSignedOut, StartRefresh,
   StoreTokens, Resend, RefreshFails, HandlerStep, Find, Revoke, Issue, Unheard, StatementFails,
   Disconnect, TabStep, Register, Login, Enter, EnterLost, IssueFirst, Entered, Logout,
   LogoutRevokes, LogoutLost, LoggedOut, Reload, Send, IssueAdrift, RevokeAdrift, MonthPasses,
   Suspend

(* A refresh that a fault has broken stays so while its call waits for it. *)
LEMMA BrokenStays ==
  ASSUME SessionTypeOK, [SessionNext]_sessionVars, NEW c \in Calls, At(c, "refreshing"),
         call'[c].pc = "refreshing", c \in broken
  PROVE  c \in broken'
<1>0. CallTypes
  BY Parts
<1>1. ASSUME NEW d \in Calls, StoreTokens(d) \/ RefreshFails(d)  PROVE c \in broken'
  <2>1. call'[d].pc # "refreshing"
    <3>1. CASE StoreTokens(d)
      <4>1. At(d, "refreshing")
        BY <3>1 DEF StoreTokens
      <4>2. call'[d].pc = "resend"
        BY <1>0, <3>1, <4>1, GotoFact DEF StoreTokens, At
      <4> QED  BY <4>2
    <3>2. CASE RefreshFails(d)
      BY <1>0, <3>2, EndFact DEF RefreshFails, NoCall
    <3> QED  BY <1>1, <3>1, <3>2
  <2>2. d # c
    BY <2>1
  <2> QED  BY <1>1, <2>2 DEF StoreTokens, RefreshFails, Forget
<1>2. ASSUME NEW d \in Calls, Unheard(d)  PROVE c \in broken'
  <2>1. d # c
    BY <1>2 DEF Unheard, At
  <2> QED  BY <1>2, <2>1 DEF Unheard, Forget
<1>3. \/ broken \subseteq broken'
      \/ \E d \in Calls : StoreTokens(d) \/ RefreshFails(d) \/ Unheard(d)
  BY DEF SessionNext, sessionVars, history, Break, CallStep, Allowed, DeniedAgain,
     DeniedSignedOut, StartRefresh, Resend, HandlerStep, Find, Revoke, Issue, StatementFails,
     Disconnect, TabStep, Register, Login, Enter, EnterLost, IssueFirst, Entered, Logout,
     LogoutRevokes, LogoutLost, LoggedOut, Reload, Send, IssueAdrift, RevokeAdrift, MonthPasses,
     Suspend
<1> QED  BY <1>1, <1>2, <1>3

(* Others(n, t), after the step. *)
ExtraNow(n, t) == \E u \in Tabs : used'[n][u] > (IF u = t THEN 1 ELSE 0)
CauseNow(c, n, t) ==
  /\ \A d \in Calls \ {c} : refresh'[d].at # "none" /\ refresh'[d].token = n => ExtraNow(n, t)
  /\ \A u \in Tabs : leave'[u] # NoLeave /\ leave'[u].token = n => ExtraNow(n, t)
  /\ n \in adrift'.revokes => ExtraNow(n, t)
  /\ n \in revoked' /\ refresh'[c].at = "find" => ExtraNow(n, t)
  /\ refresh'[c].at = "refused" => c \in broken' \/ n \in lapsed' \/ ExtraNow(n, t)

LEMMA StartCause ==
  ASSUME SessionTypeOK, HeldInv, UsedInv, TokenMove, NEW c \in Calls, Starts(c)
  PROVE  CauseNow(c, refresh'[c].token, call'[c].tab)
<1>1. PICK n \in Pairs, t \in Tabs : n = refresh'[c].token /\ t = call'[c].tab /\ Presents(n, t)
  BY DEF Starts, Presents
<1>2. ASSUME NEW v \in Tabs, used[n][v] > 0  PROVE ExtraNow(n, t)
  BY <1>1, <1>2, ExtraFact DEF ExtraNow
<1>3. Presented(n) => ExtraNow(n, t)
  BY <1>2 DEF Presented
<1>4. ASSUME NEW d \in Calls \ {c}, refresh'[d].at # "none", refresh'[d].token = n
      PROVE  ExtraNow(n, t)
  BY <1>3, <1>4 DEF Starts, HandlersStay, UsedInv, Handler
<1>5. ASSUME NEW u \in Tabs, leave'[u] # NoLeave, leave'[u].token = n  PROVE ExtraNow(n, t)
  BY <1>2, <1>5 DEF Starts, UsedInv
<1>6. n \in revoked' => ExtraNow(n, t)
  BY <1>3 DEF Starts, tokens, UsedInv
<1>7. refresh'[c].at # "refused"
  BY DEF Starts
<1>8. n \in adrift'.revokes => ExtraNow(n, t)
  BY <1>3 DEF Starts, DriftStays, UsedInv
<1> QED  BY <1>1, <1>4, <1>5, <1>6, <1>7, <1>8 DEF CauseNow

LEMMA WaitCause ==
  ASSUME SessionTypeOK, SpentOK, HeldInv, UsedInv, CauseInv, TokenMove,
         [SessionNext]_sessionVars,
         NEW c \in Calls, At(c, "refreshing"), call'[c].pc = "refreshing",
         refresh'[c].token = refresh[c].token, refresh'[c] = refresh[c] \/ Serves(c)
  PROVE  CauseNow(c, refresh[c].token, Tab(c))
<1>1. PICK n \in Pairs, t \in Tabs : n = refresh[c].token /\ t = Tab(c)
  BY PairFact
<1>2. Cause(c, n, t) /\ used[n][t] > 0
  BY <1>1 DEF CauseInv, UsedInv
<1>3. Others(n, t) => ExtraNow(n, t)
  BY UsedGrows DEF ExtraNow
<1>4. ASSUME NEW w \in Tabs, Presents(n, w)  PROVE ExtraNow(n, t)
  BY <1>2, <1>4, ExtraFact DEF ExtraNow
<1>5. ASSUME NEW d \in Calls \ {c}, refresh'[d].at # "none", refresh'[d].token = n
      PROVE  ExtraNow(n, t)
  <2>1. CASE Starts(d)
    BY <1>4, <1>5, <2>1 DEF Starts
  <2>2. CASE ~Handler(d, "none") /\ refresh[d].token = n
    BY <1>2, <1>3, <2>2 DEF Cause
  <2>3. refresh'[d] # NoRefresh /\ (refresh'[d] = refresh[d] => ~Handler(d, "none"))
    BY <1>5 DEF NoRefresh, Handler
  <2> QED  BY <1>5, <2>1, <2>2, <2>3, OneHandlerMoves
<1>6. ASSUME NEW u \in Tabs, leave'[u] # NoLeave, leave'[u].token = n  PROVE ExtraNow(n, t)
  <2>1. CASE Leaves(u)
    BY <1>4, <1>6, <2>1 DEF Leaves
  <2>2. CASE leave[u] # NoLeave /\ leave[u].token = n
    BY <1>2, <1>3, <2>2 DEF Cause
  <2> QED  BY <1>6, <2>1, <2>2, OneLeaveMoves
<1>7. ASSUME n \in revoked', refresh'[c].at = "find"  PROVE ExtraNow(n, t)
  <2>1. Handler(c, "find")
    BY <1>7 DEF Serves, NoRefresh, Handler
  <2>2. CASE n \in revoked
    BY <1>2, <1>3, <2>1, <2>2 DEF Cause
  <2>3. ASSUME NEW d \in Calls, ~Handler(d, "none"), refresh[d].token = n, refresh'[d].at # "find"
        PROVE  ExtraNow(n, t)
    BY <1>2, <1>3, <1>7, <2>3 DEF Cause
  <2>4. ASSUME NEW u \in Tabs, leave[u] # NoLeave, leave[u].token = n  PROVE ExtraNow(n, t)
    BY <1>2, <1>3, <2>4 DEF Cause
  <2>5. n \in adrift.revokes => ExtraNow(n, t)
    BY <1>2, <1>3 DEF Cause
  <2> QED  BY <1>7, <2>2, <2>3, <2>4, <2>5, OneTokenMoves
<1>8. ASSUME refresh'[c].at = "refused"
      PROVE  c \in broken' \/ n \in lapsed' \/ ExtraNow(n, t)
  <2>0. lapsed \subseteq lapsed' /\ (c \in broken => c \in broken')
    BY AgeStep, BrokenStays
  <2>1. CASE Handler(c, "refused")
    BY <1>2, <1>3, <2>0, <2>1 DEF Cause
  <2>2. CASE Handler(c, "find") /\ n \in revoked \cup lapsed
    BY <1>2, <1>3, <2>0, <2>2 DEF Cause
  <2>3. CASE c \in broken'
    BY <2>3
  <2> QED  BY <1>1, <1>8, <2>1, <2>2, <2>3 DEF Serves, NoRefresh, Handler
<1>9. ASSUME n \in adrift'.revokes  PROVE ExtraNow(n, t)
  <2>1. ASSUME NEW u \in Tabs, leave[u] # NoLeave, leave[u].token = n  PROVE ExtraNow(n, t)
    BY <1>2, <1>3, <2>1 DEF Cause
  <2>2. n \in adrift.revokes => ExtraNow(n, t)
    BY <1>2, <1>3 DEF Cause
  <2> QED  BY <1>9, <2>1, <2>2, DriftMoves
<1> QED  BY <1>1, <1>5, <1>6, <1>7, <1>8, <1>9 DEF CauseNow

LEMMA CauseStep ==
  ASSUME SessionTypeOK, SpentOK, HeldInv, UsedInv, CauseInv, TokenMove, [SessionNext]_sessionVars
  PROVE  CauseInv'
<1>1. ASSUME NEW c \in Calls, call'[c].pc = "refreshing"
      PROVE  CauseNow(c, refresh'[c].token, call'[c].tab)
  BY <1>1, OneCallMoves, StartCause, WaitCause
<1> QED  BY <1>1 DEF CauseInv, Cause, CauseNow, Others, ExtraNow, Handler, At, Tab
(* Where a new token of a tab comes from. *)
LEMMA StoreMoves ==
  ASSUME TokenMove
  PROVE  \E m :
           /\ \/ m = None
              \/ \E c \in Calls : /\ Handler(c, "answered") /\ m = refresh[c].pair
                                  /\ refresh'[c] = NoRefresh
              \/ \E t \in Tabs : /\ entry[t].at = "answered" /\ m = entry[t].pair
                                 /\ entry'[t] = NoEntry
           /\ storage' \in {storage, m}
           /\ \A u \in Tabs : store'[u] \in {store[u], storage, m}
<1> DEFINE From(m) == /\ storage' \in {storage, m}
                      /\ \A u \in Tabs : store'[u] \in {store[u], storage, m}
<1>1. ASSUME NEW t \in Tabs, NEW m, Held(t, m)  PROVE From(m)
  BY <1>1 DEF Held
<1>2. ASSUME NEW c \in Calls, Ends(c)
      PROVE  \/ From(None)
             \/ /\ Handler(c, "answered") /\ refresh'[c] = NoRefresh /\ From(refresh[c].pair)
  <2>1. /\ Tab(c) \in Tabs
        /\ \/ Held(Tab(c), None)
           \/ /\ Handler(c, "answered") /\ refresh'[c] = NoRefresh
              /\ Held(Tab(c), refresh[c].pair)
    BY <1>2 DEF Ends
  <2> HIDE DEF From
  <2> QED  BY <1>1, <2>1
<1>3. ASSUME NEW t \in Tabs, Enters(t)
      PROVE  entry[t].at = "answered" /\ entry'[t] = NoEntry /\ From(entry[t].pair)
  <2>1. Held(t, entry[t].pair)
    BY <1>3 DEF Enters
  <2> QED  BY <1>1, <1>3, <2>1 DEF Enters
<1>4. ASSUME NEW t \in Tabs, Left(t)  PROVE From(None)
  BY <1>4, <1>1 DEF Left
<1>5. ASSUME NEW t \in Tabs, Reloads(t)  PROVE From(None)
  BY <1>5 DEF Reloads
<1>6. ASSUME \/ Calm \/ Drifts
             \/ \E c \in Calls : Starts(c) \/ Serves(c)
             \/ \E t \in Tabs : IssuesFirst(t) \/ Leaves(t) \/ Answers(t)
      PROVE  From(None)
  BY <1>6 DEF Drifts, Calm, Emptied, Starts, Serves, IssuesFirst, Leaves, Answers
<1> HIDE DEF From
<1>7. \E m : /\ \/ m = None
                \/ \E c \in Calls : /\ Handler(c, "answered") /\ m = refresh[c].pair
                                    /\ refresh'[c] = NoRefresh
                \/ \E t \in Tabs : /\ entry[t].at = "answered" /\ m = entry[t].pair
                                   /\ entry'[t] = NoEntry
             /\ From(m)
  BY <1>2, <1>3, <1>4, <1>5, <1>6 DEF TokenMove
<1> QED  BY <1>7 DEF From

LEMMA OneEntryMoves ==
  ASSUME TokenMove, NEW t \in Tabs, entry'[t].at = "answered"
  PROVE  entry'[t] = entry[t] \/ IssuesFirst(t)
<1>1. ASSUME NEW u \in Tabs, IssuesFirst(u) \/ Enters(u)
      PROVE  entry'[t] = entry[t] \/ IssuesFirst(t)
  <2>1. CASE u # t
    BY <1>1, <2>1 DEF IssuesFirst, Enters, EntriesStay
  <2>2. CASE u = t
    BY <1>1, <2>2 DEF Enters, NoEntry
  <2> QED  BY <2>1, <2>2
<1> QED  BY <1>1 DEF TokenMove, Drifts, Calm, Starts, Ends, Serves, Leaves, Answers, Left, Reloads,
            EntriesStay

LEMMA UnseenStays ==
  ASSUME SessionTypeOK, HeldInv, NewInv, TokenMove, Issued \subseteq Issued', NEW p, Unseen(p),
         \A d \in Calls : Handler(d, "answered") /\ refresh[d].pair = p => refresh'[d] # NoRefresh,
         \A u \in Tabs : entry[u].at = "answered" /\ entry[u].pair = p => entry'[u] # NoEntry
  PROVE  Unseen(p)'
<1>1. PICK m :
        /\ \/ m = None
           \/ \E c \in Calls : /\ Handler(c, "answered") /\ m = refresh[c].pair
                               /\ refresh'[c] = NoRefresh
           \/ \E t \in Tabs : /\ entry[t].at = "answered" /\ m = entry[t].pair
                              /\ entry'[t] = NoEntry
        /\ storage' \in {storage, m}
        /\ \A u \in Tabs : store'[u] \in {store[u], storage, m}
  BY StoreMoves
<1>2. p # None /\ p \in Pairs
  BY PairFact DEF Unseen
<1>3. m # p
  BY <1>1, <1>2
<1>4. storage' # p /\ \A u \in Tabs : store'[u] # p
  BY <1>1, <1>3 DEF Unseen
<1>5. \A t \in Tabs : used'[p][t] = 0
  <2>1. CASE used' = used
    BY <2>1 DEF Unseen
  <2>2. ASSUME NEW n \in Pairs, NEW t \in Tabs, n = store[t], Presents(n, t)
        PROVE  \A u \in Tabs : used'[p][u] = 0
    BY <1>2, <2>2 DEF Presents, Unseen
  <2> QED  BY <2>1, <2>2, UsedMoves
<1> QED  BY <1>4, <1>5 DEF Unseen

(* The pair just issued. *)
LEMMA UnseenNew ==
  ASSUME SessionTypeOK, SessionTypeOK', HeldInv, UsedInv, NEW p, p = issued + 1,
         issued' = issued + 1,
         storage' = storage, used' = used, \A t \in Tabs : store'[t] = store[t]
  PROVE  Unseen(p)' /\ p \notin Issued
<1>1. issued \in Nat /\ p \in Pairs /\ p \in Issued'
  BY SessionAssumption DEF SessionTypeOK, Pairs, MaxPairs, Issued
<1>2. p \notin Issued /\ p # None
  BY <1>1 DEF Issued, None
<1>3. storage' # p /\ \A t \in Tabs : store'[t] # p
  BY <1>2, PairFact
<1>4. \A t \in Tabs : used'[p][t] = 0
  <2>1. used[p] \in [Tabs -> Nat]
    BY <1>1 DEF SessionTypeOK
  <2>2. \A t \in Tabs : ~(used[p][t] > 0)
    BY <1>1, <1>2 DEF UsedInv
  <2> QED  BY <2>1, <2>2
<1> QED  BY <1>1, <1>2, <1>3, <1>4 DEF Unseen
LEMMA NewStep ==
  ASSUME SessionTypeOK, SessionTypeOK', HeldInv, UsedInv, NewInv, TokenMove,
         Issued \subseteq Issued'
  PROVE  NewInv'

<1>0. /\ \A c \in Calls : Handler(c, "answered") => Unseen(refresh[c].pair)
      /\ \A t \in Tabs : entry[t].at = "answered" => Unseen(entry[t].pair)
      /\ \A c, d \in Calls : Handler(c, "answered") /\ Handler(d, "answered") /\ c # d
           => refresh[c].pair # refresh[d].pair
      /\ \A t, u \in Tabs : entry[t].at = "answered" /\ entry[u].at = "answered" /\ t # u
           => entry[t].pair # entry[u].pair
      /\ \A c \in Calls, t \in Tabs : Handler(c, "answered") /\ entry[t].at = "answered"
           => refresh[c].pair # entry[t].pair
  BY DEF NewInv
<1>1. ASSUME NEW c \in Calls, refresh'[c].at = "answered", refresh'[c] # refresh[c]
      PROVE  /\ issued' = issued + 1 /\ refresh'[c].pair = issued + 1
             /\ \A d \in Calls \ {c} : refresh'[d] = refresh[d]
             /\ UNCHANGED <<store, storage, used, entry>>
  <2>1. Serves(c)
    <3>1. refresh'[c] # NoRefresh /\ ~Starts(c)
      BY <1>1 DEF NoRefresh, Starts
    <3> QED  BY <1>1, <3>1, OneHandlerMoves
  <2> QED  BY <1>1, <2>1 DEF Serves, HandlersStay, NoRefresh
<1>2. ASSUME NEW t \in Tabs, entry'[t].at = "answered", entry'[t] # entry[t]
      PROVE  /\ issued' = issued + 1 /\ entry'[t].pair = issued + 1
             /\ \A u \in Tabs \ {t} : entry'[u].at = "answered" => entry'[u] = entry[u]
             /\ UNCHANGED <<store, storage, used, refresh>>
  BY <1>2, OneEntryMoves DEF IssuesFirst, EntriesStay
<1>3. ASSUME NEW c \in Calls, refresh'[c].at = "answered"  PROVE Unseen(refresh[c].pair)'
  <2>1. PICK p : p = refresh'[c].pair
    OBVIOUS
  <2>2. CASE refresh'[c] = refresh[c]
    <3>1. Handler(c, "answered") /\ p = refresh[c].pair
      BY <1>3, <2>1, <2>2 DEF Handler
    <3>2. ASSUME NEW d \in Calls, Handler(d, "answered"), refresh[d].pair = p
          PROVE  refresh'[d] # NoRefresh
      <4>1. d = c
        BY <1>0, <3>1, <3>2
      <4> QED  BY <1>3, <4>1 DEF NoRefresh
    <3>3. ASSUME NEW u \in Tabs, entry[u].at = "answered", entry[u].pair = p
          PROVE  entry'[u] # NoEntry
      BY <1>0, <3>1, <3>3
    <3>4. Unseen(p)'
      BY <1>0, <3>1, <3>2, <3>3, UnseenStays
    <3> QED  BY <2>1, <3>4 DEF Unseen
  <2>3. CASE refresh'[c] # refresh[c]
    <3>1. Unseen(p)'
      BY <1>1, <1>3, <2>1, <2>3, UnseenNew
    <3> QED  BY <2>1, <3>1 DEF Unseen
  <2> QED  BY <2>2, <2>3
<1>4. ASSUME NEW t \in Tabs, entry'[t].at = "answered"  PROVE Unseen(entry[t].pair)'
  <2>1. PICK p : p = entry'[t].pair
    OBVIOUS
  <2>2. CASE entry'[t] = entry[t]
    <3>1. entry[t].at = "answered" /\ p = entry[t].pair
      BY <1>4, <2>1, <2>2
    <3>2. ASSUME NEW u \in Tabs, entry[u].at = "answered", entry[u].pair = p
          PROVE  entry'[u] # NoEntry
      <4>1. u = t
        BY <1>0, <3>1, <3>2
      <4> QED  BY <1>4, <4>1 DEF NoEntry
    <3>3. ASSUME NEW d \in Calls, Handler(d, "answered"), refresh[d].pair = p
          PROVE  refresh'[d] # NoRefresh
      BY <1>0, <3>1, <3>3
    <3>4. Unseen(p)'
      BY <1>0, <3>1, <3>2, <3>3, UnseenStays
    <3> QED  BY <2>1, <3>4 DEF Unseen
  <2>3. CASE entry'[t] # entry[t]
    <3>1. Unseen(p)'
      BY <1>2, <1>4, <2>1, <2>3, UnseenNew
    <3> QED  BY <2>1, <3>1 DEF Unseen
  <2> QED  BY <2>2, <2>3
<1>5. issued + 1 \notin Issued
  BY PairFact DEF Issued
<1>6. /\ \A c \in Calls : Handler(c, "answered") => refresh[c].pair \in Issued
      /\ \A t \in Tabs : entry[t].at = "answered" => entry[t].pair \in Issued
  BY <1>0 DEF Unseen
<1>7. ASSUME NEW c \in Calls, NEW d \in Calls, refresh'[c].at = "answered",
             refresh'[d].at = "answered", c # d
      PROVE  refresh'[c].pair # refresh'[d].pair
  <2>1. CASE refresh'[c] = refresh[c] /\ refresh'[d] = refresh[d]
    BY <1>0, <1>7, <2>1 DEF Handler
  <2>2. CASE refresh'[c] # refresh[c]
    <3>1. refresh'[c].pair = issued + 1 /\ refresh'[d] = refresh[d]
      BY <1>1, <1>7, <2>2
    <3>2. refresh'[d].pair \in Issued
      BY <1>6, <1>7, <3>1 DEF Handler
    <3> QED  BY <1>5, <3>1, <3>2
  <2>3. CASE refresh'[d] # refresh[d]
    <3>1. refresh'[d].pair = issued + 1 /\ refresh'[c] = refresh[c]
      BY <1>1, <1>7, <2>3
    <3>2. refresh'[c].pair \in Issued
      BY <1>6, <1>7, <3>1 DEF Handler
    <3> QED  BY <1>5, <3>1, <3>2
  <2> QED  BY <2>1, <2>2, <2>3
<1>8. ASSUME NEW t \in Tabs, NEW u \in Tabs, entry'[t].at = "answered",
             entry'[u].at = "answered", t # u
      PROVE  entry'[t].pair # entry'[u].pair
  <2>1. CASE entry'[t] = entry[t] /\ entry'[u] = entry[u]
    BY <1>0, <1>8, <2>1
  <2>2. CASE entry'[t] # entry[t]
    <3>1. entry'[t].pair = issued + 1 /\ entry'[u] = entry[u]
      BY <1>2, <1>8, <2>2
    <3>2. entry'[u].pair \in Issued
      BY <1>6, <1>8, <3>1
    <3> QED  BY <1>5, <3>1, <3>2
  <2>3. CASE entry'[u] # entry[u]
    <3>1. entry'[u].pair = issued + 1 /\ entry'[t] = entry[t]
      BY <1>2, <1>8, <2>3
    <3>2. entry'[t].pair \in Issued
      BY <1>6, <1>8, <3>1
    <3> QED  BY <1>5, <3>1, <3>2
  <2> QED  BY <2>1, <2>2, <2>3
<1>9. ASSUME NEW c \in Calls, NEW t \in Tabs, refresh'[c].at = "answered",
             entry'[t].at = "answered"
      PROVE  refresh'[c].pair # entry'[t].pair
  <2>1. CASE refresh'[c] = refresh[c] /\ entry'[t] = entry[t]
    BY <1>0, <1>9, <2>1 DEF Handler
  <2>2. CASE refresh'[c] # refresh[c]
    <3>1. refresh'[c].pair = issued + 1 /\ entry' = entry
      BY <1>1, <1>9, <2>2
    <3>2. entry'[t].pair \in Issued
      BY <1>6, <1>9, <3>1
    <3> QED  BY <1>5, <3>1, <3>2
  <2>3. CASE entry'[t] # entry[t]
    <3>1. entry'[t].pair = issued + 1 /\ refresh' = refresh
      BY <1>2, <1>9, <2>3
    <3>2. refresh'[c].pair \in Issued
      BY <1>6, <1>9, <3>1 DEF Handler
    <3> QED  BY <1>5, <3>1, <3>2
  <2> QED  BY <2>1, <2>2, <2>3
<1> QED  BY <1>3, <1>4, <1>7, <1>8, <1>9 DEF NewInv, Handler
(* Accounted(n, t), after the step. *)
AccountedNow(n, t) ==
  n # None /\ used'[n][t] > 0 =>
    \/ n \in cut'
    \/ \E c \in Calls : /\ call'[c].pc = "refreshing" /\ call'[c].tab = t
                        /\ refresh'[c].token = n
    \/ leave'[t] # NoLeave /\ leave'[t].token = n

LEMMA UnusedStays ==
  ASSUME SessionTypeOK, HeldInv, TokenMove, NEW n, Unseen(n), NEW t \in Tabs
  PROVE  AccountedNow(n, t)
<1>1. n \in Pairs
  BY PairFact DEF Unseen
<1>2. used'[n][t] = 0
  <2>1. CASE used' = used
    BY <2>1 DEF Unseen
  <2>2. ASSUME NEW m \in Pairs, NEW u \in Tabs, m = store[u], Presents(m, u)
        PROVE  used'[n][t] = 0
    BY <1>1, <2>2 DEF Presents, Unseen
  <2> QED  BY <2>1, <2>2, UsedMoves
<1> QED  BY <1>2 DEF AccountedNow

LEMMA WaitStays ==
  ASSUME TokenMove, NEW c \in Calls, NEW t \in Tabs, Waits(c, t), ~Reloads(t),
         \A d \in Calls : Ends(d) => Tab(d) # t
  PROVE  call'[c].pc = "refreshing" /\ call'[c].tab = t /\ refresh'[c].token = refresh[c].token
<1> USE DEF Waits, At, Tab
<1>1. CASE Calm
  BY <1>1 DEF Calm, CallsStay, HandlersStay
<1>2. ASSUME NEW d \in Calls, Starts(d) \/ Ends(d)
      PROVE  call'[c].pc = "refreshing" /\ call'[c].tab = t /\ refresh'[c] = refresh[c]
  <2>1. d # c
    BY <1>2 DEF Starts, Ends
  <2> QED  BY <1>2, <2>1 DEF Starts, Ends, CallsStay, HandlersStay
<1>3. ASSUME NEW d \in Calls, Serves(d)
      PROVE  call'[c].pc = "refreshing" /\ call'[c].tab = t /\ refresh'[c].token = refresh[c].token
  <2>1. call' = call
    BY <1>3 DEF Serves
  <2>2. CASE d = c
    BY <1>3, <2>1, <2>2 DEF Serves
  <2>3. CASE d # c
    BY <1>3, <2>1, <2>3 DEF Serves, HandlersStay
  <2> QED  BY <2>2, <2>3
<1>4. ASSUME NEW u \in Tabs, IssuesFirst(u) \/ Enters(u) \/ Leaves(u) \/ Answers(u) \/ Left(u)
      PROVE  call'[c].pc = "refreshing" /\ call'[c].tab = t /\ refresh'[c] = refresh[c]
  BY <1>4 DEF IssuesFirst, Enters, Leaves, Answers, Left
<1>5. ASSUME NEW u \in Tabs, Reloads(u)
      PROVE  call'[c].pc = "refreshing" /\ call'[c].tab = t /\ refresh'[c] = refresh[c]
  <2>1. ~Waits(c, u)
    BY <1>5
  <2>2. CallsStay({c}) /\ refresh' = refresh
    BY <1>5, <2>1 DEF Reloads
  <2> QED  BY <2>2 DEF CallsStay
<1> QED  BY <1>1, <1>2, <1>3, <1>4, <1>5 DEF TokenMove, Drifts

LEMMA LeaveStays ==
  ASSUME TokenMove, NEW t \in Tabs, leave[t] # NoLeave, ~Left(t), ~Reloads(t)
  PROVE  leave'[t] # NoLeave /\ leave'[t].token = leave[t].token
<1>1. ASSUME NEW u \in Tabs, Leaves(u) \/ Answers(u) \/ Left(u) \/ Reloads(u)
      PROVE  leave'[t] # NoLeave /\ leave'[t].token = leave[t].token
  <2>1. CASE u # t
    BY <1>1, <2>1 DEF Leaves, Answers, Left, Reloads, LeavesStay
  <2>2. CASE u = t
    BY <1>1, <2>2 DEF Leaves, Answers
  <2> QED  BY <2>1, <2>2
<1> QED  BY <1>1 DEF TokenMove, Drifts, Calm, Starts, Ends, Serves, IssuesFirst, Enters, LeavesStay

LEMMA CutGrows == ASSUME TokenMove  PROVE cut \subseteq cut'
  BY DEF TokenMove, Drifts, Calm, Starts, Ends, Serves, IssuesFirst, Enters, Leaves, Answers,
       Left, Reloads

(* A tab that goes on waiting or holding. *)
LEMMA AccountedStays ==
  ASSUME SessionTypeOK, HeldInv, TokenMove, NEW t \in Tabs, NEW n \in Pairs \cup {None},
         Accounted(n, t),
         ~Left(t), ~Reloads(t), \A d \in Calls : Ends(d) => Tab(d) # t
  PROVE  AccountedNow(n, t)
<1> SUFFICES ASSUME n \in Pairs, used'[n][t] > 0
             PROVE  \/ n \in cut'
                    \/ \E c \in Calls : /\ call'[c].pc = "refreshing" /\ call'[c].tab = t
                                        /\ refresh'[c].token = n
                    \/ leave'[t] # NoLeave /\ leave'[t].token = n
  BY DEF AccountedNow
<1>1. CASE used[n][t] > 0
  <2>1. n # None
    BY SessionAssumption DEF Pairs, None
  <2>2. \/ n \in cut
        \/ \E c \in Calls : Waits(c, t) /\ refresh[c].token = n
        \/ leave[t] # NoLeave /\ leave[t].token = n
    BY <1>1, <2>1 DEF Accounted
  <2> QED  BY <2>2, CutGrows, WaitStays, LeaveStays
<1>2. CASE ~(used[n][t] > 0)
  <2>1. used'[n][t] # used[n][t]
    BY <1>2
  <2>2. ASSUME NEW c \in Calls, Starts(c)
        PROVE  call'[c].pc = "refreshing" /\ call'[c].tab = t /\ refresh'[c].token = n
    BY <2>1, <2>2 DEF Starts, Presents
  <2>3. ASSUME NEW u \in Tabs, Leaves(u)
        PROVE  leave'[t] # NoLeave /\ leave'[t].token = n
    <3>1. u = t /\ n = store[u]
      BY <2>1, <2>3 DEF Leaves, Presents
    <3> QED  BY <2>3, <3>1 DEF Leaves
  <2>4. used' # used
    BY <2>1
  <2> QED  BY <2>2, <2>3, <2>4 DEF TokenMove, Drifts, Calm, Ends, Serves, IssuesFirst, Enters,
              Answers, Left, Reloads
<1> QED  BY <1>1, <1>2

LEMMA HoldStep ==
  ASSUME SessionTypeOK, HeldInv, UsedInv, NewInv, HoldInv, TokenMove
  PROVE  HoldInv'
<1>0. /\ Issued \subseteq Pairs /\ storage \in Issued \cup {None}
      /\ \A t \in Tabs : store[t] \in Issued \cup {None}
  BY PairFact
<1>1. \A t \in Tabs : AccountedNow(None, t)
  BY DEF AccountedNow
<1>2. ASSUME NEW t \in Tabs  PROVE AccountedNow(store'[t], t) /\ AccountedNow(storage', t)
  <2>0. Accounted(store[t], t) /\ Accounted(storage, t)
    BY DEF HoldInv
  <2>1. CASE Left(t)
    BY <1>1, <2>1 DEF Left, Held
  <2>2. CASE Reloads(t)
    <3>1. store'[t] = storage /\ storage' = storage /\ used' = used
      BY <2>2 DEF Reloads
    <3>2. AccountedNow(storage, t)
      BY <2>0, <2>2, <3>1 DEF Reloads, Accounted, AccountedNow
    <3> QED  BY <3>1, <3>2
  <2>3. ASSUME NEW d \in Calls, Ends(d), Tab(d) = t
        PROVE  AccountedNow(store'[t], t) /\ AccountedNow(storage', t)
    <3>1. Held(t, None) \/ (Handler(d, "answered") /\ Held(t, refresh[d].pair))
      BY <2>3 DEF Ends
    <3>2. Handler(d, "answered") => AccountedNow(refresh[d].pair, t)
      BY UnusedStays DEF NewInv
    <3> QED  BY <1>1, <3>1, <3>2 DEF Held
  <2>4. CASE ~Left(t) /\ ~Reloads(t) /\ \A d \in Calls : Ends(d) => Tab(d) # t
    <3>1. AccountedNow(store[t], t) /\ AccountedNow(storage, t)
      <4>1. store[t] \in Pairs \cup {None} /\ storage \in Pairs \cup {None}
        BY <1>0
      <4> QED  BY <2>0, <2>4, <4>1, AccountedStays
    <3>2. PICK m :
            /\ \/ m = None
               \/ \E c \in Calls : /\ Handler(c, "answered") /\ m = refresh[c].pair
                                   /\ refresh'[c] = NoRefresh
               \/ \E u \in Tabs : /\ entry[u].at = "answered" /\ m = entry[u].pair
                                  /\ entry'[u] = NoEntry
            /\ storage' \in {storage, m}
            /\ \A u \in Tabs : store'[u] \in {store[u], storage, m}
      BY StoreMoves
    <3>3. m = None \/ Unseen(m)
      BY <3>2 DEF NewInv
    <3>4. AccountedNow(m, t)
      BY <1>1, <3>3, UnusedStays
    <3> QED  BY <3>1, <3>2, <3>4
  <2> QED  BY <2>1, <2>2, <2>3, <2>4
<1> QED  BY <1>2 DEF HoldInv, Accounted, AccountedNow, Waits, At, Tab
LEMMA TokenStep ==
  ASSUME TokenInv, [SessionNext]_sessionVars
  PROVE  TokenInv' /\ TokenMove
<1>0. SessionInv /\ SessionTypeOK /\ SpentOK /\ HeldInv /\ UsedInv /\ NewInv /\ HoldInv /\ CauseInv
  BY DEF TokenInv, SessionInv
<1>1. TokenMove
  BY <1>0, TokenMoves
<1>2. Issued \subseteq Issued'
  BY <1>0, HeldStep
<1>3. SessionInv' /\ SessionTypeOK'
  BY <1>0, InvStep DEF SessionInv
<1>4. UsedInv'
  BY <1>0, <1>1, <1>2, UsedStep
<1>5. NewInv'
  BY <1>0, <1>1, <1>2, <1>3, NewStep
<1>6. HoldInv'
  BY <1>0, <1>1, HoldStep
<1>7. CauseInv'
  BY <1>0, <1>1, CauseStep
<1> QED  BY <1>1, <1>3, <1>4, <1>5, <1>6, <1>7 DEF TokenInv

LEMMA TokenInit == SessionInit => TokenInv
<1> SUFFICES ASSUME SessionInit  PROVE TokenInv
  OBVIOUS
<1>1. SessionInv
  BY InvInit
<1>2. /\ issued = 0 /\ revoked = {} /\ storage = None /\ adrift.revokes = {}
      /\ \A t \in Tabs : store[t] = None /\ entry[t] = NoEntry /\ leave[t] = NoLeave
      /\ \A c \in Calls : call[c] = NoCall /\ refresh[c] = NoRefresh
      /\ \A n \in Pairs, t \in Tabs : used[n][t] = 0
  BY DEF SessionInit
<1>3. UsedInv
  BY <1>2 DEF UsedInv, Handler, NoRefresh, At, NoCall
<1>4. NewInv
  BY <1>2 DEF NewInv, Handler, NoRefresh, NoEntry
<1>5. HoldInv
  BY <1>2 DEF HoldInv, Accounted
<1>6. CauseInv
  BY <1>2 DEF CauseInv, At, NoCall
<1> QED  BY <1>1, <1>3, <1>4, <1>5, <1>6 DEF TokenInv

LEMMA TokenAlways == SessionSpec => []TokenInv
<1>1. TokenInv /\ [SessionNext]_sessionVars => TokenInv'
  BY TokenStep
<1> QED  BY <1>1, TokenInit, PTL DEF SessionSpec

(* A tab that is neither refreshing nor signing out holds a token that is  *)
(* not revoked, for any number of tabs, calls, reloads and faults and in   *)
(* whatever order the answers come, unless another tab has presented it or *)
(* a reload has cut off the answer: StoreTokens and the catch of the       *)
(* client's interceptor leave no used token behind.                        *)
THEOREM HeldTokensAreLive == SessionSpec => []HeldTokenIsLive
<1>1. ASSUME TokenInv  PROVE HeldTokenIsLive
  <2> SUFFICES ASSUME NEW t \in Tabs, Quiet(t), store[t] \in revoked
               PROVE  store[t] \in cut \/ \E u \in Tabs \ {t} : used[store[t]][u] > 0
    BY DEF HeldTokenIsLive
  <2>1. SessionTypeOK /\ HeldInv /\ UsedInv /\ HoldInv
    BY <1>1 DEF TokenInv, SessionInv
  <2>2. Presented(store[t])
    BY <2>1 DEF UsedInv
  <2>3. CASE used[store[t]][t] > 0
    <3>1. store[t] # None
      BY <2>1, PairFact
    <3>2. Accounted(store[t], t)
      BY <2>1 DEF HoldInv
    <3> QED  BY <2>3, <3>1, <3>2 DEF Accounted, Quiet, Waits
  <2>4. CASE ~(used[store[t]][t] > 0)
    BY <2>2, <2>4 DEF Presented
  <2> QED  BY <2>3, <2>4
<1> QED  BY <1>1, TokenAlways, PTL

(* A tab loses its tokens only when its own logout ends, when it is         *)
(* reloaded while localStorage is empty, or when one of its refreshes      *)
(* fails - and then a fault has broken that refresh, or its token was past *)
(* its date, or the token had been presented by another request as well:   *)
(* rotation itself signs nobody out, however many calls are refused at     *)
(* once, whatever faults other refreshes have met.                         *)
THEOREM SignOutsHaveCauses == SessionSpec => SignOutHasCause
<1> DEFINE Loss == \A t \in Tabs : store[t] # None /\ store'[t] = None =>
                     \/ LogoutEnds(t)
                     \/ Reloaded /\ storage = None
                     \/ \E c \in Calls :
                          /\ RefreshEnds(c) /\ Tab(c) = t
                          /\ \/ c \in broken \cup broken'
                             \/ refresh[c].token \in lapsed
                             \/ Others(refresh[c].token, t)
<1>1. ASSUME TokenInv, [SessionNext]_sessionVars  PROVE Loss
  <2> SUFFICES ASSUME NEW t \in Tabs, store[t] # None, store'[t] = None,
                      ~LogoutEnds(t), ~(Reloaded /\ storage = None)
               PROVE  \E c \in Calls : /\ RefreshEnds(c) /\ Tab(c) = t
                                       /\ \/ c \in broken \cup broken'
                                          \/ refresh[c].token \in lapsed
                                          \/ Others(refresh[c].token, t)
    OBVIOUS
  <2>0. /\ SessionTypeOK /\ SpentOK /\ HeldInv /\ NewInv /\ CauseInv /\ TokenMove
        /\ None \notin Issued
    BY <1>1, TokenStep, PairFact DEF TokenInv, SessionInv
  <2>1. ASSUME NEW c \in Calls, Ends(c)
        PROVE  /\ RefreshEnds(c) /\ Tab(c) = t
               /\ Handler(c, "refused") \/ c \in broken'
    <3>1. refresh[c].pair # None \/ ~Handler(c, "answered")
      BY <2>0 DEF NewInv, Unseen
    <3>2. Tab(c) = t
      BY <2>1 DEF Ends, Held
    <3>3. RefreshEnds(c)
      BY <2>1 DEF Ends, Waits, RefreshEnds, At
    <3> QED  BY <2>1, <3>1, <3>2, <3>3 DEF Ends, Held
  <2>2. ASSUME NEW c \in Calls, RefreshEnds(c), Tab(c) = t, Handler(c, "refused")
        PROVE  c \in broken \/ refresh[c].token \in lapsed \/ Others(refresh[c].token, t)
    BY <2>0, <2>2 DEF RefreshEnds, CauseInv, Cause
  <2>3. ~Calm /\ ~Drifts /\ \A c \in Calls : ~Starts(c) /\ ~Serves(c)
    BY DEF Calm, Drifts, Emptied, Starts, Serves
  <2>4. ASSUME NEW u \in Tabs
        PROVE  ~IssuesFirst(u) /\ ~Leaves(u) /\ ~Answers(u) /\ ~Left(u) /\ ~Reloads(u)
    <3>1. ~IssuesFirst(u) /\ ~Leaves(u) /\ ~Answers(u)
      BY DEF IssuesFirst, Leaves, Answers
    <3>2. ~Left(u)
      BY DEF Left, Held, LogoutEnds
    <3>3. ~Reloads(u)
      BY DEF Reloads
    <3> QED  BY <3>1, <3>2, <3>3
  <2>5. ASSUME NEW u \in Tabs  PROVE ~Enters(u)
    <3>1. entry[u].at = "answered" => entry[u].pair # None
      BY <2>0 DEF NewInv, Unseen
    <3> QED  BY <3>1 DEF Enters, Held
  <2> QED  BY <2>0, <2>1, <2>2, <2>3, <2>4, <2>5 DEF TokenMove
<1> QED  BY <1>1, TokenAlways, PTL DEF SessionSpec, SignOutHasCause
=============================================================================
