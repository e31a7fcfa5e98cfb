------------------------------ MODULE Sessions ------------------------------
(***************************************************************************)
(* Sessions of one account: auth.service.ts, whose operations find, revoke *)
(* and issue in separate statements, and the browser that uses them        *)
(* (api-client.ts, auth-context.tsx, auth-storage.ts).  The tabs of the    *)
(* browser share one stored pair of tokens; each tab answers a 401 with    *)
(* one refresh at a time, for which all of its calls wait, and repeats     *)
(* each call once.  A call that the browser gives up on was either not     *)
(* received or worked off.                                                 *)
(***************************************************************************)
EXTENDS Integers, Sequences, FiniteSets

CONSTANTS Tabs, Calls,
          MaxClicks,  \* bound: what the user does, in all
          MaxExpired, \* bound: access tokens that expire
          MaxLost     \* bound: calls the browser gives up on

ASSUME SessionsAssumption == MaxClicks \in Nat /\ MaxExpired \in Nat /\ MaxLost \in Nat

VARIABLES kind,       \* whose account it is, a driver's or a staff member's
          password,   \* how often the password was changed
          pairs,      \* the pairs of tokens issued so far
          revoked,    \* those whose refresh token is revoked
          expired,    \* those whose access token has expired
          stored,     \* the pair in the browser's storage, 0 if none
          tab,        \* whether each tab believes to be signed in
          refresh,    \* the refreshPromise of each tab
          call,       \* calls of the tabs, and what the server makes of them
          clicks,     \* what the user did so far
          lost,       \* calls that were given up
          twice,      \* history: logins whose token was refreshed twice at once
          loose,      \* history: logins of which an answer got lost
          escaped,    \* history: pairs issued across a change of the password
          out         \* history: the login that was logged out, 0 if none

history == <<twice, loose, escaped, out>>
server == <<password, pairs, revoked>>
vars == <<kind, server, expired, stored, tab, refresh, call, clicks, lost, history>>

-----------------------------------------------------------------------------
Idle == [at |-> "idle"]
Issued == 1 .. Len(pairs)
Live == Issued \ revoked
Root(p) == pairs[p].root
Valid(p) == p # 0 /\ p \notin expired
Is(c, k, s) == call[c] # Idle /\ call[c].kind \in k /\ call[c].at = s
Logins == {"staffLogin", "driverLogin"}
Kinds == {"page", "password", "logout"} \cup Logins

Goto(c, s) == call' = [call EXCEPT ![c].at = s]
End(c) == call' = [call EXCEPT ![c] = Idle]
NewCall(k, t, auth) ==
    [kind |-> k, tab |-> t, at |-> "server", auth |-> auth, again |-> FALSE, version |-> 0, late |-> FALSE]

(* login() tries the driver's door when the staff's stays shut.            *)
Failed(c, session) == IF call[c].kind = "staffLogin" THEN NewCall("driverLogin", call[c].tab, session) ELSE Idle

(* A tab that is opened believes the stored session unless it has expired. *)
Hydrated == IF Valid(stored) THEN "in" ELSE "out"

(* Nobody is signed in, or somebody has been since before.                 *)
Init ==
    /\ kind \in {"staff", "driver"}
    /\ password = 0 /\ revoked = {}
    /\ stored \in {0, 1} /\ expired \in SUBSET (1 .. stored)
    /\ pairs = [p \in 1 .. stored |-> [root |-> p, version |-> 0]]
    /\ tab = [t \in Tabs |-> Hydrated]
    /\ refresh = [t \in Tabs |-> Idle]
    /\ call = [c \in Calls |-> Idle]
    /\ clicks = 0 /\ lost = 0
    /\ twice = {} /\ loose = {} /\ escaped = {} /\ out = 0

-----------------------------------------------------------------------------
(* An access token expires; it matters only for one that is in use.        *)
Expire(p) ==
    /\ p = stored \/ \E c \in Calls : call[c] # Idle /\ call[c].auth = p
    /\ p \notin expired /\ Cardinality(expired) < MaxExpired /\ expired' = expired \cup {p}
    /\ UNCHANGED <<kind, server, stored, tab, refresh, call, clicks, lost, history>>

Click(c) == call[c] = Idle /\ clicks < MaxClicks /\ clicks' = clicks + 1 /\ lost' = lost

(* A page asks for its data, the dialog changes the password.              *)
Ask(c, t, k) ==
    /\ Click(c) /\ tab[t] = "in"
    /\ k \in {"page", "password"} /\ (k = "password" => kind = "staff")
    /\ call' = [call EXCEPT ![c] = NewCall(k, t, stored)]
    /\ UNCHANGED <<kind, server, expired, stored, tab, refresh, history>>

Login(c, t) ==
    /\ Click(c) /\ tab[t] = "out"
    /\ call' = [call EXCEPT ![c] = NewCall("staffLogin", t, stored)]
    /\ UNCHANGED <<kind, server, expired, stored, tab, refresh, history>>

(* Mutant: the pair stays stored when the user leaves.                     *)
Forgotten_NotYet == stored

(* The browser forgets first and then tells the server.                    *)
Forgotten == 0

Logout(c, t) ==
    /\ Click(c) /\ tab[t] = "in"
    /\ stored' = Forgotten
    /\ tab' = [tab EXCEPT ![t] = "out"]
    /\ call' = IF stored = 0 THEN call ELSE [call EXCEPT ![c] = NewCall("logout", t, stored)]
    /\ out' = IF stored = 0 THEN out ELSE Root(stored)
    /\ loose' = IF stored # 0 /\ \E u \in Tabs : refresh[u] # Idle THEN loose \cup {Root(stored)} ELSE loose
    /\ UNCHANGED <<kind, server, expired, refresh, twice, escaped>>

-----------------------------------------------------------------------------
(* The server.  An access token is only verified; a wrong password is a    *)
(* 401 like any other.                                                     *)
ServePage(c) ==
    /\ Is(c, {"page"}, "server")
    /\ IF Valid(call[c].auth) THEN End(c) ELSE Goto(c, "denied")
    /\ UNCHANGED <<kind, server, expired, stored, tab, refresh, clicks, lost, history>>

ComparePassword(c) ==
    /\ Is(c, {"password"}, "server")
    /\ \E right \in BOOLEAN : Goto(c, IF Valid(call[c].auth) /\ right THEN "write" ELSE "denied")
    /\ UNCHANGED <<kind, server, expired, stored, tab, refresh, clicks, lost, history>>

WritePassword(c) ==
    /\ Is(c, {"password"}, "write")
    /\ password' = password + 1
    /\ Goto(c, "revoke")
    /\ UNCHANGED <<kind, pairs, revoked, expired, stored, tab, refresh, clicks, lost, history>>

(* Mutant: only the token of the tab that asks is revoked.                 *)
AllTokens_OfTab(c) == {call[c].auth}

(* Every token is revoked; one that is about to be issued is not there.    *)
AllTokens(c) == Issued

RevokeAll(c) ==
    /\ Is(c, {"password"}, "revoke")
    /\ revoked' = revoked \cup AllTokens(c)
    /\ call' = [d \in Calls |-> IF d = c THEN Idle
                                ELSE IF Is(d, Logins, "issue") THEN [call[d] EXCEPT !.late = TRUE] ELSE call[d]]
    /\ refresh' = [t \in Tabs |-> IF refresh[t].at \in {"revoke", "issue"} THEN [refresh[t] EXCEPT !.late = TRUE]
                                                                           ELSE refresh[t]]
    /\ UNCHANGED <<kind, password, pairs, expired, stored, tab, clicks, lost, history>>

CompareLogin(c) ==
    /\ Is(c, Logins, "server")
    /\ \E right \in BOOLEAN :
          call' = [call EXCEPT ![c].version = password,
                     ![c].at = IF right /\ call[c].kind = (IF kind = "staff" THEN "staffLogin" ELSE "driverLogin")
                               THEN "issue" ELSE "denied"]
    /\ UNCHANGED <<kind, server, expired, stored, tab, refresh, clicks, lost, history>>

IssueLogin(c) ==
    /\ Is(c, Logins, "issue")
    /\ LET n == Len(pairs) + 1
       IN /\ pairs' = Append(pairs, [root |-> n, version |-> call[c].version])
          /\ call' = [call EXCEPT ![c].at = "ok", ![c].auth = n]
          /\ escaped' = IF call[c].late THEN escaped \cup {n} ELSE escaped
    /\ UNCHANGED <<kind, password, revoked, expired, stored, tab, refresh, clicks, lost, twice, loose, out>>

(* Two pairs that one account gets within one second have the same refresh *)
(* token, and a token is unique: the second pair is not stored, and the    *)
(* request fails.                                                          *)
LoginClash(c) ==
    /\ Is(c, Logins, "issue") /\ Issued # {}
    /\ call' = [call EXCEPT ![c] = Failed(c, stored)]
    /\ UNCHANGED <<kind, server, expired, stored, tab, refresh, clicks, lost, history>>

RevokeOne(c) ==
    /\ Is(c, {"logout"}, "server")
    /\ revoked' = revoked \cup {call[c].auth}
    /\ End(c)
    /\ UNCHANGED <<kind, password, pairs, expired, stored, tab, refresh, clicks, lost, history>>

(* refresh: the token is found and not revoked, then it is revoked, then   *)
(* the next pair is issued.                                                *)
FindToken(t) ==
    /\ refresh[t].at = "find"
    /\ LET p == refresh[t].pair
       IN /\ refresh' = [refresh EXCEPT ![t].at = IF p \in Live THEN "revoke" ELSE "denied"]
          /\ twice' = IF \E u \in Tabs \ {t} : refresh[u].at = "revoke" /\ refresh[u].pair = p
                      THEN twice \cup {Root(p)} ELSE twice
    /\ UNCHANGED <<kind, server, expired, stored, tab, call, clicks, lost, loose, escaped, out>>

(* Mutant: a token that was exchanged stays good.                          *)
Used_Kept(p) == revoked

Used(p) == revoked \cup {p}

RevokeToken(t) ==
    /\ refresh[t].at = "revoke"
    /\ revoked' = Used(refresh[t].pair)
    /\ refresh' = [refresh EXCEPT ![t].at = "issue"]
    /\ UNCHANGED <<kind, password, pairs, expired, stored, tab, call, clicks, lost, history>>

IssueNext(t) ==
    /\ refresh[t].at = "issue"
    /\ LET p == refresh[t].pair  n == Len(pairs) + 1
       IN /\ pairs' = Append(pairs, pairs[p])
          /\ refresh' = [refresh EXCEPT ![t].at = "answered", ![t].pair = n]
          /\ escaped' = IF refresh[t].late \/ p \in escaped THEN escaped \cup {n} ELSE escaped
    /\ UNCHANGED <<kind, password, revoked, expired, stored, tab, call, clicks, lost, twice, loose, out>>

(* What was exchanged for it stays revoked.                                *)
NextClash(t) ==
    /\ refresh[t].at = "issue"
    /\ refresh' = [refresh EXCEPT ![t].at = "denied"]
    /\ UNCHANGED <<kind, server, expired, stored, tab, call, clicks, lost, history>>

-----------------------------------------------------------------------------
(* The browser takes the answers; one to a page just ends the call.        *)
TakeLogin(c) ==
    /\ Is(c, Logins, "ok")
    /\ stored' = call[c].auth
    /\ tab' = [tab EXCEPT ![call[c].tab] = "in"]
    /\ out' = 0
    /\ End(c)
    /\ UNCHANGED <<kind, server, expired, refresh, clicks, lost, twice, loose, escaped>>

(* The interceptor: a call that was repeated fails; otherwise it waits for *)
(* the tab's refresh, which it starts if there is none.                    *)
TakeDenied(c) ==
    /\ call[c].at = "denied"
    /\ LET t == call[c].tab
       IN IF call[c].again
          THEN call' = [call EXCEPT ![c] = Failed(c, stored)] /\ UNCHANGED refresh
          ELSE /\ call' = [call EXCEPT ![c].at = "wait", ![c].again = TRUE]
               /\ refresh' = IF refresh[t] # Idle THEN refresh
                             ELSE [refresh EXCEPT ![t] = [at |-> IF stored = 0 THEN "denied" ELSE "find",
                                                          pair |-> stored, late |-> FALSE]]
    /\ UNCHANGED <<kind, server, expired, stored, tab, clicks, lost, history>>

(* Mutant: only a call that waits alone is sent again.                     *)
Waits_Alone(c, t) ==
    /\ call[c].at = "wait" /\ call[c].tab = t
    /\ \A d \in Calls \ {c} : ~ (call[d].at = "wait" /\ call[d].tab = t)

(* Waiting calls are sent again, with whatever is stored now.              *)
Waits(c, t) == call[c].at = "wait" /\ call[c].tab = t

RefreshDone(t) ==
    /\ refresh[t].at = "answered"
    /\ stored' = refresh[t].pair
    /\ refresh' = [refresh EXCEPT ![t] = Idle]
    /\ call' = [c \in Calls |-> IF Waits(c, t) THEN [call[c] EXCEPT !.at = "server", !.auth = stored'] ELSE call[c]]
    /\ UNCHANGED <<kind, server, expired, tab, clicks, lost, history>>

(* Any failure of the refresh, also none but a slow network, ends the      *)
(* session that is stored by now.                                          *)
RefreshFailed(t) ==
    /\ refresh[t].at = "denied"
    /\ stored' = 0
    /\ tab' = [tab EXCEPT ![t] = "out"]
    /\ refresh' = [refresh EXCEPT ![t] = Idle]
    /\ call' = [c \in Calls |-> IF Waits(c, t) THEN Failed(c, 0) ELSE call[c]]
    /\ UNCHANGED <<kind, server, expired, clicks, lost, history>>

Lost(c) ==
    /\ call[c].at \in {"server", "ok"} /\ lost < MaxLost /\ lost' = lost + 1
    /\ call' = [call EXCEPT ![c] = Failed(c, stored)]
    /\ loose' = IF call[c].kind = "logout" THEN loose \cup {Root(call[c].auth)} ELSE loose
    /\ UNCHANGED <<kind, server, expired, stored, tab, refresh, clicks, twice, escaped, out>>

LostRefresh(t) ==
    /\ refresh[t].at \in {"find", "answered"} /\ lost < MaxLost /\ lost' = lost + 1
    /\ refresh' = [refresh EXCEPT ![t].at = "denied"]
    /\ loose' = loose \cup {Root(refresh[t].pair)}
    /\ UNCHANGED <<kind, server, expired, stored, tab, call, clicks, twice, escaped, out>>

-----------------------------------------------------------------------------
Proceed(c) ==
    \/ ServePage(c) \/ ComparePassword(c) \/ WritePassword(c) \/ RevokeAll(c) \/ CompareLogin(c)
    \/ IssueLogin(c) \/ LoginClash(c) \/ RevokeOne(c) \/ TakeLogin(c) \/ TakeDenied(c) \/ Lost(c)
ProceedRefresh(t) ==
    \/ FindToken(t) \/ RevokeToken(t) \/ IssueNext(t) \/ NextClash(t) \/ RefreshDone(t) \/ RefreshFailed(t)
    \/ LostRefresh(t)

Next ==
    \/ \E t \in Tabs : ProceedRefresh(t)
    \/ \E p \in Issued : Expire(p)
    \/ \E c \in Calls : Proceed(c)
    \/ \E c \in Calls, t \in Tabs : Login(c, t) \/ Logout(c, t) \/ \E k \in Kinds : Ask(c, t, k)

Spec == Init /\ [][Next]_vars

(* The server works on what it has received, the browser on what it is     *)
(* told, and both clients have a timeout.                                  *)
FairSpec ==
    /\ Spec
    /\ \A c \in Calls : WF_vars(Proceed(c))
    /\ \A t \in Tabs : WF_vars(ProceedRefresh(t))

-----------------------------------------------------------------------------
(* However often a session is refreshed, of each login one refresh token   *)
(* is good at most - unless two tabs presented the same token at a moment  *)
(* when both found it unused.                                              *)
OneLive == \A p, q \in Live : Root(p) = Root(q) /\ Root(p) \notin twice => p = q

(* Once a change of the password is through, no token of a session from    *)
(* before it is good (auth.service.ts:178, "other sessions must re-login") *)
(* - except one that was being issued while the others were revoked.       *)
PasswordEnds ==
    \A p \in Live \ escaped : pairs[p].version = password \/ \E c \in Calls : Is(c, {"password"}, "revoke")

(* After a logout nothing is stored until the next login, in no tab, and   *)
(* when the server has heard of it no token of that login is good - unless *)
(* a refresh was under way or a message got lost.                          *)
LoggedOut ==
    out # 0 /\ out \notin twice \cup loose =>
        /\ stored = 0
        /\ (\E c \in Calls : Is(c, {"logout"}, "server")) \/ \A p \in Live : Root(p) # out

(* No call waits for ever: whatever expires, is revoked or gets lost, each *)
(* call of a page is answered or fails.                                    *)
CallsEnd == \A c \in Calls : call[c] # Idle ~> call[c] = Idle
=============================================================================
