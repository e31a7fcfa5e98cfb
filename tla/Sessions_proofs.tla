--------------------------- MODULE Sessions_proofs ---------------------------
(***************************************************************************)
(* Proofs about Sessions for any number of tabs, calls, logins, expiries   *)
(* and lost messages: one live token per login, a change of the password   *)
(* that ends the other sessions, and a logout that stays one.              *)
(***************************************************************************)
EXTENDS Sessions, SequenceTheorems, TLAPS

-----------------------------------------------------------------------------
(* The types that the proofs need.                                         *)
Pairs == [root : Nat, version : Nat]
Refreshes == [at : {"find", "revoke", "issue", "answered", "denied"}, pair : Nat, late : BOOLEAN]
CallRecords ==
    [kind : Kinds, tab : Tabs, at : {"server", "write", "revoke", "issue", "ok", "denied", "wait"},
     auth : Nat, again : BOOLEAN, version : Nat, late : BOOLEAN]

OrNone == Issued \cup {0}

(* What a call and a refresh may be; both only know pairs that exist.      *)
CallSet ==
    {q \in CallRecords : q.auth \in OrNone /\ (q.kind = "logout" => q.at = "server" /\ q.auth # 0)} \cup {Idle}
RefreshSet ==
    {q \in Refreshes : q.pair \in OrNone /\ (q.pair = 0 => q.at = "denied")} \cup {Idle}

ServerTyped ==
    /\ password \in Nat
    /\ pairs \in Seq(Pairs)
    /\ revoked \subseteq Issued
    /\ \A p \in Issued : Root(p) \in Issued

Typed ==
    /\ ServerTyped
    /\ stored \in OrNone
    /\ refresh \in [Tabs -> RefreshSet]
    /\ call \in [Calls -> CallSet]

(* What is at most one per login: a good token, or the one that a refresh  *)
(* has taken and will replace.                                             *)
Taken(t) == refresh[t].at \in {"revoke", "issue"}

OneTaken ==
    \A t, u \in Tabs : t # u /\ Taken(t) /\ Taken(u) /\ Root(refresh[t].pair) = Root(refresh[u].pair) =>
        Root(refresh[t].pair) \in twice

TakenLive ==
    \A t \in Tabs, p \in Live : Taken(t) /\ Root(p) = Root(refresh[t].pair) =>
        Root(p) \in twice \/ (refresh[t].at = "revoke" /\ p = refresh[t].pair)

OneInv == OneLive /\ OneTaken /\ TakenLive

(* A pair that is about to be issued belongs to the password of now.       *)
Changing == \E c \in Calls : Is(c, {"password"}, "revoke")

LoginsCurrent ==
    \A c \in Calls : Is(c, Logins, "issue") /\ ~ call[c].late => call[c].version = password \/ Changing

RefreshesCurrent ==
    \A t \in Tabs : Taken(t) /\ ~ refresh[t].late /\ refresh[t].pair \notin escaped =>
        pairs[refresh[t].pair].version = password \/ Changing

PasswordInv == PasswordEnds /\ LoginsCurrent /\ RefreshesCurrent

(* The browser has the good token of its login, or is about to store it.   *)
Blurred == twice \cup loose

StoredSound ==
    stored # 0 /\ Root(stored) \notin Blurred =>
        \A p \in Live : Root(p) = Root(stored) =>
            p = stored \/ \E t \in Tabs : refresh[t].at = "answered" /\ refresh[t].pair = p

AnswerSound(t) ==
    refresh[t].at = "answered" /\ Root(refresh[t].pair) \notin Blurred =>
        /\ \A p \in Live : Root(p) = Root(refresh[t].pair) => p = refresh[t].pair
        /\ stored # refresh[t].pair
        /\ \A u \in Tabs \ {t} :
              refresh[u].at = "find" \/ Taken(u) \/ refresh[u].at = "answered" =>
                  /\ refresh[u].pair # refresh[t].pair
                  /\ refresh[u].at # "find" => Root(refresh[u].pair) # Root(refresh[t].pair)

(* A login that is not stored yet is known to nobody else.                 *)
LoginSound(c) ==
    Is(c, Logins, "ok") =>
        /\ call[c].auth # 0
        /\ \A p \in Issued : Root(p) = call[c].auth <=> p = call[c].auth
        /\ stored # call[c].auth
        /\ \A t \in Tabs : refresh[t] # Idle => refresh[t].pair # call[c].auth
        /\ \A d \in Calls \ {c} : Is(d, Logins, "ok") => call[d].auth # call[c].auth

(* After a logout no refresh is left that could store a pair again, and    *)
(* the call that tells the server carries the one good token.              *)
Tells(c) ==
    /\ Is(c, {"logout"}, "server")
    /\ Root(call[c].auth) = out
    /\ \A p \in Live : Root(p) = out => p = call[c].auth

OutSound ==
    /\ out \in OrNone
    /\ out # 0 /\ out \notin Blurred =>
        /\ stored = 0
        /\ \A t \in Tabs : refresh[t] = Idle \/ refresh[t].at = "denied"
        /\ (\E c \in Calls : Tells(c)) \/ \A p \in Live : Root(p) # out

BrowserInv ==
    /\ StoredSound
    /\ \A t \in Tabs : AnswerSound(t)
    /\ \A c \in Calls : LoginSound(c)

IInv == Typed /\ OneInv /\ PasswordInv /\ BrowserInv /\ OutSound

-----------------------------------------------------------------------------
(* Typed                                                                   *)
Places == {"server", "write", "revoke", "issue", "ok", "denied", "wait"}

LEMMA IdleIs ==
    /\ Idle.at = "idle" /\ Idle \notin CallRecords /\ Idle \notin Refreshes
    /\ \A r \in CallRecords : r # Idle
    /\ \A r \in Refreshes : r # Idle
BY DEF Idle, CallRecords, Refreshes

(* One field of a call, or of a refresh, changes.                          *)
LEMMA CallAt ==
    ASSUME NEW r \in CallRecords, NEW s \in Places
    PROVE  LET q == [r EXCEPT !.at = s]
           IN  /\ q \in CallRecords /\ q.at = s /\ q.kind = r.kind /\ q.tab = r.tab /\ q.auth = r.auth
               /\ q.again = r.again /\ q.version = r.version /\ q.late = r.late
BY DEF CallRecords, Places

LEMMA RefreshAt ==
    ASSUME NEW r \in Refreshes, NEW s \in {"find", "revoke", "issue", "answered", "denied"}
    PROVE  LET q == [r EXCEPT !.at = s]
           IN  q \in Refreshes /\ q.at = s /\ q.pair = r.pair /\ q.late = r.late
BY DEF Refreshes

LEMMA NewCallIs ==
    ASSUME NEW k \in Kinds, NEW t \in Tabs, NEW a \in Nat
    PROVE  LET q == NewCall(k, t, a)
           IN  /\ q \in CallRecords /\ q.at = "server" /\ q.kind = k /\ q.tab = t /\ q.auth = a
               /\ ~ q.again /\ q.version = 0 /\ ~ q.late
BY DEF NewCall, CallRecords

LEMMA InitTyped == ASSUME Init PROVE Typed
<1>1. pairs \in Seq(Pairs) /\ Issued = 1 .. stored /\ \A p \in Issued : Root(p) = p
      <2>1. stored \in Nat /\ pairs = [p \in 1 .. stored |-> [root |-> p, version |-> 0]]
            BY DEF Init
      <2>2. \A p \in 1 .. stored : [root |-> p, version |-> 0] \in Pairs
            BY <2>1 DEF Pairs
      <2>3. pairs \in Seq(Pairs) /\ Len(pairs) = stored
            BY <2>1, <2>2
      <2> QED BY <2>1, <2>3 DEF Issued, Root
<1>2. Idle \in CallSet /\ Idle \in RefreshSet
      BY DEF CallSet, RefreshSet
<1> QED BY <1>1, <1>2 DEF Init, Typed, ServerTyped, OrNone

(* Pairs that exist stay what they are.                                    *)
LEMMA SamePairs ==
    ASSUME UNCHANGED pairs
    PROVE  Issued' = Issued /\ OrNone' = OrNone /\ CallSet' = CallSet /\ RefreshSet' = RefreshSet
BY DEF Issued, OrNone, CallSet, RefreshSet

LEMMA NewPair ==
    ASSUME Typed, NEW v \in Pairs, pairs' = Append(pairs, v), UNCHANGED <<password, revoked>>,
           v.root \in Issued \/ v.root = Len(pairs) + 1
    PROVE  /\ ServerTyped' /\ Len(pairs) + 1 \notin OrNone
           /\ Issued' = Issued \cup {Len(pairs) + 1} /\ OrNone' = OrNone \cup {Len(pairs) + 1}
           /\ \A p \in Issued : pairs'[p] = pairs[p]
           /\ pairs'[Len(pairs) + 1] = v
           /\ CallSet \subseteq CallSet' /\ RefreshSet \subseteq RefreshSet'
<1>1. pairs \in Seq(Pairs) /\ Len(pairs) \in Nat
      BY DEF Typed, ServerTyped
<1>2. /\ pairs' \in Seq(Pairs) /\ Len(pairs') = Len(pairs) + 1
      /\ \A p \in 1 .. Len(pairs) : pairs'[p] = pairs[p]
      /\ pairs'[Len(pairs) + 1] = v
      BY <1>1
<1>3. /\ Issued' = Issued \cup {Len(pairs) + 1} /\ Len(pairs) + 1 \notin OrNone
      /\ OrNone' = OrNone \cup {Len(pairs) + 1} /\ Issued = 1 .. Len(pairs)
      BY <1>1, <1>2 DEF Issued, OrNone
<1>4. CallSet \subseteq CallSet' /\ RefreshSet \subseteq RefreshSet'
      BY <1>3 DEF CallSet, RefreshSet
<1>5. ServerTyped'
      <2>1. \A p \in Issued' : Root(p)' \in Issued'
            BY <1>2, <1>3 DEF Typed, ServerTyped, Root
      <2> QED BY <1>2, <1>3, <2>1 DEF Typed, ServerTyped
<1> QED BY <1>2, <1>3, <1>4, <1>5

LEMMA CallMember ==
    ASSUME Typed, NEW c \in Calls, call[c] # Idle
    PROVE  /\ call[c] \in CallRecords /\ call[c].auth \in OrNone
           /\ call[c].kind = "logout" => call[c].at = "server" /\ call[c].auth # 0
BY DEF Typed, CallSet

LEMMA RefreshMember ==
    ASSUME Typed, NEW t \in Tabs, refresh[t] # Idle
    PROVE  /\ refresh[t] \in Refreshes /\ refresh[t].pair \in OrNone
           /\ refresh[t].pair = 0 => refresh[t].at = "denied"
BY DEF Typed, RefreshSet

(* A call of whoever is not signed out takes another place.                *)
LEMMA CallMoves ==
    ASSUME Typed, NEW c \in Calls, call[c] # Idle, NEW s \in Places,
           call[c].kind = "logout" => s = "server"
    PROVE  [call[c] EXCEPT !.at = s] \in CallSet
BY CallMember, CallAt DEF CallSet

LEMMA FailedMember ==
    ASSUME Typed, NEW c \in Calls, call[c] # Idle, NEW a \in OrNone
    PROVE  /\ Failed(c, a) \in CallSet
           /\ Failed(c, a) # Idle => /\ Failed(c, a).at = "server" /\ Failed(c, a).kind = "driverLogin"
                                     /\ ~ Failed(c, a).late
<1>1. call[c].tab \in Tabs /\ a \in Nat /\ "driverLogin" \in Kinds
      BY CallMember DEF CallRecords, OrNone, Issued, Kinds, Logins
<1> QED BY <1>1, NewCallIs, IdleIs DEF Failed, CallSet

(* A step that issues nothing keeps the types when what it writes has them. *)
LEMMA TypedBy ==
    ASSUME Typed, UNCHANGED pairs, password' \in Nat, revoked' \subseteq Issued, stored' \in OrNone,
           refresh' \in [Tabs -> RefreshSet], call' \in [Calls -> CallSet]
    PROVE  Typed'
BY SamePairs DEF Typed, ServerTyped, Root

LEMMA TypedClicks ==
    ASSUME Typed, NEW c \in Calls, NEW t \in Tabs,
           Login(c, t) \/ Logout(c, t) \/ \E k \in Kinds : Ask(c, t, k)
    PROVE  Typed'
<1> USE DEF Typed
<1>1. ASSUME NEW k \in Kinds, NEW a \in OrNone, k = "logout" => a # 0
      PROVE  [call EXCEPT ![c] = NewCall(k, t, a)] \in [Calls -> CallSet]
      <2>1. a \in Nat
            BY DEF OrNone, Issued
      <2>2. NewCall(k, t, a) \in CallSet
            BY <1>1, <2>1, NewCallIs DEF CallSet
      <2> QED BY <2>2
<1>2. "staffLogin" \in Kinds /\ "logout" \in Kinds
      BY DEF Kinds, Logins
<1>3. CASE Login(c, t)
      <2>1. call' \in [Calls -> CallSet]
            BY <1>1, <1>2, <1>3 DEF Login
      <2>2. UNCHANGED <<pairs, password, revoked, stored, refresh>>
            BY <1>3 DEF Login, server
      <2> QED BY <2>1, <2>2, TypedBy DEF ServerTyped
<1>4. CASE Logout(c, t)
      <2>1. call' \in [Calls -> CallSet] /\ stored' \in OrNone
            BY <1>1, <1>2, <1>4 DEF Logout, Forgotten, OrNone
      <2>2. UNCHANGED <<pairs, password, revoked, refresh>>
            BY <1>4 DEF Logout, server
      <2> QED BY <2>1, <2>2, TypedBy DEF ServerTyped
<1>5. ASSUME NEW k \in Kinds, Ask(c, t, k) PROVE Typed'
      <2>1. call' \in [Calls -> CallSet]
            BY <1>1, <1>5 DEF Ask
      <2>2. UNCHANGED <<pairs, password, revoked, stored, refresh>>
            BY <1>5 DEF Ask, server
      <2> QED BY <2>1, <2>2, TypedBy DEF ServerTyped
<1> QED BY <1>3, <1>4, <1>5

LEMMA TypedProceed ==
    ASSUME Typed, NEW c \in Calls, Proceed(c)
    PROVE  Typed'
<1> USE DEF Typed
<1>1. ASSUME NEW s \in Places, call[c] # Idle, call[c].kind # "logout", Goto(c, s)
      PROVE  call' \in [Calls -> CallSet]
      <2>1. [call[c] EXCEPT !.at = s] \in CallSet
            BY <1>1, CallMoves
      <2>2. call' = [call EXCEPT ![c] = [call[c] EXCEPT !.at = s]]
            BY <1>1 DEF Goto
      <2> QED BY <2>1, <2>2
<1>2. Idle \in CallSet /\ \A t \in Tabs : refresh[t] \in RefreshSet
      BY DEF CallSet
<1>3. ASSUME ServePage(c) \/ ComparePassword(c) PROVE Typed'
      <2>1. call' \in [Calls -> CallSet]
            BY <1>1, <1>2, <1>3 DEF ServePage, ComparePassword, Is, Places, End
      <2>2. UNCHANGED <<pairs, password, revoked, stored, refresh>>
            BY <1>3 DEF ServePage, ComparePassword, server
      <2> QED BY <2>1, <2>2, TypedBy DEF ServerTyped
<1>4. ASSUME WritePassword(c) PROVE Typed'
      <2>1. call' \in [Calls -> CallSet]
            BY <1>1, <1>4 DEF WritePassword, Is, Places
      <2>2. UNCHANGED <<pairs, revoked, stored, refresh>> /\ password' \in Nat
            BY <1>4 DEF WritePassword, server, ServerTyped
      <2> QED BY <2>1, <2>2, TypedBy DEF ServerTyped
<1>5. ASSUME RevokeAll(c) PROVE Typed'
      <2>1. \A d \in Calls : call[d] # Idle => [call[d] EXCEPT !.late = TRUE] \in CallSet
            <3> TAKE d \in Calls
            <3> HAVE call[d] # Idle
            <3>1. call[d] \in CallRecords
                  BY CallMember
            <3>2. LET q == [call[d] EXCEPT !.late = TRUE]
                  IN  q \in CallRecords /\ q.auth = call[d].auth /\ q.kind = call[d].kind /\ q.at = call[d].at
                  BY <3>1 DEF CallRecords
            <3> QED BY <3>2, CallMember DEF CallSet
      <2>2. \A t \in Tabs : refresh[t] # Idle => [refresh[t] EXCEPT !.late = TRUE] \in RefreshSet
            <3> TAKE t \in Tabs
            <3> HAVE refresh[t] # Idle
            <3>1. refresh[t] \in Refreshes
                  BY RefreshMember
            <3>2. LET q == [refresh[t] EXCEPT !.late = TRUE]
                  IN  q \in Refreshes /\ q.pair = refresh[t].pair /\ q.at = refresh[t].at
                  BY <3>1 DEF Refreshes
            <3> QED BY <3>2, RefreshMember DEF RefreshSet
      <2>3. call' \in [Calls -> CallSet]
            BY <1>2, <1>5, <2>1 DEF RevokeAll, Is
      <2>4. refresh' \in [Tabs -> RefreshSet]
            BY <1>2, <1>5, <2>2, IdleIs DEF RevokeAll
      <2>5. UNCHANGED <<pairs, password, stored>> /\ revoked' \subseteq Issued
            BY <1>5 DEF RevokeAll, AllTokens, ServerTyped
      <2> QED BY <2>3, <2>4, <2>5, TypedBy DEF ServerTyped
<1>6. ASSUME CompareLogin(c) PROVE Typed'
      <2>1. PICK s \in Places : call' = [call EXCEPT ![c].version = password, ![c].at = s]
            BY <1>6 DEF CompareLogin, Places
      <2>2. call[c] \in CallRecords /\ call[c].kind # "logout" /\ call[c].auth \in OrNone
            BY <1>6, CallMember DEF CompareLogin, Is, Logins
      <2>3. [call[c] EXCEPT !.version = password, !.at = s] \in CallSet
            BY <2>2 DEF CallSet, CallRecords, Places, ServerTyped
      <2>4. call' = [call EXCEPT ![c] = [call[c] EXCEPT !.version = password, !.at = s]]
            BY <2>1
      <2>5. UNCHANGED <<pairs, password, revoked, stored, refresh>>
            BY <1>6 DEF CompareLogin, server
      <2> QED BY <2>3, <2>4, <2>5, TypedBy DEF ServerTyped
<1>7. ASSUME IssueLogin(c) PROVE Typed'
      <2> DEFINE n == Len(pairs) + 1
                 v == [root |-> n, version |-> call[c].version]
      <2>1. call[c] \in CallRecords /\ call[c].kind # "logout" /\ pairs' = Append(pairs, v)
            BY <1>7, CallMember DEF IssueLogin, Is, Logins
      <2>2. v \in Pairs
            BY <2>1 DEF Pairs, CallRecords, ServerTyped
      <2>3. UNCHANGED <<password, revoked, stored, refresh>>
            BY <1>7 DEF IssueLogin
      <2>4. /\ ServerTyped' /\ n \notin OrNone
            /\ Issued' = Issued \cup {n} /\ OrNone' = OrNone \cup {n}
            /\ CallSet \subseteq CallSet' /\ RefreshSet \subseteq RefreshSet'
            BY <2>1, <2>2, <2>3, NewPair
      <2>5. n \in Nat
            BY DEF ServerTyped
      <2>6. call' = [call EXCEPT ![c] = [call[c] EXCEPT !.at = "ok", !.auth = n]]
            BY <1>7 DEF IssueLogin
      <2> HIDE DEF n, v
      <2> DEFINE q == [call[c] EXCEPT !.at = "ok", !.auth = n]
      <2>7. q \in CallRecords /\ q.kind # "logout" /\ q.auth = n
            BY <2>1, <2>5 DEF CallRecords
      <2> HIDE DEF q
      <2>8. q \in CallSet'
            <3>1. \A k \in CallRecords : k.kind # "logout" /\ k.auth \in OrNone' => k \in CallSet'
                  BY DEF CallSet
            <3> QED BY <2>4, <2>7, <3>1
      <2> QED BY <2>3, <2>4, <2>6, <2>8 DEF q
<1>8. ASSUME RevokeOne(c) PROVE Typed'
      <2>1. call' \in [Calls -> CallSet]
            BY <1>2, <1>8 DEF RevokeOne, End
      <2>2. call[c].auth \in Issued
            BY <1>8, CallMember DEF RevokeOne, Is, OrNone
      <2>3. UNCHANGED <<pairs, password, stored, refresh>> /\ revoked' \subseteq Issued
            BY <1>8, <2>2 DEF RevokeOne, ServerTyped
      <2> QED BY <2>1, <2>3, TypedBy DEF ServerTyped
<1>9. ASSUME TakeLogin(c) PROVE Typed'
      <2>1. call' \in [Calls -> CallSet] /\ stored' \in OrNone
            BY <1>2, <1>9, CallMember DEF TakeLogin, End, Is
      <2>2. UNCHANGED <<pairs, password, revoked, refresh>>
            BY <1>9 DEF TakeLogin, server
      <2> QED BY <2>1, <2>2, TypedBy DEF ServerTyped
<1>10. ASSUME TakeDenied(c) PROVE Typed'
      <2> DEFINE t == call[c].tab
                 f == [at |-> IF stored = 0 THEN "denied" ELSE "find", pair |-> stored, late |-> FALSE]
      <2>1. call[c] # Idle /\ call[c].kind # "logout"
            BY <1>10, IdleIs, CallMember DEF TakeDenied
      <2>2. call[c] \in CallRecords /\ t \in Tabs /\ call[c].auth \in OrNone
            BY <2>1, CallMember DEF CallRecords
      <2>3. stored \in Nat
            BY DEF OrNone, Issued
      <2>4. f \in RefreshSet
            BY <2>3 DEF RefreshSet, Refreshes
      <2>5. LET q == [call[c] EXCEPT !.at = "wait", !.again = TRUE]
            IN  q \in CallSet
            BY <2>1, <2>2 DEF CallRecords, CallSet
      <2>6. Failed(c, stored) \in CallSet
            BY <2>1, FailedMember
      <2>7. call' \in [Calls -> CallSet]
            <3>1. \/ call' = [call EXCEPT ![c] = Failed(c, stored)]
                  \/ call' = [call EXCEPT ![c] = [call[c] EXCEPT !.at = "wait", !.again = TRUE]]
                  BY <1>10 DEF TakeDenied
            <3> QED BY <2>5, <2>6, <3>1
      <2>8. refresh' = refresh \/ refresh' = [refresh EXCEPT ![t] = f]
            BY <1>10 DEF TakeDenied
      <2>9. UNCHANGED <<pairs, password, revoked, stored>>
            BY <1>10 DEF TakeDenied, server
      <2> HIDE DEF t, f
      <2> QED BY <2>2, <2>4, <2>7, <2>8, <2>9, TypedBy DEF ServerTyped
<1>11. ASSUME Lost(c) PROVE Typed'
      <2>1. call[c] # Idle
            BY <1>11, IdleIs DEF Lost
      <2>2. call' \in [Calls -> CallSet]
            BY <1>11, <2>1, FailedMember DEF Lost
      <2>3. UNCHANGED <<pairs, password, revoked, stored, refresh>>
            BY <1>11 DEF Lost, server
      <2> QED BY <2>2, <2>3, TypedBy DEF ServerTyped
<1>12. ASSUME LoginClash(c) PROVE Typed'
      <2>1. call[c] # Idle
            BY <1>12 DEF LoginClash, Is
      <2>2. call' \in [Calls -> CallSet]
            BY <1>12, <2>1, FailedMember DEF LoginClash
      <2>3. UNCHANGED <<pairs, password, revoked, stored, refresh>>
            BY <1>12 DEF LoginClash, server
      <2> QED BY <2>2, <2>3, TypedBy DEF ServerTyped
<1> QED BY <1>3, <1>4, <1>5, <1>6, <1>7, <1>8, <1>9, <1>10, <1>11, <1>12 DEF Proceed

LEMMA TypedRefresh ==
    ASSUME Typed, NEW t \in Tabs, ProceedRefresh(t)
    PROVE  Typed'
<1> USE DEF Typed
<1>1. refresh[t] # Idle /\ refresh[t] \in Refreshes /\ refresh[t].pair \in OrNone /\ refresh[t].pair \in Nat
      BY IdleIs, RefreshMember DEF ProceedRefresh, FindToken, RevokeToken, IssueNext, NextClash, RefreshDone,
                                   RefreshFailed, LostRefresh, Refreshes
<1>2. ASSUME NEW s \in {"find", "revoke", "issue", "answered", "denied"}, s # "denied" => refresh[t].pair # 0,
             refresh' = [refresh EXCEPT ![t].at = s]
      PROVE  refresh' \in [Tabs -> RefreshSet]
      <2>1. [refresh[t] EXCEPT !.at = s] \in RefreshSet
            BY <1>1, <1>2, RefreshAt DEF RefreshSet
      <2>2. refresh' = [refresh EXCEPT ![t] = [refresh[t] EXCEPT !.at = s]]
            BY <1>2
      <2> QED BY <2>1, <2>2
<1>3. refresh[t].at # "denied" => refresh[t].pair # 0
      BY <1>1, RefreshMember
<1>4. ASSUME FindToken(t) PROVE Typed'
      <2>1. refresh' \in [Tabs -> RefreshSet]
            BY <1>2, <1>3, <1>4 DEF FindToken
      <2>2. UNCHANGED <<pairs, password, revoked, stored, call>>
            BY <1>4 DEF FindToken, server
      <2> QED BY <2>1, <2>2, TypedBy DEF ServerTyped
<1>5. ASSUME RevokeToken(t) PROVE Typed'
      <2>1. refresh' \in [Tabs -> RefreshSet]
            BY <1>2, <1>3, <1>5 DEF RevokeToken
      <2>2. revoked' \subseteq Issued /\ UNCHANGED <<pairs, password, stored, call>>
            BY <1>1, <1>3, <1>5 DEF RevokeToken, Used, ServerTyped, OrNone
      <2> QED BY <2>1, <2>2, TypedBy DEF ServerTyped
<1>6. ASSUME IssueNext(t) PROVE Typed'
      <2> DEFINE n == Len(pairs) + 1
                 p == refresh[t].pair
      <2>1. p \in Issued /\ pairs' = Append(pairs, pairs[p]) /\ UNCHANGED <<password, revoked, stored, call>>
            BY <1>1, <1>3, <1>6 DEF IssueNext, OrNone
      <2>2. pairs[p] \in Pairs /\ pairs[p].root \in Issued
            BY <2>1 DEF ServerTyped, Root, Issued
      <2>3. /\ ServerTyped' /\ n \notin OrNone
            /\ Issued' = Issued \cup {n} /\ OrNone' = OrNone \cup {n}
            /\ CallSet \subseteq CallSet' /\ RefreshSet \subseteq RefreshSet'
            BY <2>1, <2>2, NewPair
      <2>4. n \in Nat /\ n # 0
            BY DEF ServerTyped
      <2>5. refresh' = [refresh EXCEPT ![t] = [refresh[t] EXCEPT !.at = "answered", !.pair = n]]
            BY <1>6 DEF IssueNext
      <2> HIDE DEF n, p
      <2> DEFINE q == [refresh[t] EXCEPT !.at = "answered", !.pair = n]
      <2>6. q \in Refreshes /\ q.pair = n
            BY <1>1, <2>4 DEF Refreshes
      <2> HIDE DEF q
      <2>7. q \in RefreshSet'
            <3>1. \A f \in Refreshes : f.pair # 0 /\ f.pair \in OrNone' => f \in RefreshSet'
                  BY DEF RefreshSet
            <3> QED BY <2>3, <2>4, <2>6, <3>1
      <2> QED BY <2>1, <2>3, <2>5, <2>7 DEF q
<1>7. Idle \in RefreshSet
      BY DEF RefreshSet
<1>8. ASSUME RefreshDone(t) PROVE Typed'
      <2>1. \A c \in Calls : call[c] # Idle /\ Waits(c, t) =>
                  [call[c] EXCEPT !.at = "server", !.auth = refresh[t].pair] \in CallSet
            <3> TAKE c \in Calls
            <3> HAVE call[c] # Idle /\ Waits(c, t)
            <3>1. call[c] \in CallRecords /\ call[c].kind # "logout"
                  BY CallMember DEF Waits
            <3>2. LET q == [call[c] EXCEPT !.at = "server", !.auth = refresh[t].pair]
                  IN  q \in CallRecords /\ q.kind = call[c].kind /\ q.auth = refresh[t].pair
                  BY <1>1, <3>1 DEF CallRecords
            <3> QED BY <1>1, <3>1, <3>2 DEF CallSet
      <2>2. call' \in [Calls -> CallSet] /\ stored' \in OrNone
            BY <1>1, <1>8, <2>1, IdleIs DEF RefreshDone, Waits
      <2>3. refresh' \in [Tabs -> RefreshSet] /\ UNCHANGED <<pairs, password, revoked>>
            BY <1>7, <1>8 DEF RefreshDone, server
      <2> QED BY <2>2, <2>3, TypedBy DEF ServerTyped
<1>9. ASSUME RefreshFailed(t) PROVE Typed'
      <2>1. 0 \in OrNone
            BY DEF OrNone
      <2>2. \A c \in Calls : Waits(c, t) => Failed(c, 0) \in CallSet
            BY <2>1, FailedMember, IdleIs DEF Waits
      <2>3. call' \in [Calls -> CallSet]
            BY <1>9, <2>2 DEF RefreshFailed
      <2>4. refresh' \in [Tabs -> RefreshSet] /\ stored' \in OrNone /\ UNCHANGED <<pairs, password, revoked>>
            BY <1>7, <1>9, <2>1 DEF RefreshFailed, server
      <2> QED BY <2>3, <2>4, TypedBy DEF ServerTyped
<1>10. ASSUME LostRefresh(t) PROVE Typed'
      <2>1. refresh' \in [Tabs -> RefreshSet]
            BY <1>2, <1>3, <1>10 DEF LostRefresh
      <2>2. UNCHANGED <<pairs, password, revoked, stored, call>>
            BY <1>10 DEF LostRefresh, server
      <2> QED BY <2>1, <2>2, TypedBy DEF ServerTyped
<1>11. ASSUME NextClash(t) PROVE Typed'
      <2>1. refresh' \in [Tabs -> RefreshSet]
            BY <1>2, <1>3, <1>11 DEF NextClash
      <2>2. UNCHANGED <<pairs, password, revoked, stored, call>>
            BY <1>11 DEF NextClash, server
      <2> QED BY <2>1, <2>2, TypedBy DEF ServerTyped
<1> QED BY <1>4, <1>5, <1>6, <1>8, <1>9, <1>10, <1>11 DEF ProceedRefresh

LEMMA TypedStep == Typed /\ [Next]_vars => Typed'
<1> SUFFICES ASSUME Typed, [Next]_vars PROVE Typed'
    OBVIOUS
<1>1. ASSUME UNCHANGED <<server, stored, refresh, call>> PROVE Typed'
      BY <1>1, TypedBy DEF server, Typed, ServerTyped
<1>2. ASSUME NEW p, Expire(p) PROVE Typed'
      BY <1>1, <1>2 DEF Expire
<1> QED BY <1>1, <1>2, TypedClicks, TypedProceed, TypedRefresh DEF Next, vars

-----------------------------------------------------------------------------
(* One live token per login                                                *)

LEMMA OneKept ==
    ASSUME OneInv, UNCHANGED <<pairs, twice>>, revoked \subseteq revoked',
           \A t \in Tabs : Taken(t)' =>
               Taken(t) /\ refresh'[t].at = refresh[t].at /\ refresh'[t].pair = refresh[t].pair
    PROVE  OneInv'
<1>1. Live' \subseteq Live /\ \A p : Root(p)' = Root(p)
      BY DEF Live, Issued, Root
<1>2. OneLive'
      BY <1>1 DEF OneInv, OneLive
<1>3. OneTaken'
      BY <1>1 DEF OneInv, OneTaken
<1>4. TakenLive'
      BY <1>1 DEF OneInv, TakenLive
<1> QED BY <1>2, <1>3, <1>4 DEF OneInv

LEMMA OneFind ==
    ASSUME Typed, OneInv, NEW t \in Tabs, FindToken(t)
    PROVE  OneInv'
<1> DEFINE p == refresh[t].pair
<1>1. /\ UNCHANGED <<pairs, revoked>> /\ Live' = Live /\ (\A q : Root(q)' = Root(q)) /\ twice \subseteq twice'
      /\ \A u \in Tabs \ {t} : refresh'[u] = refresh[u]
      BY DEF FindToken, server, Live, Issued, Root, Typed
<1>2. refresh[t] \in Refreshes
      BY RefreshMember, IdleIs DEF FindToken
<1>3. /\ refresh'[t].pair = p
      /\ (refresh'[t].at = "revoke" /\ p \in Live) \/ refresh'[t].at = "denied"
      BY <1>2 DEF FindToken, Typed, Refreshes
<1>4. ASSUME NEW u \in Tabs, u # t, Taken(t)', Taken(u), Root(refresh[u].pair) = Root(p)
      PROVE  Root(p) \in twice'
      <2>1. p \in Live
            BY <1>3, <1>4 DEF Taken
      <2>2. Root(p) \in twice \/ (refresh[u].at = "revoke" /\ p = refresh[u].pair)
            BY <1>4, <2>1 DEF OneInv, TakenLive
      <2> QED BY <1>1, <1>4, <2>2 DEF FindToken
<1>5. OneLive'
      BY <1>1 DEF OneInv, OneLive
<1>6. OneTaken'
      <2> SUFFICES ASSUME NEW u \in Tabs, NEW w \in Tabs, u # w, Taken(u)', Taken(w)',
                          Root(refresh'[u].pair) = Root(refresh'[w].pair)
                   PROVE  Root(refresh'[u].pair) \in twice'
          BY <1>1 DEF OneTaken
      <2>1. CASE u = t
            BY <1>1, <1>3, <1>4, <2>1 DEF Taken
      <2>2. CASE w = t
            BY <1>1, <1>3, <1>4, <2>2 DEF Taken
      <2>3. CASE u # t /\ w # t
            BY <1>1, <2>3 DEF OneInv, OneTaken, Taken
      <2> QED BY <2>1, <2>2, <2>3
<1>7. TakenLive'
      <2> SUFFICES ASSUME NEW u \in Tabs, NEW q \in Live, Taken(u)', Root(q) = Root(refresh'[u].pair)
                   PROVE  Root(q) \in twice' \/ (refresh'[u].at = "revoke" /\ q = refresh'[u].pair)
          BY <1>1 DEF TakenLive
      <2>1. CASE u = t
            BY <1>1, <1>3, <2>1 DEF OneInv, OneLive, Taken
      <2>2. CASE u # t
            BY <1>1, <2>2 DEF OneInv, TakenLive, Taken
      <2> QED BY <2>1, <2>2
<1> QED BY <1>5, <1>6, <1>7 DEF OneInv

LEMMA OneRevoke ==
    ASSUME Typed, OneInv, NEW t \in Tabs, RevokeToken(t)
    PROVE  OneInv'
<1> DEFINE p == refresh[t].pair
<1>1. /\ UNCHANGED <<pairs, twice>> /\ Live' = Live \ {p} /\ (\A q : Root(q)' = Root(q))
      /\ \A u \in Tabs \ {t} : refresh'[u] = refresh[u]
      BY DEF RevokeToken, history, Used, Live, Issued, Root, Typed
<1>2. refresh[t] \in Refreshes /\ Taken(t)
      BY RefreshMember, IdleIs DEF RevokeToken, Taken
<1>3. refresh'[t].pair = p /\ refresh'[t].at = "issue"
      BY <1>2 DEF RevokeToken, Typed, Refreshes
<1>4. OneLive'
      BY <1>1 DEF OneInv, OneLive
<1>5. \A u \in Tabs : refresh'[u].pair = refresh[u].pair /\ (Taken(u)' <=> Taken(u))
      BY <1>1, <1>2, <1>3 DEF Taken
<1>6. OneTaken'
      BY <1>1, <1>5 DEF OneInv, OneTaken
<1>7. TakenLive'
      <2> SUFFICES ASSUME NEW u \in Tabs, NEW q \in Live \ {p}, Taken(u), Root(q) = Root(refresh[u].pair)
                   PROVE  Root(q) \in twice \/ (refresh'[u].at = "revoke" /\ q = refresh[u].pair)
          BY <1>1, <1>5 DEF TakenLive
      <2> QED BY <1>1 DEF OneInv, TakenLive
<1> QED BY <1>4, <1>6, <1>7 DEF OneInv

(* The pair that replaces a taken one is the only good one of its login.   *)
LEMMA IssueEffect ==
    ASSUME Typed, NEW t \in Tabs, IssueNext(t)
    PROVE  LET n == Len(pairs) + 1
           IN  /\ n \notin OrNone /\ Issued' = Issued \cup {n} /\ Live' = Live \cup {n}
               /\ refresh[t].pair \in Issued /\ pairs'[n].root = Root(refresh[t].pair)
               /\ pairs'[n] = pairs[refresh[t].pair]
               /\ \A q \in Issued : Root(q)' = Root(q) /\ pairs'[q] = pairs[q]
               /\ refresh'[t].at = "answered" /\ refresh'[t].pair = n
               /\ \A u \in Tabs \ {t} : refresh'[u] = refresh[u]
<1> DEFINE n == Len(pairs) + 1
           p == refresh[t].pair
<1>1. refresh[t] \in Refreshes /\ p \in Issued
      BY RefreshMember, IdleIs DEF IssueNext, OrNone
<1>2. pairs[p] \in Pairs /\ pairs[p].root \in Issued
      BY <1>1 DEF Typed, ServerTyped, Root, Issued
<1>3. pairs' = Append(pairs, pairs[p]) /\ UNCHANGED <<password, revoked>>
      BY DEF IssueNext
<1>4. /\ n \notin OrNone /\ Issued' = Issued \cup {n}
      /\ \A q \in Issued : pairs'[q] = pairs[q]
      /\ pairs'[n] = pairs[p]
      BY <1>2, <1>3, NewPair
<1>5. n \notin revoked
      BY <1>4 DEF Typed, ServerTyped, OrNone
<1>6. refresh' = [refresh EXCEPT ![t] = [refresh[t] EXCEPT !.at = "answered", !.pair = n]]
      BY DEF IssueNext
<1> HIDE DEF n, p
<1>7. refresh'[t].at = "answered" /\ refresh'[t].pair = n /\ \A u \in Tabs \ {t} : refresh'[u] = refresh[u]
      BY <1>1, <1>6 DEF Typed, Refreshes
<1>8. Live' = Live \cup {n}
      BY <1>3, <1>4, <1>5 DEF Live
<1> QED BY <1>1, <1>4, <1>7, <1>8 DEF Root, n, p

LEMMA OneIssue ==
    ASSUME Typed, OneInv, NEW t \in Tabs, IssueNext(t)
    PROVE  OneInv'
<1> DEFINE n == Len(pairs) + 1
           p == refresh[t].pair
<1>1. /\ n \notin OrNone /\ Issued' = Issued \cup {n} /\ Live' = Live \cup {n}
      /\ p \in Issued /\ pairs'[n].root = Root(p)
      /\ \A q \in Issued : Root(q)' = Root(q)
      /\ refresh'[t].at = "answered" /\ refresh'[t].pair = n
      /\ \A u \in Tabs \ {t} : refresh'[u] = refresh[u]
      BY IssueEffect
<1>0. \A q : Root(q)' = pairs'[q].root
      BY DEF Root
<1> HIDE DEF n
<1>2. twice' = twice /\ Taken(t) /\ refresh[t].at = "issue" /\ ~ Taken(t)'
      BY <1>1 DEF IssueNext, Taken
<1> HIDE DEF p
<1>3. \A q \in Live : Root(q) = Root(p) => Root(p) \in twice
      BY <1>2 DEF OneInv, TakenLive, p
<1>4. \A u \in Tabs \ {t} : Taken(u) /\ Root(refresh[u].pair) = Root(p) => Root(p) \in twice
      BY <1>2 DEF OneInv, OneTaken, p
<1>5. \A q \in Live : q \in Issued
      BY DEF Live
<1>6. OneLive'
      <2> SUFFICES ASSUME NEW q \in Live', NEW r \in Live', Root(q)' = Root(r)', Root(q)' \notin twice
                   PROVE  q = r
          BY <1>2 DEF OneLive
      <2>1. CASE q \in Live /\ r \in Live
            BY <1>1, <1>5, <2>1 DEF OneInv, OneLive
      <2>2. CASE q = n \/ r = n
            BY <1>1, <1>0, <1>3, <1>5, <2>2
      <2> QED BY <1>1, <2>1, <2>2
<1>7. \A u \in Tabs : Taken(u)' => u # t /\ Taken(u) /\ refresh[u].pair \in Issued /\ refresh'[u] = refresh[u]
      <2> TAKE u \in Tabs
      <2> HAVE Taken(u)'
      <2>1. u # t
            BY <1>2
      <2>2. Taken(u) /\ refresh'[u] = refresh[u]
            BY <1>1, <2>1 DEF Taken
      <2> QED BY <2>1, <2>2, RefreshMember, IdleIs DEF Taken, OrNone
<1>8. OneTaken'
      BY <1>1, <1>2, <1>7 DEF OneInv, OneTaken
<1>9. TakenLive'
      <2> SUFFICES ASSUME NEW u \in Tabs, NEW q \in Live', Taken(u)', Root(q)' = pairs'[refresh'[u].pair].root
                   PROVE  Root(q)' \in twice \/ (refresh'[u].at = "revoke" /\ q = refresh'[u].pair)
          BY <1>0, <1>2 DEF TakenLive
      <2>1. u # t /\ Taken(u) /\ refresh[u].pair \in Issued /\ refresh'[u] = refresh[u]
            BY <1>7
      <2>2. Root(q)' = Root(refresh[u].pair)
            BY <1>0, <1>1, <2>1
      <2>3. CASE q = n
            BY <1>0, <1>1, <1>4, <2>1, <2>2, <2>3
      <2>4. CASE q \in Live
            BY <1>1, <1>5, <2>1, <2>2, <2>4 DEF OneInv, TakenLive
      <2> QED BY <1>1, <2>3, <2>4
<1> QED BY <1>6, <1>8, <1>9 DEF OneInv

(* A login begins a family of its own.                                     *)
LEMMA LoginEffect ==
    ASSUME Typed, NEW c \in Calls, IssueLogin(c)
    PROVE  LET n == Len(pairs) + 1
           IN  /\ n \notin OrNone /\ Issued' = Issued \cup {n} /\ Live' = Live \cup {n}
               /\ pairs'[n].root = n /\ pairs'[n].version = call[c].version
               /\ \A q \in Issued : Root(q)' = Root(q) /\ pairs'[q] = pairs[q] /\ Root(q) \in Issued
               /\ call'[c].at = "ok" /\ call'[c].auth = n /\ call'[c].kind = call[c].kind
               /\ \A d \in Calls \ {c} : call'[d] = call[d]
<1> DEFINE n == Len(pairs) + 1
           v == [root |-> n, version |-> call[c].version]
<1>1. call[c] \in CallRecords
      BY CallMember DEF IssueLogin, Is
<1>2. v \in Pairs /\ v.root = n /\ v.version = call[c].version
      BY <1>1 DEF Pairs, CallRecords, Typed, ServerTyped
<1>3. pairs' = Append(pairs, v) /\ UNCHANGED <<password, revoked>>
      BY DEF IssueLogin
<1>4. /\ n \notin OrNone /\ Issued' = Issued \cup {n}
      /\ \A q \in Issued : pairs'[q] = pairs[q]
      /\ pairs'[n] = v
      BY <1>2, <1>3, NewPair
<1>5. n \notin revoked
      BY <1>4 DEF Typed, ServerTyped, OrNone
<1>6. call' = [call EXCEPT ![c] = [call[c] EXCEPT !.at = "ok", !.auth = n]]
      BY DEF IssueLogin
<1> HIDE DEF n, v
<1>7. /\ call'[c].at = "ok" /\ call'[c].auth = n /\ call'[c].kind = call[c].kind
      /\ \A d \in Calls \ {c} : call'[d] = call[d]
      BY <1>1, <1>6 DEF Typed, CallRecords
<1>8. Live' = Live \cup {n}
      BY <1>3, <1>4, <1>5 DEF Live
<1>9. \A q \in Issued : Root(q) \in Issued
      BY DEF Typed, ServerTyped
<1> QED BY <1>2, <1>4, <1>7, <1>8, <1>9 DEF Root, n, v

LEMMA OneLogin ==
    ASSUME Typed, OneInv, NEW c \in Calls, IssueLogin(c)
    PROVE  OneInv'
<1> DEFINE n == Len(pairs) + 1
<1>1. /\ n \notin OrNone /\ Issued' = Issued \cup {n} /\ Live' = Live \cup {n} /\ pairs'[n].root = n
      /\ \A q \in Issued : Root(q)' = Root(q) /\ Root(q) \in Issued
      BY LoginEffect
<1> HIDE DEF n
<1>0. \A q : Root(q)' = pairs'[q].root
      BY DEF Root
<1>2. UNCHANGED <<refresh, twice>> /\ n \notin Issued /\ \A q \in Live : q \in Issued
      BY <1>1 DEF IssueLogin, Live, OrNone
<1>3. \A u \in Tabs : Taken(u) => refresh[u].pair \in Issued
      BY RefreshMember, IdleIs DEF Taken, OrNone
<1>4. OneLive'
      BY <1>0, <1>1, <1>2 DEF OneInv, OneLive
<1>5. OneTaken'
      BY <1>0, <1>1, <1>2, <1>3 DEF OneInv, OneTaken, Taken
<1>6. TakenLive'
      BY <1>0, <1>1, <1>2, <1>3 DEF OneInv, TakenLive, Taken
<1> QED BY <1>4, <1>5, <1>6 DEF OneInv

(* What the steps that touch several calls or refreshes do to each.        *)
LEMMA RevokeAllEffect ==
    ASSUME Typed, NEW c \in Calls, RevokeAll(c)
    PROVE  /\ \A t \in Tabs : /\ refresh'[t].at = refresh[t].at
                              /\ refresh[t] # Idle <=> refresh'[t] # Idle
                              /\ refresh[t] # Idle => refresh'[t].pair = refresh[t].pair
                              /\ Taken(t) => refresh'[t].late
           /\ \A d \in Calls \ {c} : /\ call'[d] # Idle <=> call[d] # Idle
                                     /\ call'[d].at = call[d].at
                                     /\ call[d] # Idle => call'[d].kind = call[d].kind /\ call'[d].auth = call[d].auth
                                     /\ Is(d, Logins, "issue") => call'[d].late
           /\ call'[c] = Idle
<1>1. ASSUME NEW t \in Tabs
      PROVE  /\ refresh'[t].at = refresh[t].at
             /\ refresh[t] # Idle <=> refresh'[t] # Idle
             /\ refresh[t] # Idle => refresh'[t].pair = refresh[t].pair
             /\ Taken(t) => refresh'[t].late
      <2>1. CASE Taken(t)
            <3>1. refresh[t] \in Refreshes /\ refresh[t] # Idle
                  BY <2>1, RefreshMember, IdleIs DEF Taken
            <3>2. refresh'[t] = [refresh[t] EXCEPT !.late = TRUE]
                  BY <2>1 DEF RevokeAll, Taken
            <3>3. refresh'[t] \in Refreshes /\ refresh'[t].at = refresh[t].at /\ refresh'[t].pair = refresh[t].pair
                  /\ refresh'[t].late
                  BY <3>1, <3>2 DEF Refreshes
            <3> QED BY <3>1, <3>3, IdleIs
      <2>2. CASE ~ Taken(t)
            BY <2>2 DEF RevokeAll, Taken
      <2> QED BY <2>1, <2>2
<1>2. ASSUME NEW d \in Calls \ {c}
      PROVE  /\ call'[d] # Idle <=> call[d] # Idle
             /\ call'[d].at = call[d].at
             /\ call[d] # Idle => call'[d].kind = call[d].kind /\ call'[d].auth = call[d].auth
             /\ Is(d, Logins, "issue") => call'[d].late
      <2>1. CASE Is(d, Logins, "issue")
            <3>1. call[d] \in CallRecords /\ call[d] # Idle
                  BY <2>1, CallMember DEF Is
            <3>2. call'[d] = [call[d] EXCEPT !.late = TRUE]
                  BY <2>1 DEF RevokeAll
            <3>3. call'[d] \in CallRecords /\ call'[d].at = call[d].at /\ call'[d].kind = call[d].kind
                  /\ call'[d].auth = call[d].auth /\ call'[d].late
                  BY <3>1, <3>2 DEF CallRecords
            <3> QED BY <3>1, <3>3, IdleIs
      <2>2. CASE ~ Is(d, Logins, "issue")
            BY <2>2 DEF RevokeAll
      <2> QED BY <2>1, <2>2
<1>3. call'[c] = Idle
      BY DEF RevokeAll
<1> QED BY <1>1, <1>2, <1>3

LEMMA TakeDeniedEffect ==
    ASSUME Typed, NEW c \in Calls, TakeDenied(c)
    PROVE  /\ \A t \in Tabs : \/ refresh'[t] = refresh[t]
                              \/ /\ refresh[t] = Idle /\ refresh'[t].pair = stored
                                 /\ refresh'[t].at = IF stored = 0 THEN "denied" ELSE "find"
           /\ \A d \in Calls \ {c} : call'[d] = call[d]
           /\ call[c] # Idle /\ call[c].kind # "logout"
           /\ call'[c] # Idle => call'[c].kind # "logout" /\ call'[c].at \in {"wait", "server"}
<1>1. call[c] # Idle /\ call[c].at = "denied"
      BY IdleIs DEF TakeDenied
<1>2. call[c] \in CallRecords /\ call[c].kind # "logout"
      BY <1>1, CallMember
<1>3. \A t \in Tabs : refresh'[t] = refresh[t] \/ (refresh[t] = Idle /\ refresh'[t].pair = stored
                                 /\ refresh'[t].at = IF stored = 0 THEN "denied" ELSE "find")
      BY DEF TakeDenied, Typed
<1>4. CASE call' = [call EXCEPT ![c] = Failed(c, stored)]
      BY <1>1, <1>2, <1>3, <1>4, FailedMember DEF Typed
<1>5. CASE call' = [call EXCEPT ![c].at = "wait", ![c].again = TRUE]
      BY <1>1, <1>2, <1>3, <1>5 DEF Typed, CallRecords
<1> QED BY <1>4, <1>5 DEF TakeDenied

LEMMA DoneEffect ==
    ASSUME Typed, NEW t \in Tabs, RefreshDone(t) \/ RefreshFailed(t)
    PROVE  /\ refresh'[t] = Idle /\ \A u \in Tabs \ {t} : refresh'[u] = refresh[u]
           /\ \A c \in Calls : \/ call'[c] = call[c]
                               \/ /\ call[c].at = "wait" /\ call[c] # Idle /\ call[c].kind # "logout"
                                  /\ call'[c] # Idle => call'[c].kind # "logout" /\ call'[c].at = "server"
<1>1. refresh' = [refresh EXCEPT ![t] = Idle]
      BY DEF RefreshDone, RefreshFailed
<1>2. ASSUME NEW c \in Calls, ~ (call'[c] = call[c])
      PROVE  /\ call[c].at = "wait" /\ call[c] # Idle /\ call[c].kind # "logout"
             /\ call'[c] # Idle => call'[c].kind # "logout" /\ call'[c].at = "server"
      <2>1. Waits(c, t) /\ call[c] # Idle /\ call[c].at = "wait"
            BY <1>2, IdleIs DEF RefreshDone, RefreshFailed, Waits
      <2>2. call[c] \in CallRecords /\ call[c].kind # "logout"
            BY <2>1, CallMember
      <2>3. CASE RefreshDone(t)
            <3>1. call'[c] = [call[c] EXCEPT !.at = "server", !.auth = stored']
                  BY <2>1, <2>3 DEF RefreshDone
            <3> QED BY <2>1, <2>2, <3>1 DEF CallRecords
      <2>4. CASE RefreshFailed(t)
            <3>1. call'[c] = Failed(c, 0) /\ 0 \in OrNone
                  BY <2>1, <2>4 DEF RefreshFailed, OrNone
            <3> QED BY <2>1, <2>2, <3>1, FailedMember
      <2> QED BY <2>3, <2>4
<1> QED BY <1>1, <1>2 DEF Typed

LEMMA BrokenOffEffect ==
    ASSUME Typed, NEW t \in Tabs, LostRefresh(t) \/ NextClash(t)
    PROVE  /\ refresh'[t].at = "denied" /\ refresh'[t].pair = refresh[t].pair /\ refresh[t].pair \in Issued
           /\ refresh'[t] # Idle /\ refresh[t] # Idle
           /\ \A u \in Tabs \ {t} : refresh'[u] = refresh[u]
<1>1. refresh[t] \in Refreshes /\ refresh[t].pair \in Issued
      BY RefreshMember, IdleIs DEF LostRefresh, NextClash, OrNone
<1>2. refresh' = [refresh EXCEPT ![t] = [refresh[t] EXCEPT !.at = "denied"]]
      BY DEF LostRefresh, NextClash
<1>3. [refresh[t] EXCEPT !.at = "denied"] \in Refreshes
      BY <1>1 DEF Refreshes
<1> QED BY <1>1, <1>2, <1>3, IdleIs DEF LostRefresh, NextClash, Refreshes, Typed

LEMMA OneNext == Typed /\ OneInv /\ [Next]_vars => OneInv'
<1> SUFFICES ASSUME Typed, OneInv, [Next]_vars PROVE OneInv'
    OBVIOUS
<1>1. ASSUME UNCHANGED <<pairs, twice, refresh>>, revoked \subseteq revoked' PROVE OneInv'
      BY <1>1, OneKept DEF Taken
<1>2. ASSUME UNCHANGED vars \/ \E p : Expire(p) PROVE OneInv'
      BY <1>1, <1>2 DEF vars, server, history, Expire
<1>3. ASSUME NEW c \in Calls, NEW t \in Tabs, Login(c, t) \/ Logout(c, t) \/ \E k \in Kinds : Ask(c, t, k)
      PROVE  OneInv'
      BY <1>1, <1>3 DEF Login, Logout, Ask, server, history
<1>4. ASSUME NEW c \in Calls, Proceed(c) PROVE OneInv'
      <2>1. CASE ServePage(c) \/ ComparePassword(c) \/ WritePassword(c)
            BY <1>1, <2>1 DEF ServePage, ComparePassword, WritePassword, server, history
      <2>2. CASE CompareLogin(c) \/ LoginClash(c) \/ RevokeOne(c) \/ TakeLogin(c) \/ Lost(c)
            BY <1>1, <2>2 DEF CompareLogin, LoginClash, RevokeOne, TakeLogin, Lost, server, history
      <2>3. CASE RevokeAll(c)
            <3>1. UNCHANGED <<pairs, twice>> /\ revoked \subseteq revoked'
                  BY <2>3 DEF RevokeAll, history
            <3>2. \A u \in Tabs : Taken(u)' => Taken(u) /\ refresh'[u].at = refresh[u].at
                                               /\ refresh'[u].pair = refresh[u].pair
                  BY <2>3, RevokeAllEffect, IdleIs DEF Taken
            <3> QED BY <3>1, <3>2, OneKept
      <2>4. CASE TakeDenied(c)
            <3>1. UNCHANGED <<pairs, twice, revoked>>
                  BY <2>4 DEF TakeDenied, server, history
            <3>2. \A u \in Tabs : Taken(u)' => Taken(u) /\ refresh'[u].at = refresh[u].at
                                               /\ refresh'[u].pair = refresh[u].pair
                  BY <2>4, TakeDeniedEffect DEF Taken
            <3> QED BY <3>1, <3>2, OneKept
      <2> QED BY <1>4, <2>1, <2>2, <2>3, <2>4, OneLogin DEF Proceed
<1>5. ASSUME NEW t \in Tabs, ProceedRefresh(t) PROVE OneInv'
      <2>1. CASE RefreshDone(t) \/ RefreshFailed(t)
            <3>1. UNCHANGED <<pairs, twice, revoked>>
                  BY <2>1 DEF RefreshDone, RefreshFailed, server, history
            <3>2. \A u \in Tabs : Taken(u)' => Taken(u) /\ refresh'[u].at = refresh[u].at
                                               /\ refresh'[u].pair = refresh[u].pair
                  BY <2>1, DoneEffect, IdleIs DEF Taken
            <3> QED BY <3>1, <3>2, OneKept
      <2>2. CASE LostRefresh(t) \/ NextClash(t)
            <3>1. UNCHANGED <<pairs, twice, revoked>>
                  BY <2>2 DEF LostRefresh, NextClash, server, history
            <3>2. \A u \in Tabs : Taken(u)' => Taken(u) /\ refresh'[u].at = refresh[u].at
                                               /\ refresh'[u].pair = refresh[u].pair
                  BY <2>2, BrokenOffEffect DEF Taken
            <3> QED BY <3>1, <3>2, OneKept
      <2> QED BY <1>5, <2>1, <2>2, OneFind, OneRevoke, OneIssue DEF ProceedRefresh
<1> QED BY <1>2, <1>3, <1>4, <1>5 DEF Next

-----------------------------------------------------------------------------
(* The change of the password                                              *)

LEMMA PasswordKept ==
    ASSUME PasswordInv, UNCHANGED <<pairs, password, escaped>>, revoked \subseteq revoked', Changing => Changing',
           \A c \in Calls : Is(c, Logins, "issue")' /\ ~ call'[c].late =>
               \/ call'[c].version = password
               \/ Is(c, Logins, "issue") /\ ~ call[c].late /\ call'[c].version = call[c].version,
           \A t \in Tabs : Taken(t)' /\ ~ refresh'[t].late =>
               Taken(t) /\ ~ refresh[t].late /\ refresh'[t].pair = refresh[t].pair
    PROVE  PasswordInv'
<1>1. Live' \subseteq Live
      BY DEF Live, Issued
<1>2. PasswordEnds'
      BY <1>1 DEF PasswordInv, PasswordEnds, Changing
<1>3. LoginsCurrent'
      BY DEF PasswordInv, LoginsCurrent
<1>4. RefreshesCurrent'
      BY DEF PasswordInv, RefreshesCurrent
<1> QED BY <1>2, <1>3, <1>4 DEF PasswordInv

(* One call moves, and no refresh.                                         *)
LEMMA PasswordCall ==
    ASSUME PasswordInv, NEW c \in Calls, UNCHANGED <<pairs, password, escaped, refresh>>, revoked \subseteq revoked',
           \A d \in Calls \ {c} : call'[d] = call[d], ~ Is(c, {"password"}, "revoke"),
           Is(c, Logins, "issue")' => call'[c].version = password
    PROVE  PasswordInv'
<1>1. Changing => Changing'
      BY DEF Changing, Is
<1>2. \A d \in Calls : Is(d, Logins, "issue")' /\ ~ call'[d].late =>
               \/ call'[d].version = password
               \/ Is(d, Logins, "issue") /\ ~ call[d].late /\ call'[d].version = call[d].version
      BY DEF Is
<1> QED BY <1>1, <1>2, PasswordKept DEF Taken

LEMMA GotoEffect ==
    ASSUME Typed, NEW c \in Calls, call[c] # Idle, NEW s \in Places, Goto(c, s)
    PROVE  /\ \A d \in Calls \ {c} : call'[d] = call[d]
           /\ call'[c] # Idle /\ call'[c].at = s /\ call'[c].kind = call[c].kind
<1>1. call[c] \in CallRecords
      BY CallMember
<1>2. call' = [call EXCEPT ![c] = [call[c] EXCEPT !.at = s]]
      BY DEF Goto
<1> QED BY <1>1, <1>2, CallAt, IdleIs DEF Typed

LEMMA EndEffect ==
    ASSUME Typed, NEW c \in Calls, End(c)
    PROVE  (\A d \in Calls \ {c} : call'[d] = call[d]) /\ call'[c] = Idle
BY DEF End, Typed

(* A click begins a call.                                                  *)
LEMMA ClickEffect ==
    ASSUME Typed, NEW c \in Calls, NEW t \in Tabs,
           Login(c, t) \/ Logout(c, t) \/ \E k \in Kinds : Ask(c, t, k)
    PROVE  /\ \A d \in Calls \ {c} : call'[d] = call[d]
           /\ call[c] = Idle /\ UNCHANGED <<server, refresh, twice, escaped>>
           /\ call'[c] # Idle => call'[c].at = "server"
<1>1. call[c] = Idle /\ UNCHANGED <<server, refresh, twice, escaped>>
      BY DEF Login, Logout, Ask, Click, history
<1>2. stored \in Nat /\ "staffLogin" \in Kinds /\ "logout" \in Kinds
      BY DEF Typed, OrNone, Issued, Kinds, Logins
<1>3. call' = call \/ \E k \in Kinds : call' = [call EXCEPT ![c] = NewCall(k, t, stored)]
      BY <1>2 DEF Login, Logout, Ask
<1> QED BY <1>1, <1>2, <1>3, NewCallIs DEF Typed

LEMMA PasswordProceed ==
    ASSUME Typed, PasswordInv, NEW c \in Calls, Proceed(c)
    PROVE  PasswordInv'
<1>1. CASE ServePage(c)
      <2>1. UNCHANGED <<pairs, password, escaped, refresh, revoked>> /\ call[c].kind = "page" /\ call[c] # Idle
            BY <1>1 DEF ServePage, server, history, Is
      <2>2. End(c) \/ Goto(c, "denied")
            BY <1>1 DEF ServePage
      <2> QED BY <2>1, <2>2, EndEffect, GotoEffect, PasswordCall DEF Is, Logins, Places
<1>2. CASE ComparePassword(c)
      <2>1. /\ UNCHANGED <<pairs, password, escaped, refresh, revoked>>
            /\ call[c].kind = "password" /\ call[c] # Idle /\ call[c].at = "server"
            BY <1>2 DEF ComparePassword, server, history, Is
      <2>2. Goto(c, "write") \/ Goto(c, "denied")
            BY <1>2 DEF ComparePassword
      <2> QED BY <2>1, <2>2, GotoEffect, PasswordCall DEF Is, Logins, Places
<1>3. CASE WritePassword(c)
      <2>1. call[c] # Idle /\ call[c].kind = "password" /\ Goto(c, "revoke")
            BY <1>3 DEF WritePassword, Is
      <2>2. Is(c, {"password"}, "revoke")'
            BY <2>1, GotoEffect DEF Is, Places
      <2>3. Changing'
            BY <2>2 DEF Changing
      <2> QED BY <2>3 DEF PasswordInv, PasswordEnds, LoginsCurrent, RefreshesCurrent, Changing
<1>4. CASE RevokeAll(c)
      <2>1. Live' = {}
            BY <1>4 DEF RevokeAll, AllTokens, Live, Issued
      <2>2. LoginsCurrent'
            BY <1>4, RevokeAllEffect DEF LoginsCurrent, Is
      <2>3. RefreshesCurrent'
            BY <1>4, RevokeAllEffect DEF RefreshesCurrent, Taken
      <2> QED BY <2>1, <2>2, <2>3 DEF PasswordInv, PasswordEnds
<1>5. CASE CompareLogin(c)
      <2>1. /\ UNCHANGED <<pairs, password, escaped, refresh, revoked>>
            /\ call[c].kind \in Logins /\ call[c] # Idle
            BY <1>5 DEF CompareLogin, server, history, Is
      <2>2. call[c] \in CallRecords
            BY <2>1, CallMember
      <2>3. PICK s \in {"issue", "denied"} : call' = [call EXCEPT ![c].version = password, ![c].at = s]
            BY <1>5 DEF CompareLogin
      <2>4. call'[c].version = password /\ \A d \in Calls \ {c} : call'[d] = call[d]
            BY <2>2, <2>3 DEF Typed, CallRecords
      <2> QED BY <2>1, <2>4, PasswordCall DEF Is, Logins
<1>6. CASE IssueLogin(c)
      <2> DEFINE n == Len(pairs) + 1
      <2>1. /\ n \notin OrNone /\ Issued' = Issued \cup {n} /\ Live' = Live \cup {n}
            /\ pairs'[n].version = call[c].version
            /\ \A q \in Issued : pairs'[q] = pairs[q]
            /\ call'[c].at = "ok"
            /\ \A d \in Calls \ {c} : call'[d] = call[d]
            BY <1>6, LoginEffect
      <2>2. Is(c, Logins, "issue") /\ UNCHANGED <<password, refresh>> /\ escaped \subseteq escaped'
            /\ (call[c].late => n \in escaped')
            BY <1>6 DEF IssueLogin
      <2> HIDE DEF n
      <2>3. Changing => Changing'
            BY <2>1, <2>2 DEF Changing, Is, Logins
      <2>4. PasswordEnds'
            <3> SUFFICES ASSUME NEW p \in Live', p \notin escaped' PROVE pairs'[p].version = password \/ Changing'
                BY <2>2 DEF PasswordEnds, Changing
            <3>1. CASE p = n
                  BY <2>1, <2>2, <2>3, <3>1 DEF PasswordInv, LoginsCurrent
            <3>2. CASE p \in Live
                  <4>1. p \in Issued /\ p \notin escaped
                        BY <2>2, <3>2 DEF Live
                  <4> QED BY <2>1, <2>2, <2>3, <3>2, <4>1 DEF PasswordInv, PasswordEnds, Changing
            <3> QED BY <2>1, <3>1, <3>2
      <2>5. LoginsCurrent'
            BY <2>1, <2>2, <2>3 DEF PasswordInv, LoginsCurrent, Is
      <2>6. RefreshesCurrent'
            <3> SUFFICES ASSUME NEW t \in Tabs, Taken(t), ~ refresh[t].late, refresh[t].pair \notin escaped'
                         PROVE  pairs'[refresh[t].pair].version = password \/ Changing'
                BY <2>2 DEF RefreshesCurrent, Taken
            <3>1. refresh[t].pair \in Issued
                  BY RefreshMember, IdleIs DEF Taken, OrNone
            <3> QED BY <2>1, <2>2, <2>3, <3>1 DEF PasswordInv, RefreshesCurrent
      <2> QED BY <2>4, <2>5, <2>6 DEF PasswordInv
<1>7. CASE RevokeOne(c) \/ TakeLogin(c)
      <2>1. /\ UNCHANGED <<pairs, password, escaped, refresh>> /\ revoked \subseteq revoked'
            /\ call[c] # Idle /\ call[c].kind # "password" /\ End(c)
            BY <1>7 DEF RevokeOne, TakeLogin, server, history, Is, Logins
      <2> QED BY <2>1, EndEffect, PasswordCall DEF Is
<1>8. CASE TakeDenied(c)
      <2>1. UNCHANGED <<pairs, password, escaped, revoked>> /\ call[c].at = "denied"
            BY <1>8 DEF TakeDenied, server, history
      <2>2. Changing => Changing'
            BY <1>8, <2>1, TakeDeniedEffect DEF Changing, Is
      <2>3. \A d \in Calls : Is(d, Logins, "issue")' =>
                  Is(d, Logins, "issue") /\ call'[d] = call[d]
            BY <1>8, TakeDeniedEffect DEF Is
      <2>4. \A t \in Tabs : Taken(t)' => Taken(t) /\ refresh'[t] = refresh[t]
            BY <1>8, TakeDeniedEffect DEF Taken
      <2> QED BY <2>1, <2>2, <2>3, <2>4, PasswordKept
<1>9. CASE Lost(c)
      <2>1. /\ UNCHANGED <<pairs, password, escaped, revoked, refresh>>
            /\ call[c].at \in {"server", "ok"} /\ call' = [call EXCEPT ![c] = Failed(c, stored)]
            BY <1>9 DEF Lost, server
      <2>2. call[c] # Idle /\ stored \in OrNone
            BY <2>1, IdleIs DEF Typed
      <2>3. /\ \A d \in Calls \ {c} : call'[d] = call[d]
            /\ call'[c] # Idle => call'[c].at = "server"
            BY <2>1, <2>2, FailedMember DEF Typed
      <2> QED BY <2>1, <2>3, PasswordCall DEF Is
<1>10. CASE LoginClash(c)
      <2>1. /\ UNCHANGED <<pairs, password, escaped, revoked, refresh>>
            /\ call[c] # Idle /\ call[c].at = "issue" /\ call' = [call EXCEPT ![c] = Failed(c, stored)]
            BY <1>10 DEF LoginClash, Is, server, history
      <2>2. stored \in OrNone
            BY DEF Typed
      <2>3. /\ \A d \in Calls \ {c} : call'[d] = call[d]
            /\ call'[c] # Idle => call'[c].at = "server"
            BY <2>1, <2>2, FailedMember DEF Typed
      <2> QED BY <2>1, <2>3, PasswordCall DEF Is
<1> QED BY <1>1, <1>2, <1>3, <1>4, <1>5, <1>6, <1>7, <1>8, <1>9, <1>10 DEF Proceed

LEMMA PasswordRefresh ==
    ASSUME Typed, PasswordInv, NEW t \in Tabs, ProceedRefresh(t)
    PROVE  PasswordInv'
<1>1. CASE FindToken(t)
      <2> DEFINE p == refresh[t].pair
      <2>1. UNCHANGED <<pairs, password, revoked, escaped, call>> /\ refresh[t].at = "find"
            BY <1>1 DEF FindToken, server
      <2>2. refresh[t] \in Refreshes
            BY <2>1, RefreshMember, IdleIs
      <2>3. /\ refresh'[t].pair = p /\ \A u \in Tabs \ {t} : refresh'[u] = refresh[u]
            /\ Taken(t)' => p \in Live
            BY <1>1, <2>2 DEF FindToken, Typed, Refreshes, Taken
      <2>4. PasswordEnds' /\ LoginsCurrent' /\ Changing' = Changing
            BY <2>1 DEF PasswordInv, PasswordEnds, LoginsCurrent, Live, Issued, Changing, Is
      <2>5. RefreshesCurrent'
            BY <2>1, <2>3, <2>4 DEF PasswordInv, PasswordEnds, RefreshesCurrent, Changing, Taken
      <2> QED BY <2>4, <2>5 DEF PasswordInv
<1>2. CASE RevokeToken(t)
      <2>1. UNCHANGED <<pairs, password, escaped, call>> /\ revoked \subseteq revoked' /\ refresh[t].at = "revoke"
            BY <1>2 DEF RevokeToken, history, Used
      <2>2. refresh[t] \in Refreshes
            BY <2>1, RefreshMember, IdleIs
      <2>3. /\ \A u \in Tabs \ {t} : refresh'[u] = refresh[u]
            /\ refresh'[t].pair = refresh[t].pair /\ refresh'[t].late = refresh[t].late
            BY <1>2, <2>2 DEF RevokeToken, Typed, Refreshes
      <2> QED BY <2>1, <2>3, PasswordKept DEF Taken, Changing, Is
<1>3. CASE IssueNext(t)
      <2> DEFINE n == Len(pairs) + 1
                 p == refresh[t].pair
      <2>1. /\ n \notin OrNone /\ Issued' = Issued \cup {n} /\ Live' = Live \cup {n}
            /\ p \in Issued /\ pairs'[n] = pairs[p]
            /\ \A q \in Issued : pairs'[q] = pairs[q]
            /\ refresh'[t].at = "answered"
            /\ \A u \in Tabs \ {t} : refresh'[u] = refresh[u]
            BY <1>3, IssueEffect
      <2>2. /\ Taken(t) /\ UNCHANGED <<password, call>> /\ escaped \subseteq escaped'
            /\ (refresh[t].late \/ p \in escaped => n \in escaped')
            BY <1>3 DEF IssueNext, Taken
      <2>3. Changing' = Changing
            BY <2>2 DEF Changing, Is
      <2> HIDE DEF n
      <2>4. PasswordEnds'
            <3> SUFFICES ASSUME NEW q \in Live', q \notin escaped' PROVE pairs'[q].version = password \/ Changing
                BY <2>2, <2>3 DEF PasswordEnds, Changing
            <3>1. CASE q = n
                  BY <2>1, <2>2, <3>1 DEF PasswordInv, RefreshesCurrent
            <3>2. CASE q \in Live
                  <4>1. q \in Issued /\ q \notin escaped
                        BY <2>2, <3>2 DEF Live
                  <4> QED BY <2>1, <2>2, <3>2, <4>1 DEF PasswordInv, PasswordEnds, Changing
            <3> QED BY <2>1, <3>1, <3>2
      <2>5. LoginsCurrent'
            BY <2>2, <2>3 DEF PasswordInv, LoginsCurrent, Is
      <2>6. RefreshesCurrent'
            <3> SUFFICES ASSUME NEW u \in Tabs, Taken(u)', ~ refresh'[u].late, refresh'[u].pair \notin escaped'
                         PROVE  pairs'[refresh'[u].pair].version = password \/ Changing
                BY <2>2, <2>3 DEF RefreshesCurrent
            <3>1. u # t
                  BY <2>1 DEF Taken
            <3>2. refresh'[u] = refresh[u] /\ Taken(u)
                  BY <2>1, <3>1 DEF Taken
            <3>3. refresh[u].pair \in Issued
                  BY <3>2, RefreshMember, IdleIs DEF Taken, OrNone
            <3> QED BY <2>1, <2>2, <3>2, <3>3 DEF PasswordInv, RefreshesCurrent
      <2> QED BY <2>4, <2>5, <2>6 DEF PasswordInv
<1>4. CASE RefreshDone(t) \/ RefreshFailed(t)
      <2>1. UNCHANGED <<pairs, password, escaped, revoked>>
            BY <1>4 DEF RefreshDone, RefreshFailed, server, history
      <2>2. Changing => Changing'
            BY <1>4, DoneEffect DEF Changing, Is
      <2>3. \A d \in Calls : Is(d, Logins, "issue")' => Is(d, Logins, "issue") /\ call'[d] = call[d]
            BY <1>4, DoneEffect DEF Is
      <2>4. \A u \in Tabs : Taken(u)' => Taken(u) /\ refresh'[u] = refresh[u]
            BY <1>4, DoneEffect, IdleIs DEF Taken
      <2> QED BY <2>1, <2>2, <2>3, <2>4, PasswordKept
<1>5. CASE LostRefresh(t) \/ NextClash(t)
      <2>1. UNCHANGED <<pairs, password, escaped, revoked, call>>
            BY <1>5 DEF LostRefresh, NextClash, server, history
      <2>2. \A u \in Tabs : Taken(u)' => Taken(u) /\ refresh'[u] = refresh[u]
            BY <1>5, BrokenOffEffect DEF Taken
      <2> QED BY <2>1, <2>2, PasswordKept DEF Changing, Is
<1> QED BY <1>1, <1>2, <1>3, <1>4, <1>5 DEF ProceedRefresh

LEMMA PasswordNext == Typed /\ PasswordInv /\ [Next]_vars => PasswordInv'
<1> SUFFICES ASSUME Typed, PasswordInv, [Next]_vars PROVE PasswordInv'
    OBVIOUS
<1>1. CASE UNCHANGED vars \/ \E p : Expire(p)
      BY <1>1, PasswordKept DEF vars, server, history, Expire, Taken, Changing, Is
<1>2. ASSUME NEW c \in Calls, NEW t \in Tabs, Login(c, t) \/ Logout(c, t) \/ \E k \in Kinds : Ask(c, t, k)
      PROVE  PasswordInv'
      BY <1>2, ClickEffect, PasswordCall, IdleIs DEF Is, server
<1> QED BY <1>1, <1>2, PasswordProceed, PasswordRefresh DEF Next

-----------------------------------------------------------------------------
(* What the browser stores                                                 *)

LEMMA TakenPair ==
    ASSUME Typed, NEW t \in Tabs, refresh[t].at \in {"find", "revoke", "issue", "answered"}
    PROVE  refresh[t] \in Refreshes /\ refresh[t] # Idle /\ refresh[t].pair \in Issued /\ refresh[t].pair # 0
BY RefreshMember, IdleIs DEF OrNone, Issued

LEMMA BrowserKept ==
    ASSUME Typed, BrowserInv, UNCHANGED pairs, stored' \in {stored, 0},
           revoked \subseteq revoked', Blurred \subseteq Blurred',
           \A t \in Tabs :
               /\ refresh'[t] # Idle => refresh[t] # Idle /\ refresh'[t].pair = refresh[t].pair
               /\ refresh'[t].at \in {"find", "answered"} => refresh'[t].at = refresh[t].at
               /\ refresh'[t].at \in {"find", "answered", "revoke", "issue"} => refresh'[t] # Idle
               /\ Taken(t)' => Taken(t)
               /\ refresh[t].at = "answered" =>
                     refresh'[t].at = "answered" \/ Root(refresh[t].pair) \in Blurred',
           \A c \in Calls : Is(c, Logins, "ok")' => Is(c, Logins, "ok") /\ call'[c].auth = call[c].auth
    PROVE  BrowserInv'
<1>1. Live' \subseteq Live /\ Issued' = Issued /\ \A p : Root(p)' = Root(p)
      BY DEF Live, Issued, Root
<1>2. StoredSound'
      <2> SUFFICES ASSUME stored' = stored, stored # 0, Root(stored) \notin Blurred', NEW p \in Live, p \in Live',
                          Root(p) = Root(stored), p # stored
                   PROVE  \E t \in Tabs : refresh'[t].at = "answered" /\ refresh'[t].pair = p
          BY <1>1 DEF StoredSound
      <2>1. PICK t \in Tabs : refresh[t].at = "answered" /\ refresh[t].pair = p
            BY DEF BrowserInv, StoredSound
      <2>2. refresh'[t].at = "answered"
            BY <2>1
      <2> QED BY <2>1, <2>2
<1>3. ASSUME NEW t \in Tabs PROVE AnswerSound(t)'
      <2> SUFFICES ASSUME refresh'[t].at = "answered", Root(refresh[t].pair) \notin Blurred
                   PROVE  /\ \A p \in Live : Root(p) = Root(refresh[t].pair) => p = refresh[t].pair
                          /\ stored' # refresh[t].pair
                          /\ \A u \in Tabs \ {t} :
                                refresh'[u].at = "find" \/ Taken(u)' \/ refresh'[u].at = "answered" =>
                                    /\ refresh[u].pair # refresh[t].pair
                                    /\ refresh'[u].at # "find" => Root(refresh[u].pair) # Root(refresh[t].pair)
          <3>1. refresh'[t].at = "answered" => refresh'[t].pair = refresh[t].pair
                OBVIOUS
          <3>2. \A u \in Tabs : refresh'[u].at = "find" \/ Taken(u)' \/ refresh'[u].at = "answered" =>
                    refresh'[u].pair = refresh[u].pair
                BY DEF Taken
          <3> QED BY <1>1, <3>1, <3>2 DEF AnswerSound
      <2>1. refresh[t].at = "answered" /\ AnswerSound(t) /\ refresh[t].pair # 0
            BY TakenPair DEF BrowserInv
      <2> QED BY <2>1 DEF AnswerSound, Taken
<1>4. ASSUME NEW c \in Calls PROVE LoginSound(c)'
      <2> SUFFICES ASSUME Is(c, Logins, "ok")' PROVE LoginSound(c)'
          BY DEF LoginSound
      <2>1. Is(c, Logins, "ok") /\ call'[c].auth = call[c].auth /\ LoginSound(c)
            BY DEF BrowserInv
      <2> QED BY <1>1, <2>1 DEF LoginSound
<1> QED BY <1>2, <1>3, <1>4 DEF BrowserInv

LEMMA BrowserFind ==
    ASSUME Typed, BrowserInv, NEW t \in Tabs, FindToken(t)
    PROVE  BrowserInv'
<1> DEFINE p == refresh[t].pair
<1>1. /\ UNCHANGED <<pairs, revoked, stored, call>> /\ Live' = Live /\ (\A q : Root(q)' = Root(q))
      /\ Blurred \subseteq Blurred' /\ refresh[t].at = "find" /\ Issued' = Issued
      BY DEF FindToken, server, Live, Issued, Root, Blurred
<1>2. refresh[t] \in Refreshes /\ refresh[t] # Idle
      BY <1>1, TakenPair
<1>3. /\ refresh'[t].pair = p /\ \A u \in Tabs \ {t} : refresh'[u] = refresh[u]
      /\ (refresh'[t].at = "revoke" /\ p \in Live) \/ refresh'[t].at = "denied"
      BY <1>2 DEF FindToken, Typed, Refreshes
<1>4. StoredSound'
      <2> SUFFICES ASSUME stored # 0, Root(stored) \notin Blurred, NEW q \in Live, Root(q) = Root(stored), q # stored
                   PROVE  \E u \in Tabs : refresh'[u].at = "answered" /\ refresh'[u].pair = q
          BY <1>1 DEF StoredSound
      <2>1. PICK u \in Tabs : refresh[u].at = "answered" /\ refresh[u].pair = q
            BY DEF BrowserInv, StoredSound
      <2> QED BY <1>1, <1>3, <2>1
<1>5. ASSUME NEW w \in Tabs PROVE AnswerSound(w)'
      <2> SUFFICES ASSUME refresh'[w].at = "answered", Root(refresh'[w].pair) \notin Blurred PROVE AnswerSound(w)'
          BY <1>1 DEF AnswerSound
      <2>1. w # t /\ refresh'[w] = refresh[w] /\ AnswerSound(w)
            BY <1>3 DEF BrowserInv
      <2>2. /\ \A q \in Live : Root(q) = Root(refresh[w].pair) => q = refresh[w].pair
            /\ stored # refresh[w].pair
            BY <2>1 DEF AnswerSound
      <2>3. p # refresh[w].pair
            BY <1>1, <2>1 DEF AnswerSound
      <2>4. refresh'[t].at # "denied" => Root(p) # Root(refresh[w].pair)
            BY <1>3, <2>2, <2>3
      <2>5. ASSUME NEW u \in Tabs \ {w}, refresh'[u].at = "find" \/ Taken(u)' \/ refresh'[u].at = "answered"
            PROVE  /\ refresh'[u].pair # refresh[w].pair
                   /\ refresh'[u].at # "find" => Root(refresh'[u].pair) # Root(refresh[w].pair)
            <3>1. CASE u = t
                  BY <1>3, <2>3, <2>4, <2>5, <3>1 DEF Taken
            <3>2. CASE u # t
                  BY <1>3, <2>1, <2>5, <3>2 DEF AnswerSound, Taken
            <3> QED BY <3>1, <3>2
      <2> QED BY <1>1, <2>1, <2>2, <2>5 DEF AnswerSound
<1>6. ASSUME NEW c \in Calls PROVE LoginSound(c)'
      <2>1. LoginSound(c) /\ \A u \in Tabs : refresh'[u] # Idle => refresh[u] # Idle /\ refresh'[u].pair = refresh[u].pair
            BY <1>2, <1>3 DEF BrowserInv
      <2> QED BY <1>1, <2>1 DEF LoginSound, Is
<1> QED BY <1>4, <1>5, <1>6 DEF BrowserInv

LEMMA BrowserIssue ==
    ASSUME Typed, OneInv, BrowserInv, NEW t \in Tabs, IssueNext(t)
    PROVE  BrowserInv'
<1> DEFINE n == Len(pairs) + 1
           p == refresh[t].pair
<1>0. \A q : Root(q)' = pairs'[q].root
      BY DEF Root
<1>1. /\ n \notin OrNone /\ Issued' = Issued \cup {n} /\ Live' = Live \cup {n}
      /\ p \in Issued /\ pairs'[n].root = Root(p)
      /\ \A q \in Issued : Root(q)' = Root(q)
      /\ refresh'[t].at = "answered" /\ refresh'[t].pair = n
      /\ \A u \in Tabs \ {t} : refresh'[u] = refresh[u]
      BY IssueEffect
<1>2. UNCHANGED <<stored, call>> /\ Blurred' = Blurred /\ refresh[t].at = "issue" /\ Taken(t) /\ ~ Taken(t)'
      BY <1>1 DEF IssueNext, Blurred, Taken
<1> HIDE DEF n, p
<1>3. \A q \in Live : q \in Issued
      BY DEF Live
<1>4. \A q \in Live : Root(q) = Root(p) => Root(p) \in twice
      BY <1>2 DEF OneInv, TakenLive, p
<1>5. \A u \in Tabs \ {t} : Taken(u) /\ Root(refresh[u].pair) = Root(p) => Root(p) \in twice
      BY <1>2 DEF OneInv, OneTaken, p
<1>6. \A u \in Tabs \ {t} : refresh[u].at = "answered" /\ Root(refresh[u].pair) \notin Blurred =>
                               Root(refresh[u].pair) # Root(p)
      BY <1>2 DEF BrowserInv, AnswerSound, p
<1>7. \A u \in Tabs : refresh[u].at \in {"find", "revoke", "issue", "answered"} => refresh[u].pair \in Issued
      BY TakenPair
<1>8. stored # 0 => stored \in Issued /\ pairs'[stored].root = Root(stored)
      BY <1>0, <1>1 DEF Typed, OrNone
<1>9. StoredSound'
      <2> SUFFICES ASSUME stored # 0, Root(stored) \notin Blurred, NEW q \in Live', Root(q)' = Root(stored), q # stored
                   PROVE  \E u \in Tabs : refresh'[u].at = "answered" /\ refresh'[u].pair = q
          BY <1>0, <1>2, <1>8 DEF StoredSound
      <2>1. CASE q = n
            BY <1>1, <2>1
      <2>2. CASE q \in Live
            <3>1. Root(q) = Root(stored)
                  BY <1>1, <1>3, <2>2
            <3>2. PICK u \in Tabs : refresh[u].at = "answered" /\ refresh[u].pair = q
                  BY <2>2, <3>1 DEF BrowserInv, StoredSound
            <3>3. u # t
                  BY <1>2, <3>2
            <3> QED BY <1>1, <3>2, <3>3
      <2> QED BY <1>1, <2>1, <2>2
<1>10. ASSUME NEW w \in Tabs PROVE AnswerSound(w)'
      <2>1. CASE w = t
            <3> SUFFICES ASSUME Root(p) \notin Blurred PROVE AnswerSound(t)'
                BY <1>0, <1>1, <1>2, <2>1 DEF AnswerSound
            <3>1. \A q \in Live' : Root(q)' = Root(p) => q = n
                  BY <1>1, <1>3, <1>4 DEF Blurred
            <3>2. stored # n
                  BY <1>1 DEF Typed
            <3>3. ASSUME NEW u \in Tabs \ {t},
                         refresh'[u].at = "find" \/ Taken(u)' \/ refresh'[u].at = "answered"
                  PROVE  /\ refresh'[u].pair # n
                         /\ refresh'[u].at # "find" => pairs'[refresh'[u].pair].root # Root(p)
                  <4>1. refresh'[u] = refresh[u] /\ refresh[u].pair \in Issued
                        BY <1>1, <1>7, <3>3 DEF Taken
                  <4>2. pairs'[refresh[u].pair].root = Root(refresh[u].pair)
                        BY <1>0, <1>1, <4>1
                  <4>3. refresh[u].pair # n
                        BY <1>1, <4>1 DEF OrNone
                  <4> QED BY <1>5, <1>6, <3>3, <4>1, <4>2, <4>3 DEF Taken, Blurred
            <3> QED BY <1>0, <1>1, <1>2, <2>1, <3>1, <3>2, <3>3 DEF AnswerSound
      <2>2. CASE w # t
            <3>0. refresh'[w] = refresh[w]
                  BY <1>1, <2>2
            <3> SUFFICES ASSUME refresh[w].at = "answered", pairs'[refresh[w].pair].root \notin Blurred
                         PROVE  AnswerSound(w)'
                BY <1>0, <1>2, <3>0 DEF AnswerSound
            <3>1. refresh[w].pair \in Issued /\ pairs'[refresh[w].pair].root = Root(refresh[w].pair)
                  BY <1>0, <1>1, <1>7
            <3>2. AnswerSound(w) /\ Root(refresh[w].pair) \notin Blurred
                  BY <3>1 DEF BrowserInv
            <3>3. \A q \in Live' : Root(q)' = Root(refresh[w].pair) => q = refresh[w].pair
                  <4>1. Root(p) # Root(refresh[w].pair)
                        BY <1>6, <2>2, <3>2
                  <4>2. \A q \in Live : Root(q) = Root(refresh[w].pair) => q = refresh[w].pair
                        BY <3>2 DEF AnswerSound
                  <4> QED BY <1>0, <1>1, <1>3, <4>1, <4>2
            <3>4. ASSUME NEW u \in Tabs \ {w},
                         refresh'[u].at = "find" \/ Taken(u)' \/ refresh'[u].at = "answered"
                  PROVE  /\ refresh'[u].pair # refresh[w].pair
                         /\ refresh'[u].at # "find" => pairs'[refresh'[u].pair].root # Root(refresh[w].pair)
                  <4>1. CASE u = t
                        <5>1. refresh[w].pair # n
                              BY <1>1, <3>1 DEF OrNone
                        <5> QED BY <1>1, <1>6, <2>2, <3>2, <4>1, <5>1
                  <4>2. CASE u # t
                        <5>1. refresh'[u] = refresh[u] /\ refresh[u].pair \in Issued
                              BY <1>1, <1>7, <3>4, <4>2 DEF Taken
                        <5>2. pairs'[refresh[u].pair].root = Root(refresh[u].pair)
                              BY <1>0, <1>1, <5>1
                        <5> QED BY <3>2, <3>4, <5>1, <5>2 DEF AnswerSound, Taken
                  <4> QED BY <4>1, <4>2
            <3>5. stored # refresh[w].pair
                  BY <3>2 DEF AnswerSound
            <3> QED BY <1>0, <1>2, <3>0, <3>1, <3>3, <3>4, <3>5 DEF AnswerSound
      <2> QED BY <2>1, <2>2
<1>11. ASSUME NEW c \in Calls PROVE LoginSound(c)'
      <2> DEFINE a == call[c].auth
      <2> SUFFICES ASSUME Is(c, Logins, "ok") PROVE LoginSound(c)'
          BY <1>2 DEF LoginSound, Is
      <2>1. LoginSound(c) /\ a \in Issued /\ a # n
            BY <1>1, CallMember DEF BrowserInv, LoginSound, Is, OrNone
      <2>2. p # a /\ Root(p) # a
            BY <1>1, <1>2, <2>1, TakenPair DEF LoginSound, p
      <2>3. \A q \in Issued' : Root(q)' = a <=> q = a
            BY <1>0, <1>1, <2>1, <2>2 DEF LoginSound
      <2>4. \A u \in Tabs : refresh'[u] # Idle => refresh'[u].pair # a
            BY <1>1, <2>1 DEF LoginSound
      <2> QED BY <1>2, <2>1, <2>3, <2>4 DEF LoginSound, Is
<1> QED BY <1>9, <1>10, <1>11 DEF BrowserInv

LEMMA BrowserLogin ==
    ASSUME Typed, BrowserInv, NEW c \in Calls, IssueLogin(c)
    PROVE  BrowserInv'
<1> DEFINE n == Len(pairs) + 1
<1>0. \A q : Root(q)' = pairs'[q].root
      BY DEF Root
<1>1. /\ n \notin OrNone /\ Issued' = Issued \cup {n} /\ Live' = Live \cup {n} /\ pairs'[n].root = n
      /\ \A q \in Issued : Root(q)' = Root(q) /\ Root(q) \in Issued
      /\ call'[c].at = "ok" /\ call'[c].auth = n
      /\ \A d \in Calls \ {c} : call'[d] = call[d]
      BY LoginEffect
<1>2. UNCHANGED <<stored, refresh>> /\ Blurred' = Blurred
      BY DEF IssueLogin, Blurred
<1>3. n # 0 /\ n \notin Issued
      BY <1>1 DEF OrNone
<1> HIDE DEF n
<1>4. \A q \in Live : q \in Issued
      BY DEF Live
<1>5. \A u \in Tabs : refresh[u].at \in {"find", "revoke", "issue", "answered"} =>
          refresh[u].pair \in Issued /\ pairs'[refresh[u].pair].root = Root(refresh[u].pair)
                                     /\ Root(refresh[u].pair) # n
      BY <1>0, <1>1, <1>3, TakenPair
<1>6. stored # 0 => stored \in Issued /\ pairs'[stored].root = Root(stored) /\ Root(stored) # n
      BY <1>0, <1>1, <1>3 DEF Typed, OrNone
<1>7. StoredSound'
      <2> SUFFICES ASSUME stored # 0, Root(stored) \notin Blurred, NEW q \in Live', Root(q)' = Root(stored), q # stored
                   PROVE  \E u \in Tabs : refresh[u].at = "answered" /\ refresh[u].pair = q
          BY <1>0, <1>2, <1>6 DEF StoredSound
      <2>1. q \in Live /\ Root(q) = Root(stored)
            BY <1>0, <1>1, <1>4, <1>6
      <2> QED BY <2>1 DEF BrowserInv, StoredSound
<1>8. ASSUME NEW w \in Tabs PROVE AnswerSound(w)'
      <2> SUFFICES ASSUME refresh[w].at = "answered", Root(refresh[w].pair) \notin Blurred PROVE AnswerSound(w)'
          BY <1>0, <1>2, <1>5 DEF AnswerSound
      <2>1. AnswerSound(w)
            BY DEF BrowserInv
      <2>2. \A q \in Live' : Root(q)' = Root(refresh[w].pair) => q = refresh[w].pair
            <3>1. \A q \in Live : Root(q) = Root(refresh[w].pair) => q = refresh[w].pair
                  BY <2>1 DEF AnswerSound
            <3> QED BY <1>0, <1>1, <1>4, <1>5, <3>1
      <2>3. ASSUME NEW u \in Tabs \ {w}, refresh[u].at = "find" \/ Taken(u) \/ refresh[u].at = "answered"
            PROVE  /\ refresh[u].pair # refresh[w].pair
                   /\ refresh[u].at # "find" => pairs'[refresh[u].pair].root # Root(refresh[w].pair)
            BY <1>5, <2>1, <2>3 DEF AnswerSound, Taken
      <2>4. stored # refresh[w].pair
            BY <2>1 DEF AnswerSound
      <2> QED BY <1>0, <1>2, <1>5, <2>2, <2>3, <2>4 DEF AnswerSound, Taken
<1>9. ASSUME NEW d \in Calls PROVE LoginSound(d)'
      <2> SUFFICES ASSUME Is(d, Logins, "ok")' PROVE LoginSound(d)'
          BY DEF LoginSound
      <2>0. \A u \in Tabs : refresh[u] # Idle => refresh[u].pair \in OrNone
            BY RefreshMember
      <2>1. CASE d = c
            <3>1. \A q \in Issued' : Root(q)' = n <=> q = n
                  BY <1>0, <1>1, <1>3
            <3>2. \A u \in Tabs : refresh'[u] # Idle => refresh'[u].pair # n
                  BY <1>1, <1>2, <2>0
            <3>3. \A e \in Calls \ {c} : Is(e, Logins, "ok")' => call'[e].auth # n
                  BY <1>1, CallMember DEF Is
            <3>4. stored' # n
                  BY <1>1, <1>2 DEF Typed
            <3> QED BY <1>1, <1>3, <2>1, <3>1, <3>2, <3>3, <3>4 DEF LoginSound
      <2>2. CASE d # c
            <3> DEFINE a == call[d].auth
            <3>1. call'[d] = call[d] /\ Is(d, Logins, "ok")
                  BY <1>1, <2>2 DEF Is
            <3>2. LoginSound(d) /\ a \in Issued /\ a # n
                  BY <1>1, <3>1, CallMember DEF BrowserInv, LoginSound, Is, OrNone
            <3>3. \A q \in Issued' : Root(q)' = a <=> q = a
                  BY <1>0, <1>1, <3>1, <3>2 DEF LoginSound
            <3>4. \A e \in Calls \ {d} : Is(e, Logins, "ok")' => call'[e].auth # a
                  BY <1>1, <3>1, <3>2 DEF LoginSound, Is
            <3> QED BY <1>2, <3>1, <3>2, <3>3, <3>4 DEF LoginSound
      <2> QED BY <2>1, <2>2
<1> QED BY <1>7, <1>8, <1>9 DEF BrowserInv

(* A login, or the answer to a refresh, is stored: no good token but this  *)
(* one belongs to its login.                                               *)
LEMMA BrowserStores ==
    ASSUME Typed, BrowserInv, NEW s \in Issued, stored' = s, UNCHANGED <<pairs, revoked>>, Blurred' = Blurred,
           Root(s) \notin Blurred => \A p \in Live : Root(p) = Root(s) => p = s,
           \A t \in Tabs :
               /\ refresh'[t] = refresh[t] \/ refresh'[t] = Idle
               /\ refresh'[t].at = "answered" /\ Root(refresh[t].pair) \notin Blurred => refresh[t].pair # s,
           \A c \in Calls : Is(c, Logins, "ok")' => Is(c, Logins, "ok") /\ call'[c].auth = call[c].auth
                                                    /\ call[c].auth # s
    PROVE  BrowserInv'
<1>1. Live' = Live /\ Issued' = Issued /\ \A p : Root(p)' = Root(p)
      BY DEF Live, Issued, Root
<1>2. StoredSound'
      <2>1. \A p : Root(p)' = pairs'[p].root
            BY DEF Root
      <2> QED BY <1>1, <2>1 DEF StoredSound, Root
<1>3. ASSUME NEW w \in Tabs PROVE AnswerSound(w)'
      <2> SUFFICES ASSUME refresh'[w].at = "answered", Root(refresh[w].pair) \notin Blurred PROVE AnswerSound(w)'
          BY <1>1, IdleIs DEF AnswerSound
      <2>1. refresh'[w] = refresh[w] /\ AnswerSound(w) /\ s # refresh[w].pair
            BY IdleIs DEF BrowserInv
      <2>2. \A u \in Tabs : refresh'[u].at = "find" \/ Taken(u)' \/ refresh'[u].at = "answered" => refresh'[u] = refresh[u]
            BY IdleIs DEF Taken
      <2> QED BY <1>1, <2>1, <2>2 DEF AnswerSound, Taken
<1>4. ASSUME NEW c \in Calls PROVE LoginSound(c)'
      <2> SUFFICES ASSUME Is(c, Logins, "ok")' PROVE LoginSound(c)'
          BY DEF LoginSound
      <2>1. Is(c, Logins, "ok") /\ call'[c].auth = call[c].auth /\ LoginSound(c) /\ call[c].auth # s
            BY DEF BrowserInv
      <2> QED BY <1>1, <2>1 DEF LoginSound
<1> QED BY <1>2, <1>3, <1>4 DEF BrowserInv

LEMMA BrowserTakes ==
    ASSUME Typed, BrowserInv, NEW c \in Calls, TakeLogin(c)
    PROVE  BrowserInv'
<1> DEFINE s == call[c].auth
<1>1. Is(c, Logins, "ok") /\ LoginSound(c)
      BY DEF TakeLogin, BrowserInv
<1>2. s \in Issued /\ Root(s) = s
      BY <1>1, CallMember DEF LoginSound, Is, OrNone
<1>3. stored' = s /\ UNCHANGED <<pairs, revoked, refresh>> /\ Blurred' = Blurred
      BY DEF TakeLogin, server, Blurred
<1>4. (\A d \in Calls \ {c} : call'[d] = call[d]) /\ call'[c] = Idle
      BY EndEffect DEF TakeLogin
<1>5. \A p \in Live : Root(p) = Root(s) => p = s
      BY <1>1, <1>2 DEF LoginSound, Live
<1>6. \A t \in Tabs : refresh[t].at = "answered" => refresh[t].pair # s
      BY <1>1, TakenPair DEF LoginSound
<1>7. \A d \in Calls : Is(d, Logins, "ok")' => Is(d, Logins, "ok") /\ call'[d].auth = call[d].auth /\ call[d].auth # s
      BY <1>1, <1>4 DEF LoginSound, Is
<1> HIDE DEF s
<1> QED BY <1>2, <1>3, <1>5, <1>6, <1>7, BrowserStores

LEMMA BrowserDone ==
    ASSUME Typed, BrowserInv, NEW t \in Tabs, RefreshDone(t)
    PROVE  BrowserInv'
<1> DEFINE s == refresh[t].pair
<1>1. refresh[t].at = "answered" /\ s \in Issued /\ AnswerSound(t) /\ refresh[t] # Idle
      BY TakenPair DEF RefreshDone, BrowserInv
<1>2. stored' = s /\ UNCHANGED <<pairs, revoked>> /\ Blurred' = Blurred
      BY DEF RefreshDone, server, history, Blurred
<1>3. refresh'[t] = Idle /\ \A u \in Tabs \ {t} : refresh'[u] = refresh[u]
      BY DoneEffect
<1>4. Root(s) \notin Blurred => \A p \in Live : Root(p) = Root(s) => p = s
      BY <1>1 DEF AnswerSound
<1>5. \A u \in Tabs : refresh'[u].at = "answered" /\ Root(refresh[u].pair) \notin Blurred => refresh[u].pair # s
      <2> TAKE u \in Tabs
      <2> HAVE refresh'[u].at = "answered" /\ Root(refresh[u].pair) \notin Blurred
      <2>1. u # t /\ refresh[u].at = "answered" /\ AnswerSound(u)
            BY <1>3, IdleIs DEF BrowserInv
      <2> QED BY <1>1, <2>1 DEF AnswerSound
<1>6. \A d \in Calls : Is(d, Logins, "ok")' => Is(d, Logins, "ok") /\ call'[d].auth = call[d].auth /\ call[d].auth # s
      <2> TAKE d \in Calls
      <2> HAVE Is(d, Logins, "ok")'
      <2>1. call'[d] = call[d]
            BY DoneEffect DEF Is
      <2>2. Is(d, Logins, "ok") /\ LoginSound(d)
            BY <2>1 DEF Is, BrowserInv
      <2> QED BY <1>1, <2>1, <2>2 DEF LoginSound
<1> HIDE DEF s
<1> QED BY <1>1, <1>2, <1>3, <1>4, <1>5, <1>6, BrowserStores

LEMMA BrowserDenied ==
    ASSUME Typed, BrowserInv, NEW c \in Calls, TakeDenied(c)
    PROVE  BrowserInv'
<1>1. /\ UNCHANGED <<pairs, revoked, stored>> /\ Blurred' = Blurred
      /\ Live' = Live /\ Issued' = Issued /\ \A p : Root(p)' = Root(p)
      BY DEF TakeDenied, server, history, Blurred, Live, Issued, Root
<1>2. \A t \in Tabs : refresh'[t] # refresh[t] =>
          refresh[t] = Idle /\ refresh'[t].pair = stored /\ refresh'[t].at \in {"denied", "find"}
      BY TakeDeniedEffect
<1>3. \A d \in Calls : Is(d, Logins, "ok")' => Is(d, Logins, "ok") /\ call'[d] = call[d]
      BY TakeDeniedEffect DEF Is
<1>4. StoredSound'
      <2> SUFFICES ASSUME stored # 0, Root(stored) \notin Blurred, NEW q \in Live, Root(q) = Root(stored), q # stored
                   PROVE  \E u \in Tabs : refresh'[u].at = "answered" /\ refresh'[u].pair = q
          BY <1>1 DEF StoredSound
      <2>1. PICK u \in Tabs : refresh[u].at = "answered" /\ refresh[u].pair = q
            BY DEF BrowserInv, StoredSound
      <2>2. refresh'[u] = refresh[u]
            BY <1>2, <2>1, IdleIs
      <2> QED BY <2>1, <2>2
<1>5. ASSUME NEW w \in Tabs PROVE AnswerSound(w)'
      <2> SUFFICES ASSUME refresh'[w].at = "answered", Root(refresh'[w].pair) \notin Blurred PROVE AnswerSound(w)'
          BY <1>1 DEF AnswerSound
      <2>1. refresh'[w] = refresh[w] /\ AnswerSound(w)
            BY <1>2 DEF BrowserInv
      <2>2. stored # refresh[w].pair /\ \A q \in Live : Root(q) = Root(refresh[w].pair) => q = refresh[w].pair
            BY <2>1 DEF AnswerSound
      <2>3. ASSUME NEW u \in Tabs \ {w}, refresh'[u].at = "find" \/ Taken(u)' \/ refresh'[u].at = "answered"
            PROVE  /\ refresh'[u].pair # refresh[w].pair
                   /\ refresh'[u].at # "find" => Root(refresh'[u].pair) # Root(refresh[w].pair)
            <3>1. CASE refresh'[u] = refresh[u]
                  BY <2>1, <2>3, <3>1 DEF AnswerSound, Taken
            <3>2. CASE refresh'[u] # refresh[u]
                  BY <1>2, <2>2, <2>3, <3>2 DEF Taken
            <3> QED BY <3>1, <3>2
      <2> QED BY <1>1, <2>1, <2>2, <2>3 DEF AnswerSound
<1>6. ASSUME NEW d \in Calls PROVE LoginSound(d)'
      <2> SUFFICES ASSUME Is(d, Logins, "ok")' PROVE LoginSound(d)'
          BY DEF LoginSound
      <2>1. Is(d, Logins, "ok") /\ call'[d] = call[d] /\ LoginSound(d)
            BY <1>3 DEF BrowserInv
      <2>2. \A u \in Tabs : refresh'[u] # Idle => refresh'[u].pair # call[d].auth
            BY <1>2, <2>1 DEF LoginSound
      <2>3. \A e \in Calls \ {d} : Is(e, Logins, "ok")' => call'[e].auth # call[d].auth
            BY <1>3, <2>1 DEF LoginSound
      <2> QED BY <1>1, <2>1, <2>2, <2>3 DEF LoginSound
<1> QED BY <1>4, <1>5, <1>6 DEF BrowserInv

(* One call moves, and no refresh.                                         *)
LEMMA BrowserCall ==
    ASSUME Typed, BrowserInv, NEW c \in Calls, UNCHANGED <<pairs, refresh>>, stored' \in {stored, 0},
           revoked \subseteq revoked', Blurred \subseteq Blurred',
           \A d \in Calls \ {c} : call'[d] = call[d], ~ Is(c, Logins, "ok")'
    PROVE  BrowserInv'
<1>1. \A t \in Tabs : refresh[t].at \in {"find", "answered", "revoke", "issue"} => refresh[t] # Idle
      BY IdleIs
<1>2. \A d \in Calls : Is(d, Logins, "ok")' => Is(d, Logins, "ok") /\ call'[d].auth = call[d].auth
      BY DEF Is
<1> QED BY <1>1, <1>2, BrowserKept DEF Taken

LEMMA BrowserProceed ==
    ASSUME Typed, BrowserInv, NEW c \in Calls, Proceed(c)
    PROVE  BrowserInv'
<1>1. CASE ServePage(c) \/ ComparePassword(c) \/ WritePassword(c)
      <2>1. UNCHANGED <<pairs, refresh, stored, revoked>> /\ Blurred' = Blurred /\ call[c] # Idle /\ call[c].kind \notin Logins
            BY <1>1 DEF ServePage, ComparePassword, WritePassword, server, history, Blurred, Is, Logins
      <2>2. End(c) \/ \E s \in Places : Goto(c, s)
            BY <1>1 DEF ServePage, ComparePassword, WritePassword, Places
      <2>3. (\A d \in Calls \ {c} : call'[d] = call[d]) /\ ~ Is(c, Logins, "ok")'
            BY <2>1, <2>2, EndEffect, GotoEffect DEF Is
      <2> QED BY <2>1, <2>3, BrowserCall
<1>2. CASE RevokeAll(c)
      <2>1. UNCHANGED <<pairs, stored>> /\ revoked \subseteq revoked' /\ Blurred' = Blurred
            BY <1>2 DEF RevokeAll, history, Blurred
      <2>2. \A t \in Tabs :
               /\ refresh'[t] # Idle => refresh[t] # Idle /\ refresh'[t].pair = refresh[t].pair
               /\ refresh'[t].at = refresh[t].at
               /\ refresh'[t].at \in {"find", "answered", "revoke", "issue"} => refresh'[t] # Idle
            BY <1>2, RevokeAllEffect, IdleIs
      <2>3. \A d \in Calls : Is(d, Logins, "ok")' => Is(d, Logins, "ok") /\ call'[d].auth = call[d].auth
            BY <1>2, RevokeAllEffect DEF Is
      <2> QED BY <2>1, <2>2, <2>3, BrowserKept DEF Taken
<1>3. CASE CompareLogin(c)
      <2>1. UNCHANGED <<pairs, refresh, stored, revoked>> /\ Blurred' = Blurred /\ call[c] # Idle
            BY <1>3 DEF CompareLogin, server, history, Blurred, Is
      <2>2. call[c] \in CallRecords
            BY <2>1, CallMember
      <2>3. PICK s \in {"issue", "denied"} : call' = [call EXCEPT ![c].version = password, ![c].at = s]
            BY <1>3 DEF CompareLogin
      <2>4. call'[c].at = s /\ \A d \in Calls \ {c} : call'[d] = call[d]
            BY <2>2, <2>3 DEF Typed, CallRecords
      <2> QED BY <2>1, <2>4, BrowserCall DEF Is
<1>4. CASE RevokeOne(c)
      <2>1. UNCHANGED <<pairs, refresh, stored>> /\ revoked \subseteq revoked' /\ Blurred' = Blurred /\ End(c)
            BY <1>4 DEF RevokeOne, history, Blurred
      <2> QED BY <2>1, EndEffect, BrowserCall DEF Is
<1>5. CASE Lost(c)
      <2>1. /\ UNCHANGED <<pairs, refresh, stored, revoked>> /\ Blurred \subseteq Blurred'
            /\ call[c].at \in {"server", "ok"} /\ call' = [call EXCEPT ![c] = Failed(c, stored)]
            BY <1>5 DEF Lost, server, Blurred
      <2>2. call[c] # Idle /\ stored \in OrNone
            BY <2>1, IdleIs DEF Typed
      <2>3. /\ \A d \in Calls \ {c} : call'[d] = call[d]
            /\ call'[c] # Idle => call'[c].at = "server"
            BY <2>1, <2>2, FailedMember DEF Typed
      <2> QED BY <2>1, <2>3, BrowserCall DEF Is
<1>6. CASE LoginClash(c)
      <2>1. /\ UNCHANGED <<pairs, refresh, stored, revoked>> /\ Blurred' = Blurred
            /\ call[c] # Idle /\ call' = [call EXCEPT ![c] = Failed(c, stored)]
            BY <1>6 DEF LoginClash, Is, server, history, Blurred
      <2>2. stored \in OrNone
            BY DEF Typed
      <2>3. /\ \A d \in Calls \ {c} : call'[d] = call[d]
            /\ call'[c] # Idle => call'[c].at = "server"
            BY <2>1, <2>2, FailedMember DEF Typed
      <2> QED BY <2>1, <2>3, BrowserCall DEF Is
<1> QED BY <1>1, <1>2, <1>3, <1>4, <1>5, <1>6, BrowserLogin, BrowserTakes, BrowserDenied DEF Proceed

LEMMA BrowserRefresh ==
    ASSUME Typed, OneInv, BrowserInv, NEW t \in Tabs, ProceedRefresh(t)
    PROVE  BrowserInv'
<1>1. CASE RevokeToken(t)
      <2>1. UNCHANGED <<pairs, stored, call>> /\ revoked \subseteq revoked' /\ Blurred' = Blurred /\ refresh[t].at = "revoke"
            BY <1>1 DEF RevokeToken, history, Used, Blurred
      <2>2. refresh[t] \in Refreshes /\ refresh[t] # Idle
            BY <2>1, TakenPair
      <2>3. /\ \A u \in Tabs \ {t} : refresh'[u] = refresh[u]
            /\ refresh'[t].pair = refresh[t].pair /\ refresh'[t].at = "issue" /\ refresh'[t] # Idle
            BY <1>1, <2>2, IdleIs DEF RevokeToken, Typed, Refreshes
      <2>4. \A u \in Tabs :
               /\ refresh'[u] # Idle => refresh[u] # Idle /\ refresh'[u].pair = refresh[u].pair
               /\ refresh'[u].at \in {"find", "answered"} => refresh'[u].at = refresh[u].at
               /\ refresh'[u].at \in {"find", "answered", "revoke", "issue"} => refresh'[u] # Idle
               /\ Taken(u)' => Taken(u)
               /\ refresh[u].at = "answered" => refresh'[u].at = "answered"
            BY <2>1, <2>2, <2>3, IdleIs DEF Taken
      <2> QED BY <2>1, <2>4, BrowserKept DEF Is
<1>2. CASE RefreshFailed(t)
      <2>1. UNCHANGED <<pairs, revoked>> /\ Blurred' = Blurred /\ stored' = 0 /\ refresh[t].at = "denied"
            BY <1>2 DEF RefreshFailed, server, history, Blurred
      <2>2. \A d \in Calls : Is(d, Logins, "ok")' => Is(d, Logins, "ok") /\ call'[d].auth = call[d].auth
            BY <1>2, DoneEffect DEF Is
      <2>3. \A u \in Tabs :
               /\ refresh'[u] # Idle => refresh[u] # Idle /\ refresh'[u].pair = refresh[u].pair
               /\ refresh'[u].at \in {"find", "answered"} => refresh'[u].at = refresh[u].at
               /\ refresh'[u].at \in {"find", "answered", "revoke", "issue"} => refresh'[u] # Idle
               /\ Taken(u)' => Taken(u)
               /\ refresh[u].at = "answered" => refresh'[u].at = "answered"
            BY <1>2, <2>1, DoneEffect, IdleIs DEF Taken
      <2> QED BY <2>1, <2>2, <2>3, BrowserKept
<1>3. CASE LostRefresh(t)
      <2>1. /\ UNCHANGED <<pairs, revoked, stored, call>> /\ Blurred \subseteq Blurred'
            /\ Root(refresh[t].pair) \in Blurred'
            BY <1>3 DEF LostRefresh, server, Blurred
      <2>2. \A u \in Tabs :
               /\ refresh'[u] # Idle => refresh[u] # Idle /\ refresh'[u].pair = refresh[u].pair
               /\ refresh'[u].at \in {"find", "answered"} => refresh'[u].at = refresh[u].at
               /\ refresh'[u].at \in {"find", "answered", "revoke", "issue"} => refresh'[u] # Idle
               /\ Taken(u)' => Taken(u)
               /\ refresh[u].at = "answered" => refresh'[u].at = "answered" \/ Root(refresh[u].pair) \in Blurred'
            BY <1>3, <2>1, BrokenOffEffect, IdleIs DEF Taken
      <2> QED BY <2>1, <2>2, BrowserKept DEF Is
<1>4. CASE NextClash(t)
      <2>1. UNCHANGED <<pairs, revoked, stored, call>> /\ Blurred' = Blurred /\ refresh[t].at = "issue"
            BY <1>4 DEF NextClash, server, history, Blurred
      <2>2. \A u \in Tabs :
               /\ refresh'[u] # Idle => refresh[u] # Idle /\ refresh'[u].pair = refresh[u].pair
               /\ refresh'[u].at \in {"find", "answered"} => refresh'[u].at = refresh[u].at
               /\ refresh'[u].at \in {"find", "answered", "revoke", "issue"} => refresh'[u] # Idle
               /\ Taken(u)' => Taken(u)
               /\ refresh[u].at = "answered" => refresh'[u].at = "answered"
            BY <1>4, <2>1, BrokenOffEffect, IdleIs DEF Taken
      <2> QED BY <2>1, <2>2, BrowserKept DEF Is
<1> QED BY <1>1, <1>2, <1>3, <1>4, BrowserFind, BrowserIssue, BrowserDone DEF ProceedRefresh

LEMMA BrowserNext == Typed /\ OneInv /\ BrowserInv /\ [Next]_vars => BrowserInv'
<1> SUFFICES ASSUME Typed, OneInv, BrowserInv, [Next]_vars PROVE BrowserInv'
    OBVIOUS
<1>1. CASE UNCHANGED vars \/ \E p : Expire(p)
      <2>1. UNCHANGED <<pairs, revoked, stored, refresh, call>> /\ Blurred' = Blurred
            BY <1>1 DEF vars, server, history, Expire, Blurred
      <2> QED BY <2>1, IdleIs, BrowserKept DEF Taken, Is
<1>2. ASSUME NEW c \in Calls, NEW t \in Tabs, Login(c, t) \/ Logout(c, t) \/ \E k \in Kinds : Ask(c, t, k)
      PROVE  BrowserInv'
      <2>1. Blurred \subseteq Blurred' /\ stored' \in {stored, 0}
            BY <1>2 DEF Login, Logout, Ask, history, Blurred, Forgotten
      <2>2. UNCHANGED <<pairs, revoked, refresh>> /\ ~ Is(c, Logins, "ok")' /\ \A d \in Calls \ {c} : call'[d] = call[d]
            BY <1>2, ClickEffect DEF server, Is
      <2> QED BY <2>1, <2>2, BrowserCall
<1> QED BY <1>1, <1>2, BrowserProceed, BrowserRefresh DEF Next

-----------------------------------------------------------------------------
(* The logout                                                              *)

LEMMA OutKept ==
    ASSUME OutSound, UNCHANGED <<pairs, out>>, revoked \subseteq revoked', Blurred \subseteq Blurred',
           stored' \in {stored, 0},
           \A t \in Tabs : stored = 0 /\ (refresh[t] = Idle \/ refresh[t].at = "denied") =>
               refresh'[t] = Idle \/ refresh'[t].at = "denied",
           \A c \in Calls : Is(c, {"logout"}, "server") =>
               \/ Is(c, {"logout"}, "server")' /\ call'[c].auth = call[c].auth
               \/ Root(call[c].auth) \in Blurred' \/ call[c].auth \in revoked'
    PROVE  OutSound'
<1>1. Live' \subseteq Live /\ OrNone' = OrNone /\ \A p : Root(p)' = Root(p)
      BY DEF Live, Issued, Root, OrNone
<1> SUFFICES ASSUME out # 0, out \notin Blurred'
             PROVE  /\ stored' = 0
                    /\ \A t \in Tabs : refresh'[t] = Idle \/ refresh'[t].at = "denied"
                    /\ (\E c \in Calls : Tells(c)') \/ \A p \in Live' : Root(p) # out
    BY <1>1 DEF OutSound
<1>2. stored = 0 /\ \A t \in Tabs : refresh[t] = Idle \/ refresh[t].at = "denied"
      BY DEF OutSound
<1>3. CASE \A p \in Live : Root(p) # out
      BY <1>1, <1>2, <1>3
<1>4. ASSUME NEW c \in Calls, Tells(c) PROVE Tells(c)' \/ \A p \in Live' : Root(p) # out
      <2>1. Is(c, {"logout"}, "server") /\ Root(call[c].auth) = out /\ \A p \in Live : Root(p) = out => p = call[c].auth
            BY <1>4 DEF Tells
      <2>2. CASE call[c].auth \in revoked'
            BY <1>1, <2>1, <2>2 DEF Live
      <2>3. CASE Is(c, {"logout"}, "server")' /\ call'[c].auth = call[c].auth
            <3>1. Root(call[c].auth) = pairs[call[c].auth].root /\ (Root(call[c].auth))' = pairs'[call'[c].auth].root
                  BY DEF Root
            <3>2. \A p \in Live' : Root(p) = out => p = call[c].auth
                  BY <1>1, <2>1
            <3> QED BY <1>1, <2>1, <2>3, <3>1, <3>2 DEF Tells
      <2> QED BY <2>1, <2>2, <2>3
<1>5. (\E c \in Calls : Tells(c)) \/ \A p \in Live : Root(p) # out
      BY DEF OutSound
<1> QED BY <1>2, <1>3, <1>4, <1>5

(* A refresh that may still store a pair is none after a logout.           *)
LEMMA OutBusy ==
    ASSUME OutSound, NEW t \in Tabs, refresh[t] # Idle, refresh[t].at # "denied",
           UNCHANGED out, Blurred \subseteq Blurred', OrNone \subseteq OrNone'
    PROVE  OutSound'
BY DEF OutSound

LEMMA OutProceed ==
    ASSUME Typed, OutSound, NEW c \in Calls, Proceed(c)
    PROVE  OutSound'
<1>0. ASSUME UNCHANGED <<pairs, out, refresh, stored>>, revoked \subseteq revoked', Blurred \subseteq Blurred',
             \A d \in Calls \ {c} : call'[d] = call[d],
             Is(c, {"logout"}, "server") => call[c].auth \in revoked' \/ Root(call[c].auth) \in Blurred'
      PROVE  OutSound'
      BY <1>0, OutKept DEF Is
<1>1. CASE ServePage(c) \/ ComparePassword(c) \/ WritePassword(c)
      <2>1. UNCHANGED <<pairs, refresh, stored, revoked, out>> /\ Blurred' = Blurred /\ call[c] # Idle /\ call[c].kind # "logout"
            BY <1>1 DEF ServePage, ComparePassword, WritePassword, server, history, Blurred, Is
      <2>2. End(c) \/ \E s \in Places : Goto(c, s)
            BY <1>1 DEF ServePage, ComparePassword, WritePassword, Places
      <2>3. \A d \in Calls \ {c} : call'[d] = call[d]
            BY <2>1, <2>2, EndEffect, GotoEffect
      <2> QED BY <1>0, <2>1, <2>3 DEF Is
<1>2. CASE RevokeAll(c)
      <2>1. UNCHANGED <<pairs, stored, out>> /\ revoked \subseteq revoked' /\ Blurred' = Blurred /\ call[c].kind = "password"
            BY <1>2 DEF RevokeAll, history, Blurred, Is
      <2>2. \A t \in Tabs : refresh[t] = Idle \/ refresh[t].at = "denied" => refresh'[t] = Idle \/ refresh'[t].at = "denied"
            BY <1>2, RevokeAllEffect
      <2>3. \A d \in Calls : Is(d, {"logout"}, "server") => Is(d, {"logout"}, "server")' /\ call'[d].auth = call[d].auth
            BY <1>2, <2>1, RevokeAllEffect DEF Is
      <2> QED BY <2>1, <2>2, <2>3, OutKept
<1>3. CASE CompareLogin(c)
      <2>1. UNCHANGED <<pairs, refresh, stored, revoked, out>> /\ Blurred' = Blurred /\ call[c].kind # "logout"
            BY <1>3 DEF CompareLogin, server, history, Blurred, Is, Logins
      <2>2. \A d \in Calls \ {c} : call'[d] = call[d]
            BY <1>3 DEF CompareLogin, Typed
      <2> QED BY <1>0, <2>1, <2>2 DEF Is
<1>4. CASE RevokeOne(c)
      <2>1. /\ UNCHANGED <<pairs, refresh, stored, out>> /\ revoked' = revoked \cup {call[c].auth}
            /\ Blurred' = Blurred /\ End(c)
            BY <1>4 DEF RevokeOne, history, Blurred
      <2> QED BY <1>0, <2>1, EndEffect
<1>5. CASE Lost(c)
      <2>1. /\ UNCHANGED <<pairs, refresh, stored, revoked, out>> /\ Blurred \subseteq Blurred'
            /\ call' = [call EXCEPT ![c] = Failed(c, stored)]
            /\ call[c].kind = "logout" => Root(call[c].auth) \in Blurred'
            BY <1>5 DEF Lost, server, Blurred
      <2>2. \A d \in Calls \ {c} : call'[d] = call[d]
            BY <2>1 DEF Typed
      <2> QED BY <1>0, <2>1, <2>2 DEF Is
<1>6. CASE IssueLogin(c)
      <2> DEFINE n == Len(pairs) + 1
      <2>1. /\ n \notin OrNone /\ Issued' = Issued \cup {n} /\ Live' = Live \cup {n} /\ pairs'[n].root = n
            /\ \A q \in Issued : Root(q)' = Root(q) /\ Root(q) \in Issued
            /\ \A d \in Calls \ {c} : call'[d] = call[d]
            BY <1>6, LoginEffect
      <2>2. UNCHANGED <<stored, refresh, out>> /\ Blurred' = Blurred /\ Is(c, Logins, "issue")
            BY <1>6 DEF IssueLogin, Blurred
      <2> HIDE DEF n
      <2>3. out # n /\ OrNone \subseteq OrNone'
            BY <2>1 DEF OutSound, OrNone
      <2>4. \A q \in Live' : Root(q)' = out => q \in Live /\ Root(q) = out
            BY <2>1, <2>3 DEF Root, Live
      <2>5. \A d \in Calls : Tells(d) => Tells(d)'
            <3> TAKE d \in Calls
            <3> HAVE Tells(d)
            <3>1. d # c
                  BY <2>2 DEF Tells, Is, Logins
            <3>2. call'[d] = call[d] /\ call[d].auth \in Issued
                  BY <2>1, <3>1, CallMember DEF Tells, Is, OrNone
            <3>3. pairs'[call[d].auth].root = out
                  BY <2>1, <3>2 DEF Tells, Root
            <3> QED BY <2>2, <2>4, <3>2, <3>3 DEF Tells, Is, Root
      <2>6. \A q \in Live : Root(q) # out => Root(q)' # out
            BY <2>1 DEF Live
      <2> QED BY <2>2, <2>3, <2>4, <2>5 DEF OutSound
<1>7. CASE TakeLogin(c)
      BY <1>7 DEF TakeLogin, OutSound, OrNone
<1>8. CASE TakeDenied(c)
      <2>1. UNCHANGED <<pairs, stored, revoked, out>> /\ Blurred' = Blurred
            BY <1>8 DEF TakeDenied, server, history, Blurred
      <2>2. \A t \in Tabs : stored = 0 /\ (refresh[t] = Idle \/ refresh[t].at = "denied") =>
                refresh'[t] = Idle \/ refresh'[t].at = "denied"
            BY <1>8, TakeDeniedEffect
      <2>3. \A d \in Calls : Is(d, {"logout"}, "server") => Is(d, {"logout"}, "server")' /\ call'[d].auth = call[d].auth
            BY <1>8, TakeDeniedEffect DEF Is
      <2> QED BY <2>1, <2>2, <2>3, OutKept
<1>9. CASE LoginClash(c)
      <2>1. /\ UNCHANGED <<pairs, refresh, stored, revoked, out>> /\ Blurred' = Blurred
            /\ call' = [call EXCEPT ![c] = Failed(c, stored)] /\ call[c].kind # "logout"
            BY <1>9 DEF LoginClash, Is, Logins, server, history, Blurred
      <2>2. \A d \in Calls \ {c} : call'[d] = call[d]
            BY <2>1 DEF Typed
      <2> QED BY <1>0, <2>1, <2>2 DEF Is
<1> QED BY <1>1, <1>2, <1>3, <1>4, <1>5, <1>6, <1>7, <1>8, <1>9 DEF Proceed

LEMMA OutRefresh ==
    ASSUME Typed, OutSound, NEW t \in Tabs, ProceedRefresh(t)
    PROVE  OutSound'
<1>1. CASE FindToken(t) \/ RevokeToken(t) \/ IssueNext(t) \/ NextClash(t) \/ RefreshDone(t) \/ LostRefresh(t)
      <2>1. refresh[t] # Idle /\ refresh[t].at # "denied"
            BY <1>1, IdleIs DEF FindToken, RevokeToken, IssueNext, NextClash, RefreshDone, LostRefresh
      <2>2. UNCHANGED out /\ Blurred \subseteq Blurred'
            BY <1>1 DEF FindToken, RevokeToken, IssueNext, NextClash, RefreshDone, LostRefresh, history, Blurred
      <2>3. OrNone \subseteq OrNone'
            <3>1. CASE IssueNext(t)
                  BY <3>1, IssueEffect DEF OrNone
            <3>2. CASE UNCHANGED pairs
                  BY <3>2 DEF OrNone, Issued
            <3> QED BY <1>1, <3>1, <3>2 DEF FindToken, RevokeToken, NextClash, RefreshDone, LostRefresh, server
      <2> QED BY <2>1, <2>2, <2>3, OutBusy
<1>2. CASE RefreshFailed(t)
      <2>1. UNCHANGED <<pairs, revoked, out>> /\ Blurred' = Blurred /\ stored' = 0
            BY <1>2 DEF RefreshFailed, server, history, Blurred
      <2>2. \A u \in Tabs : refresh[u] = Idle \/ refresh[u].at = "denied" => refresh'[u] = Idle \/ refresh'[u].at = "denied"
            BY <1>2, DoneEffect
      <2>3. \A d \in Calls : Is(d, {"logout"}, "server") => Is(d, {"logout"}, "server")' /\ call'[d].auth = call[d].auth
            BY <1>2, DoneEffect DEF Is
      <2> QED BY <2>1, <2>2, <2>3, OutKept
<1> QED BY <1>1, <1>2 DEF ProceedRefresh

LEMMA OutLogout ==
    ASSUME Typed, OneInv, BrowserInv, OutSound, NEW c \in Calls, NEW t \in Tabs, Logout(c, t)
    PROVE  OutSound'
<1>1. /\ UNCHANGED <<pairs, revoked, refresh, twice>> /\ call[c] = Idle /\ stored' = 0
      /\ \A d \in Calls \ {c} : call'[d] = call[d]
      /\ Blurred \subseteq Blurred'
      BY ClickEffect DEF Logout, server, Forgotten, Blurred
<1>2. Live' = Live /\ Issued' = Issued /\ OrNone' = OrNone
      BY <1>1 DEF Live, Issued, OrNone
<1>3. CASE stored = 0
      <2>1. UNCHANGED <<out, call>>
            BY <1>3 DEF Logout
      <2> QED BY <1>1, <2>1, OutKept DEF Is
<1>4. CASE stored # 0
      <2>1. stored \in Issued /\ Root(stored) \in Issued
            BY <1>4 DEF Typed, ServerTyped, OrNone
      <2>2. out' = Root(stored) /\ call' = [call EXCEPT ![c] = NewCall("logout", t, stored)]
            BY <1>4 DEF Logout
      <2>3. out' \in OrNone'
            BY <1>2, <2>1, <2>2 DEF OrNone
      <2> SUFFICES ASSUME out' \notin Blurred'
                   PROVE  /\ \A u \in Tabs : refresh[u] = Idle
                          /\ Tells(c)'
          BY <1>1, <2>3 DEF OutSound
      <2>4. \A u \in Tabs : refresh[u] = Idle
            BY <1>4, <2>2 DEF Logout, Blurred
      <2>5. Root(stored) \notin Blurred
            BY <1>1, <2>2
      <2>6. \A p \in Live : Root(p) = Root(stored) => p = stored
            BY <1>4, <2>4, <2>5, IdleIs DEF BrowserInv, StoredSound
      <2>7. call'[c].kind = "logout" /\ call'[c].at = "server" /\ call'[c].auth = stored /\ call'[c] # Idle
            <3>1. stored \in Nat /\ "logout" \in Kinds
                  BY <2>1 DEF Issued, Kinds
            <3>2. NewCall("logout", t, stored) \in CallRecords /\ NewCall("logout", t, stored).kind = "logout"
                  /\ NewCall("logout", t, stored).at = "server" /\ NewCall("logout", t, stored).auth = stored
                  BY <3>1, NewCallIs
            <3>3. call'[c] = NewCall("logout", t, stored)
                  BY <2>2 DEF Typed
            <3> QED BY <3>2, <3>3, IdleIs
      <2>8. Is(c, {"logout"}, "server")'
            BY <2>7 DEF Is
      <2> QED BY <1>1, <1>2, <2>2, <2>4, <2>6, <2>7, <2>8 DEF Tells, Root
<1> QED BY <1>3, <1>4

LEMMA OutNext == Typed /\ OneInv /\ BrowserInv /\ OutSound /\ [Next]_vars => OutSound'
<1> SUFFICES ASSUME Typed, OneInv, BrowserInv, OutSound, [Next]_vars PROVE OutSound'
    OBVIOUS
<1>1. CASE UNCHANGED vars \/ \E p : Expire(p)
      <2>1. UNCHANGED <<pairs, revoked, stored, refresh, call, out>> /\ Blurred' = Blurred
            BY <1>1 DEF vars, server, history, Expire, Blurred
      <2> QED BY <2>1, OutKept DEF Is
<1>2. ASSUME NEW c \in Calls, NEW t \in Tabs, Login(c, t) \/ \E k \in Kinds : Ask(c, t, k)
      PROVE  OutSound'
      <2>1. UNCHANGED <<stored, out>> /\ Blurred' = Blurred
            BY <1>2 DEF Login, Ask, history, Blurred
      <2>2. UNCHANGED <<pairs, revoked, refresh>> /\ call[c] = Idle /\ \A d \in Calls \ {c} : call'[d] = call[d]
            BY <1>2, ClickEffect DEF server
      <2> QED BY <2>1, <2>2, OutKept DEF Is
<1> QED BY <1>1, <1>2, OutProceed, OutRefresh, OutLogout DEF Next

-----------------------------------------------------------------------------
(* A browser that has just been opened satisfies the inductive invariant.  *)
THEOREM InitInv == Init => IInv
<1> SUFFICES ASSUME Init PROVE IInv
    OBVIOUS
<1>1. Typed
      BY InitTyped
<1>2. stored \in Nat /\ pairs = [p \in 1 .. stored |-> [root |-> p, version |-> 0]] /\ Len(pairs) = stored
      BY DEF Init
<1>3. Issued = 1 .. stored /\ Live = 1 .. stored /\ \A p \in Issued : Root(p) = p /\ pairs[p].version = 0
      BY <1>2 DEF Issued, Live, Root, Init
<1>4. (\A t \in Tabs : refresh[t] = Idle) /\ (\A c \in Calls : call[c] = Idle) /\ password = 0 /\ out = 0
      BY DEF Init
<1>5. OneInv
      BY <1>3, <1>4, IdleIs DEF OneInv, OneLive, OneTaken, TakenLive, Taken, Live
<1>6. PasswordInv
      BY <1>3, <1>4, IdleIs DEF PasswordInv, PasswordEnds, LoginsCurrent, RefreshesCurrent, Taken, Is, Live
<1>7. BrowserInv
      BY <1>2, <1>3, <1>4, IdleIs DEF BrowserInv, StoredSound, AnswerSound, LoginSound, Is, Live
<1>8. OutSound
      BY <1>4 DEF OutSound, OrNone
<1> QED BY <1>1, <1>5, <1>6, <1>7, <1>8 DEF IInv

(* Every step of the server and of the tabs keeps it.                      *)
THEOREM Inductive == IInv /\ [Next]_vars => IInv'
BY TypedStep, OneNext, PasswordNext, BrowserNext, OutNext DEF IInv

(* So it holds in every state.                                             *)
THEOREM Invariance == Spec => []IInv
BY InitInv, Inductive, PTL DEF Spec

(* However the tabs' refreshes meet, a login has one live token, unless    *)
(* two of them found the same one unused.                                  *)
THEOREM OneLiveHolds == Spec => []OneLive
<1>1. IInv => OneLive
      BY DEF IInv, OneInv
<1> QED BY <1>1, Invariance, PTL

(* A change of the password that is through has ended the sessions from    *)
(* before it, but for those that were being issued.                        *)
THEOREM PasswordEndsHolds == Spec => []PasswordEnds
<1>1. IInv => PasswordEnds
      BY DEF IInv, PasswordInv
<1> QED BY <1>1, Invariance, PTL

(* Nothing that was under way when the user left signs anybody in again,   *)
(* and the server ends the session it is told about.                       *)
THEOREM LoggedOutHolds == Spec => []LoggedOut
<1>1. IInv => LoggedOut
      BY DEF IInv, OutSound, LoggedOut, Tells, Blurred
<1> QED BY <1>1, Invariance, PTL

==============================================================================
