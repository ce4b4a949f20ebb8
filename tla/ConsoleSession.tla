--------------------------- MODULE ConsoleSession ---------------------------
(***************************************************************************)
(* The web console's session: the token pair every browser tab holds       *)
(* (brain2-web/src/lib/auth.ts), the authenticated fetch that refreshes it *)
(* on a 401 and retries once (lib/api.ts), the route guard, the sign-in    *)
(* and sign-out handlers, and the server's token table with its rotation   *)
(* and reuse detection (src/brain2/auth/tokens.py).                        *)
(*                                                                         *)
(* A token pair is the number of its row in the server's table.  A tab     *)
(* keeps its pair in module variables (`mem`), all tabs share localStorage *)
(* (`storage`).  Every network call is split into sending, the server's    *)
(* step and the return, so that reloads, sign-outs and other calls fall    *)
(* between them.  A promise chain that only waits for microtasks runs in   *)
(* one action.                                                             *)
(***************************************************************************)
EXTENDS Naturals, Sequences, FiniteSets

CONSTANTS
    Tabs,         \* browser tabs of one browser
    Users,        \* accounts that sign in
    Requests,     \* calls of apiFetch made in the whole behaviour
    None,         \* null
    MaxLogins,    \* bound: sign-ins
    MaxExpiries,  \* bound: access tokens that reach their one-hour limit
    MaxReloads,   \* bound: page loads (F5, an <a href> link)
    MaxLosses     \* bound: answers of the refresh endpoint lost on the way

ASSUME NoneDistinct == None \notin Nat \cup Tabs \cup Users
ASSUME BoundsAreNat == MaxLogins \in Nat /\ MaxExpiries \in Nat
ASSUME RequestsFinite == IsFiniteSet(Requests)
ASSUME TabsFinite == IsFiniteSet(Tabs)

VARIABLES
    tokens,    \* the server's token table, a sequence of rows
    accounts,  \* users who can sign in; the others hold an open invite
    mustChange,\* users with must_change_password set
    mem,       \* memToken and memRefresh of every tab
    storage,   \* b2-token and b2-refresh in localStorage
    view,      \* the route a tab shows: a public page or the guard's state
    probe,     \* the guard's call of /me
    call,      \* the refresh call a request began; `heard` is refreshInFlight
    signing,   \* the sign-in or sign-out call of a tab
    req,       \* the calls of apiFetch
    cached,    \* the users whose answers a tab's query cache shows
    late,      \* tabs into which a rotation begun before the last sign-in returned
    reused,    \* rows presented again after they were consumed
    lost,      \* rows whose successor never reached the tab that asked
    spent      \* how often each bounded event happened

serverVars == <<tokens, accounts, mustChange>>
clientVars == <<mem, storage, view, probe, signing>>
vars == <<tokens, accounts, mustChange, mem, storage, view, probe, call, signing, req,
          cached, late, reused, lost, spent>>

NoPair == [token |-> None, refresh |-> None]
PairOf(n) == [token |-> n, refresh |-> n]
\* Every sign-in and every rotation issues one pair; a request rotates once at most.
MaxPairs == MaxLogins + Cardinality(Requests)
Pairs == 1..MaxPairs
IdleCall == [tab |-> None, pair |-> None, stage |-> "idle", issued |-> None, heard |-> FALSE]
Idle == [kind |-> "idle", pair |-> None]
NoReq == [state |-> "idle", tab |-> None, pair |-> None, retry |-> FALSE,
          answer |-> None, performed |-> None, user |-> None, kept |-> FALSE]

-----------------------------------------------------------------------------
(* What the functions of auth.ts compute. *)

\* ensureToken: the pair a tab works with; storage is read only when memory is empty.
Ensured(t) == IF mem[t].token # None \/ storage.token = None THEN mem[t] ELSE storage

\* _doRefresh: the refresh token presented; memory first.
RefreshToken(t) == IF mem[t].refresh # None THEN mem[t].refresh ELSE storage.refresh

\* validate (tokens.py): an access token is accepted.
Valid(n) == n # None /\ ~tokens[n].revoked /\ ~tokens[n].expired

NewRow(u, family) == [user |-> u, family |-> family, consumed |-> FALSE,
                      revoked |-> FALSE, expired |-> FALSE]

RevokeFamily(f) == [i \in DOMAIN tokens |->
                      IF tokens[i].family = f THEN [tokens[i] EXCEPT !.revoked = TRUE]
                      ELSE tokens[i]]

\* Mutant: no single flight.
InFlightForgotten(t) == {}

\* refreshInFlight: the rotation the tab's module variable points at.
InFlight(t) == {c \in Requests : call[c].tab = t /\ call[c].heard}

Open(t) == {r \in Requests : req[r].tab = t /\ req[r].state \in {"sent", "answered", "waiting"}}
Waiting(t) == {r \in Open(t) : req[r].state = "waiting"}

\* The document is replaced: module variables are gone and nothing of the old
\* page listens any more.
Drop(t, rs) == [r \in Requests |-> IF r \in rs THEN [NoReq EXCEPT !.state = "dropped"] ELSE req[r]]
Unheard(t) == [c \in Requests |-> IF c \in InFlight(t) THEN [call[c] EXCEPT !.heard = FALSE] ELSE call[c]]

\* clearToken followed by window.location.href = '/login'.
ToLogin(t) ==
    /\ mem' = [mem EXCEPT ![t] = NoPair]
    /\ storage' = NoPair
    /\ view' = [view EXCEPT ![t] = "login"]
    /\ probe' = [probe EXCEPT ![t] = Idle]
    /\ signing' = [signing EXCEPT ![t] = Idle]
    /\ cached' = [cached EXCEPT ![t] = {}]
    /\ late' = late \ {t}
    /\ req' = Drop(t, Open(t))

-----------------------------------------------------------------------------
\* Nothing is held and nothing is in flight.
AtRest ==
    /\ tokens = <<>>
    /\ mem = [t \in Tabs |-> NoPair]
    /\ storage = NoPair
    /\ probe = [t \in Tabs |-> Idle]
    /\ call = [c \in Requests |-> IdleCall]
    /\ signing = [t \in Tabs |-> Idle]
    /\ req = [r \in Requests |-> NoReq]
    /\ cached = [t \in Tabs |-> {}]
    /\ late = {}
    /\ reused = {}
    /\ lost = {}

Init ==
    /\ AtRest
    /\ accounts \in SUBSET Users
    /\ mustChange \in SUBSET accounts
    /\ view \in [Tabs -> {"login", "invite", "closed"}]
    /\ spent = [logins |-> 0, expiries |-> 0, reloads |-> 0, losses |-> 0]

-----------------------------------------------------------------------------
(* Signing in, the route guard, the forced password change. *)

\* LoginPage.handleSubmit up to the server's answer: a new pair in a new family.
Login(t, u) ==
    /\ view[t] = "login" /\ signing[t] = Idle
    /\ u \in accounts
    /\ spent.logins < MaxLogins
    /\ spent' = [spent EXCEPT !.logins = @ + 1]
    /\ tokens' = Append(tokens, NewRow(u, Len(tokens) + 1))
    /\ signing' = [signing EXCEPT ![t] = [kind |-> "in", pair |-> Len(tokens) + 1]]
    /\ UNCHANGED <<accounts, mustChange, mem, storage, view, probe, call, req, cached, late, reused, lost>>

\* login() stores the pair, the cache is cleared, the protected route mounts its guard.
LoginReturns(t) ==
    /\ signing[t].kind = "in"
    /\ mem' = [mem EXCEPT ![t] = PairOf(signing[t].pair)]
    /\ storage' = PairOf(signing[t].pair)
    /\ signing' = [signing EXCEPT ![t] = Idle]
    /\ view' = [view EXCEPT ![t] = "loading"]
    /\ cached' = [cached EXCEPT ![t] = {}]
    /\ late' = late \ {t}
    /\ req' = [r \in Requests |-> IF r \in Open(t) THEN [req[r] EXCEPT !.kept = FALSE] ELSE req[r]]
    /\ UNCHANGED <<serverVars, probe, call, reused, lost, spent>>

\* RequireAuth's effect: without a token to the login page, else ask /me with it.
GuardStarts(t) ==
    /\ view[t] = "loading" /\ probe[t] = Idle
    /\ mem' = [mem EXCEPT ![t] = Ensured(t)]
    /\ IF Ensured(t).token = None
         THEN view' = [view EXCEPT ![t] = "login"] /\ UNCHANGED probe
         ELSE probe' = [probe EXCEPT ![t] = [kind |-> "sent", pair |-> Ensured(t).token]] /\ UNCHANGED view
    /\ UNCHANGED <<serverVars, storage, call, signing, req, cached, late, reused, lost, spent>>

\* The guard lets the route through on a network error and never refreshes.
GuardReturns(t) ==
    /\ view[t] = "loading" /\ probe[t].kind = "sent"
    /\ \E next \in {"app"} \cup
            (IF ~Valid(probe[t].pair) THEN {"login"}
             ELSE IF tokens[probe[t].pair].user \in mustChange THEN {"must-change"} ELSE {"app"}) :
         view' = [view EXCEPT ![t] = next]
    /\ probe' = [probe EXCEPT ![t] = Idle]
    /\ UNCHANGED <<serverVars, mem, storage, call, signing, req, cached, late, reused, lost, spent>>

\* ForcePasswordChange.handleSubmit answered by the server: the flag goes, the guard runs again.
ChangePassword(t) ==
    /\ view[t] = "must-change"
    /\ Valid(Ensured(t).token)
    /\ mem' = [mem EXCEPT ![t] = Ensured(t)]
    /\ mustChange' = mustChange \ {tokens[Ensured(t).token].user}
    /\ view' = [view EXCEPT ![t] = "loading"]
    /\ UNCHANGED <<tokens, accounts, storage, probe, call, signing, req, cached, late, reused, lost, spent>>

\* Mutant: the account keeps the status of an invitation.
AcceptInviteKeepsStatus(t, u) ==
    /\ view[t] = "invite" /\ u \notin accounts
    /\ mustChange' = mustChange \cup {u}
    /\ view' = [view EXCEPT ![t] = "login"]
    /\ UNCHANGED <<tokens, accounts, mem, storage, probe, call, signing, req, cached, late, reused, lost, spent>>

\* AcceptInvite.submit answered by the server: the account exists, on to the login page.
AcceptInvite(t, u) ==
    /\ view[t] = "invite" /\ u \notin accounts
    /\ accounts' = accounts \cup {u}
    /\ mustChange' = mustChange \cup {u}
    /\ view' = [view EXCEPT ![t] = "login"]
    /\ UNCHANGED <<tokens, mem, storage, probe, call, signing, req, cached, late, reused, lost, spent>>

\* A page load (F5, the address of the console typed): module variables and everything in flight are gone, storage stays.
Reload(t) ==
    /\ spent.reloads < MaxReloads
    /\ view[t] \notin {"loading", "closed"}
    /\ mem' = [mem EXCEPT ![t] = NoPair]
    /\ view' = [view EXCEPT ![t] = IF view[t] \in {"app", "login"} THEN "loading" ELSE view[t]]
    /\ probe' = [probe EXCEPT ![t] = Idle]
    /\ signing' = [signing EXCEPT ![t] = Idle]
    /\ call' = Unheard(t)
    /\ lost' = lost \cup {call[c].pair : c \in InFlight(t)}
    /\ req' = Drop(t, Open(t))
    /\ cached' = [cached EXCEPT ![t] = {}]
    /\ late' = late \ {t}
    /\ spent' = [spent EXCEPT !.reloads = @ + 1]
    /\ UNCHANGED <<serverVars, storage, reused>>

-----------------------------------------------------------------------------
(* Signing out. *)

\* The profile menu's handler calls logout(), which sends the access token.
SignOut(t) ==
    /\ view[t] = "app" /\ signing[t] = Idle
    /\ Ensured(t).token # None
    /\ signing' = [signing EXCEPT ![t] = [kind |-> "out", pair |-> Ensured(t).token]]
    /\ UNCHANGED <<serverVars, mem, storage, view, probe, call, req, cached, late, reused, lost, spent>>

\* DELETE /auth/tokens revokes the row of that access token and no other row.
SignOutServed(t) ==
    /\ signing[t].kind = "out"
    /\ tokens' = [tokens EXCEPT ![signing[t].pair].revoked = TRUE]
    /\ signing' = [signing EXCEPT ![t].kind = "out-done"]
    /\ UNCHANGED <<accounts, mustChange, mem, storage, view, probe, call, req, cached, late, reused, lost, spent>>

\* clearSession, queryClient.clear and the client-side navigation; a network
\* error is ignored, so the server may not have been reached.
SignOutReturns(t) ==
    /\ signing[t].kind \in {"out", "out-done"}
    /\ mem' = [mem EXCEPT ![t] = NoPair]
    /\ storage' = NoPair
    /\ signing' = [signing EXCEPT ![t] = Idle]
    /\ view' = [view EXCEPT ![t] = "login"]
    /\ cached' = [cached EXCEPT ![t] = {}]
    /\ req' = [r \in Requests |-> IF r \in Open(t) THEN [req[r] EXCEPT !.kept = FALSE] ELSE req[r]]
    /\ UNCHANGED <<serverVars, probe, call, late, reused, lost, spent>>

-----------------------------------------------------------------------------
(* A request of a page. *)

\* _request: sent with the token held.  (Without one the page would leave for the login
\* page: SessionTypeOK says that an open page has one.)
SendRequest(r, t) ==
    /\ view[t] = "app" /\ req[r] = NoReq
    /\ Ensured(t).token # None
    /\ mem' = [mem EXCEPT ![t] = Ensured(t)]
    /\ req' = [req EXCEPT ![r] = [NoReq EXCEPT !.state = "sent", !.tab = t, !.retry = TRUE,
                   !.pair = Ensured(t).token, !.user = tokens[Ensured(t).token].user, !.kept = TRUE]]
    /\ UNCHANGED <<serverVars, storage, view, probe, call, signing, cached, late, reused, lost, spent>>

\* _auth (api.py): the handler runs as the token's user, or 401.
ServeRequest(r) ==
    /\ req[r].state = "sent"
    /\ req' = [req EXCEPT ![r].state = "answered",
                          ![r].answer = IF Valid(req[r].pair) THEN "ok" ELSE "401",
                          ![r].performed = IF Valid(req[r].pair) THEN tokens[req[r].pair].user ELSE None]
    /\ UNCHANGED <<serverVars, clientVars, call, cached, late, reused, lost, spent>>

\* Mutant: the answer goes to whoever is signed in when it arrives.
ReceiveOkUnkeyed(r) ==
    /\ req[r].state = "answered" /\ req[r].answer = "ok"
    /\ req' = [req EXCEPT ![r].state = "done"]
    /\ cached' = [cached EXCEPT ![req[r].tab] = @ \cup {req[r].performed}]
    /\ UNCHANGED <<serverVars, clientVars, call, late, reused, lost, spent>>

\* An answer is parsed; one of a query the cache still holds is shown.
ReceiveOk(r) ==
    /\ req[r].state = "answered" /\ req[r].answer = "ok"
    /\ req' = [req EXCEPT ![r].state = "done"]
    /\ cached' = IF req[r].kept THEN [cached EXCEPT ![req[r].tab] = @ \cup {req[r].performed}] ELSE cached
    /\ UNCHANGED <<serverVars, clientVars, call, late, reused, lost, spent>>

\* A 401 of the first attempt: join the rotation in flight, start one, or give up.
Receive401(r) ==
    /\ req[r].state = "answered" /\ req[r].answer = "401" /\ req[r].retry
    /\ LET t == req[r].tab IN
       \/ /\ InFlight(t) # {}
          /\ req' = [req EXCEPT ![r].state = "waiting"]
          /\ UNCHANGED <<clientVars, call, cached, late>>
       \/ /\ InFlight(t) = {} /\ RefreshToken(t) # None
          /\ mem' = [mem EXCEPT ![t].refresh = RefreshToken(t)]
          /\ req' = [req EXCEPT ![r].state = "waiting"]
          /\ call' = [call EXCEPT ![r] = [IdleCall EXCEPT !.tab = t, !.pair = RefreshToken(t),
                                                          !.stage = "sent", !.heard = TRUE]]
          /\ UNCHANGED <<storage, view, probe, signing, cached, late>>
       \/ /\ InFlight(t) = {} /\ RefreshToken(t) = None
          /\ ToLogin(t)
          /\ UNCHANGED call
    /\ UNCHANGED <<serverVars, reused, lost, spent>>

\* A 401 of the second attempt is an ApiError of the caller.
Receive401Again(r) ==
    /\ req[r].state = "answered" /\ req[r].answer = "401" /\ ~req[r].retry
    /\ req' = [req EXCEPT ![r].state = "failed"]
    /\ UNCHANGED <<serverVars, clientVars, call, cached, late, reused, lost, spent>>

-----------------------------------------------------------------------------
(* The rotation: three transactions on the server, then the return. *)

\* lookup_token_by_refresh: a consumed token is reuse and revokes its family.
RotateCheck(c) ==
    /\ call[c].stage = "sent"
    /\ LET n == call[c].pair IN
       IF tokens[n].consumed
         THEN /\ tokens' = RevokeFamily(tokens[n].family)
              /\ reused' = reused \cup {n}
              /\ call' = [call EXCEPT ![c].stage = "refused"]
         ELSE /\ call' = [call EXCEPT ![c].stage = IF tokens[n].revoked THEN "refused" ELSE "checked"]
              /\ UNCHANGED <<tokens, reused>>
    /\ UNCHANGED <<accounts, mustChange, clientVars, req, cached, late, lost, spent>>

\* Mutant: the update does not look at refresh_consumed_at.
RotateConsumeBlind(c) ==
    /\ call[c].stage = "checked"
    /\ tokens' = [tokens EXCEPT ![call[c].pair].consumed = TRUE]
    /\ call' = [call EXCEPT ![c].stage = "consumed"]
    /\ UNCHANGED <<accounts, mustChange, clientVars, req, cached, late, reused, lost, spent>>

\* consume_refresh_token: whoever finds it consumed lost the race.
RotateConsume(c) ==
    /\ call[c].stage = "checked"
    /\ LET n == call[c].pair IN
       IF tokens[n].consumed
         THEN /\ tokens' = RevokeFamily(tokens[n].family)
              /\ reused' = reused \cup {n}
              /\ call' = [call EXCEPT ![c].stage = "refused"]
         ELSE /\ tokens' = [tokens EXCEPT ![n].consumed = TRUE]
              /\ call' = [call EXCEPT ![c].stage = "consumed"]
              /\ UNCHANGED reused
    /\ UNCHANGED <<accounts, mustChange, clientVars, req, cached, late, lost, spent>>

\* Mutant: the successor is issued before the presented token is consumed.
RotateIssueFirst(c) ==
    /\ call[c].stage = "checked"
    /\ tokens' = Append(tokens, NewRow(tokens[call[c].pair].user, tokens[call[c].pair].family))
    /\ call' = [call EXCEPT ![c].stage = "issued", ![c].issued = Len(tokens) + 1]
    /\ UNCHANGED <<accounts, mustChange, clientVars, req, cached, late, reused, lost, spent>>

\* issue_token: the successor in the same family.
RotateIssue(c) ==
    /\ call[c].stage = "consumed"
    /\ tokens' = Append(tokens, NewRow(tokens[call[c].pair].user, tokens[call[c].pair].family))
    /\ call' = [call EXCEPT ![c].stage = "issued", ![c].issued = Len(tokens) + 1]
    /\ UNCHANGED <<accounts, mustChange, clientVars, req, cached, late, reused, lost, spent>>

\* The connection breaks before the answer arrives: fetch rejects.
RotateLost(c) ==
    /\ spent.losses < MaxLosses
    /\ call[c].stage \in {"sent", "issued"} /\ call[c].heard
    /\ call' = [call EXCEPT ![c].stage = "refused"]
    /\ lost' = lost \cup {call[c].pair}
    /\ spent' = [spent EXCEPT !.losses = @ + 1]
    /\ UNCHANGED <<serverVars, clientVars, req, cached, late, reused>>

\* An answer nobody waits for any more.
RotateUnheard(c) ==
    /\ call[c].stage \in {"issued", "refused"} /\ ~call[c].heard
    /\ call' = [call EXCEPT ![c] = IdleCall]
    /\ UNCHANGED <<serverVars, clientVars, req, cached, late, reused, lost, spent>>

\* Mutant: only the request that began the rotation is sent again.
RotationReturnsToOne(c) ==
    /\ call[c].stage = "issued" /\ call[c].heard
    /\ mem' = [mem EXCEPT ![call[c].tab] = PairOf(call[c].issued)]
    /\ storage' = PairOf(call[c].issued)
    /\ req' = [req EXCEPT ![c].state = "sent", ![c].pair = call[c].issued, ![c].retry = FALSE,
                          ![c].answer = None]
    /\ call' = [call EXCEPT ![c] = IdleCall]
    /\ UNCHANGED <<serverVars, view, probe, signing, cached, late, reused, lost, spent>>

\* _doRefresh stores the new pair, refreshInFlight is reset and every waiting
\* request is sent again with the token then held.
RotationReturns(c) ==
    /\ call[c].stage = "issued" /\ call[c].heard
    /\ LET t == call[c].tab IN
       /\ mem' = [mem EXCEPT ![t] = PairOf(call[c].issued)]
       /\ storage' = PairOf(call[c].issued)
       /\ req' = [r \in Requests |->
                    IF r \in Waiting(t)
                      THEN [req[r] EXCEPT !.state = "sent", !.pair = call[c].issued, !.retry = FALSE,
                                          !.answer = None]
                      ELSE req[r]]
       /\ late' = IF mem[t].token # None /\ tokens[mem[t].token].family # tokens[call[c].issued].family
                    THEN late \cup {t} ELSE late
    /\ call' = [call EXCEPT ![c] = IdleCall]
    /\ UNCHANGED <<serverVars, view, probe, signing, cached, reused, lost, spent>>

\* A refusal clears the tokens; the waiting requests find none and leave for the login page.
RotationRefused(c) ==
    /\ call[c].stage = "refused" /\ call[c].heard
    /\ ToLogin(call[c].tab)
    /\ call' = [call EXCEPT ![c] = IdleCall]
    /\ UNCHANGED <<serverVars, reused, lost, spent>>

\* expires_at: an access token reaches its hour.
Expire(n) ==
    /\ n \in DOMAIN tokens /\ ~tokens[n].expired
    /\ spent.expiries < MaxExpiries
    /\ tokens' = [tokens EXCEPT ![n].expired = TRUE]
    /\ spent' = [spent EXCEPT !.expiries = @ + 1]
    /\ UNCHANGED <<accounts, mustChange, clientVars, call, req, cached, late, reused, lost>>

-----------------------------------------------------------------------------
RotateStep(c) == RotateCheck(c) \/ RotateConsume(c) \/ RotateIssue(c)
RotationEnds(c) == RotationReturns(c) \/ RotationRefused(c) \/ RotateUnheard(c)
Receive(r) == ReceiveOk(r) \/ Receive401(r) \/ Receive401Again(r)

SessionSteps(t) ==
    \/ \E u \in Users : Login(t, u) \/ AcceptInvite(t, u)
    \/ LoginReturns(t) \/ GuardStarts(t) \/ GuardReturns(t) \/ ChangePassword(t)
    \/ Reload(t)
    \/ SignOut(t) \/ SignOutServed(t) \/ SignOutReturns(t)
    \/ \E r \in Requests : SendRequest(r, t)

Next ==
    \/ \E t \in Tabs : SessionSteps(t)
    \/ \E r \in Requests : ServeRequest(r) \/ Receive(r)
    \/ \E c \in Requests : RotateStep(c) \/ RotateLost(c) \/ RotationEnds(c)
    \/ \E n \in Pairs : Expire(n)

\* What a request and the rotation it began do next; of these one is enabled at a time.
Carry(r) == ServeRequest(r) \/ Receive(r) \/ RotateStep(r) \/ RotationEnds(r)

\* The server answers what reached it and the browser runs the continuations;
\* nobody is bound to sign in, to reload or to sign out.
Fairness == \A r \in Requests : WF_vars(Carry(r))

Spec == Init /\ [][Next]_vars /\ Fairness

-----------------------------------------------------------------------------
(* Properties. *)

Held == [token : Pairs \cup {None}, refresh : Pairs \cup {None}]
Rows == [user : Users, family : Pairs, consumed : BOOLEAN, revoked : BOOLEAN, expired : BOOLEAN]

\* The shape of the state; every pair a tab, the storage or a call refers to was issued, and
\* an open page has one.
SessionTypeOK ==
    /\ tokens \in Seq(Rows) /\ Len(tokens) <= MaxPairs
    /\ accounts \subseteq Users /\ mustChange \subseteq accounts
    /\ mem \in [Tabs -> Held] /\ storage \in Held
    /\ view \in [Tabs -> {"login", "invite", "closed", "loading", "must-change", "app"}]
    /\ \A t \in Tabs : /\ probe[t].pair \in DOMAIN tokens \cup {None}
                      /\ signing[t].pair \in DOMAIN tokens \cup {None}
                      /\ {mem[t].token, mem[t].refresh} \subseteq DOMAIN tokens \cup {None}
    /\ {storage.token, storage.refresh} \subseteq DOMAIN tokens \cup {None}
    /\ \A t \in Tabs : view[t] = "app" => mem[t].token # None
    /\ \A c \in Requests : call[c].stage # "idle" => call[c].pair \in DOMAIN tokens
    /\ \A r \in Requests : req[r].pair \in DOMAIN tokens \cup {None}

\* tokens.py checks, consumes and issues in three transactions: whatever calls of
\* two tabs fall between them, a refresh token has one successor, so a family
\* never holds two tokens that can still be rotated.
OneSuccessor ==
    \A i, j \in DOMAIN tokens :
        tokens[i].family = tokens[j].family /\ ~tokens[i].consumed /\ ~tokens[j].consumed
        => i = j

\* The rows of a family, and those of them that are consumed.
RowsOf(f) == {n \in DOMAIN tokens : tokens[n].family = f}
ConsumedOf(f) == {n \in RowsOf(f) : tokens[n].consumed}

Families == INSTANCE TokenFamilies WITH
    Families <- Pairs, Tokens <- Pairs,
    issued <- [f \in Pairs |-> RowsOf(f)], consumed <- [f \in Pairs |-> ConsumedOf(f)]

\* Rotation as three transactions implements the chain: however checks, consumptions and
\* issues of several calls interleave with losses, reloads and revocations, a successor
\* comes only when its whole family is consumed, and one at a time.
RotationIsChain == Families!FamiliesSpec

\* The single flight of auth.ts: with one tab open, the server sees a consumed
\* refresh token again only if a page load cut the rotation that consumed it.
ReuseExplained == Cardinality({t \in Tabs : view[t] # "closed"}) <= 1 => reused \subseteq lost

\* Clearing the query cache at sign-in and sign-out: a tab never shows the data of
\* two users, but for a rotation begun before a sign-in that ends after it.
CacheOneUser == \A t \in Tabs : Cardinality(cached[t]) <= 1 \/ t \in late

\* Every call of apiFetch ends: joining a rotation, losing it and the retry never
\* leave a caller waiting.
RequestsSettle == \A r \in Requests : [](r \in UNION {Open(t) : t \in Tabs}
                                          => <>(r \notin UNION {Open(t) : t \in Tabs}))

\* "Called on logout or account switch. Clears in-memory tokens and storage."
\* (auth.ts:36): only signing in puts tokens back into a tab that signed out.
SignedOutHoldsNoTokens ==
    [][\A t \in Tabs : view[t] = "login" /\ mem[t] = NoPair /\ mem'[t] # NoPair
                       => signing[t].kind = "in"]_vars
=============================================================================
