------------------------ MODULE ConsoleSessionProofs ------------------------
(***************************************************************************)
(* The console's session for any number of tabs, users and requests.  The  *)
(* three transactions of tokens.py never give a token two successors, in   *)
(* whatever order the calls of several tabs, sign-ins, losses, page loads  *)
(* and revocations fall between them; a page is open only with a token; a  *)
(* tab shows one user's data; and with one tab the single flight of        *)
(* auth.ts explains every token that is presented twice.                   *)
(***************************************************************************)
EXTENDS ConsoleSession, FiniteSetTheorems, TLAPS

\* A row of the table, and what may stand where a pair is expected.
TokenRow == [user : Users, family : Nat, consumed : BOOLEAN, revoked : BOOLEAN, expired : BOOLEAN]
Ref == DOMAIN tokens \cup {None}
HeldRefs == [token : Ref, refresh : Ref]

SigningRow == [kind : {"idle", "in", "out", "out-done"}, pair : Ref]
CallRow == [tab : Tabs \cup {None}, pair : Ref, issued : Ref, heard : BOOLEAN,
            stage : {"idle", "sent", "checked", "consumed", "issued", "refused"}]
ReqRow == [state : {"idle", "sent", "answered", "waiting", "done", "failed", "dropped"},
           tab : Tabs \cup {None}, pair : Ref, retry : BOOLEAN, answer : {"ok", "401", None},
           performed : Users \cup {None}, user : Users \cup {None}, kept : BOOLEAN]

\* A family is named after its first row.
TokensOK == /\ tokens \in Seq(TokenRow)
            /\ \A i \in DOMAIN tokens : tokens[i].family \in 1..i
HeldOK == mem \in [Tabs -> HeldRefs] /\ storage \in HeldRefs
SigningOK == /\ signing \in [Tabs -> SigningRow]
             /\ \A t \in Tabs : signing[t].kind # "idle" => signing[t].pair # None
ProbeOK == \A t \in Tabs : probe[t].pair \in Ref
CallOK == /\ call \in [Requests -> CallRow]
          /\ \A c \in Requests : call[c].stage # "idle" => call[c].pair # None /\ call[c].tab # None
          /\ \A c \in Requests : call[c].stage = "issued" => call[c].issued # None
ReqOK == /\ req \in [Requests -> ReqRow]
         /\ \A r \in Requests : /\ req[r].state \in {"sent", "answered", "waiting"} => req[r].tab # None
                                /\ req[r].state \in {"sent", "answered"} => req[r].pair # None

References == TokensOK /\ HeldOK /\ SigningOK /\ CallOK /\ ReqOK

\* Between consumption and issue a family has no token left to rotate, and one call only is there.
Family(c) == tokens[call[c].pair].family
Between(c) == call[c].stage = "consumed"
FamilySpent == \A c \in Requests : Between(c) =>
                 \A i \in DOMAIN tokens : tokens[i].family = Family(c) => tokens[i].consumed
OneBetween == \A c, d \in Requests : Between(c) /\ Between(d) /\ Family(c) = Family(d) => c = d

ChainInv == OneSuccessor /\ FamilySpent /\ OneBetween

SessionInv == References /\ ChainInv

LEMMA InitReferences == Init => SessionInv
  BY DEF Init, AtRest, SessionInv, References, TokensOK, HeldOK, SigningOK, CallOK, ReqOK, ChainInv,
         OneSuccessor, FamilySpent, OneBetween, Between, HeldRefs, SigningRow, CallRow, ReqRow, Ref,
         NoPair, Idle, IdleCall, NoReq
-----------------------------------------------------------------------------
(* The table.                                                              *)

\* A statement that only marks rows.
Marks(old, new) ==
    /\ new \in Seq(TokenRow) /\ Len(new) = Len(old)
    /\ \A i \in DOMAIN old : /\ new[i].family = old[i].family /\ new[i].consumed = old[i].consumed
                            /\ new[i].user = old[i].user

LEMMA EndsAt ==
    ASSUME NEW n \in Nat, TokensOK, n # 0 PROVE n \in DOMAIN tokens <=> n <= Len(tokens)
  BY DEF TokensOK

\* A flag of one row.
LEMMA RowFlags ==
    ASSUME NEW row \in TokenRow
    PROVE  /\ [row EXCEPT !.revoked = TRUE] \in TokenRow
           /\ [row EXCEPT !.revoked = TRUE].family = row.family
           /\ [row EXCEPT !.revoked = TRUE].consumed = row.consumed
           /\ [row EXCEPT !.revoked = TRUE].user = row.user
           /\ [row EXCEPT !.expired = TRUE] \in TokenRow
           /\ [row EXCEPT !.expired = TRUE].family = row.family
           /\ [row EXCEPT !.expired = TRUE].consumed = row.consumed
           /\ [row EXCEPT !.expired = TRUE].user = row.user
           /\ [row EXCEPT !.consumed = TRUE] \in TokenRow
           /\ [row EXCEPT !.consumed = TRUE].family = row.family
           /\ [row EXCEPT !.consumed = TRUE].consumed
           /\ [row EXCEPT !.consumed = TRUE].user = row.user
  BY DEF TokenRow

LEMMA RevokeMarks ==
    ASSUME TokensOK, NEW f PROVE Marks(tokens, RevokeFamily(f))
  <1> DEFINE new == RevokeFamily(f)
  <1>1. DOMAIN new = 1..Len(tokens)
    BY DEF TokensOK, RevokeFamily
  <1>2. ASSUME NEW i \in DOMAIN tokens
        PROVE  new[i] \in TokenRow /\ new[i].family = tokens[i].family
               /\ new[i].consumed = tokens[i].consumed /\ new[i].user = tokens[i].user
    <2>1. tokens[i] \in TokenRow
      BY DEF TokensOK
    <2> DEFINE marked == [tokens[i] EXCEPT !.revoked = TRUE]
    <2>2. marked \in TokenRow /\ marked.family = tokens[i].family
          /\ marked.consumed = tokens[i].consumed /\ marked.user = tokens[i].user
      BY <2>1, RowFlags
    <2>3. new[i] = IF tokens[i].family = f THEN marked ELSE tokens[i]
      BY DEF RevokeFamily
    <2> HIDE DEF new, marked
    <2> QED BY <2>1, <2>2, <2>3
  <1>3. new = [i \in 1..Len(tokens) |-> new[i]]
    BY <1>1 DEF RevokeFamily
  <1>4. Len(tokens) \in Nat /\ DOMAIN tokens = 1..Len(tokens)
    BY DEF TokensOK
  <1> HIDE DEF new
  <1>5. new \in Seq(TokenRow) /\ Len(new) = Len(tokens)
    BY <1>1, <1>2, <1>3, <1>4
  <1>6. Marks(tokens, new)
    BY <1>2, <1>5 DEF Marks
  <1> QED BY <1>6 DEF new

LEMMA RowChanges ==
    ASSUME TokensOK, NEW n \in DOMAIN tokens, NEW row \in TokenRow,
           row.family = tokens[n].family, row.consumed = tokens[n].consumed, row.user = tokens[n].user
    PROVE  Marks(tokens, [tokens EXCEPT ![n] = row])
  BY DEF TokensOK, Marks

LEMMA RowReplaced ==
    ASSUME TokensOK, NEW n \in DOMAIN tokens, NEW row \in TokenRow, NEW new,
           new = [tokens EXCEPT ![n] = row]
    PROVE  /\ new \in Seq(TokenRow) /\ Len(new) = Len(tokens)
           /\ new[n] = row /\ \A i \in DOMAIN tokens : i # n => new[i] = tokens[i]
  BY DEF TokensOK

LEMMA FlagMarks ==
    ASSUME TokensOK, NEW n \in DOMAIN tokens
    PROVE  /\ Marks(tokens, [tokens EXCEPT ![n].revoked = TRUE])
           /\ Marks(tokens, [tokens EXCEPT ![n].expired = TRUE])
  <1>1. tokens[n] \in TokenRow
    BY DEF TokensOK
  <1> DEFINE revoked == [tokens[n] EXCEPT !.revoked = TRUE]
             expired == [tokens[n] EXCEPT !.expired = TRUE]
  <1>2. /\ revoked \in TokenRow /\ revoked.family = tokens[n].family
        /\ revoked.consumed = tokens[n].consumed /\ revoked.user = tokens[n].user
        /\ expired \in TokenRow /\ expired.family = tokens[n].family
        /\ expired.consumed = tokens[n].consumed /\ expired.user = tokens[n].user
    BY <1>1, RowFlags
  <1>3. /\ [tokens EXCEPT ![n].revoked = TRUE] = [tokens EXCEPT ![n] = revoked]
        /\ [tokens EXCEPT ![n].expired = TRUE] = [tokens EXCEPT ![n] = expired]
    OBVIOUS
  <1> HIDE DEF revoked, expired
  <1> QED BY <1>2, <1>3, RowChanges

\* consume_refresh_token: the row of the token presented, and it alone.
LEMMA Consumes ==
    ASSUME TokensOK, NEW n \in DOMAIN tokens,
           tokens' = [tokens EXCEPT ![n].consumed = TRUE]
    PROVE  /\ tokens' \in Seq(TokenRow) /\ Len(tokens') = Len(tokens)
           /\ \A i \in DOMAIN tokens : /\ tokens'[i].family = tokens[i].family
                                       /\ tokens'[i].user = tokens[i].user
           /\ \A i \in DOMAIN tokens : i # n => tokens'[i].consumed = tokens[i].consumed
           /\ tokens'[n].consumed
  <1>1. tokens[n] \in TokenRow
    BY DEF TokensOK
  <1> DEFINE row == [tokens[n] EXCEPT !.consumed = TRUE]
  <1>2. row \in TokenRow /\ row.family = tokens[n].family /\ row.consumed
        /\ row.user = tokens[n].user
    BY <1>1, RowFlags
  <1>3. tokens' = [tokens EXCEPT ![n] = row]
    OBVIOUS
  <1> HIDE DEF row
  <1>4. /\ tokens' \in Seq(TokenRow) /\ Len(tokens') = Len(tokens)
        /\ tokens'[n] = row /\ \A i \in DOMAIN tokens : i # n => tokens'[i] = tokens[i]
    BY <1>2, <1>3, RowReplaced
  <1>5. \A i \in DOMAIN tokens : tokens'[i].family = tokens[i].family /\ tokens'[i].user = tokens[i].user
    BY <1>2, <1>4
  <1>6. tokens'[n].consumed
    <2>1. row.consumed
      BY <1>2
    <2>2. tokens'[n] = row
      BY <1>4
    <2> QED BY <2>1, <2>2, Zenon
  <1>7. \A i \in DOMAIN tokens : i # n => tokens'[i].consumed = tokens[i].consumed
    BY <1>4
  <1> QED BY <1>4, <1>5, <1>6, <1>7

\* issue_token: a row more.
LEMMA Issues ==
    ASSUME TokensOK, NEW u \in Users, NEW f \in 1..(Len(tokens) + 1),
           tokens' = Append(tokens, NewRow(u, f))
    PROVE  /\ tokens' \in Seq(TokenRow) /\ Len(tokens') = Len(tokens) + 1
           /\ \A i \in DOMAIN tokens : tokens'[i] = tokens[i]
           /\ tokens'[Len(tokens) + 1].family = f
           /\ TokensOK'
  <1> DEFINE row == NewRow(u, f)
  <1>1. row \in TokenRow /\ row.family = f
    BY DEF NewRow, TokenRow
  <1>2. tokens' = Append(tokens, row)
    OBVIOUS
  <1> HIDE DEF row
  <1> QED BY <1>1, <1>2 DEF TokensOK

\* What a step may do to the table: leave it, mark rows, consume one, add one.
Marked == Marks(tokens, tokens')
Grows == /\ Len(tokens') = Len(tokens) + 1
         /\ \A i \in DOMAIN tokens : tokens'[i] = tokens[i]

LEMMA MarkedTable ==
    ASSUME TokensOK, Marked
    PROVE  TokensOK' /\ DOMAIN tokens' = DOMAIN tokens
  <1>1. /\ tokens' \in Seq(TokenRow) /\ DOMAIN tokens' = DOMAIN tokens
        /\ \A i \in DOMAIN tokens : tokens'[i].family = tokens[i].family
    BY DEF TokensOK, Marked, Marks
  <1> QED BY <1>1 DEF TokensOK

LEMMA ConsumingTable ==
    ASSUME TokensOK, NEW n \in DOMAIN tokens,
           tokens' = [tokens EXCEPT ![n].consumed = TRUE]
    PROVE  TokensOK' /\ DOMAIN tokens' = DOMAIN tokens
  <1>1. /\ tokens' \in Seq(TokenRow) /\ DOMAIN tokens' = DOMAIN tokens
        /\ \A i \in DOMAIN tokens : tokens'[i].family = tokens[i].family
    BY Consumes DEF TokensOK
  <1> QED BY <1>1 DEF TokensOK

\* The pair a call or a sign-out names has a row.
LEMMA CallHasRow ==
    ASSUME CallOK, NEW c \in Requests, call[c].stage # "idle"
    PROVE  call[c].pair \in DOMAIN tokens
  BY DEF CallOK, CallRow, Ref

LEMMA SigningHasRow ==
    ASSUME SigningOK, NEW t \in Tabs, signing[t].kind # "idle"
    PROVE  signing[t].pair \in DOMAIN tokens
  BY DEF SigningOK, SigningRow, Ref

LEMMA RequestHasRow ==
    ASSUME ReqOK, NEW r \in Requests, req[r].state \in {"sent", "answered"}
    PROVE  req[r].pair \in DOMAIN tokens /\ req[r].tab \in Tabs
  BY DEF ReqOK, ReqRow, Ref

LEMMA RowIsTyped ==
    ASSUME TokensOK, NEW n \in DOMAIN tokens
    PROVE  /\ tokens[n] \in TokenRow /\ tokens[n].user \in Users /\ tokens[n].family \in Nat
           /\ n \in Nat /\ n <= Len(tokens) /\ Len(tokens) \in Nat
           /\ tokens[n].family \in 1..(Len(tokens) + 1) /\ tokens[n].family <= n
  <1>1. tokens[n] \in TokenRow /\ n \in Nat /\ Len(tokens) \in Nat /\ n <= Len(tokens)
        /\ tokens[n].family \in 1..n
    BY DEF TokensOK
  <1>2. tokens[n].user \in Users /\ tokens[n].family \in Nat
    BY <1>1 DEF TokenRow
  <1> QED BY <1>1, <1>2

\* What the steps of the table are.
LEMMA LoginGrows ==
    ASSUME TokensOK, NEW t \in Tabs, NEW u \in Users, Login(t, u)
    PROVE  TokensOK' /\ Grows /\ tokens'[Len(tokens) + 1].family = Len(tokens) + 1
  <1>1. tokens' = Append(tokens, NewRow(u, Len(tokens) + 1))
    BY DEF Login
  <1>2. Len(tokens) + 1 \in 1..(Len(tokens) + 1)
    BY DEF TokensOK
  <1> QED BY <1>1, <1>2, Issues DEF Grows

LEMMA IssueGrows ==
    ASSUME TokensOK, CallOK, NEW c \in Requests, RotateIssue(c)
    PROVE  TokensOK' /\ Grows /\ tokens'[Len(tokens) + 1].family = Family(c)
  <1>1. call[c].pair \in DOMAIN tokens
    BY CallHasRow DEF RotateIssue
  <1>2. tokens' = Append(tokens, NewRow(tokens[call[c].pair].user, Family(c)))
    BY DEF RotateIssue, Family
  <1>3. tokens[call[c].pair].user \in Users /\ Family(c) \in 1..(Len(tokens) + 1)
    BY <1>1, RowIsTyped DEF Family
  <1> QED BY <1>2, <1>3, Issues DEF Grows

LEMMA CheckMarks ==
    ASSUME TokensOK, CallOK, NEW c \in Requests, RotateCheck(c)
    PROVE  Marked \/ UNCHANGED tokens
  BY RevokeMarks DEF RotateCheck, Marked
-----------------------------------------------------------------------------
(* The steps that write the table, and all others.                         *)

TableWriter(t) == (\E u \in Users : Login(t, u)) \/ SignOutServed(t)
Rotates(c) == RotateCheck(c) \/ RotateConsume(c) \/ RotateIssue(c)

LEMMA TableFrame ==
    ASSUME Next
    PROVE  \/ UNCHANGED tokens
           \/ \E t \in Tabs : TableWriter(t)
           \/ \E c \in Requests : Rotates(c)
           \/ \E n \in Pairs : Expire(n)
  <1>1. ASSUME NEW t \in Tabs, SessionSteps(t), ~TableWriter(t)
        PROVE  UNCHANGED tokens
    BY <1>1 DEF SessionSteps, TableWriter, AcceptInvite, LoginReturns, GuardStarts, GuardReturns,
                ChangePassword, Reload, SignOut, SignOutReturns, SendRequest, serverVars
  <1>2. ASSUME NEW r \in Requests, ServeRequest(r) \/ Receive(r)
        PROVE  UNCHANGED tokens
    BY <1>2 DEF ServeRequest, Receive, ReceiveOk, Receive401, Receive401Again, serverVars
  <1>3. ASSUME NEW c \in Requests, RotateLost(c) \/ RotationEnds(c)
        PROVE  UNCHANGED tokens
    BY <1>3 DEF RotateLost, RotationEnds, RotationReturns, RotationRefused, RotateUnheard, serverVars
  <1> QED
    BY <1>1, <1>2, <1>3 DEF Next, RotateStep, Rotates

LEMMA ConsumeTable ==
    ASSUME TokensOK, CallOK, NEW c \in Requests, RotateConsume(c)
    PROVE  \/ Marked
           \/ /\ ~tokens[call[c].pair].consumed
              /\ tokens' = [tokens EXCEPT ![call[c].pair].consumed = TRUE]
  <1>1. CASE tokens[call[c].pair].consumed
    BY <1>1, RevokeMarks DEF RotateConsume, Marked
  <1>2. CASE ~tokens[call[c].pair].consumed
    BY <1>2 DEF RotateConsume
  <1> QED BY <1>1, <1>2

LEMMA WriterMarks ==
    ASSUME TokensOK, SigningOK, NEW t \in Tabs, SignOutServed(t)
    PROVE  Marked
  <1>1. signing[t].pair \in DOMAIN tokens
    BY SigningHasRow DEF SignOutServed
  <1> QED BY <1>1, FlagMarks DEF SignOutServed, Marked

LEMMA ExpireMarks ==
    ASSUME TokensOK, NEW n \in Pairs, Expire(n)
    PROVE  Marked
  BY FlagMarks DEF Expire, Marked

\* Every row keeps its number.
LEMMA TableStep ==
    ASSUME References, Next
    PROVE  TokensOK' /\ DOMAIN tokens \subseteq DOMAIN tokens'
  <1> USE DEF References
  <1>1. ASSUME Grows, TokensOK' PROVE DOMAIN tokens \subseteq DOMAIN tokens'
    BY <1>1 DEF Grows, TokensOK
  <1>2. CASE UNCHANGED tokens
    BY <1>2 DEF TokensOK
  <1>3. CASE \E t \in Tabs : TableWriter(t)
    BY <1>1, <1>3, LoginGrows, WriterMarks, MarkedTable DEF TableWriter
  <1>4. ASSUME NEW c \in Requests, Rotates(c)
        PROVE  TokensOK' /\ DOMAIN tokens \subseteq DOMAIN tokens'
    <2>1. CASE RotateCheck(c)
      BY <2>1, <1>2, CheckMarks, MarkedTable
    <2>2. CASE RotateConsume(c)
      <3>1. call[c].pair \in DOMAIN tokens
        BY <2>2, CallHasRow DEF RotateConsume
      <3> QED BY <2>2, <3>1, ConsumeTable, ConsumingTable, MarkedTable
    <2>3. CASE RotateIssue(c)
      BY <2>3, <1>1, IssueGrows
    <2> QED BY <1>4, <2>1, <2>2, <2>3 DEF Rotates
  <1>5. CASE \E n \in Pairs : Expire(n)
    BY <1>5, ExpireMarks, MarkedTable
  <1> QED BY <1>2, <1>3, <1>4, <1>5, TableFrame
-----------------------------------------------------------------------------
(* What the tabs hold.                                                     *)

LEMMA HeldValues ==
    ASSUME HeldOK, NEW t \in Tabs
    PROVE  /\ Ensured(t) \in HeldRefs /\ Ensured(t).token \in Ref /\ RefreshToken(t) \in Ref
           /\ mem[t] \in HeldRefs /\ NoPair \in HeldRefs
           /\ \A n \in Ref : PairOf(n) \in HeldRefs /\ [mem[t] EXCEPT !.refresh = n] \in HeldRefs
  BY DEF HeldOK, HeldRefs, Ensured, RefreshToken, NoPair, PairOf, Ref

\* One tab's pair and the pair in storage are written.
LEMMA HeldWritten ==
    ASSUME HeldOK, UNCHANGED tokens, NEW t \in Tabs, NEW p \in HeldRefs,
           mem' = [mem EXCEPT ![t] = p], storage' \in HeldRefs
    PROVE  HeldOK'
  <1>1. mem' \in [Tabs -> HeldRefs]
    BY DEF HeldOK
  <1>2. HeldRefs' = HeldRefs
    BY DEF HeldRefs, Ref
  <1> QED BY <1>1, <1>2 DEF HeldOK

HeldWriter(t) == LoginReturns(t) \/ GuardStarts(t) \/ ChangePassword(t) \/ Reload(t) \/ SignOutReturns(t)
                 \/ \E r \in Requests : SendRequest(r, t)

LEMMA HeldFrame ==
    ASSUME Next
    PROVE  \/ UNCHANGED <<mem, storage>>
           \/ \E t \in Tabs : HeldWriter(t)
           \/ \E r \in Requests : Receive401(r) \/ RotationReturns(r) \/ RotationRefused(r)
  <1>1. ASSUME NEW t \in Tabs, SessionSteps(t), ~HeldWriter(t)
        PROVE  UNCHANGED <<mem, storage>>
    BY <1>1 DEF SessionSteps, HeldWriter, Login, AcceptInvite, GuardReturns, SignOut, SignOutServed
  <1>2. ASSUME NEW r \in Requests, ServeRequest(r) \/ ReceiveOk(r) \/ Receive401Again(r)
        PROVE  UNCHANGED <<mem, storage>>
    BY <1>2 DEF ServeRequest, ReceiveOk, Receive401Again, clientVars
  <1>3. ASSUME NEW c \in Requests, RotateLost(c) \/ RotateUnheard(c) \/ RotateStep(c)
        PROVE  UNCHANGED <<mem, storage>>
    BY <1>3 DEF RotateLost, RotateUnheard, RotateStep, RotateCheck, RotateConsume, RotateIssue, clientVars
  <1>4. ASSUME NEW n \in Pairs, Expire(n)
        PROVE  UNCHANGED <<mem, storage>>
    BY <1>4 DEF Expire, clientVars
  <1> QED
    BY <1>1, <1>2, <1>3, <1>4 DEF Next, Receive, RotationEnds

LEMMA HeldStep ==
    ASSUME References, Next, DOMAIN tokens \subseteq DOMAIN tokens'
    PROVE  HeldOK'
  <1> USE DEF References
  <1>1. CASE UNCHANGED <<mem, storage>>
    <2>1. HeldRefs \subseteq HeldRefs'
      BY DEF HeldRefs, Ref
    <2> QED BY <1>1, <2>1 DEF HeldOK
  <1>2. ASSUME NEW t \in Tabs, HeldWriter(t) PROVE HeldOK'
    <2>1. storage \in HeldRefs
      BY DEF HeldOK
    <2>2. CASE LoginReturns(t)
      <3>1. PairOf(signing[t].pair) \in HeldRefs
        BY <2>2, HeldValues, SigningHasRow DEF LoginReturns, Ref
      <3> QED BY <2>2, <3>1, HeldWritten DEF LoginReturns, serverVars
    <2>3. CASE GuardStarts(t)
      BY <2>1, <2>3, HeldValues, HeldWritten DEF GuardStarts, serverVars
    <2>4. CASE ChangePassword(t)
      BY <2>1, <2>4, HeldValues, HeldWritten DEF ChangePassword
    <2>5. CASE Reload(t)
      BY <2>1, <2>5, HeldValues, HeldWritten DEF Reload, serverVars
    <2>6. CASE SignOutReturns(t)
      BY <2>6, HeldValues, HeldWritten DEF SignOutReturns, serverVars
    <2>7. CASE \E r \in Requests : SendRequest(r, t)
      BY <2>1, <2>7, HeldValues, HeldWritten DEF SendRequest, serverVars
    <2> QED BY <1>2, <2>2, <2>3, <2>4, <2>5, <2>6, <2>7 DEF HeldWriter
  <1>3. ASSUME NEW r \in Requests, Receive401(r) PROVE HeldOK'
    <2> DEFINE t == req[r].tab
    <2>1. t \in Tabs /\ UNCHANGED tokens /\ storage \in HeldRefs
      BY <1>3, RequestHasRow DEF Receive401, HeldOK, serverVars
    <2>2. CASE UNCHANGED clientVars
      BY <2>1, <2>2, <1>1 DEF clientVars
    <2>3. CASE mem' = [mem EXCEPT ![t].refresh = RefreshToken(t)] /\ UNCHANGED storage
      BY <2>1, <2>3, HeldValues, HeldWritten
    <2>4. CASE ToLogin(t)
      BY <2>1, <2>4, HeldValues, HeldWritten DEF ToLogin
    <2> QED BY <1>3, <2>2, <2>3, <2>4 DEF Receive401
  <1>4. ASSUME NEW c \in Requests, RotationReturns(c) \/ RotationRefused(c) PROVE HeldOK'
    <2> DEFINE t == call[c].tab
    <2>1. t \in Tabs /\ UNCHANGED tokens /\ (call[c].stage = "issued" => call[c].issued \in Ref)
      BY <1>4 DEF RotationReturns, RotationRefused, CallOK, CallRow, serverVars
    <2>2. CASE RotationReturns(c)
      BY <2>1, <2>2, HeldValues, HeldWritten DEF RotationReturns
    <2>3. CASE RotationRefused(c)
      BY <2>1, <2>3, HeldValues, HeldWritten DEF RotationRefused, ToLogin
    <2> QED BY <1>4, <2>2, <2>3
  <1> QED BY <1>1, <1>2, <1>3, <1>4, HeldFrame
-----------------------------------------------------------------------------
(* Signing in and out.                                                     *)

\* One tab's sign-in or sign-out.
LEMMA SigningWritten ==
    ASSUME SigningOK, DOMAIN tokens \subseteq DOMAIN tokens', NEW t \in Tabs, NEW row \in SigningRow',
           row.kind # "idle" => row.pair # None,
           signing' = [signing EXCEPT ![t] = row]
    PROVE  SigningOK'
  <1>1. SigningRow \subseteq SigningRow'
    BY DEF SigningRow, Ref
  <1>2. signing' \in [Tabs -> SigningRow']
    BY <1>1 DEF SigningOK
  <1>3. \A u \in Tabs : signing'[u] = IF u = t THEN row ELSE signing[u]
    BY DEF SigningOK
  <1> QED BY <1>2, <1>3 DEF SigningOK

LEMMA SigningIdle ==
    /\ Idle \in SigningRow /\ Idle.kind = "idle"
    /\ Idle \in SigningRow'
  BY DEF Idle, SigningRow, Ref

SigningWriter(t) == (\E u \in Users : Login(t, u)) \/ LoginReturns(t) \/ Reload(t) \/ SignOut(t)
                    \/ SignOutServed(t) \/ SignOutReturns(t)

LEMMA SigningFrame ==
    ASSUME Next
    PROVE  \/ UNCHANGED signing
           \/ \E t \in Tabs : SigningWriter(t)
           \/ \E r \in Requests : Receive401(r) \/ RotationRefused(r)
  <1>1. ASSUME NEW t \in Tabs, SessionSteps(t), ~SigningWriter(t)
        PROVE  UNCHANGED signing
    BY <1>1 DEF SessionSteps, SigningWriter, AcceptInvite, GuardStarts, GuardReturns, ChangePassword,
                SendRequest
  <1>2. ASSUME NEW r \in Requests, ServeRequest(r) \/ ReceiveOk(r) \/ Receive401Again(r)
        PROVE  UNCHANGED signing
    BY <1>2 DEF ServeRequest, ReceiveOk, Receive401Again, clientVars
  <1>3. ASSUME NEW c \in Requests,
               RotateLost(c) \/ RotateUnheard(c) \/ RotationReturns(c) \/ RotateStep(c)
        PROVE  UNCHANGED signing
    BY <1>3 DEF RotateLost, RotateUnheard, RotationReturns, RotateStep, RotateCheck, RotateConsume,
                RotateIssue, clientVars
  <1>4. ASSUME NEW n \in Pairs, Expire(n)
        PROVE  UNCHANGED signing
    BY <1>4 DEF Expire, clientVars
  <1> QED
    BY <1>1, <1>2, <1>3, <1>4 DEF Next, Receive, RotationEnds

LEMMA SigningStep ==
    ASSUME References, Next, DOMAIN tokens \subseteq DOMAIN tokens'
    PROVE  SigningOK'
  <1> USE DEF References
  <1>1. CASE UNCHANGED signing
    <2>1. SigningRow \subseteq SigningRow'
      BY DEF SigningRow, Ref
    <2> QED BY <1>1, <2>1 DEF SigningOK
  <1>2. ASSUME NEW t \in Tabs, signing' = [signing EXCEPT ![t] = Idle] PROVE SigningOK'
    BY <1>2, SigningIdle, SigningWritten
  <1>3. ASSUME NEW t \in Tabs, SigningWriter(t) PROVE SigningOK'
    <2>1. CASE \E u \in Users : Login(t, u)
      <3> DEFINE row == [kind |-> "in", pair |-> Len(tokens) + 1]
      <3>1. Len(tokens) + 1 \in DOMAIN tokens'
        BY <2>1, LoginGrows DEF Grows, TokensOK
      <3>2. row \in SigningRow' /\ row.pair # None
        BY <3>1, NoneDistinct DEF SigningRow, Ref, TokensOK
      <3>3. signing' = [signing EXCEPT ![t] = row]
        BY <2>1 DEF Login
      <3> HIDE DEF row
      <3> QED BY <3>2, <3>3, SigningWritten
    <2>2. CASE LoginReturns(t) \/ Reload(t) \/ SignOutReturns(t)
      BY <2>2, <1>2 DEF LoginReturns, Reload, SignOutReturns
    <2>3. CASE SignOut(t)
      <3> DEFINE row == [kind |-> "out", pair |-> Ensured(t).token]
      <3>1. row \in SigningRow' /\ row.pair # None
        BY <2>3, HeldValues DEF SignOut, SigningRow, Ref, serverVars
      <3>2. signing' = [signing EXCEPT ![t] = row]
        BY <2>3 DEF SignOut
      <3> HIDE DEF row
      <3> QED BY <3>1, <3>2, SigningWritten
    <2>4. CASE SignOutServed(t)
      <3> DEFINE row == [signing[t] EXCEPT !.kind = "out-done"]
      <3>1. signing[t] \in SigningRow /\ signing[t].pair \in DOMAIN tokens /\ signing[t].pair # None
        BY <2>4, SigningHasRow DEF SignOutServed, SigningOK
      <3>2. row \in SigningRow' /\ row.pair # None
        BY <3>1 DEF SigningRow, Ref
      <3>3. signing' = [signing EXCEPT ![t] = row]
        BY <2>4 DEF SignOutServed
      <3> HIDE DEF row
      <3> QED BY <3>2, <3>3, SigningWritten
    <2> QED BY <1>3, <2>1, <2>2, <2>3, <2>4 DEF SigningWriter
  <1>4. ASSUME NEW r \in Requests, Receive401(r) PROVE SigningOK'
    <2>1. req[r].tab \in Tabs
      BY <1>4, RequestHasRow DEF Receive401
    <2> QED BY <1>1, <1>2, <1>4, <2>1 DEF Receive401, ToLogin, clientVars
  <1>5. ASSUME NEW c \in Requests, RotationRefused(c) PROVE SigningOK'
    <2>1. call[c].tab \in Tabs
      BY <1>5 DEF RotationRefused, CallOK, CallRow
    <2> QED BY <1>2, <1>5, <2>1 DEF RotationRefused, ToLogin
  <1> QED BY <1>1, <1>3, <1>4, <1>5, SigningFrame
-----------------------------------------------------------------------------
(* The calls of the refresh endpoint.                                      *)

\* No call comes between consumption and issue, and none there changes its pair.
CallsQuiet == \A c \in Requests : Between(c)' => Between(c) /\ call'[c].pair = call[c].pair

LEMMA CallWritten ==
    ASSUME CallOK, DOMAIN tokens \subseteq DOMAIN tokens', NEW c \in Requests, NEW row \in CallRow',
           row.stage # "idle" => row.pair # None /\ row.tab # None,
           row.stage = "issued" => row.issued # None,
           call' = [call EXCEPT ![c] = row]
    PROVE  CallOK' /\ (row.stage # "consumed" => CallsQuiet)
  <1>1. CallRow \subseteq CallRow'
    BY DEF CallRow, Ref
  <1>2. call' \in [Requests -> CallRow']
    BY <1>1 DEF CallOK
  <1>3. \A d \in Requests : call'[d] = IF d = c THEN row ELSE call[d]
    BY DEF CallOK
  <1>4. CallOK'
    BY <1>2, <1>3 DEF CallOK
  <1> QED BY <1>3, <1>4 DEF CallsQuiet, Between

\* A page load: the calls of one tab go on unheard.
LEMMA UnheardKeeps ==
    ASSUME CallOK, DOMAIN tokens \subseteq DOMAIN tokens', NEW t, call' = Unheard(t)
    PROVE  CallOK' /\ CallsQuiet
  <1>1. CallRow \subseteq CallRow'
    BY DEF CallRow, Ref
  <1>2. ASSUME NEW row \in CallRow
        PROVE  LET new == [row EXCEPT !.heard = FALSE] IN
               new \in CallRow /\ new.stage = row.stage /\ new.pair = row.pair /\ new.tab = row.tab
               /\ new.issued = row.issued
    BY DEF CallRow
  <1>3. ASSUME NEW c \in Requests
        PROVE  call'[c] \in CallRow /\ call'[c].stage = call[c].stage /\ call'[c].pair = call[c].pair
               /\ call'[c].tab = call[c].tab /\ call'[c].issued = call[c].issued
    <2>1. call[c] \in CallRow
      BY DEF CallOK
    <2>2. call'[c] = IF c \in InFlight(t) THEN [call[c] EXCEPT !.heard = FALSE] ELSE call[c]
      BY DEF Unheard
    <2> QED BY <1>2, <2>1, <2>2
  <1>4. call' \in [Requests -> CallRow']
    BY <1>1, <1>3 DEF Unheard
  <1> QED BY <1>3, <1>4 DEF CallOK, CallsQuiet, Between

\* A call that goes on to another stage.
LEMMA CallGoesOn ==
    ASSUME CallOK, DOMAIN tokens \subseteq DOMAIN tokens', NEW c \in Requests, call[c].stage # "idle",
           NEW stage \in {"checked", "consumed", "refused"},
           call' = [call EXCEPT ![c].stage = stage]
    PROVE  CallOK' /\ (stage # "consumed" => CallsQuiet)
  <1> DEFINE row == [call[c] EXCEPT !.stage = stage]
  <1>1. call[c] \in CallRow /\ call[c].pair # None /\ call[c].tab # None
    BY DEF CallOK
  <1>2. row \in CallRow' /\ row.stage = stage /\ row.pair # None /\ row.tab # None
    BY <1>1 DEF CallRow, Ref
  <1>3. call' = [call EXCEPT ![c] = row]
    OBVIOUS
  <1> HIDE DEF row
  <1> QED BY <1>2, <1>3, CallWritten

LEMMA CallEnds ==
    ASSUME CallOK, DOMAIN tokens \subseteq DOMAIN tokens', NEW c \in Requests,
           call' = [call EXCEPT ![c] = IdleCall]
    PROVE  CallOK' /\ CallsQuiet
  <1>1. IdleCall \in CallRow' /\ IdleCall.stage = "idle"
    BY DEF IdleCall, CallRow, Ref
  <1> QED BY <1>1, CallWritten

LEMMA CallSame ==
    ASSUME CallOK, DOMAIN tokens \subseteq DOMAIN tokens', UNCHANGED call
    PROVE  CallOK' /\ CallsQuiet
  <1>1. CallRow \subseteq CallRow'
    BY DEF CallRow, Ref
  <1> QED BY <1>1 DEF CallOK, CallsQuiet, Between

LEMMA CallBegins ==
    ASSUME References, DOMAIN tokens \subseteq DOMAIN tokens', NEW r \in Requests, Receive401(r)
    PROVE  CallOK' /\ CallsQuiet
  <1> USE DEF References
  <1> DEFINE t == req[r].tab
             row == [IdleCall EXCEPT !.tab = t, !.pair = RefreshToken(t), !.stage = "sent", !.heard = TRUE]
  <1>1. CASE UNCHANGED call
    BY <1>1, CallSame
  <1>2. CASE RefreshToken(t) # None /\ call' = [call EXCEPT ![r] = row]
    <2>1. t \in Tabs /\ RefreshToken(t) \in Ref
      BY RequestHasRow, HeldValues DEF Receive401
    <2>2. IdleCall \in CallRow
      BY DEF IdleCall, CallRow, Ref
    <2>3. RefreshToken(t) # None /\ t # None
      BY <1>2, <2>1, NoneDistinct
    <2>4. row \in CallRow' /\ row.stage = "sent" /\ row.pair # None /\ row.tab # None
      BY <2>1, <2>2, <2>3 DEF CallRow, Ref
    <2> HIDE DEF row
    <2> QED BY <1>2, <2>4, CallWritten
  <1> QED BY <1>1, <1>2 DEF Receive401

LEMMA CallIssues ==
    ASSUME References, DOMAIN tokens \subseteq DOMAIN tokens', NEW c \in Requests, RotateIssue(c)
    PROVE  CallOK' /\ CallsQuiet /\ ~Between(c)'
  <1> USE DEF References
  <1> DEFINE row == [call[c] EXCEPT !.stage = "issued", !.issued = Len(tokens) + 1]
  <1>1. call[c] \in CallRow /\ call[c].pair # None /\ call[c].tab # None
    BY DEF CallOK, RotateIssue
  <1>2. Len(tokens) + 1 \in DOMAIN tokens' /\ Len(tokens) + 1 # None
    BY IssueGrows, NoneDistinct DEF Grows, TokensOK
  <1>3. row \in CallRow' /\ row.stage = "issued" /\ row.pair # None /\ row.tab # None /\ row.issued # None
    BY <1>1, <1>2 DEF CallRow, Ref
  <1>4. call' = [call EXCEPT ![c] = row]
    BY DEF RotateIssue
  <1> HIDE DEF row
  <1>5. call'[c] = row
    BY <1>4 DEF CallOK
  <1> QED BY <1>3, <1>4, <1>5, CallWritten DEF Between

CallWriter(c) == RotateStep(c) \/ RotateLost(c) \/ RotationEnds(c)

LEMMA CallFrame ==
    ASSUME Next
    PROVE  \/ UNCHANGED call
           \/ \E t \in Tabs : Reload(t)
           \/ \E r \in Requests : Receive401(r) \/ CallWriter(r)
  <1>1. ASSUME NEW t \in Tabs, SessionSteps(t), ~Reload(t)
        PROVE  UNCHANGED call
    BY <1>1 DEF SessionSteps, Login, LoginReturns, AcceptInvite, GuardStarts, GuardReturns,
                ChangePassword, SignOut, SignOutServed, SignOutReturns, SendRequest
  <1>2. ASSUME NEW r \in Requests, ServeRequest(r) \/ ReceiveOk(r) \/ Receive401Again(r)
        PROVE  UNCHANGED call
    BY <1>2 DEF ServeRequest, ReceiveOk, Receive401Again
  <1>3. ASSUME NEW n \in Pairs, Expire(n)
        PROVE  UNCHANGED call
    BY <1>3 DEF Expire
  <1> QED
    BY <1>1, <1>2, <1>3 DEF Next, Receive, CallWriter

\* Calls stay within their type, and only RotateConsume puts one between
\* consumption and issue.
LEMMA CallStep ==
    ASSUME References, Next, DOMAIN tokens \subseteq DOMAIN tokens'
    PROVE  CallOK' /\ (CallsQuiet \/ \E c \in Requests : RotateConsume(c))
  <1> USE DEF References
  <1>1. CASE UNCHANGED call
    BY <1>1, CallSame
  <1>2. CASE \E t \in Tabs : Reload(t)
    BY <1>2, UnheardKeeps DEF Reload
  <1>3. ASSUME NEW r \in Requests, Receive401(r) PROVE CallOK' /\ CallsQuiet
    BY <1>3, CallBegins
  <1>4. ASSUME NEW c \in Requests, CallWriter(c)
        PROVE  CallOK' /\ (CallsQuiet \/ RotateConsume(c))
    <2>1. CASE RotateCheck(c)
      BY <2>1, CallGoesOn DEF RotateCheck
    <2>2. CASE RotateConsume(c)
      BY <2>2, CallGoesOn DEF RotateConsume
    <2>3. CASE RotateIssue(c)
      BY <2>3, CallIssues
    <2>4. CASE RotateLost(c)
      BY <2>4, CallGoesOn DEF RotateLost
    <2>5. CASE RotationEnds(c)
      BY <2>5, CallEnds DEF RotationEnds, RotationReturns, RotationRefused, RotateUnheard
    <2> QED BY <1>4, <2>1, <2>2, <2>3, <2>4, <2>5 DEF CallWriter, RotateStep
  <1> QED BY <1>1, <1>2, <1>3, <1>4, CallFrame
-----------------------------------------------------------------------------
(* The requests.                                                           *)

\* A request sent or answered has a tab and a pair.
Bound(row) == /\ row.state \in {"sent", "answered", "waiting"} => row.tab # None
              /\ row.state \in {"sent", "answered"} => row.pair # None

LEMMA ReqByRows ==
    ASSUME DOMAIN tokens \subseteq DOMAIN tokens', NEW f,
           req' = [r \in Requests |-> f[r]],
           \A r \in Requests : f[r] \in ReqRow /\ Bound(f[r])
    PROVE  ReqOK'
  <1>1. ReqRow \subseteq ReqRow'
    BY DEF ReqRow, Ref
  <1> QED BY <1>1 DEF ReqOK, Bound

LEMMA ReqWritten ==
    ASSUME ReqOK, DOMAIN tokens \subseteq DOMAIN tokens', NEW r \in Requests, NEW row \in ReqRow,
           Bound(row), req' = [req EXCEPT ![r] = row]
    PROVE  ReqOK'
  <1>1. ReqRow \subseteq ReqRow'
    BY DEF ReqRow, Ref
  <1>2. req' \in [Requests -> ReqRow']
    BY <1>1 DEF ReqOK
  <1>3. \A q \in Requests : req'[q] = IF q = r THEN row ELSE req[q]
    BY DEF ReqOK
  <1> QED BY <1>2, <1>3 DEF ReqOK, Bound

LEMMA RowsOK ==
    ASSUME ReqOK, NEW r \in Requests
    PROVE  req[r] \in ReqRow /\ Bound(req[r])
  BY DEF ReqOK, Bound

\* The page is replaced.
LEMMA DropKeeps ==
    ASSUME ReqOK, DOMAIN tokens \subseteq DOMAIN tokens', NEW t, NEW rs, req' = Drop(t, rs)
    PROVE  ReqOK'
  <1> DEFINE row == [NoReq EXCEPT !.state = "dropped"]
  <1>1. NoReq \in ReqRow
    BY DEF NoReq, ReqRow, Ref
  <1>2. row \in ReqRow /\ Bound(row)
    BY <1>1 DEF ReqRow, Bound
  <1>3. req' = [r \in Requests |-> IF r \in rs THEN row ELSE req[r]]
    BY DEF Drop
  <1> HIDE DEF row
  <1> DEFINE f == [r \in Requests |-> IF r \in rs THEN row ELSE req[r]]
  <1>4. \A r \in Requests : f[r] \in ReqRow /\ Bound(f[r])
    BY <1>2, RowsOK
  <1> QED BY <1>3, <1>4, ReqByRows

\* The query cache is cleared.
LEMMA CleanKeeps ==
    ASSUME ReqOK, DOMAIN tokens \subseteq DOMAIN tokens', NEW rs,
           req' = [r \in Requests |-> IF r \in rs THEN [req[r] EXCEPT !.kept = FALSE] ELSE req[r]]
    PROVE  ReqOK'
  <1> DEFINE f == [r \in Requests |-> IF r \in rs THEN [req[r] EXCEPT !.kept = FALSE] ELSE req[r]]
  <1>1. ASSUME NEW r \in Requests PROVE f[r] \in ReqRow /\ Bound(f[r])
    <2> DEFINE row == [req[r] EXCEPT !.kept = FALSE]
    <2>1. req[r] \in ReqRow /\ Bound(req[r])
      BY RowsOK
    <2>2. row \in ReqRow /\ Bound(row)
      BY <2>1 DEF ReqRow, Bound
    <2> HIDE DEF row
    <2>3. f[r] = IF r \in rs THEN row ELSE req[r]
      BY DEF row
    <2> QED BY <2>1, <2>2, <2>3
  <1>2. req' = [r \in Requests |-> f[r]]
    OBVIOUS
  <1> HIDE DEF f
  <1> QED BY <1>1, <1>2, ReqByRows

ReqWriter(t) == LoginReturns(t) \/ Reload(t) \/ SignOutReturns(t) \/ \E r \in Requests : SendRequest(r, t)

LEMMA ReqFrame ==
    ASSUME Next
    PROVE  \/ UNCHANGED req
           \/ \E t \in Tabs : ReqWriter(t)
           \/ \E r \in Requests : ServeRequest(r) \/ Receive(r) \/ RotationReturns(r) \/ RotationRefused(r)
  <1>1. ASSUME NEW t \in Tabs, SessionSteps(t), ~ReqWriter(t)
        PROVE  UNCHANGED req
    BY <1>1 DEF SessionSteps, ReqWriter, Login, AcceptInvite, GuardStarts, GuardReturns,
                ChangePassword, SignOut, SignOutServed
  <1>2. ASSUME NEW c \in Requests, RotateLost(c) \/ RotateUnheard(c) \/ RotateStep(c)
        PROVE  UNCHANGED req
    BY <1>2 DEF RotateLost, RotateUnheard, RotateStep, RotateCheck, RotateConsume, RotateIssue
  <1>3. ASSUME NEW n \in Pairs, Expire(n)
        PROVE  UNCHANGED req
    BY <1>3 DEF Expire
  <1> QED
    BY <1>1, <1>2, <1>3 DEF Next, RotationEnds

LEMMA SendKeeps ==
    ASSUME References, DOMAIN tokens \subseteq DOMAIN tokens', NEW r \in Requests, NEW t \in Tabs,
           SendRequest(r, t)
    PROVE  ReqOK'
  <1> USE DEF References
  <1> DEFINE n == Ensured(t).token
             u == tokens[n].user
             row == [NoReq EXCEPT !.state = "sent", !.tab = t, !.retry = TRUE, !.pair = n,
                                  !.user = u, !.kept = TRUE]
  <1>1. n \in DOMAIN tokens /\ n # None
    BY HeldValues, NoneDistinct DEF SendRequest, Ref
  <1>2. u \in Users
    BY <1>1, RowIsTyped
  <1>3. req' = [req EXCEPT ![r] = row]
    BY DEF SendRequest
  <1>4. NoReq \in ReqRow /\ t # None
    BY NoneDistinct DEF NoReq, ReqRow, Ref
  <1> HIDE DEF n, u
  <1>5. row \in ReqRow /\ Bound(row)
    BY <1>1, <1>2, <1>4 DEF ReqRow, Ref, Bound
  <1> HIDE DEF row
  <1> QED BY <1>3, <1>5, ReqWritten

LEMMA ServeKeeps ==
    ASSUME References, DOMAIN tokens \subseteq DOMAIN tokens', NEW r \in Requests, ServeRequest(r)
    PROVE  ReqOK'
  <1> USE DEF References
  <1> DEFINE answer == IF Valid(req[r].pair) THEN "ok" ELSE "401"
             performed == IF Valid(req[r].pair) THEN tokens[req[r].pair].user ELSE None
             row == [req[r] EXCEPT !.state = "answered", !.answer = answer, !.performed = performed]
  <1>1. req[r] \in ReqRow /\ Bound(req[r]) /\ req[r].state = "sent"
    BY RowsOK DEF ServeRequest
  <1>2. performed \in Users \cup {None} /\ answer \in {"ok", "401"}
    BY RequestHasRow, RowIsTyped DEF ServeRequest
  <1>3. req' = [req EXCEPT ![r] = row]
    BY DEF ServeRequest
  <1> HIDE DEF answer, performed
  <1>4. row \in ReqRow /\ Bound(row)
    BY <1>1, <1>2 DEF ReqRow, Bound
  <1> HIDE DEF row
  <1> QED BY <1>3, <1>4, ReqWritten

\* A request that ends or begins to wait for the rotation.
LEMMA StateKeeps ==
    ASSUME ReqOK, DOMAIN tokens \subseteq DOMAIN tokens', NEW r \in Requests, req[r].state = "answered",
           NEW state \in {"done", "failed", "waiting"}, req' = [req EXCEPT ![r].state = state]
    PROVE  ReqOK'
  <1> DEFINE row == [req[r] EXCEPT !.state = state]
  <1>1. req[r] \in ReqRow /\ Bound(req[r])
    BY RowsOK
  <1>2. row \in ReqRow /\ Bound(row)
    BY <1>1 DEF ReqRow, Bound
  <1>3. req' = [req EXCEPT ![r] = row]
    OBVIOUS
  <1> HIDE DEF row
  <1> QED BY <1>2, <1>3, ReqWritten

LEMMA AnswersKeep ==
    ASSUME ReqOK, DOMAIN tokens \subseteq DOMAIN tokens', NEW r \in Requests, Receive(r)
    PROVE  ReqOK'
  <1>1. CASE ReceiveOk(r)
    BY <1>1, StateKeeps DEF ReceiveOk
  <1>2. CASE Receive401Again(r)
    BY <1>2, StateKeeps DEF Receive401Again
  <1>3. CASE Receive401(r)
    <2>1. CASE req' = [req EXCEPT ![r].state = "waiting"]
      BY <1>3, <2>1, StateKeeps DEF Receive401
    <2>2. CASE ToLogin(req[r].tab)
      BY <2>2, DropKeeps DEF ToLogin
    <2> QED BY <1>3, <2>1, <2>2 DEF Receive401
  <1> QED BY <1>1, <1>2, <1>3 DEF Receive

\* Every request that waited is sent again with the new pair.
LEMMA SentAgainKeeps ==
    ASSUME References, DOMAIN tokens \subseteq DOMAIN tokens', NEW c \in Requests, RotationReturns(c)
    PROVE  ReqOK'
  <1> USE DEF References
  <1> DEFINE n == call[c].issued
             again(r) == [req[r] EXCEPT !.state = "sent", !.pair = n, !.retry = FALSE, !.answer = None]
             f == [r \in Requests |-> IF r \in Waiting(call[c].tab) THEN again(r) ELSE req[r]]
  <1>1. n \in Ref /\ n # None
    BY DEF RotationReturns, CallOK, CallRow
  <1>2. req' = f
    BY DEF RotationReturns
  <1>3. ASSUME NEW r \in Requests PROVE f[r] \in ReqRow /\ Bound(f[r])
    <2>1. req[r] \in ReqRow /\ Bound(req[r])
      BY RowsOK
    <2>2. r \in Waiting(call[c].tab) => req[r].state = "waiting"
      BY DEF Waiting
    <2>3. f[r] = IF r \in Waiting(call[c].tab) THEN again(r) ELSE req[r]
      OBVIOUS
    <2> HIDE DEF n, f
    <2>4. req[r].state = "waiting" => again(r) \in ReqRow /\ Bound(again(r))
      BY <1>1, <2>1 DEF ReqRow, Bound
    <2> HIDE DEF again
    <2> QED BY <2>1, <2>2, <2>3, <2>4
  <1>4. req' = [r \in Requests |-> f[r]]
    BY <1>2
  <1> HIDE DEF f
  <1> QED BY <1>3, <1>4, ReqByRows

LEMMA ReqStep ==
    ASSUME References, Next, DOMAIN tokens \subseteq DOMAIN tokens'
    PROVE  ReqOK'
  <1> USE DEF References
  <1>1. CASE UNCHANGED req
    <2>1. ReqRow \subseteq ReqRow'
      BY DEF ReqRow, Ref
    <2> QED BY <1>1, <2>1 DEF ReqOK
  <1>2. ASSUME NEW t \in Tabs, ReqWriter(t) PROVE ReqOK'
    <2>1. CASE LoginReturns(t)
      BY <2>1, CleanKeeps DEF LoginReturns
    <2>2. CASE SignOutReturns(t)
      BY <2>2, CleanKeeps DEF SignOutReturns
    <2>3. CASE Reload(t)
      BY <2>3, DropKeeps DEF Reload
    <2>4. CASE \E r \in Requests : SendRequest(r, t)
      BY <2>4, SendKeeps
    <2> QED BY <1>2, <2>1, <2>2, <2>3, <2>4 DEF ReqWriter
  <1>3. ASSUME NEW r \in Requests, ServeRequest(r) \/ Receive(r) PROVE ReqOK'
    BY <1>3, ServeKeeps, AnswersKeep
  <1>4. ASSUME NEW c \in Requests, RotationReturns(c) \/ RotationRefused(c) PROVE ReqOK'
    <2>1. CASE RotationReturns(c)
      BY <2>1, SentAgainKeeps
    <2>2. CASE RotationRefused(c)
      BY <2>2, DropKeeps DEF RotationRefused, ToLogin
    <2> QED BY <1>4, <2>1, <2>2
  <1> QED BY <1>1, <1>2, <1>3, <1>4, ReqFrame

LEMMA ReferencesStep ==
    ASSUME References, [Next]_vars
    PROVE  References'
  <1>1. CASE Next
    BY <1>1, TableStep, HeldStep, SigningStep, CallStep, ReqStep DEF References
  <1>2. CASE UNCHANGED vars
    BY <1>2 DEF vars, References, TokensOK, HeldOK, SigningOK, CallOK, ReqOK, HeldRefs, SigningRow,
                CallRow, ReqRow, Ref
  <1> QED BY <1>1, <1>2
-----------------------------------------------------------------------------
(* The chain.                                                              *)

\* Rows are marked at most, and no call comes between consumption and issue.
LEMMA QuietChain ==
    ASSUME References, ChainInv, Marked \/ UNCHANGED tokens, CallsQuiet
    PROVE  ChainInv'
  <1>1. /\ DOMAIN tokens' = DOMAIN tokens
        /\ \A i \in DOMAIN tokens : tokens'[i].family = tokens[i].family
                                    /\ tokens'[i].consumed = tokens[i].consumed
    BY DEF References, TokensOK, Marked, Marks
  <1>2. OneSuccessor'
    BY <1>1 DEF ChainInv, OneSuccessor
  <1>3. ASSUME NEW c \in Requests, Between(c)'
        PROVE  Between(c) /\ call[c].pair \in DOMAIN tokens /\ Family(c)' = Family(c)
    <2>1. Between(c) /\ call'[c].pair = call[c].pair
      BY <1>3 DEF CallsQuiet
    <2>2. call[c].pair \in DOMAIN tokens
      BY <2>1, CallHasRow DEF References, Between
    <2> QED BY <1>1, <2>1, <2>2 DEF Family
  <1>4. FamilySpent'
    BY <1>1, <1>3 DEF ChainInv, FamilySpent
  <1>5. OneBetween'
    BY <1>3 DEF ChainInv, OneBetween
  <1> QED BY <1>2, <1>4, <1>5 DEF ChainInv

\* A family of its own.
LEMMA LoginChain ==
    ASSUME References, ChainInv, NEW t \in Tabs, NEW u \in Users, Login(t, u)
    PROVE  ChainInv'
  <1> DEFINE new == Len(tokens) + 1
  <1>1. /\ DOMAIN tokens' = DOMAIN tokens \cup {new} /\ new \notin DOMAIN tokens
        /\ \A i \in DOMAIN tokens : tokens'[i] = tokens[i]
        /\ tokens'[new].family = new
        /\ \A i \in DOMAIN tokens : tokens[i].family # new
    <2>1. TokensOK' /\ Grows /\ tokens'[new].family = new
      BY LoginGrows DEF References
    <2>2. DOMAIN tokens' = DOMAIN tokens \cup {new} /\ new \notin DOMAIN tokens
      BY <2>1 DEF References, TokensOK, Grows
    <2>3. \A i \in DOMAIN tokens : tokens[i].family # new
      BY RowIsTyped DEF References, TokensOK, TokenRow
    <2> QED BY <2>1, <2>2, <2>3 DEF Grows
  <1>2. UNCHANGED call
    BY DEF Login
  <1> HIDE DEF new
  <1>3. OneSuccessor'
    BY <1>1 DEF ChainInv, OneSuccessor
  <1>4. ASSUME NEW c \in Requests, Between(c)'
        PROVE  Between(c) /\ Family(c)' = Family(c) /\ Family(c) # new
    <2>1. Between(c) /\ call[c].pair \in DOMAIN tokens
      BY <1>2, <1>4, CallHasRow DEF References, Between
    <2> QED BY <1>1, <1>2, <2>1 DEF Family
  <1>5. FamilySpent'
    BY <1>1, <1>4 DEF ChainInv, FamilySpent
  <1>6. OneBetween'
    BY <1>4 DEF ChainInv, OneBetween
  <1> QED BY <1>3, <1>5, <1>6 DEF ChainInv

\* The successor: every other row of the family is consumed, and no other call
\* of the family stands before its issue.
LEMMA IssueChain ==
    ASSUME References, ChainInv, NEW c \in Requests, RotateIssue(c)
    PROVE  ChainInv'
  <1> DEFINE new == Len(tokens) + 1
             f == Family(c)
  <1>1. /\ DOMAIN tokens' = DOMAIN tokens \cup {new} /\ new \notin DOMAIN tokens
        /\ \A i \in DOMAIN tokens : tokens'[i] = tokens[i]
        /\ tokens'[new].family = f /\ DOMAIN tokens \subseteq DOMAIN tokens'
    <2>1. TokensOK' /\ Grows /\ tokens'[new].family = f
      BY IssueGrows DEF References
    <2>2. DOMAIN tokens' = DOMAIN tokens \cup {new} /\ new \notin DOMAIN tokens
      BY <2>1 DEF References, TokensOK, Grows
    <2> QED BY <2>1, <2>2 DEF Grows
  <1>2. Between(c) /\ CallsQuiet /\ ~Between(c)'
    BY <1>1, CallIssues DEF RotateIssue, Between
  <1>3. \A i \in DOMAIN tokens : tokens[i].family = f => tokens[i].consumed
    BY <1>2 DEF ChainInv, FamilySpent
  <1> HIDE DEF new, f
  <1>4. OneSuccessor'
    BY <1>1, <1>3 DEF ChainInv, OneSuccessor
  <1>5. ASSUME NEW d \in Requests, Between(d)'
        PROVE  Between(d) /\ Family(d)' = Family(d) /\ Family(d) # f
    <2>1. Between(d) /\ call'[d].pair = call[d].pair
      BY <1>2, <1>5 DEF CallsQuiet
    <2>2. call[d].pair \in DOMAIN tokens
      BY <2>1, CallHasRow DEF References, Between
    <2>3. d # c
      BY <1>2, <1>5
    <2>4. Family(d) # f
      BY <1>2, <2>1, <2>3 DEF ChainInv, OneBetween, f
    <2> QED BY <1>1, <2>1, <2>2, <2>4 DEF Family
  <1>6. FamilySpent'
    BY <1>1, <1>5 DEF ChainInv, FamilySpent
  <1>7. OneBetween'
    BY <1>5 DEF ChainInv, OneBetween
  <1> QED BY <1>4, <1>6, <1>7 DEF ChainInv

\* The only token left to rotate is consumed: by one call.
LEMMA ConsumeChain ==
    ASSUME References, ChainInv, NEW c \in Requests, RotateConsume(c),
           ~tokens[call[c].pair].consumed,
           tokens' = [tokens EXCEPT ![call[c].pair].consumed = TRUE]
    PROVE  ChainInv'
  <1> DEFINE n == call[c].pair
  <1>1. n \in DOMAIN tokens
    BY CallHasRow DEF References, RotateConsume
  <1>2. /\ DOMAIN tokens' = DOMAIN tokens
        /\ \A i \in DOMAIN tokens : tokens'[i].family = tokens[i].family
        /\ \A i \in DOMAIN tokens : i # n => tokens'[i].consumed = tokens[i].consumed
        /\ tokens'[n].consumed
    BY <1>1, Consumes, ConsumingTable DEF References
  <1>3. \A d \in Requests : /\ call'[d].pair = call[d].pair
                            /\ d # c => call'[d].stage = call[d].stage
    <2>1. call' = [call EXCEPT ![c].stage = "consumed"]
      BY DEF RotateConsume
    <2>2. call \in [Requests -> CallRow] /\ call[c] \in CallRow
      BY DEF References, CallOK
    <2>3. [call[c] EXCEPT !.stage = "consumed"].pair = call[c].pair
      BY <2>2 DEF CallRow
    <2> QED BY <2>1, <2>2, <2>3
  <1>4. ~tokens[n].consumed
    OBVIOUS
  <1>5. \A i \in DOMAIN tokens : tokens[i].family = tokens[n].family /\ i # n => tokens[i].consumed
    BY <1>1, <1>4 DEF ChainInv, OneSuccessor
  <1>6. \A d \in Requests : Between(d) => Family(d) # tokens[n].family
    BY <1>1, <1>4 DEF ChainInv, FamilySpent
  <1> HIDE DEF n
  <1>7. OneSuccessor'
    <2>1. ASSUME NEW i \in DOMAIN tokens, ~tokens'[i].consumed PROVE ~tokens[i].consumed
      BY <1>2, <2>1
    <2> QED BY <1>2, <2>1 DEF ChainInv, OneSuccessor
  <1>8. ASSUME NEW d \in Requests, Between(d)', d # c
        PROVE  Between(d) /\ Family(d)' = Family(d)
    <2>1. Between(d)
      BY <1>3, <1>8 DEF Between
    <2>2. call[d].pair \in DOMAIN tokens
      BY <2>1, CallHasRow DEF References, Between
    <2> QED BY <1>2, <1>3, <2>1, <2>2 DEF Family
  <1>9. Family(c)' = tokens[n].family
    BY <1>1, <1>2, <1>3 DEF Family, n
  <1>10. \A i \in DOMAIN tokens : tokens[i].consumed => tokens'[i].consumed
    BY <1>2
  <1>11. FamilySpent'
    <2>1. ASSUME NEW d \in Requests, Between(d)', NEW i \in DOMAIN tokens, tokens'[i].family = Family(d)'
          PROVE  tokens'[i].consumed
      <3>1. CASE d = c
        BY <1>2, <1>5, <1>9, <1>10, <2>1, <3>1
      <3>2. CASE d # c
        BY <1>2, <1>8, <1>10, <2>1, <3>2 DEF ChainInv, FamilySpent
      <3> QED BY <3>1, <3>2
    <2> QED BY <1>2, <2>1 DEF FamilySpent
  <1>12. OneBetween'
    BY <1>6, <1>8, <1>9 DEF ChainInv, OneBetween
  <1> QED BY <1>7, <1>11, <1>12 DEF ChainInv

LEMMA ChainStep ==
    ASSUME References, ChainInv, [Next]_vars
    PROVE  ChainInv'
  <1>1. CASE UNCHANGED vars
    BY <1>1 DEF vars, ChainInv, OneSuccessor, FamilySpent, OneBetween, Between, Family
  <1>2. CASE Next
    <2>1. DOMAIN tokens \subseteq DOMAIN tokens'
      BY <1>2, TableStep
    <2>2. CASE \E t \in Tabs, u \in Users : Login(t, u)
      BY <2>2, LoginChain
    <2>3. CASE \E c \in Requests : RotateIssue(c)
      BY <2>3, IssueChain
    <2>4. ASSUME NEW c \in Requests, RotateConsume(c) PROVE ChainInv'
      <3>1. CASE tokens[call[c].pair].consumed
        <4>1. Marked
          BY <2>4, <3>1, RevokeMarks DEF References, RotateConsume, Marked
        <4>2. CallsQuiet
          BY <2>1, <2>4, <3>1, CallGoesOn DEF References, RotateConsume
        <4> QED BY <4>1, <4>2, QuietChain
      <3>2. CASE ~tokens[call[c].pair].consumed
        BY <2>4, <3>2, ConsumeChain DEF RotateConsume
      <3> QED BY <3>1, <3>2
    <2>5. CASE /\ ~\E t \in Tabs, u \in Users : Login(t, u)
               /\ ~\E c \in Requests : RotateConsume(c) \/ RotateIssue(c)
      <3>1. Marked \/ UNCHANGED tokens
        BY <1>2, <2>5, TableFrame, WriterMarks, CheckMarks, ExpireMarks
           DEF References, TableWriter, Rotates
      <3>2. CallsQuiet
        BY <1>2, <2>1, <2>5, CallStep
      <3> QED BY <3>1, <3>2, QuietChain
    <2> QED BY <2>2, <2>3, <2>4, <2>5
  <1> QED BY <1>1, <1>2
-----------------------------------------------------------------------------
(* A request rotates once at most, so the pairs have a bound.              *)

\* A request that will not begin a rotation any more, and one whose rotation has issued too.
Past(r) == req[r].state # "idle" /\ ~(req[r].state \in {"sent", "answered"} /\ req[r].retry)
Issuing(r) == call[r].stage \in {"sent", "checked", "consumed"}
Rotated == {r \in Requests : Past(r) /\ ~Issuing(r)}

Spent == [logins : 0..MaxLogins, expiries : Nat, reloads : Nat, losses : Nat]

CountInv ==
    /\ spent \in Spent
    /\ \A r \in Requests : call[r].stage # "idle" => Past(r)
    /\ Len(tokens) <= spent.logins + Cardinality(Rotated)

\* What a step may do to a request and to its rotation.
ReqMove(r) ==
    \/ req'[r].state = req[r].state /\ req'[r].retry = req[r].retry
    \/ req[r].state = "idle"
    \/ req[r].state = "sent" /\ req'[r].state = "answered" /\ req'[r].retry = req[r].retry
    \/ req'[r].state \in {"done", "failed", "waiting", "dropped"}
    \/ req'[r].state = "sent" /\ ~req'[r].retry
CallMove(r) ==
    \/ call'[r].stage = call[r].stage
    \/ req[r].state = "answered" /\ req[r].retry /\ req'[r].state = "waiting"
    \/ Issuing(r)
    \/ call[r].stage \in {"issued", "refused"} /\ call'[r].stage \in {"idle", "refused"}

LEMMA PastStays ==
    ASSUME NEW r, Past(r), ReqMove(r)
    PROVE  Past(r)'
  BY DEF Past, ReqMove

LEMMA RowMoves ==
    ASSUME References, NEW r \in Requests, NEW row, req' = [req EXCEPT ![r] = row],
           NEW q \in Requests, q # r
    PROVE  ReqMove(q)
  BY DEF References, ReqOK, ReqMove

LEMMA ReqMoves ==
    ASSUME References, Next, NEW q \in Requests
    PROVE  ReqMove(q)
  <1> USE DEF References
  <1>0. req[q] \in ReqRow /\ req \in [Requests -> ReqRow]
    BY DEF ReqOK
  <1>1. CASE UNCHANGED req
    BY <1>1 DEF ReqMove
  <1>2. ASSUME NEW t, NEW rs, req' = Drop(t, rs) PROVE ReqMove(q)
    <2>1. req'[q] = IF q \in rs THEN [NoReq EXCEPT !.state = "dropped"] ELSE req[q]
      BY <1>2 DEF Drop
    <2>2. [NoReq EXCEPT !.state = "dropped"].state = "dropped"
      BY DEF NoReq
    <2> QED BY <2>1, <2>2 DEF ReqMove
  <1>3. ASSUME NEW rs,
               req' = [r \in Requests |-> IF r \in rs THEN [req[r] EXCEPT !.kept = FALSE] ELSE req[r]]
        PROVE  ReqMove(q)
    <2> DEFINE row == [req[q] EXCEPT !.kept = FALSE]
    <2>1. req'[q] = IF q \in rs THEN row ELSE req[q]
      BY <1>3
    <2>2. row.state = req[q].state /\ row.retry = req[q].retry
      BY <1>0 DEF ReqRow
    <2> HIDE DEF row
    <2> QED BY <2>1, <2>2 DEF ReqMove
  <1>4. ASSUME NEW r \in Requests, NEW state \in {"done", "failed", "waiting"},
               req' = [req EXCEPT ![r].state = state]
        PROVE  ReqMove(q)
    <2> DEFINE row == [req[r] EXCEPT !.state = state]
    <2>1. req'[q] = IF q = r THEN row ELSE req[q]
      BY <1>0, <1>4
    <2>2. row.state = state
      BY <1>0 DEF ReqRow
    <2> HIDE DEF row
    <2> QED BY <2>1, <2>2 DEF ReqMove
  <1>5. ASSUME NEW t \in Tabs, ReqWriter(t) PROVE ReqMove(q)
    <2>1. CASE LoginReturns(t)
      BY <2>1, <1>3 DEF LoginReturns
    <2>2. CASE SignOutReturns(t)
      BY <2>2, <1>3 DEF SignOutReturns
    <2>3. CASE Reload(t)
      BY <2>3, <1>2 DEF Reload
    <2>4. ASSUME NEW r \in Requests, SendRequest(r, t) PROVE ReqMove(q)
      <3>1. CASE q = r
        <4>1. req[q] = NoReq /\ NoReq.state = "idle"
          BY <2>4, <3>1 DEF SendRequest, NoReq
        <4> QED BY <4>1 DEF ReqMove
      <3>2. CASE q # r
        BY <2>4, <3>2, RowMoves DEF SendRequest
      <3> QED BY <3>1, <3>2
    <2> QED BY <1>5, <2>1, <2>2, <2>3, <2>4 DEF ReqWriter
  <1>6. ASSUME NEW r \in Requests, ServeRequest(r) PROVE ReqMove(q)
    <2> DEFINE answer == IF Valid(req[r].pair) THEN "ok" ELSE "401"
               performed == IF Valid(req[r].pair) THEN tokens[req[r].pair].user ELSE None
               row == [req[r] EXCEPT !.state = "answered", !.answer = answer, !.performed = performed]
    <2>1. req' = [req EXCEPT ![r] = row] /\ req[r].state = "sent"
      BY <1>6 DEF ServeRequest
    <2> HIDE DEF answer, performed
    <2>2. row.state = "answered" /\ row.retry = req[r].retry
      BY <1>0 DEF ReqRow
    <2> HIDE DEF row
    <2>3. req'[q] = IF q = r THEN row ELSE req[q]
      BY <1>0, <2>1
    <2> QED BY <2>1, <2>2, <2>3 DEF ReqMove
  <1>7. ASSUME NEW r \in Requests, Receive(r) PROVE ReqMove(q)
    BY <1>2, <1>4, <1>7 DEF Receive, ReceiveOk, Receive401Again, Receive401, ToLogin
  <1>8. ASSUME NEW c \in Requests, RotationReturns(c) PROVE ReqMove(q)
    <2> DEFINE row == [req[q] EXCEPT !.state = "sent", !.pair = call[c].issued, !.retry = FALSE,
                                     !.answer = None]
    <2>1. req'[q] = IF q \in Waiting(call[c].tab) THEN row ELSE req[q]
      BY <1>8 DEF RotationReturns
    <2>2. row.state = "sent" /\ ~row.retry
      BY <1>0 DEF ReqRow
    <2> HIDE DEF row
    <2> QED BY <2>1, <2>2 DEF ReqMove
  <1>9. ASSUME NEW c \in Requests, RotationRefused(c) PROVE ReqMove(q)
    BY <1>2, <1>9 DEF RotationRefused, ToLogin
  <1> QED BY <1>1, <1>5, <1>6, <1>7, <1>8, <1>9, ReqFrame

LEMMA CallMoves ==
    ASSUME References, Next, NEW q \in Requests
    PROVE  CallMove(q)
  <1> USE DEF References
  <1>0. call[q] \in CallRow /\ call \in [Requests -> CallRow]
    BY DEF CallOK
  <1>1. CASE UNCHANGED call
    BY <1>1 DEF CallMove
  <1>2. ASSUME NEW t, call' = Unheard(t) PROVE CallMove(q)
    <2>1. call'[q] = IF q \in InFlight(t) THEN [call[q] EXCEPT !.heard = FALSE] ELSE call[q]
      BY <1>2 DEF Unheard
    <2>2. [call[q] EXCEPT !.heard = FALSE].stage = call[q].stage
      BY <1>0 DEF CallRow
    <2> QED BY <2>1, <2>2 DEF CallMove
  <1>3. ASSUME NEW c \in Requests, NEW row, call' = [call EXCEPT ![c] = row], q # c
        PROVE  CallMove(q)
    BY <1>0, <1>3 DEF CallMove
  <1>4. ASSUME NEW r \in Requests, Receive401(r) PROVE CallMove(q)
    <2>1. CASE UNCHANGED call
      BY <2>1, <1>1
    <2>2. CASE ~UNCHANGED call
      <3>1. req' = [req EXCEPT ![r].state = "waiting"] /\ req[r].state = "answered" /\ req[r].retry
        BY <1>4, <2>2 DEF Receive401
      <3>2. q # r => CallMove(q)
        BY <1>3, <1>4, <2>2 DEF Receive401
      <3>3. [req[r] EXCEPT !.state = "waiting"].state = "waiting" /\ req'[r] = [req[r] EXCEPT !.state = "waiting"]
        BY <3>1 DEF ReqOK, ReqRow
      <3> QED BY <3>1, <3>2, <3>3 DEF CallMove
    <2> QED BY <2>1, <2>2
  <1>5. ASSUME NEW c \in Requests, RotateStep(c) PROVE CallMove(q)
    <2>1. q # c => CallMove(q)
      BY <1>3, <1>5 DEF RotateStep, RotateCheck, RotateConsume, RotateIssue
    <2>2. Issuing(c)
      BY <1>5 DEF RotateStep, RotateCheck, RotateConsume, RotateIssue, Issuing
    <2> QED BY <2>1, <2>2 DEF CallMove
  <1>6. ASSUME NEW c \in Requests, RotateLost(c) PROVE CallMove(q)
    <2> DEFINE row == [call[c] EXCEPT !.stage = "refused"]
    <2>1. call' = [call EXCEPT ![c] = row] /\ call[c].stage \in {"sent", "issued"}
      BY <1>6 DEF RotateLost
    <2>2. q = c => row.stage = "refused"
      BY <1>0 DEF CallRow
    <2> HIDE DEF row
    <2>3. q = c => call'[q] = row
      BY <1>0, <2>1
    <2> QED BY <1>3, <2>1, <2>2, <2>3 DEF CallMove, Issuing
  <1>7. ASSUME NEW c \in Requests, RotationEnds(c) PROVE CallMove(q)
    <2>1. call' = [call EXCEPT ![c] = IdleCall] /\ call[c].stage \in {"issued", "refused"}
      BY <1>7 DEF RotationEnds, RotationReturns, RotationRefused, RotateUnheard
    <2>2. q = c => call'[q].stage = "idle"
      BY <1>0, <2>1 DEF IdleCall
    <2> QED BY <1>3, <2>1, <2>2 DEF CallMove
  <1> QED BY <1>1, <1>2, <1>4, <1>5, <1>6, <1>7, CallFrame DEF CallWriter, Reload

LEMMA PhasesStep ==
    ASSUME References, Next, \A r \in Requests : call[r].stage # "idle" => Past(r)
    PROVE  /\ (\A r \in Requests : call[r].stage # "idle" => Past(r))'
           /\ Rotated \subseteq Rotated'
  <1>1. ASSUME NEW r \in Requests PROVE /\ (call[r].stage # "idle" => Past(r))'
                                        /\ r \in Rotated => r \in Rotated'
    <2>1. ReqMove(r) /\ CallMove(r) /\ (Past(r) => Past(r)')
      BY ReqMoves, CallMoves, PastStays
    <2>2. ASSUME call'[r].stage # "idle" PROVE Past(r)'
      <3>1. CASE call[r].stage # "idle"
        BY <2>1, <3>1
      <3>2. CASE call[r].stage = "idle"
        BY <2>1, <2>2, <3>2 DEF CallMove, Issuing, Past
      <3> QED BY <3>1, <3>2
    <2>3. ASSUME Past(r), ~Issuing(r) PROVE ~Issuing(r)'
      BY <2>1, <2>3 DEF CallMove, Issuing, Past
    <2> QED BY <2>1, <2>2, <2>3 DEF Rotated
  <1> QED BY <1>1 DEF Rotated

LEMMA RotatedFinite ==
    /\ IsFiniteSet(Rotated) /\ IsFiniteSet(Rotated')
    /\ Cardinality(Rotated) \in Nat /\ Cardinality(Rotated') \in Nat
    /\ Cardinality(Rotated) <= Cardinality(Requests)
    /\ Cardinality(Rotated') <= Cardinality(Requests) /\ Cardinality(Requests) \in Nat
  <1>1. Rotated \in SUBSET Requests /\ Rotated' \in SUBSET Requests
    BY DEF Rotated
  <1> QED BY <1>1, RequestsFinite, FS_Subset, FS_CardinalityType

LEMMA SpentStep ==
    ASSUME spent \in Spent, Next
    PROVE  /\ spent' \in Spent /\ spent.logins <= spent'.logins
           /\ (\E t \in Tabs, u \in Users : Login(t, u)) => spent'.logins = spent.logins + 1
  <1>0. /\ spent.logins \in 0..MaxLogins /\ spent.expiries \in Nat /\ spent.reloads \in Nat
        /\ spent.losses \in Nat /\ MaxLogins \in Nat
    BY BoundsAreNat DEF Spent
  <1>1. ASSUME NEW t \in Tabs, NEW u \in Users, Login(t, u)
        PROVE  spent' \in Spent /\ spent'.logins = spent.logins + 1
    <2>1. spent' = [spent EXCEPT !.logins = spent.logins + 1] /\ spent.logins + 1 \in 0..MaxLogins
      BY <1>0, <1>1 DEF Login
    <2> QED BY <2>1 DEF Spent
  <1>2. ASSUME NEW k \in {"expiries", "reloads", "losses"}, spent' = [spent EXCEPT ![k] = spent[k] + 1]
        PROVE  spent' \in Spent /\ spent'.logins = spent.logins
    BY <1>2 DEF Spent
  <1>3. ASSUME UNCHANGED spent
        PROVE  spent' \in Spent /\ spent'.logins = spent.logins
    BY <1>3
  <1>4. ASSUME NEW t \in Tabs, SessionSteps(t), ~\E u \in Users : Login(t, u)
        PROVE  UNCHANGED spent \/ spent' = [spent EXCEPT !.reloads = spent.reloads + 1]
    BY <1>4 DEF SessionSteps, AcceptInvite, LoginReturns, GuardStarts, GuardReturns, ChangePassword,
                Reload, SignOut, SignOutServed, SignOutReturns, SendRequest
  <1>5. ASSUME NEW r \in Requests, ServeRequest(r) \/ Receive(r)
        PROVE  UNCHANGED spent
    BY <1>5 DEF ServeRequest, Receive, ReceiveOk, Receive401, Receive401Again
  <1>6. ASSUME NEW c \in Requests, RotateStep(c) \/ RotateLost(c) \/ RotationEnds(c)
        PROVE  UNCHANGED spent \/ spent' = [spent EXCEPT !.losses = spent.losses + 1]
    BY <1>6 DEF RotateStep, RotateCheck, RotateConsume, RotateIssue, RotateLost, RotationEnds,
                RotationReturns, RotationRefused, RotateUnheard
  <1>7. ASSUME NEW n \in Pairs, Expire(n)
        PROVE  spent' = [spent EXCEPT !.expiries = spent.expiries + 1]
    BY <1>7 DEF Expire
  <1>8. \/ UNCHANGED spent
        \/ \E t \in Tabs, u \in Users : Login(t, u)
        \/ \E k \in {"expiries", "reloads", "losses"} : spent' = [spent EXCEPT ![k] = spent[k] + 1]
    BY <1>4, <1>5, <1>6, <1>7 DEF Next
  <1>9. spent' \in Spent /\ (spent'.logins = spent.logins \/ spent'.logins = spent.logins + 1)
    BY <1>1, <1>2, <1>3, <1>8
  <1> QED
    BY <1>0, <1>1, <1>9

LEMMA CountInit == Init => CountInv
  <1> SUFFICES ASSUME Init PROVE CountInv
    OBVIOUS
  <1>1. spent \in Spent /\ spent.logins = 0
    BY BoundsAreNat DEF Init, Spent
  <1>2. \A r \in Requests : call[r].stage = "idle"
    BY DEF Init, AtRest, IdleCall
  <1>3. Len(tokens) = 0
    BY DEF Init, AtRest
  <1> QED BY <1>1, <1>2, <1>3, RotatedFinite DEF CountInv

\* Rows are added by a sign-in and by the issue of a rotation.
LEMMA LengthStep ==
    ASSUME References, Next
    PROVE  \/ Len(tokens') = Len(tokens)
           \/ Len(tokens') = Len(tokens) + 1 /\ \E t \in Tabs, u \in Users : Login(t, u)
           \/ Len(tokens') = Len(tokens) + 1 /\ \E c \in Requests : RotateIssue(c)
  <1> USE DEF References
  <1>1. Marked => Len(tokens') = Len(tokens)
    BY DEF Marked, Marks
  <1>2. CASE UNCHANGED tokens
    BY <1>2
  <1>3. CASE \E t \in Tabs : TableWriter(t)
    BY <1>1, <1>3, LoginGrows, WriterMarks DEF TableWriter, Grows
  <1>4. ASSUME NEW c \in Requests, Rotates(c)
        PROVE  Len(tokens') = Len(tokens) \/ (Len(tokens') = Len(tokens) + 1 /\ RotateIssue(c))
    <2>1. CASE RotateCheck(c)
      BY <1>1, <2>1, CheckMarks
    <2>2. CASE RotateConsume(c)
      BY <1>1, <2>2, ConsumeTable, CallHasRow, Consumes DEF RotateConsume
    <2>3. CASE RotateIssue(c)
      BY <2>3, IssueGrows DEF Grows
    <2> QED BY <1>4, <2>1, <2>2, <2>3 DEF Rotates
  <1>5. CASE \E n \in Pairs : Expire(n)
    BY <1>1, <1>5, ExpireMarks
  <1> QED BY <1>2, <1>3, <1>4, <1>5, TableFrame

\* A request whose rotation issues is past it.
LEMMA IssueCounts ==
    ASSUME References, CountInv, NEW c \in Requests, RotateIssue(c), Next
    PROVE  Cardinality(Rotated') >= Cardinality(Rotated) + 1
  <1>1. c \notin Rotated /\ Past(c)
    BY DEF RotateIssue, CountInv, Rotated, Issuing
  <1>2. Rotated \subseteq Rotated'
    BY PhasesStep DEF CountInv
  <1>3. call'[c].stage = "issued"
    <2>1. call[c] \in CallRow /\ call \in [Requests -> CallRow]
      BY DEF References, CallOK
    <2>2. [call[c] EXCEPT !.stage = "issued", !.issued = Len(tokens) + 1].stage = "issued"
      BY <2>1 DEF CallRow
    <2> QED BY <2>1, <2>2 DEF RotateIssue
  <1>4. c \in Rotated'
    BY <1>1, <1>3, PastStays, ReqMoves DEF Rotated, Issuing
  <1>5. Rotated \cup {c} \in SUBSET Rotated'
    BY <1>2, <1>4
  <1>6. Cardinality(Rotated \cup {c}) = Cardinality(Rotated) + 1
    BY <1>1, RotatedFinite, FS_AddElement
  <1>7. Cardinality(Rotated \cup {c}) <= Cardinality(Rotated')
    BY <1>5, RotatedFinite, FS_Subset
  <1> QED BY <1>6, <1>7, RotatedFinite

LEMMA CountStep ==
    ASSUME References, CountInv, [Next]_vars
    PROVE  CountInv'
  <1>1. CASE UNCHANGED vars
    BY <1>1 DEF vars, CountInv, Spent, Past, Rotated, Issuing
  <1>2. CASE Next
    <2>1. spent' \in Spent /\ spent.logins <= spent'.logins
      BY <1>2, SpentStep DEF CountInv
    <2>2. (\A r \in Requests : call[r].stage # "idle" => Past(r))' /\ Rotated \subseteq Rotated'
      BY <1>2, PhasesStep DEF CountInv
    <2>3. Cardinality(Rotated) <= Cardinality(Rotated')
      BY <2>2, RotatedFinite, FS_Subset
    <2>4. Len(tokens) \in Nat /\ spent.logins \in Nat /\ spent'.logins \in Nat
          /\ Cardinality(Rotated) \in Nat /\ Cardinality(Rotated') \in Nat
          /\ Len(tokens) <= spent.logins + Cardinality(Rotated)
      BY <2>1, BoundsAreNat, RotatedFinite DEF References, TokensOK, CountInv, Spent
    <2>5. Len(tokens') <= spent'.logins + Cardinality(Rotated')
      <3>1. CASE Len(tokens') = Len(tokens)
        BY <2>1, <2>3, <2>4, <3>1
      <3>2. CASE Len(tokens') = Len(tokens) + 1 /\ \E t \in Tabs, u \in Users : Login(t, u)
        <4>1. spent'.logins = spent.logins + 1
          BY <1>2, <3>2, SpentStep DEF CountInv
        <4> QED BY <2>3, <2>4, <3>2, <4>1
      <3>3. CASE Len(tokens') = Len(tokens) + 1 /\ \E c \in Requests : RotateIssue(c)
        <4>1. Cardinality(Rotated') >= Cardinality(Rotated) + 1
          BY <1>2, <3>3, IssueCounts
        <4> QED BY <2>1, <2>4, <3>3, <4>1
      <3> QED BY <1>2, <3>1, <3>2, <3>3, LengthStep
    <2> QED BY <2>1, <2>2, <2>5 DEF CountInv
  <1> QED BY <1>1, <1>2

LEMMA RowsArePairs ==
    ASSUME References, CountInv
    PROVE  DOMAIN tokens \subseteq Pairs /\ \A i \in DOMAIN tokens : tokens[i].family \in Pairs
  <1>1. Len(tokens) <= MaxPairs /\ MaxPairs \in Nat
    <2>1. /\ Len(tokens) \in Nat /\ spent.logins \in 0..MaxLogins /\ MaxLogins \in Nat
          /\ Len(tokens) <= spent.logins + Cardinality(Rotated)
      BY BoundsAreNat DEF References, TokensOK, CountInv, Spent
    <2> QED BY <2>1, RotatedFinite DEF MaxPairs
  <1>2. DOMAIN tokens = 1..Len(tokens) /\ Len(tokens) \in Nat
        /\ \A i \in DOMAIN tokens : tokens[i].family \in 1..i
    BY DEF References, TokensOK
  <1> QED BY <1>1, <1>2 DEF Pairs

LEMMA RowsStayPairs ==
    ASSUME References', CountInv'
    PROVE  DOMAIN tokens' \subseteq Pairs
  <1>1. Len(tokens') <= MaxPairs /\ MaxPairs \in Nat
    <2>1. /\ Len(tokens') \in Nat /\ spent'.logins \in 0..MaxLogins /\ MaxLogins \in Nat
          /\ Len(tokens') <= spent'.logins + Cardinality(Rotated')
      BY BoundsAreNat DEF References, TokensOK, CountInv, Spent
    <2> QED BY <2>1, RotatedFinite DEF MaxPairs
  <1>2. DOMAIN tokens' = 1..Len(tokens') /\ Len(tokens') \in Nat
    BY DEF References, TokensOK
  <1> QED BY <1>1, <1>2 DEF Pairs
-----------------------------------------------------------------------------
(* The chain of TokenFamilies.                                             *)

IssuedRows == [f \in Pairs |-> RowsOf(f)]
TakenRows == [f \in Pairs |-> ConsumedOf(f)]

LEMMA SameFamilies ==
    ASSUME DOMAIN tokens' = DOMAIN tokens,
           \A i \in DOMAIN tokens : tokens'[i].family = tokens[i].family
                                    /\ tokens'[i].consumed = tokens[i].consumed
    PROVE  UNCHANGED <<IssuedRows, TakenRows>>
  <1>1. ASSUME NEW f PROVE RowsOf(f)' = RowsOf(f)
    BY DEF RowsOf
  <1>2. ASSUME NEW f PROVE ConsumedOf(f)' = ConsumedOf(f)
    BY <1>1 DEF ConsumedOf, RowsOf
  <1> QED BY <1>1, <1>2 DEF IssuedRows, TakenRows

LEMMA LoginBegins ==
    ASSUME References, References', CountInv', NEW t \in Tabs, NEW u \in Users, Login(t, u)
    PROVE  Families!FamiliesNext
  <1> DEFINE new == Len(tokens) + 1
  <1>1. /\ DOMAIN tokens' = DOMAIN tokens \cup {new} /\ new \notin DOMAIN tokens
        /\ \A i \in DOMAIN tokens : tokens'[i] = tokens[i] /\ tokens[i].family # new
        /\ tokens'[new].family = new /\ ~tokens'[new].consumed
    <2>1. TokensOK' /\ Grows /\ tokens'[new].family = new
      BY LoginGrows DEF References
    <2>2. DOMAIN tokens' = DOMAIN tokens \cup {new} /\ new \notin DOMAIN tokens
      BY <2>1 DEF References, TokensOK, Grows
    <2>3. \A i \in DOMAIN tokens : tokens[i].family # new
      BY RowIsTyped DEF References, TokensOK, TokenRow
    <2>4. tokens'[new] = NewRow(u, new)
      BY DEF Login, References, TokensOK
    <2>5. ~NewRow(u, new).consumed
      BY DEF NewRow
    <2>6. ~tokens'[new].consumed
      BY <2>4, <2>5, Zenon
    <2> QED BY <2>1, <2>2, <2>3, <2>6 DEF Grows
  <1>2. new \in Pairs
    <2>1. DOMAIN tokens' \subseteq Pairs
      BY RowsStayPairs
    <2> QED BY <1>1, <2>1
  <1> HIDE DEF new
  <1>3. \A f \in Pairs : RowsOf(f)' = IF f = new THEN {new} ELSE RowsOf(f)
    BY <1>1 DEF RowsOf
  <1>4. \A f \in Pairs : ConsumedOf(f)' = ConsumedOf(f)
    BY <1>1 DEF ConsumedOf, RowsOf
  <1>5. RowsOf(new) = {} /\ \A g \in Pairs : new \notin RowsOf(g)
    BY <1>1 DEF RowsOf
  <1>6. Families!Begin(new, new)
    BY <1>2, <1>3, <1>4, <1>5 DEF Families!Begin
  <1> QED BY <1>2, <1>6 DEF Families!FamiliesNext

LEMMA ConsumeConsumes ==
    ASSUME References, CountInv, NEW c \in Requests, RotateConsume(c),
           ~tokens[call[c].pair].consumed,
           tokens' = [tokens EXCEPT ![call[c].pair].consumed = TRUE]
    PROVE  Families!FamiliesNext
  <1> DEFINE n == call[c].pair
             f == Family(c)
  <1>1. n \in DOMAIN tokens
    BY CallHasRow DEF References, RotateConsume
  <1>2. /\ DOMAIN tokens' = DOMAIN tokens
        /\ \A i \in DOMAIN tokens : tokens'[i].family = tokens[i].family
        /\ \A i \in DOMAIN tokens : i # n => tokens'[i].consumed = tokens[i].consumed
        /\ tokens'[n].consumed
    BY <1>1, Consumes, ConsumingTable DEF References
  <1>3. n \in Pairs /\ f \in Pairs /\ tokens[n].family = f /\ ~tokens[n].consumed
    BY <1>1, RowsArePairs DEF Family
  <1> HIDE DEF n, f
  <1>4. \A g \in Pairs : RowsOf(g)' = RowsOf(g)
    BY <1>2 DEF RowsOf
  <1>5. \A g \in Pairs : ConsumedOf(g)' = IF g = f THEN ConsumedOf(g) \cup {n} ELSE ConsumedOf(g)
    BY <1>1, <1>2, <1>3 DEF ConsumedOf, RowsOf
  <1>6. n \in RowsOf(f) \ ConsumedOf(f)
    BY <1>1, <1>3 DEF ConsumedOf, RowsOf
  <1>7. Families!Consume(f, n)
    BY <1>3, <1>4, <1>5, <1>6 DEF Families!Consume
  <1> QED BY <1>3, <1>7 DEF Families!FamiliesNext

LEMMA IssueSucceeds ==
    ASSUME References, ChainInv, CountInv, CountInv', References', NEW c \in Requests, RotateIssue(c)
    PROVE  Families!FamiliesNext
  <1> DEFINE new == Len(tokens) + 1
             n == call[c].pair
             f == Family(c)
  <1>1. /\ DOMAIN tokens' = DOMAIN tokens \cup {new} /\ new \notin DOMAIN tokens
        /\ \A i \in DOMAIN tokens : tokens'[i] = tokens[i]
        /\ tokens'[new].family = f /\ ~tokens'[new].consumed
    <2>1. TokensOK' /\ Grows /\ tokens'[new].family = f
      BY IssueGrows DEF References
    <2>2. DOMAIN tokens' = DOMAIN tokens \cup {new} /\ new \notin DOMAIN tokens
      BY <2>1 DEF References, TokensOK, Grows
    <2>3. tokens'[new] = NewRow(tokens[n].user, tokens[n].family)
      BY DEF RotateIssue, References, TokensOK
    <2>4. ~NewRow(tokens[n].user, tokens[n].family).consumed
      BY DEF NewRow
    <2>5. ~tokens'[new].consumed
      BY <2>3, <2>4, Zenon
    <2> QED BY <2>1, <2>2, <2>5 DEF Grows
  <1>2. new \in Pairs
    <2>1. DOMAIN tokens' \subseteq Pairs
      BY RowsStayPairs
    <2> QED BY <1>1, <2>1
  <1>3. n \in DOMAIN tokens /\ f \in Pairs /\ tokens[n].family = f
    BY CallHasRow, RowsArePairs DEF References, RotateIssue, Family
  <1>4. \A i \in DOMAIN tokens : tokens[i].family = f => tokens[i].consumed
    BY DEF ChainInv, FamilySpent, RotateIssue, Between
  <1> HIDE DEF new, n, f
  <1>5. \A g \in Pairs : RowsOf(g)' = IF g = f THEN RowsOf(g) \cup {new} ELSE RowsOf(g)
    BY <1>1 DEF RowsOf
  <1>6. \A g \in Pairs : ConsumedOf(g)' = ConsumedOf(g)
    BY <1>1 DEF ConsumedOf, RowsOf
  <1>7. RowsOf(f) # {} /\ ConsumedOf(f) = RowsOf(f)
    BY <1>3, <1>4 DEF RowsOf, ConsumedOf
  <1>8. \A g \in Pairs : new \notin RowsOf(g)
    BY <1>1 DEF RowsOf
  <1>9. Families!Succeed(f, new)
    BY <1>2, <1>3, <1>5, <1>6, <1>7, <1>8 DEF Families!Succeed
  <1> QED BY <1>2, <1>3, <1>9 DEF Families!FamiliesNext

\* Every step of the session is one of the chain or leaves the families as they are.
LEMMA FamiliesStep ==
    ASSUME SessionInv, CountInv, SessionInv', CountInv', [Next]_vars
    PROVE  Families!FamiliesNext \/ UNCHANGED <<IssuedRows, TakenRows>>
  <1> USE DEF SessionInv
  <1>1. CASE UNCHANGED vars
    BY <1>1, SameFamilies DEF vars
  <1>2. CASE Marked \/ UNCHANGED tokens
    BY <1>2, SameFamilies DEF References, TokensOK, Marked, Marks
  <1>3. CASE \E t \in Tabs, u \in Users : Login(t, u)
    BY <1>3, LoginBegins
  <1>4. CASE \E c \in Requests : RotateIssue(c)
    BY <1>4, IssueSucceeds
  <1>5. ASSUME NEW c \in Requests, RotateConsume(c)
        PROVE  Marked \/ Families!FamiliesNext
    BY <1>5, ConsumeTable, ConsumeConsumes DEF References
  <1>6. Next => \/ Marked \/ UNCHANGED tokens
                \/ \E t \in Tabs, u \in Users : Login(t, u)
                \/ \E c \in Requests : RotateIssue(c) \/ RotateConsume(c)
    BY TableFrame, WriterMarks, CheckMarks, ExpireMarks DEF References, TableWriter, Rotates
  <1> QED BY <1>1, <1>2, <1>3, <1>4, <1>5, <1>6

LEMMA FamiliesStart ==
    Init => Families!FamiliesInit
  BY DEF Init, AtRest, Families!FamiliesInit, RowsOf, ConsumedOf
-----------------------------------------------------------------------------
(* The route guard: types of the session.                                  *)

Views == {"login", "invite", "closed", "loading", "must-change", "app"}
ProbeRow == [kind : {"idle", "sent"}, pair : Ref]

\* What a tab shows, the token it holds, its call of /me and its sign-in or sign-out.
Fits(shown, token, asking, doing) ==
    /\ shown = "app" => token # None
    /\ asking = "sent" => shown = "loading" /\ token # None
    /\ doing = "in" => shown = "login"
    /\ doing \in {"out", "out-done"} => shown = "app"

GuardFits == \A t \in Tabs : Fits(view[t], mem[t].token, probe[t].kind, signing[t].kind)
GuardTypes == view \in [Tabs -> Views] /\ probe \in [Tabs -> ProbeRow]
AccountsOK == accounts \subseteq Users /\ mustChange \subseteq accounts

GuardInv == GuardTypes /\ GuardFits /\ AccountsOK

LEMMA InitGuard == Init => GuardInv
  BY NoneDistinct DEF Init, AtRest, GuardInv, GuardTypes, GuardFits, Fits, AccountsOK, Views, ProbeRow, Ref,
     NoPair, Idle

\* One tab goes on to another page.
Becomes(f, new, t, x) == new = [f EXCEPT ![t] = x] \/ (new = f /\ x = f[t])

LEMMA GuardMoves ==
    ASSUME References, GuardInv, NEW t \in Tabs,
           NEW shown \in Views, NEW asks \in ProbeRow,
           NEW held, NEW does,
           Becomes(view, view', t, shown), Becomes(probe, probe', t, asks),
           Becomes(mem, mem', t, held), Becomes(signing, signing', t, does),
           Fits(shown, held.token, asks.kind, does.kind),
           DOMAIN tokens \subseteq DOMAIN tokens'
    PROVE  GuardTypes' /\ GuardFits'
  <1>1. ProbeRow \subseteq ProbeRow'
    BY DEF ProbeRow, Ref
  <1>2. GuardTypes'
    BY <1>1 DEF GuardInv, GuardTypes, Becomes
  <1>3. ASSUME NEW u \in Tabs
        PROVE  /\ view'[u] = IF u = t THEN shown ELSE view[u]
               /\ probe'[u] = IF u = t THEN asks ELSE probe[u]
               /\ mem'[u] = IF u = t THEN held ELSE mem[u]
               /\ signing'[u] = IF u = t THEN does ELSE signing[u]
    BY DEF References, HeldOK, SigningOK, GuardInv, GuardTypes, Becomes
  <1>4. GuardFits'
    BY <1>3 DEF GuardInv, GuardFits
  <1> QED BY <1>2, <1>4

LEMMA GuardStays ==
    ASSUME References, GuardInv, NEW t \in Tabs
    PROVE  /\ view[t] \in Views /\ probe[t] \in ProbeRow /\ Idle \in ProbeRow /\ Idle.kind = "idle"
           /\ NoPair.token = None /\ \A n : PairOf(n).token = n
           /\ Fits(view[t], mem[t].token, probe[t].kind, signing[t].kind)
           /\ Ensured(t).token # None \/ Ensured(t) = mem[t] \/ Ensured(t) = storage
           /\ mem[t].token # None => Ensured(t) = mem[t]
  <1>1. view[t] \in Views /\ probe[t] \in ProbeRow
    BY DEF GuardInv, GuardTypes
  <1>2. Idle \in ProbeRow /\ Idle.kind = "idle" /\ NoPair.token = None /\ \A n : PairOf(n).token = n
    BY DEF Idle, ProbeRow, Ref, NoPair, PairOf
  <1>4. Fits(view[t], mem[t].token, probe[t].kind, signing[t].kind)
    BY DEF GuardInv, GuardFits
  <1>5. mem[t].token # None => Ensured(t) = mem[t]
    BY DEF Ensured
  <1> QED BY <1>1, <1>2, <1>4, <1>5 DEF Ensured

\* clearToken and the login page.
LEMMA GuardToLogin ==
    ASSUME References, GuardInv, UNCHANGED tokens, NEW t \in Tabs, ToLogin(t)
    PROVE  GuardTypes' /\ GuardFits'
  <1>1. Fits("login", NoPair.token, Idle.kind, Idle.kind) /\ "login" \in Views
    BY GuardStays DEF Fits, Views
  <1>2. Becomes(view, view', t, "login") /\ Becomes(probe, probe', t, Idle)
        /\ Becomes(mem, mem', t, NoPair) /\ Becomes(signing, signing', t, Idle)
    BY DEF ToLogin, Becomes
  <1> QED BY <1>1, <1>2, GuardStays, GuardMoves

LEMMA GuardSessionStep ==
    ASSUME References, GuardInv, DOMAIN tokens \subseteq DOMAIN tokens', NEW t \in Tabs, SessionSteps(t)
    PROVE  GuardTypes' /\ GuardFits'
  <1> USE GuardStays
  <1>1. CASE \E u \in Users : Login(t, u)
    <2> DEFINE does == [kind |-> "in", pair |-> Len(tokens) + 1]
    <2>1. view[t] = "login" /\ signing[t].kind = "idle" /\ does.kind = "in"
      BY <1>1 DEF Login
    <2>2. Fits(view[t], mem[t].token, probe[t].kind, does.kind)
      BY <2>1 DEF Fits
    <2>3. signing' = [signing EXCEPT ![t] = does] /\ UNCHANGED <<view, mem, probe>>
      BY <1>1 DEF Login
    <2> HIDE DEF does
    <2>4. Becomes(view, view', t, view[t]) /\ Becomes(probe, probe', t, probe[t])
          /\ Becomes(mem, mem', t, mem[t]) /\ Becomes(signing, signing', t, does)
      BY <2>3 DEF Becomes
    <2> QED BY <2>2, <2>4, GuardMoves
  <1>2. CASE \E u \in Users : AcceptInvite(t, u)
    <2>1. Fits("login", mem[t].token, probe[t].kind, signing[t].kind) /\ "login" \in Views
      BY <1>2 DEF AcceptInvite, Fits, Views
    <2>2. Becomes(view, view', t, "login") /\ Becomes(probe, probe', t, probe[t])
          /\ Becomes(mem, mem', t, mem[t]) /\ Becomes(signing, signing', t, signing[t])
      BY <1>2 DEF AcceptInvite, Becomes
    <2> QED BY <2>1, <2>2, GuardMoves
  <1>3. CASE LoginReturns(t)
    <2>1. Fits("loading", PairOf(signing[t].pair).token, probe[t].kind, Idle.kind) /\ "loading" \in Views
      BY <1>3 DEF LoginReturns, Fits, Views
    <2>2. Becomes(view, view', t, "loading") /\ Becomes(probe, probe', t, probe[t])
          /\ Becomes(mem, mem', t, PairOf(signing[t].pair)) /\ Becomes(signing, signing', t, Idle)
      BY <1>3 DEF LoginReturns, Becomes
    <2> QED BY <2>1, <2>2, GuardMoves
  <1>4. CASE GuardStarts(t)
    <2>1. CASE Ensured(t).token = None
      <3>1. Fits("login", Ensured(t).token, probe[t].kind, signing[t].kind) /\ "login" \in Views
        BY <1>4, <2>1 DEF GuardStarts, Fits, Views
      <3>2. Becomes(view, view', t, "login") /\ Becomes(probe, probe', t, probe[t])
            /\ Becomes(mem, mem', t, Ensured(t)) /\ Becomes(signing, signing', t, signing[t])
        BY <1>4, <2>1 DEF GuardStarts, Becomes
      <3> QED BY <3>1, <3>2, GuardMoves
    <2>2. CASE Ensured(t).token # None
      <3> DEFINE asks == [kind |-> "sent", pair |-> Ensured(t).token]
      <3>1. asks \in ProbeRow
        BY HeldValues DEF References, ProbeRow
      <3>2. Fits(view[t], Ensured(t).token, asks.kind, signing[t].kind)
        BY <1>4, <2>2 DEF GuardStarts, Fits
      <3>3. probe' = [probe EXCEPT ![t] = asks] /\ mem' = [mem EXCEPT ![t] = Ensured(t)]
            /\ UNCHANGED <<view, signing>>
        BY <1>4, <2>2 DEF GuardStarts
      <3> HIDE DEF asks
      <3>4. Becomes(view, view', t, view[t]) /\ Becomes(probe, probe', t, asks)
            /\ Becomes(mem, mem', t, Ensured(t)) /\ Becomes(signing, signing', t, signing[t])
        BY <3>3 DEF Becomes
      <3> QED BY <3>1, <3>2, <3>4, GuardMoves
    <2> QED BY <2>1, <2>2
  <1>5. CASE GuardReturns(t)
    <2>1. PICK next \in {"app", "login", "must-change"} : view' = [view EXCEPT ![t] = next]
      BY <1>5 DEF GuardReturns
    <2>2. Fits(next, mem[t].token, Idle.kind, signing[t].kind) /\ next \in Views
      BY <1>5, <2>1 DEF GuardReturns, Fits, Views
    <2>3. Becomes(view, view', t, next) /\ Becomes(probe, probe', t, Idle)
          /\ Becomes(mem, mem', t, mem[t]) /\ Becomes(signing, signing', t, signing[t])
      BY <1>5, <2>1 DEF GuardReturns, Becomes
    <2> QED BY <2>2, <2>3, GuardMoves
  <1>6. CASE ChangePassword(t)
    <2>1. Fits("loading", Ensured(t).token, probe[t].kind, signing[t].kind) /\ "loading" \in Views
      BY <1>6 DEF ChangePassword, Fits, Views
    <2>2. Becomes(view, view', t, "loading") /\ Becomes(probe, probe', t, probe[t])
          /\ Becomes(mem, mem', t, Ensured(t)) /\ Becomes(signing, signing', t, signing[t])
      BY <1>6 DEF ChangePassword, Becomes
    <2> QED BY <2>1, <2>2, GuardMoves
  <1>7. CASE Reload(t)
    <2> DEFINE shown == IF view[t] \in {"app", "login"} THEN "loading" ELSE view[t]
    <2>1. Fits(shown, NoPair.token, Idle.kind, Idle.kind) /\ shown \in Views
      BY <1>7 DEF Reload, Fits, Views
    <2>2. view' = [view EXCEPT ![t] = shown]
      BY <1>7 DEF Reload
    <2> HIDE DEF shown
    <2>3. Becomes(view, view', t, shown) /\ Becomes(probe, probe', t, Idle)
          /\ Becomes(mem, mem', t, NoPair) /\ Becomes(signing, signing', t, Idle)
      BY <1>7, <2>2 DEF Reload, Becomes
    <2> QED BY <2>1, <2>3, GuardMoves
  <1>8. CASE SignOut(t)
    <2> DEFINE does == [kind |-> "out", pair |-> Ensured(t).token]
    <2>1. view[t] = "app" /\ does.kind = "out"
      BY <1>8 DEF SignOut
    <2>2. Fits(view[t], mem[t].token, probe[t].kind, does.kind)
      BY <2>1 DEF Fits
    <2>3. signing' = [signing EXCEPT ![t] = does] /\ UNCHANGED <<view, mem, probe>>
      BY <1>8 DEF SignOut
    <2> HIDE DEF does
    <2>4. Becomes(view, view', t, view[t]) /\ Becomes(probe, probe', t, probe[t])
          /\ Becomes(mem, mem', t, mem[t]) /\ Becomes(signing, signing', t, does)
      BY <2>3 DEF Becomes
    <2> QED BY <2>2, <2>4, GuardMoves
  <1>9. CASE SignOutServed(t)
    <2> DEFINE does == [signing[t] EXCEPT !.kind = "out-done"]
    <2>1. signing[t].kind = "out" /\ does.kind = "out-done"
      BY <1>9 DEF SignOutServed, References, SigningOK, SigningRow
    <2>2. Fits(view[t], mem[t].token, probe[t].kind, does.kind)
      BY <2>1 DEF Fits
    <2>3. signing' = [signing EXCEPT ![t] = does] /\ UNCHANGED <<view, mem, probe>>
      BY <1>9 DEF SignOutServed
    <2> HIDE DEF does
    <2>4. Becomes(view, view', t, view[t]) /\ Becomes(probe, probe', t, probe[t])
          /\ Becomes(mem, mem', t, mem[t]) /\ Becomes(signing, signing', t, does)
      BY <2>3 DEF Becomes
    <2> QED BY <2>2, <2>4, GuardMoves
  <1>10. CASE SignOutReturns(t)
    <2>1. Fits("login", NoPair.token, probe[t].kind, Idle.kind) /\ "login" \in Views
      BY <1>10 DEF SignOutReturns, Fits, Views
    <2>2. Becomes(view, view', t, "login") /\ Becomes(probe, probe', t, probe[t])
          /\ Becomes(mem, mem', t, NoPair) /\ Becomes(signing, signing', t, Idle)
      BY <1>10 DEF SignOutReturns, Becomes
    <2> QED BY <2>1, <2>2, GuardMoves
  <1>11. CASE \E r \in Requests : SendRequest(r, t)
    <2>1. Fits(view[t], Ensured(t).token, probe[t].kind, signing[t].kind)
      BY <1>11 DEF SendRequest, Fits
    <2>2. Becomes(view, view', t, view[t]) /\ Becomes(probe, probe', t, probe[t])
          /\ Becomes(mem, mem', t, Ensured(t)) /\ Becomes(signing, signing', t, signing[t])
      BY <1>11 DEF SendRequest, Becomes
    <2> QED BY <2>1, <2>2, GuardMoves
  <1> QED
    BY <1>1, <1>2, <1>3, <1>4, <1>5, <1>6, <1>7, <1>8, <1>9, <1>10, <1>11 DEF SessionSteps

LEMMA GuardStep ==
    ASSUME References, GuardInv, [Next]_vars
    PROVE  GuardInv'
  <1> USE DEF References
  <1>1. CASE UNCHANGED vars
    BY <1>1 DEF vars, GuardInv, GuardTypes, GuardFits, AccountsOK, ProbeRow, Ref
  <1>2. CASE Next
    <2>1. DOMAIN tokens \subseteq DOMAIN tokens'
      BY <1>2, TableStep
    <2>2. ASSUME UNCHANGED <<view, probe, mem, signing>> PROVE GuardTypes' /\ GuardFits'
      <3>1. ProbeRow \subseteq ProbeRow'
        BY <2>1 DEF ProbeRow, Ref
      <3>2. GuardTypes'
        BY <2>2, <3>1 DEF GuardInv, GuardTypes
      <3> QED BY <2>2, <3>2 DEF GuardInv, GuardFits
    <2>3. ASSUME NEW r \in Requests, ServeRequest(r) \/ Receive(r) PROVE GuardTypes' /\ GuardFits'
      <3>1. CASE UNCHANGED clientVars
        BY <2>2, <3>1 DEF clientVars
      <3>2. CASE Receive401(r)
        <4> DEFINE t == req[r].tab
        <4>1. t \in Tabs
          BY <3>2, RequestHasRow DEF Receive401
        <4>2. CASE ToLogin(t)
          BY <3>2, <4>1, <4>2, GuardToLogin DEF Receive401, serverVars
        <4>3. CASE mem' = [mem EXCEPT ![t].refresh = RefreshToken(t)] /\ UNCHANGED <<view, probe, signing>>
          <5> DEFINE held == [mem[t] EXCEPT !.refresh = RefreshToken(t)]
          <5>1. mem[t] \in HeldRefs
            BY <4>1 DEF HeldOK
          <5>2. held.token = mem[t].token
            BY <5>1 DEF HeldRefs
          <5>3. mem' = [mem EXCEPT ![t] = held]
            BY <4>3
          <5> HIDE DEF t, held
          <5>4. Becomes(view, view', t, view[t]) /\ Becomes(probe, probe', t, probe[t])
                /\ Becomes(mem, mem', t, held) /\ Becomes(signing, signing', t, signing[t])
            BY <4>3, <5>3 DEF Becomes
          <5>5. view[t] \in Views /\ probe[t] \in ProbeRow
                /\ Fits(view[t], held.token, probe[t].kind, signing[t].kind)
            BY <4>1, <5>2, GuardStays
          <5> QED BY <2>1, <4>1, <5>4, <5>5, GuardMoves
        <4> QED BY <3>1, <3>2, <4>2, <4>3 DEF Receive401
      <3> QED BY <2>3, <3>1, <3>2 DEF ServeRequest, Receive, ReceiveOk, Receive401Again
    <2>4. ASSUME NEW c \in Requests, RotateStep(c) \/ RotateLost(c) \/ RotationEnds(c)
          PROVE  GuardTypes' /\ GuardFits'
      <3>1. CASE UNCHANGED clientVars
        BY <2>2, <3>1 DEF clientVars
      <3>2. call[c].stage # "idle" => call[c].tab \in Tabs
        BY DEF CallOK, CallRow
      <3>3. CASE RotationReturns(c)
        <4> DEFINE t == call[c].tab
                   n == call[c].issued
        <4>1. t \in Tabs /\ n # None
          BY <3>2, <3>3 DEF RotationReturns, CallOK
        <4>2. mem' = [mem EXCEPT ![t] = PairOf(n)] /\ UNCHANGED <<view, probe, signing>>
          BY <3>3 DEF RotationReturns
        <4> HIDE DEF t, n
        <4>3. Fits(view[t], PairOf(n).token, probe[t].kind, signing[t].kind)
          BY <4>1, GuardStays DEF Fits
        <4>4. Becomes(view, view', t, view[t]) /\ Becomes(probe, probe', t, probe[t])
              /\ Becomes(mem, mem', t, PairOf(n)) /\ Becomes(signing, signing', t, signing[t])
          BY <4>2 DEF Becomes
        <4>5. view[t] \in Views /\ probe[t] \in ProbeRow
          BY <4>1, GuardStays
        <4> QED BY <2>1, <4>1, <4>3, <4>4, <4>5, GuardMoves
      <3>4. CASE RotationRefused(c)
        BY <3>2, <3>4, GuardToLogin DEF RotationRefused, serverVars
      <3> QED
        BY <2>4, <3>1, <3>3, <3>4 DEF RotateStep, RotateCheck, RotateConsume, RotateIssue, RotateLost,
                                      RotationEnds, RotateUnheard
    <2>5. ASSUME NEW n \in Pairs, Expire(n) PROVE GuardTypes' /\ GuardFits'
      BY <2>2, <2>5 DEF Expire, clientVars
    <2>6. GuardTypes' /\ GuardFits'
      BY <1>2, <2>1, <2>3, <2>4, <2>5, GuardSessionStep DEF Next
    <2>7. AccountsOK'
      <3>1. UNCHANGED <<accounts, mustChange>>
            \/ (\E t \in Tabs, u \in Users : AcceptInvite(t, u)) \/ (\E t \in Tabs : ChangePassword(t))
        <4>1. ASSUME NEW t \in Tabs, SessionSteps(t)
              PROVE  UNCHANGED <<accounts, mustChange>>
                     \/ (\E u \in Users : AcceptInvite(t, u)) \/ ChangePassword(t)
          BY <4>1 DEF SessionSteps, Login, LoginReturns, GuardStarts, GuardReturns, Reload, SignOut,
                      SignOutServed, SignOutReturns, SendRequest, serverVars
        <4>2. ASSUME NEW r \in Requests, ServeRequest(r) \/ Receive(r)
              PROVE  UNCHANGED <<accounts, mustChange>>
          BY <4>2 DEF ServeRequest, Receive, ReceiveOk, Receive401, Receive401Again, serverVars
        <4>3. ASSUME NEW c \in Requests, RotateStep(c) \/ RotateLost(c) \/ RotationEnds(c)
              PROVE  UNCHANGED <<accounts, mustChange>>
          BY <4>3 DEF RotateStep, RotateCheck, RotateConsume, RotateIssue, RotateLost, RotationEnds,
                      RotationReturns, RotationRefused, RotateUnheard, serverVars
        <4>4. ASSUME NEW n \in Pairs, Expire(n) PROVE UNCHANGED <<accounts, mustChange>>
          BY <4>4 DEF Expire
        <4> QED BY <1>2, <4>1, <4>2, <4>3, <4>4 DEF Next
      <3> QED BY <3>1 DEF GuardInv, AccountsOK, AcceptInvite, ChangePassword
    <2> QED BY <2>6, <2>7 DEF GuardInv
  <1> QED BY <1>1, <1>2
-----------------------------------------------------------------------------
(* The users of the rows, and whose answers a tab shows.                   *)

\* The tokens of one sign-in are those of one user.
SameUser == \A i, j \in DOMAIN tokens : tokens[i].family = tokens[j].family => tokens[i].user = tokens[j].user
UsersKept == /\ DOMAIN tokens \subseteq DOMAIN tokens'
             /\ \A i \in DOMAIN tokens : tokens'[i].user = tokens[i].user

LEMMA MarkedUsers ==
    ASSUME TokensOK, SameUser, Marked \/ UNCHANGED tokens PROVE SameUser' /\ UsersKept
  <1>1. DOMAIN tokens' = DOMAIN tokens
        /\ \A i \in DOMAIN tokens : tokens'[i].user = tokens[i].user /\ tokens'[i].family = tokens[i].family
    BY DEF Marked, Marks, TokensOK
  <1> QED BY <1>1 DEF SameUser, UsersKept

\* A row more, of the user of its family.
LEMMA GrownUsers ==
    ASSUME TokensOK, SameUser, NEW u \in Users, NEW f \in 1..(Len(tokens) + 1),
           tokens' = Append(tokens, NewRow(u, f)),
           \A i \in DOMAIN tokens : tokens[i].family = f => tokens[i].user = u
    PROVE  SameUser' /\ UsersKept
  <1> DEFINE new == Len(tokens) + 1
             row == NewRow(u, f)
  <1>1. row.user = u /\ row.family = f
    BY DEF NewRow
  <1>2. tokens' = Append(tokens, row)
    OBVIOUS
  <1> HIDE DEF row
  <1>3. DOMAIN tokens' = DOMAIN tokens \cup {new} /\ tokens'[new] = row
        /\ \A i \in DOMAIN tokens : tokens'[i] = tokens[i]
    BY <1>2 DEF TokensOK
  <1>4. tokens'[new].user = u /\ tokens'[new].family = f
    BY <1>1, <1>3
  <1> HIDE DEF new
  <1> QED BY <1>3, <1>4 DEF SameUser, UsersKept

LEMMA UsersStep ==
    ASSUME References, SameUser, Next PROVE SameUser' /\ UsersKept
  <1> USE DEF References
  <1>1. CASE UNCHANGED tokens
    BY <1>1, MarkedUsers
  <1>2. ASSUME NEW t \in Tabs, TableWriter(t) PROVE SameUser' /\ UsersKept
    <2>1. ASSUME NEW u \in Users, Login(t, u) PROVE SameUser' /\ UsersKept
      <3>1. tokens' = Append(tokens, NewRow(u, Len(tokens) + 1))
        BY <2>1 DEF Login
      <3>2. \A i \in DOMAIN tokens : tokens[i].family # Len(tokens) + 1
        BY RowIsTyped
      <3>3. Len(tokens) + 1 \in 1..(Len(tokens) + 1)
        BY DEF TokensOK
      <3> QED BY <3>1, <3>2, <3>3, GrownUsers
    <2> QED BY <1>2, <2>1, WriterMarks, MarkedUsers DEF TableWriter
  <1>3. ASSUME NEW c \in Requests, Rotates(c) PROVE SameUser' /\ UsersKept
    <2>1. CASE RotateCheck(c)
      BY <2>1, CheckMarks, MarkedUsers
    <2>2. CASE RotateConsume(c)
      <3> DEFINE n == call[c].pair
      <3>1. n \in DOMAIN tokens
        BY <2>2, CallHasRow DEF RotateConsume
      <3>2. CASE tokens' = [tokens EXCEPT ![n].consumed = TRUE]
        <4>1. DOMAIN tokens' = DOMAIN tokens
              /\ \A i \in DOMAIN tokens : tokens'[i].user = tokens[i].user /\ tokens'[i].family = tokens[i].family
          BY <3>1, <3>2, Consumes, ConsumingTable
        <4> QED BY <4>1 DEF SameUser, UsersKept
      <3> QED BY <2>2, <3>2, ConsumeTable, MarkedUsers
    <2>3. CASE RotateIssue(c)
      <3> DEFINE u == tokens[call[c].pair].user
                 f == tokens[call[c].pair].family
      <3>1. call[c].pair \in DOMAIN tokens
        BY <2>3, CallHasRow DEF RotateIssue
      <3>2. u \in Users /\ f \in 1..(Len(tokens) + 1)
            /\ \A i \in DOMAIN tokens : tokens[i].family = f => tokens[i].user = u
        BY <3>1, RowIsTyped DEF SameUser
      <3>3. tokens' = Append(tokens, NewRow(u, f))
        BY <2>3 DEF RotateIssue
      <3> HIDE DEF u, f
      <3> QED BY <3>2, <3>3, GrownUsers
    <2> QED BY <1>3, <2>1, <2>2, <2>3 DEF Rotates
  <1>4. CASE \E n \in Pairs : Expire(n)
    BY <1>4, ExpireMarks, MarkedUsers
  <1> QED BY <1>1, <1>2, <1>3, <1>4, TableFrame

\* An open request whose answer the cache would show asks for the user of the token held.
Owner(n) == tokens[n].user
Shows(row, n) ==
    row.state \in {"sent", "answered", "waiting"} /\ row.kept =>
      /\ n # None
      /\ row.state \in {"sent", "answered"} => Owner(row.pair) = Owner(n)
      /\ row.state = "answered" /\ row.answer = "ok" => row.performed = Owner(n)
ShowsOwner(t) ==
    /\ \A u \in cached[t] : mem[t].token # None /\ u = Owner(mem[t].token)
    /\ \A r \in Requests : req[r].tab = t => Shows(req[r], mem[t].token)

CacheTypes == cached \in [Tabs -> SUBSET (Users \cup {None})] /\ late \in SUBSET Tabs
CacheInv == CacheTypes /\ SameUser /\ \A t \in Tabs \ late : ShowsOwner(t)

LEMMA InitCache == Init => CacheInv
  BY DEF Init, AtRest, CacheInv, CacheTypes, SameUser, ShowsOwner, Shows, NoReq

\* A tab whose owner stays, or that had none, and that shows him at most.
LEMMA OwnerStays ==
    ASSUME References, UsersKept, NEW t \in Tabs, ShowsOwner(t),
           mem[t].token = None \/ mem'[t].token = mem[t].token,
           \A u \in cached'[t] : u \in cached[t] \/ (mem[t].token # None /\ u = Owner(mem[t].token)),
           \A r \in Requests : req'[r].tab = t => req'[r] = req[r] \/ Shows(req[r], mem[t].token)'
    PROVE  ShowsOwner(t)'
  <1> PICK n : n = mem[t].token
    OBVIOUS
  <1> PICK m : m = mem'[t].token
    OBVIOUS
  <1>1. n \in Ref
    BY DEF References, HeldOK, HeldRefs
  <1>2. n # None => m = n /\ n \in DOMAIN tokens /\ tokens'[n].user = tokens[n].user
    BY <1>1 DEF UsersKept, Ref
  <1>3. \A u \in cached'[t] : m # None /\ u = tokens'[m].user
    BY <1>2 DEF ShowsOwner, Owner
  <1>4. ASSUME NEW r \in Requests, req'[r].tab = t, req'[r] = req[r]
        PROVE  Shows(req[r], mem[t].token)'
    <2>1. Shows(req[r], n)
      BY <1>4 DEF ShowsOwner
    <2>2. req[r].state \in {"sent", "answered"} => req[r].pair \in DOMAIN tokens
      BY RequestHasRow DEF References
    <2> QED BY <1>2, <1>4, <2>1, <2>2 DEF Shows, Owner, UsersKept
  <1>5. \A r \in Requests : req'[r].tab = t => Shows(req[r], mem[t].token)'
    BY <1>4
  <1> QED BY <1>3, <1>5 DEF ShowsOwner, Owner

\* A tab that starts anew.
LEMMA OwnerStarts ==
    ASSUME NEW t \in Tabs, cached'[t] = {},
           \A r \in Requests : req'[r].tab = t =>
              ~(req'[r].state \in {"sent", "answered", "waiting"} /\ req'[r].kept)
    PROVE  ShowsOwner(t)'
  BY DEF ShowsOwner, Shows

\* A step at one tab leaves the others as they are.
LEMMA OneTab ==
    ASSUME References, CacheInv, UsersKept, SameUser', CacheTypes', NEW t \in Tabs,
           \A u \in Tabs \ {t} : mem'[u] = mem[u] /\ cached'[u] = cached[u] /\ (u \in late => u \in late'),
           \A r \in Requests : req'[r] = req[r] \/ req'[r].tab \in {t, None},
           t \notin late' => ShowsOwner(t)'
    PROVE  CacheInv'
  <1>1. ASSUME NEW u \in Tabs, u \notin late', u # t PROVE ShowsOwner(u)'
    <2>1. ShowsOwner(u)
      BY <1>1 DEF CacheInv
    <2>2. \A r \in Requests : req'[r].tab = u => req'[r] = req[r]
      BY <1>1, NoneDistinct
    <2>3. mem'[u] = mem[u] /\ cached'[u] = cached[u]
      BY <1>1
    <2> QED BY <2>1, <2>2, <2>3, OwnerStays
  <1> QED BY <1>1 DEF CacheInv

LEMMA DroppedRows ==
    ASSUME ReqOK, NEW t, req' = Drop(t, Open(t))
    PROVE  \A r \in Requests : /\ req'[r] = req[r] \/ req'[r].tab \in {t, None}
                               /\ req'[r].tab = t => ~(req'[r].state \in {"sent", "answered", "waiting"})
                                                     \/ t = None
  <1> TAKE r \in Requests
  <1> DEFINE gone == [NoReq EXCEPT !.state = "dropped"]
  <1>1. gone.tab = None
    BY DEF NoReq
  <1>2. req'[r] = IF r \in Open(t) THEN gone ELSE req[r]
    BY DEF Drop
  <1> HIDE DEF gone
  <1> QED BY <1>1, <1>2 DEF Open

LEMMA ForgottenRows ==
    ASSUME ReqOK, NEW t,
           req' = [r \in Requests |-> IF r \in Open(t) THEN [req[r] EXCEPT !.kept = FALSE] ELSE req[r]]
    PROVE  \A r \in Requests : /\ req'[r] = req[r] \/ req'[r].tab \in {t, None}
                               /\ req'[r].tab = t => ~(req'[r].state \in {"sent", "answered", "waiting"}
                                                       /\ req'[r].kept)
  <1> TAKE r \in Requests
  <1> DEFINE row == [req[r] EXCEPT !.kept = FALSE]
  <1>1. req[r] \in ReqRow
    BY DEF ReqOK
  <1>2. row.tab = req[r].tab /\ row.kept = FALSE
    BY <1>1 DEF ReqRow
  <1>3. req'[r] = IF r \in Open(t) THEN row ELSE req[r]
    OBVIOUS
  <1> HIDE DEF row
  <1> QED BY <1>2, <1>3 DEF Open

LEMMA CacheToLogin ==
    ASSUME References, CacheInv, UsersKept, SameUser', NEW t \in Tabs, ToLogin(t)
    PROVE  CacheInv'
  <1>1. /\ mem' = [mem EXCEPT ![t] = NoPair] /\ cached' = [cached EXCEPT ![t] = {}]
        /\ late' = late \ {t} /\ req' = Drop(t, Open(t))
    BY DEF ToLogin
  <1>2. CacheTypes' /\ cached'[t] = {} /\ t # None
    BY <1>1, NoneDistinct DEF CacheInv, CacheTypes
  <1>3. \A u \in Tabs \ {t} : mem'[u] = mem[u] /\ cached'[u] = cached[u] /\ (u \in late => u \in late')
    BY <1>1 DEF References, HeldOK, CacheInv, CacheTypes
  <1>4. \A r \in Requests : /\ req'[r] = req[r] \/ req'[r].tab \in {t, None}
                            /\ req'[r].tab = t => ~(req'[r].state \in {"sent", "answered", "waiting"})
    BY <1>1, <1>2, DroppedRows DEF References
  <1>5. ShowsOwner(t)'
    BY <1>2, <1>4, OwnerStarts
  <1> QED BY <1>2, <1>3, <1>4, <1>5, OneTab

LEMMA CacheClears ==
    ASSUME References, CacheInv, UsersKept, SameUser', NEW t \in Tabs,
           LoginReturns(t) \/ SignOutReturns(t) \/ Reload(t)
    PROVE  CacheInv'
  <1>1. /\ \E p : mem' = [mem EXCEPT ![t] = p]
        /\ cached' = [cached EXCEPT ![t] = {}]
        /\ late' \in {late, late \ {t}}
    BY DEF LoginReturns, SignOutReturns, Reload
  <1>2. CacheTypes' /\ cached'[t] = {} /\ t # None
    BY <1>1, NoneDistinct DEF CacheInv, CacheTypes
  <1>3. \A u \in Tabs \ {t} : mem'[u] = mem[u] /\ cached'[u] = cached[u] /\ (u \in late => u \in late')
    BY <1>1 DEF References, HeldOK, CacheInv, CacheTypes
  <1>4. \/ req' = Drop(t, Open(t))
        \/ req' = [r \in Requests |-> IF r \in Open(t) THEN [req[r] EXCEPT !.kept = FALSE] ELSE req[r]]
    BY DEF LoginReturns, SignOutReturns, Reload
  <1>5. \A r \in Requests : /\ req'[r] = req[r] \/ req'[r].tab \in {t, None}
                            /\ req'[r].tab = t => ~(req'[r].state \in {"sent", "answered", "waiting"}
                                                    /\ req'[r].kept)
    BY <1>2, <1>4, DroppedRows, ForgottenRows DEF References
  <1>6. ShowsOwner(t)'
    BY <1>2, <1>5, OwnerStarts
  <1> QED BY <1>2, <1>3, <1>5, <1>6, OneTab

\* A tab looks for its token: it has one already, or takes that of the storage.
LEMMA CacheLooks ==
    ASSUME References, CacheInv, UsersKept, SameUser', NEW t \in Tabs, NEW p,
           mem' = [mem EXCEPT ![t] = p], p = Ensured(t) \/ p.token = mem[t].token,
           UNCHANGED <<cached, late>>,
           \A r \in Requests : req'[r] = req[r] \/ req'[r].tab \in {t, None},
           t \notin late => \A r \in Requests :
               req'[r].tab = t => req'[r] = req[r] \/ Shows(req[r], mem[t].token)'
    PROVE  CacheInv'
  <1>1. mem'[t] = p /\ CacheTypes'
    BY DEF References, HeldOK, CacheInv, CacheTypes
  <1>2. mem[t].token = None \/ p.token = mem[t].token
    BY DEF Ensured
  <1>3. \A u \in Tabs \ {t} : mem'[u] = mem[u] /\ cached'[u] = cached[u] /\ (u \in late => u \in late')
    BY DEF References, HeldOK
  <1>4. t \notin late' => ShowsOwner(t)'
    <2> SUFFICES ASSUME t \notin late PROVE ShowsOwner(t)'
      OBVIOUS
    <2>1. ShowsOwner(t)
      BY DEF CacheInv
    <2> QED BY <1>1, <1>2, <2>1, OwnerStays
  <1> QED BY <1>1, <1>3, <1>4, OneTab

\* One request of a tab goes on; the tab may show an answer of its owner.
LEMMA CacheGoesOn ==
    ASSUME References, CacheInv, UsersKept, SameUser', UNCHANGED <<mem, late>>,
           NEW r \in Requests, NEW t \in Tabs, NEW row, row.tab = t, req[r].tab = t,
           req' = [req EXCEPT ![r] = row], CacheTypes',
           \A u \in Tabs \ {t} : cached'[u] = cached[u],
           t \notin late => \A u \in cached'[t] : u \in cached[t] \/ (mem[t].token # None /\ u = Owner(mem[t].token)),
           t \notin late => Shows(row, mem[t].token)'
    PROVE  CacheInv'
  <1>1. \A q \in Requests : req'[q] = IF q = r THEN row ELSE req[q]
    BY DEF References, ReqOK
  <1>2. t \notin late' => ShowsOwner(t)'
    <2> SUFFICES ASSUME t \notin late PROVE ShowsOwner(t)'
      OBVIOUS
    <2>1. ShowsOwner(t)
      BY DEF CacheInv
    <2>2. \A q \in Requests : req'[q].tab = t => req'[q] = req[q] \/ Shows(req[q], mem[t].token)'
      BY <1>1 DEF Shows, Owner
    <2> QED BY <2>1, <2>2, OwnerStays
  <1>3. \A q \in Requests : req'[q] = req[q] \/ req'[q].tab \in {t, None}
    BY <1>1
  <1> QED BY <1>2, <1>3, OneTab

\* What the row of a request shows after the steps of its answer.
LEMMA AnswerRows ==
    ASSUME NEW row \in ReqRow, NEW state, NEW answer, NEW performed
    PROVE  /\ LET next == [row EXCEPT !.state = state] IN
              /\ next.tab = row.tab /\ next.state = state /\ next.kept = row.kept
              /\ next.pair = row.pair /\ next.answer = row.answer /\ next.performed = row.performed
           /\ LET next == [row EXCEPT !.state = state, !.answer = answer, !.performed = performed] IN
              /\ next.tab = row.tab /\ next.state = state /\ next.kept = row.kept
              /\ next.pair = row.pair /\ next.answer = answer /\ next.performed = performed
  BY DEF ReqRow

LEMMA CacheServes ==
    ASSUME References, CacheInv, UsersKept, SameUser', NEW r \in Requests, ServeRequest(r)
    PROVE  CacheInv'
  <1> USE DEF References
  <1>0. PICK t \in Tabs : t = req[r].tab
    BY RequestHasRow DEF ServeRequest
  <1> DEFINE answer == IF Valid(req[r].pair) THEN "ok" ELSE "401"
             performed == IF Valid(req[r].pair) THEN tokens[req[r].pair].user ELSE None
             row == [req[r] EXCEPT !.state = "answered", !.answer = answer, !.performed = performed]
  <1>1. req[r] \in ReqRow /\ req[r].state = "sent" /\ req[r].pair \in DOMAIN tokens
    BY RowsOK, RequestHasRow DEF ServeRequest
  <1>2. req' = [req EXCEPT ![r] = row] /\ UNCHANGED <<tokens, mem, late, cached>>
    BY DEF ServeRequest, serverVars, clientVars
  <1>3. answer = "ok" => performed = Owner(req[r].pair)
    BY DEF Owner
  <1> HIDE DEF answer, performed
  <1>4. row.tab = t /\ row.state = "answered" /\ row.kept = req[r].kept /\ row.pair = req[r].pair
        /\ row.answer = answer /\ row.performed = performed
    BY <1>0, <1>1, AnswerRows
  <1> HIDE DEF row
  <1>9. PICK x : x = row
    OBVIOUS
  <1>5. ASSUME t \notin late PROVE Shows(x, mem[t].token)
    <2>1. Shows(req[r], mem[t].token)
      BY <1>0, <1>1, <1>5 DEF CacheInv, ShowsOwner
    <2> QED BY <1>1, <1>3, <1>4, <1>9, <2>1 DEF Shows
  <1>6. t \notin late => Shows(x, mem[t].token)'
    BY <1>2, <1>5 DEF Shows, Owner
  <1>7. CacheTypes'
    BY <1>2 DEF CacheInv, CacheTypes
  <1>8. x.tab = t /\ req[r].tab = t /\ req' = [req EXCEPT ![r] = x]
    BY <1>0, <1>2, <1>4, <1>9
  <1> QED BY <1>2, <1>6, <1>7, <1>8, CacheGoesOn

\* A request that ends shows nothing more.
LEMMA CacheEnds ==
    ASSUME References, CacheInv, UsersKept, SameUser', UNCHANGED <<mem, late>>,
           NEW r \in Requests, req[r].state = "answered", NEW t \in Tabs, t = req[r].tab,
           NEW row, row.tab = t, row.state \in {"done", "failed"}, req' = [req EXCEPT ![r] = row],
           \/ UNCHANGED cached
           \/ /\ req[r].kept /\ req[r].answer = "ok"
              /\ cached' = [cached EXCEPT ![t] = cached[t] \cup {req[r].performed}]
    PROVE  CacheInv'
  <1>1. req[r].performed \in Users \cup {None}
    <2>1. req[r] \in ReqRow
      BY RowsOK DEF References
    <2> QED BY <2>1 DEF ReqRow
  <1>2. CacheTypes'
    BY <1>1 DEF CacheInv, CacheTypes
  <1>3. \A u \in Tabs \ {t} : cached'[u] = cached[u]
    BY DEF CacheInv, CacheTypes
  <1>4. t \notin late =>
           \A u \in cached'[t] : u \in cached[t] \/ (mem[t].token # None /\ u = Owner(mem[t].token))
    <2> SUFFICES ASSUME t \notin late, NEW u \in cached'[t]
                 PROVE  u \in cached[t] \/ (mem[t].token # None /\ u = Owner(mem[t].token))
      OBVIOUS
    <2>1. Shows(req[r], mem[t].token)
      BY DEF CacheInv, ShowsOwner
    <2>2. u \in cached[t] \/ (u = req[r].performed /\ req[r].kept /\ req[r].answer = "ok")
      BY DEF CacheInv, CacheTypes
    <2> QED BY <2>1, <2>2 DEF Shows
  <1>5. t \notin late => Shows(row, mem[t].token)'
    BY DEF Shows
  <1> QED BY <1>2, <1>3, <1>4, <1>5, CacheGoesOn

\* A request that waits for a rotation.
LEMMA CacheWaits ==
    ASSUME References, CacheInv, UsersKept, SameUser', NEW r \in Requests, req[r].state = "answered",
           req' = [req EXCEPT ![r].state = "waiting"], UNCHANGED <<late, cached>>,
           NEW p, mem' = [mem EXCEPT ![req[r].tab] = p], p.token = mem[req[r].tab].token
    PROVE  CacheInv'
  <1> USE DEF References
  <1>0. PICK t \in Tabs : t = req[r].tab
    BY RequestHasRow
  <1> DEFINE row == [req[r] EXCEPT !.state = "waiting"]
  <1>1. req[r] \in ReqRow
    BY RowsOK
  <1>2. \A q \in Requests : req'[q] = IF q = r THEN row ELSE req[q]
    BY DEF ReqOK
  <1>3. row.tab = t /\ row.state = "waiting" /\ row.kept = req[r].kept
    BY <1>0, <1>1, AnswerRows
  <1> HIDE DEF row
  <1>4. mem'[t] = p
    BY <1>0 DEF HeldOK
  <1>5. ASSUME t \notin late, NEW q \in Requests, req'[q].tab = t
        PROVE  req'[q] = req[q] \/ Shows(req[q], mem[t].token)'
    <2>1. Shows(req[r], mem[t].token)
      BY <1>0, <1>5 DEF CacheInv, ShowsOwner
    <2> QED BY <1>0, <1>2, <1>3, <1>4, <2>1 DEF Shows
  <1>6. \A q \in Requests : req'[q] = req[q] \/ req'[q].tab \in {t, None}
    BY <1>2, <1>3
  <1>7. mem' = [mem EXCEPT ![t] = p] /\ p.token = mem[t].token
    BY <1>0
  <1> QED BY <1>5, <1>6, <1>7, CacheLooks

LEMMA CacheReceives ==
    ASSUME References, CacheInv, UsersKept, SameUser', NEW r \in Requests, Receive(r)
    PROVE  CacheInv'
  <1>1. ASSUME NEW state \in {"done", "failed"}, req[r].state = "answered",
               req' = [req EXCEPT ![r].state = state]
        PROVE  \E t \in Tabs : \E row : /\ t = req[r].tab /\ row.tab = t /\ row.state \in {"done", "failed"}
                                        /\ req' = [req EXCEPT ![r] = row]
    <2> DEFINE row == [req[r] EXCEPT !.state = state]
    <2>1. row.tab = req[r].tab /\ row.state = state
      BY RowsOK, AnswerRows DEF References
    <2>2. req' = [req EXCEPT ![r] = row]
      BY <1>1
    <2>3. req[r].tab \in Tabs
      BY <1>1, RequestHasRow DEF References
    <2> HIDE DEF row
    <2> QED BY <1>1, <2>1, <2>2, <2>3
  <1>2. CASE ReceiveOk(r) \/ Receive401Again(r)
    <2>1. req[r].state = "answered" /\ UNCHANGED <<mem, late>>
          /\ \E state \in {"done", "failed"} : req' = [req EXCEPT ![r].state = state]
      BY <1>2 DEF ReceiveOk, Receive401Again, clientVars
    <2>2. PICK t \in Tabs : t = req[r].tab
      BY <2>1, RequestHasRow DEF References
    <2>3. PICK row : row.tab = t /\ row.state \in {"done", "failed"} /\ req' = [req EXCEPT ![r] = row]
      BY <1>1, <2>1, <2>2
    <2>4. \/ UNCHANGED cached
          \/ /\ req[r].kept /\ req[r].answer = "ok"
             /\ cached' = [cached EXCEPT ![t] = cached[t] \cup {req[r].performed}]
      BY <1>2, <2>2 DEF ReceiveOk, Receive401Again
    <2> QED BY <2>1, <2>2, <2>3, <2>4, CacheEnds
  <1>3. CASE Receive401(r)
    <2> DEFINE t == req[r].tab
    <2>1. t \in Tabs /\ req[r].state = "answered"
      BY <1>3, RequestHasRow DEF Receive401, References
    <2>2. mem[t] \in HeldRefs /\ mem = [mem EXCEPT ![t] = mem[t]]
      BY <2>1 DEF References, HeldOK
    <2>3. CASE /\ UNCHANGED <<mem, cached, late>> /\ req' = [req EXCEPT ![r].state = "waiting"]
      BY <2>1, <2>2, <2>3, CacheWaits
    <2>4. CASE /\ mem' = [mem EXCEPT ![t].refresh = RefreshToken(t)] /\ UNCHANGED <<cached, late>>
               /\ req' = [req EXCEPT ![r].state = "waiting"]
      <3> DEFINE p == [mem[t] EXCEPT !.refresh = RefreshToken(t)]
      <3>1. p.token = mem[t].token
        BY <2>2 DEF HeldRefs
      <3>2. mem' = [mem EXCEPT ![t] = p]
        BY <2>4
      <3> HIDE DEF p
      <3> QED BY <2>1, <2>4, <3>1, <3>2, CacheWaits
    <2>5. CASE ToLogin(t)
      BY <2>1, <2>5, CacheToLogin
    <2> QED BY <1>3, <2>3, <2>4, <2>5 DEF Receive401, clientVars
  <1> QED BY <1>2, <1>3 DEF Receive

LEMMA CacheSends ==
    ASSUME References, CacheInv, UsersKept, SameUser', NEW r \in Requests, NEW t \in Tabs, SendRequest(r, t)
    PROVE  CacheInv'
  <1> USE DEF References
  <1> DEFINE n == Ensured(t).token
             u == tokens[n].user
             row == [NoReq EXCEPT !.state = "sent", !.tab = t, !.retry = TRUE, !.pair = n,
                                  !.user = u, !.kept = TRUE]
  <1>1. n # None /\ UNCHANGED <<tokens, cached, late>> /\ mem' = [mem EXCEPT ![t] = Ensured(t)]
    BY DEF SendRequest, serverVars
  <1>2. req' = [req EXCEPT ![r] = row]
    BY DEF SendRequest
  <1>3. mem'[t].token = n
    BY <1>1 DEF HeldOK
  <1> HIDE DEF n, u
  <1>4. row.tab = t /\ row.state = "sent" /\ row.pair = n
    BY DEF NoReq
  <1> HIDE DEF row
  <1>5. \A q \in Requests : req'[q] = IF q = r THEN row ELSE req[q]
    BY <1>2 DEF ReqOK
  <1>6. Shows(req[r], mem[t].token)'
    BY <1>1, <1>3, <1>4, <1>5 DEF Shows
  <1>7. \A q \in Requests : req'[q] = req[q] \/ req'[q].tab \in {t, None}
    BY <1>4, <1>5
  <1>8. \A q \in Requests : req'[q].tab = t => req'[q] = req[q] \/ Shows(req[q], mem[t].token)'
    BY <1>5, <1>6
  <1> QED BY <1>1, <1>7, <1>8, CacheLooks

\* Every request that waited asks for the user of the successor, who is the
\* owner if the successor is of the family held.
LEMMA CacheRotates ==
    ASSUME References, CacheInv, UsersKept, SameUser', NEW c \in Requests, RotationReturns(c)
    PROVE  CacheInv'
  <1> USE DEF References
  <1>0. PICK t \in Tabs : t = call[c].tab
    BY DEF RotationReturns, CallOK, CallRow
  <1>11. PICK n \in DOMAIN tokens : n = call[c].issued /\ n # None
    BY DEF RotationReturns, CallOK, CallRow, Ref
  <1> DEFINE again(r) == [req[r] EXCEPT !.state = "sent", !.pair = n, !.retry = FALSE, !.answer = None]
  <1>1. t \in Tabs /\ n \in DOMAIN tokens /\ n # None
    BY <1>11
  <1>2. /\ mem' = [mem EXCEPT ![t] = PairOf(n)] /\ UNCHANGED <<tokens, cached>>
        /\ late' = IF mem[t].token # None /\ tokens[mem[t].token].family # tokens[n].family
                     THEN late \cup {t} ELSE late
        /\ req' = [r \in Requests |-> IF r \in Waiting(t) THEN again(r) ELSE req[r]]
    BY <1>0, <1>11 DEF RotationReturns, serverVars
  <1>3. ASSUME NEW r \in Requests
        PROVE  again(r).tab = req[r].tab /\ again(r).state = "sent" /\ again(r).pair = n
               /\ again(r).kept = req[r].kept
    <2>1. req[r] \in ReqRow
      BY RowsOK
    <2> QED BY <2>1 DEF ReqRow
  <1> HIDE DEF again
  <1>4. \A r \in Requests : IF r \in Waiting(t) THEN req'[r] = again(r) /\ req[r].tab = t ELSE req'[r] = req[r]
    BY <1>2 DEF Waiting, Open
  <1>5. mem'[t] = PairOf(n) /\ PairOf(n).token = n
    BY <1>1, <1>2 DEF HeldOK, PairOf
  <1>6. CacheTypes'
    BY <1>1, <1>2 DEF CacheInv, CacheTypes
  <1>7. ASSUME t \notin late' PROVE ShowsOwner(t)'
    <2>1. t \notin late /\ (mem[t].token = None \/ tokens[mem[t].token].family = tokens[n].family)
      BY <1>2, <1>7
    <2>2. ShowsOwner(t)
      BY <1>1, <2>1 DEF CacheInv
    <2>3. mem[t].token # None => mem[t].token \in DOMAIN tokens
      BY <1>1 DEF HeldOK, HeldRefs, Ref
    <2>4. mem[t].token # None => Owner(mem[t].token) = Owner(n)
      BY <1>1, <2>1, <2>3 DEF CacheInv, SameUser, Owner
    <2>5. \A u \in cached'[t] : mem'[t].token # None /\ u = tokens'[n].user
      BY <1>1, <1>2, <1>5, <2>2, <2>4 DEF ShowsOwner, Owner
    <2>6. ASSUME NEW r \in Requests, req'[r].tab = t PROVE Shows(req[r], mem[t].token)'
      <3>1. req[r].tab = t
        BY <1>3, <1>4, <2>6
      <3>2. Shows(req[r], mem[t].token)
        BY <2>2, <3>1 DEF ShowsOwner
      <3>3. CASE r \in Waiting(t)
        BY <1>1, <1>2, <1>3, <1>4, <1>5, <3>3 DEF Shows, Owner
      <3>4. CASE r \notin Waiting(t)
        BY <1>1, <1>2, <1>4, <1>5, <2>4, <3>2, <3>4 DEF Shows, Owner
      <3> QED BY <3>3, <3>4
    <2> QED BY <1>5, <2>5, <2>6 DEF ShowsOwner, Owner
  <1>8. \A u \in Tabs \ {t} : mem'[u] = mem[u] /\ cached'[u] = cached[u] /\ (u \in late => u \in late')
    BY <1>2 DEF HeldOK
  <1>9. \A r \in Requests : req'[r] = req[r] \/ req'[r].tab \in {t, None}
    BY <1>3, <1>4
  <1> QED BY <1>1, <1>6, <1>7, <1>8, <1>9, OneTab

LEMMA CacheStep ==
    ASSUME References, CacheInv, [Next]_vars
    PROVE  CacheInv'
  <1> USE DEF References
  <1>1. CASE UNCHANGED vars
    BY <1>1 DEF vars, CacheInv, CacheTypes, SameUser, ShowsOwner, Shows, Owner
  <1>2. CASE Next
    <2>1. SameUser' /\ UsersKept
      BY <1>2, UsersStep DEF CacheInv
    <2>2. ASSUME UNCHANGED <<mem, cached, late, req>> PROVE CacheInv'
      <3>1. CacheTypes'
        BY <2>2 DEF CacheInv, CacheTypes
      <3>2. ASSUME NEW t \in Tabs, t \notin late' PROVE ShowsOwner(t)'
        BY <2>1, <2>2, <3>2, OwnerStays DEF CacheInv
      <3> QED BY <2>1, <3>1, <3>2 DEF CacheInv
    <2>3. ASSUME NEW t \in Tabs, SessionSteps(t) PROVE CacheInv'
      <3>1. CASE LoginReturns(t) \/ SignOutReturns(t) \/ Reload(t)
        BY <2>1, <3>1, CacheClears
      <3>2. CASE GuardStarts(t) \/ ChangePassword(t)
        <4>1. mem' = [mem EXCEPT ![t] = Ensured(t)] /\ UNCHANGED <<cached, late, req>>
          BY <3>2 DEF GuardStarts, ChangePassword
        <4> QED BY <2>1, <4>1, CacheLooks
      <3>3. CASE \E r \in Requests : SendRequest(r, t)
        BY <2>1, <3>3, CacheSends
      <3>4. CASE UNCHANGED <<mem, cached, late, req>>
        BY <2>2, <3>4
      <3> QED
        BY <2>3, <3>1, <3>2, <3>3, <3>4 DEF SessionSteps, Login, AcceptInvite, GuardReturns, SignOut, SignOutServed
    <2>4. ASSUME NEW r \in Requests, ServeRequest(r) \/ Receive(r) PROVE CacheInv'
      BY <2>1, <2>4, CacheServes, CacheReceives
    <2>5. ASSUME NEW c \in Requests, RotateStep(c) \/ RotateLost(c) \/ RotationEnds(c) PROVE CacheInv'
      <3>1. CASE RotationReturns(c)
        BY <2>1, <3>1, CacheRotates
      <3>2. CASE RotationRefused(c)
        <4>1. call[c].tab \in Tabs
          BY <3>2 DEF RotationRefused, CallOK, CallRow
        <4> QED BY <2>1, <3>2, <4>1, CacheToLogin DEF RotationRefused
      <3>3. CASE UNCHANGED <<mem, cached, late, req>>
        BY <2>2, <3>3
      <3> QED
        BY <2>5, <3>1, <3>2, <3>3 DEF RotateStep, RotateCheck, RotateConsume, RotateIssue, RotateLost,
                                      RotationEnds, RotateUnheard, clientVars
    <2>6. ASSUME NEW n \in Pairs, Expire(n) PROVE CacheInv'
      BY <2>2, <2>6 DEF Expire, clientVars
    <2> QED BY <1>2, <2>3, <2>4, <2>5, <2>6 DEF Next
  <1> QED BY <1>1, <1>2
-----------------------------------------------------------------------------
(* Tabs that are not open.                                                 *)

OpenStates == {"sent", "answered", "waiting"}

\* A closed tab holds nothing and waits for nothing.
Inert == \A t \in Tabs : view[t] = "closed" =>
            /\ mem[t] = NoPair
            /\ \A r \in Requests : req[r].tab = t => req[r].state \notin OpenStates
            /\ \A c \in Requests : call[c].heard => call[c].tab # t

\* A step of one open tab, and a step of none.
Acts(t) ==
    /\ view[t] # "closed" /\ view'[t] # "closed"
    /\ \A u \in Tabs \ {t} : view'[u] = view[u] /\ mem'[u] = mem[u]
    /\ \A r \in Requests : req'[r] = req[r] \/ req'[r].tab \in {t, None}
    /\ \A c \in Requests : call'[c].heard => call'[c].tab = t \/ (call[c].heard /\ call'[c].tab = call[c].tab)
Rests ==
    /\ UNCHANGED <<view, mem, req>>
    /\ \A c \in Requests : call'[c].heard => call[c].heard /\ call'[c].tab = call[c].tab

LEMMA InertStays ==
    ASSUME Inert, Rests \/ \E t \in Tabs : Acts(t)
    PROVE  Inert' /\ \A t \in Tabs : view'[t] = "closed" <=> view[t] = "closed"
  <1>1. CASE Rests
    BY <1>1 DEF Rests, Inert
  <1>2. ASSUME NEW t \in Tabs, Acts(t)
        PROVE  Inert' /\ \A u \in Tabs : view'[u] = "closed" <=> view[u] = "closed"
    <2>1. \A u \in Tabs : view'[u] = "closed" <=> view[u] = "closed"
      BY <1>2 DEF Acts
    <2>2. ASSUME NEW u \in Tabs, view'[u] = "closed"
          PROVE  /\ mem'[u] = NoPair
                 /\ \A r \in Requests : req'[r].tab = u => req'[r].state \notin OpenStates
                 /\ \A c \in Requests : call'[c].heard => call'[c].tab # u
      <3>1. u # t /\ view[u] = "closed" /\ u # None
        BY <1>2, <2>1, <2>2, NoneDistinct DEF Acts
      <3> QED BY <1>2, <3>1 DEF Acts, Inert
    <2> QED BY <2>1, <2>2 DEF Inert
  <1> QED BY <1>1, <1>2

LEMMA InitInert == Init => Inert
  BY DEF Init, AtRest, Inert, NoReq, IdleCall, OpenStates

\* The row of a call after its steps.
LEMMA CallRows ==
    ASSUME NEW row \in CallRow, NEW stage, NEW n
    PROVE  /\ LET next == [row EXCEPT !.stage = stage] IN
              /\ next.stage = stage /\ next.tab = row.tab /\ next.pair = row.pair
              /\ next.heard = row.heard /\ next.issued = row.issued
           /\ LET next == [row EXCEPT !.stage = stage, !.issued = n] IN
              /\ next.stage = stage /\ next.tab = row.tab /\ next.pair = row.pair
              /\ next.heard = row.heard /\ next.issued = n
           /\ LET next == [row EXCEPT !.heard = FALSE] IN
              /\ next.stage = row.stage /\ next.tab = row.tab /\ next.pair = row.pair
              /\ next.heard = FALSE /\ next.issued = row.issued
  BY DEF CallRow

\* A call goes on to another stage; all others stay.
LEMMA OneCallMoves ==
    ASSUME CallOK, NEW c \in Requests, NEW stage, call' = [call EXCEPT ![c].stage = stage]
    PROVE  /\ \A d \in Requests \ {c} : call'[d] = call[d]
           /\ call'[c].stage = stage /\ call'[c].tab = call[c].tab /\ call'[c].pair = call[c].pair
           /\ call'[c].heard = call[c].heard /\ call'[c].issued = call[c].issued
  <1> DEFINE row == [call[c] EXCEPT !.stage = stage]
  <1>1. call[c] \in CallRow
    BY DEF CallOK
  <1>2. /\ row.stage = stage /\ row.tab = call[c].tab /\ row.pair = call[c].pair
        /\ row.heard = call[c].heard /\ row.issued = call[c].issued
    BY <1>1, CallRows
  <1>3. call' = [call EXCEPT ![c] = row]
    OBVIOUS
  <1> HIDE DEF row
  <1>4. call'[c] = row /\ \A d \in Requests \ {c} : call'[d] = call[d]
    BY <1>3 DEF CallOK
  <1> QED BY <1>2, <1>4

LEMMA OneCallIssues ==
    ASSUME CallOK, NEW c \in Requests, RotateIssue(c)
    PROVE  /\ \A d \in Requests \ {c} : call'[d] = call[d]
           /\ call'[c].stage = "issued" /\ call'[c].tab = call[c].tab /\ call'[c].pair = call[c].pair
           /\ call'[c].heard = call[c].heard /\ call'[c].issued = Len(tokens) + 1
  <1> DEFINE row == [call[c] EXCEPT !.stage = "issued", !.issued = Len(tokens) + 1]
  <1>1. call[c] \in CallRow
    BY DEF CallOK
  <1>2. /\ row.stage = "issued" /\ row.tab = call[c].tab /\ row.pair = call[c].pair
        /\ row.heard = call[c].heard /\ row.issued = Len(tokens) + 1
    BY <1>1, CallRows
  <1>3. call' = [call EXCEPT ![c] = row]
    BY DEF RotateIssue
  <1> HIDE DEF row
  <1>4. call'[c] = row /\ \A d \in Requests \ {c} : call'[d] = call[d]
    BY <1>3 DEF CallOK
  <1> QED BY <1>2, <1>4

LEMMA OneCallEnds ==
    ASSUME CallOK, NEW c \in Requests, call' = [call EXCEPT ![c] = IdleCall]
    PROVE  /\ \A d \in Requests \ {c} : call'[d] = call[d]
           /\ call'[c].stage = "idle" /\ ~call'[c].heard
  BY DEF CallOK, IdleCall

LEMMA CallsUnheard ==
    ASSUME CallOK, NEW t, call' = Unheard(t), NEW c \in Requests
    PROVE  /\ call'[c].stage = call[c].stage /\ call'[c].tab = call[c].tab
           /\ call'[c].pair = call[c].pair /\ call'[c].issued = call[c].issued
           /\ call'[c].heard <=> call[c].heard /\ call[c].tab # t
  <1> DEFINE row == [call[c] EXCEPT !.heard = FALSE]
  <1>1. call[c] \in CallRow
    BY DEF CallOK
  <1>2. /\ row.stage = call[c].stage /\ row.tab = call[c].tab /\ row.pair = call[c].pair
        /\ row.heard = FALSE /\ row.issued = call[c].issued
    BY <1>1, CallRows
  <1>3. call'[c] = IF c \in InFlight(t) THEN row ELSE call[c]
    BY DEF Unheard
  <1> HIDE DEF row
  <1>4. call'[c].heard <=> call[c].heard /\ call[c].tab # t
    <2>1. CASE c \in InFlight(t)
      <3>1. call'[c].heard = FALSE
        BY <1>2, <1>3, <2>1
      <3> QED BY <2>1, <3>1 DEF InFlight
    <2>2. CASE c \notin InFlight(t)
      <3>1. call'[c].heard = call[c].heard
        BY <1>3, <2>2
      <3> QED BY <2>2, <3>1 DEF InFlight
    <2> QED BY <2>1, <2>2
  <1> QED BY <1>2, <1>3, <1>4

\* A step at one open tab that leaves the calls as they are, and the requests but for its own.
LEMMA OneTabActs ==
    ASSUME References, GuardInv, NEW t \in Tabs, view[t] # "closed",
           NEW shown, shown # "closed", Becomes(view, view', t, shown),
           NEW held, Becomes(mem, mem', t, held),
           \A r \in Requests : req'[r] = req[r] \/ req'[r].tab \in {t, None},
           \A c \in Requests : call'[c].heard => call'[c].tab = t \/ (call[c].heard /\ call'[c].tab = call[c].tab)
    PROVE  Acts(t)
  <1>1. view'[t] = shown /\ \A u \in Tabs \ {t} : view'[u] = view[u]
    BY DEF Becomes, GuardInv, GuardTypes
  <1>2. \A u \in Tabs \ {t} : mem'[u] = mem[u]
    BY DEF Becomes, References, HeldOK
  <1> QED BY <1>1, <1>2 DEF Acts

LEMMA ToLoginActs ==
    ASSUME References, GuardInv, NEW t \in Tabs, view[t] # "closed", ToLogin(t),
           \A c \in Requests : call'[c].heard => call[c].heard /\ call'[c].tab = call[c].tab
    PROVE  Acts(t)
  <1>1. Becomes(view, view', t, "login") /\ Becomes(mem, mem', t, NoPair)
    BY DEF ToLogin, Becomes
  <1>2. t # None
    BY NoneDistinct
  <1>3. \A r \in Requests : req'[r] = req[r] \/ req'[r].tab \in {t, None}
    BY <1>2, DroppedRows DEF ToLogin, References
  <1> QED BY <1>1, <1>3, OneTabActs

LEMMA SessionActs ==
    ASSUME References, GuardInv, NEW t \in Tabs, SessionSteps(t)
    PROVE  Acts(t)
  <1> DEFINE others == \A r \in Requests : req'[r] = req[r] \/ req'[r].tab \in {t, None}
             quiet == \A c \in Requests : call'[c].heard => call'[c].tab = t \/ (call[c].heard /\ call'[c].tab = call[c].tab)
  <1>0. /\ Fits(view[t], mem[t].token, probe[t].kind, signing[t].kind)
        /\ UNCHANGED req => others
        /\ UNCHANGED call => quiet
    BY DEF GuardInv, GuardFits
  <1>1. CASE \E u \in Users : Login(t, u)
    <2>1. view[t] = "login" /\ Becomes(view, view', t, "login") /\ Becomes(mem, mem', t, mem[t])
          /\ UNCHANGED <<req, call>>
      BY <1>1 DEF Login, Becomes
    <2> QED BY <1>0, <2>1, OneTabActs
  <1>2. CASE \E u \in Users : AcceptInvite(t, u)
    <2>1. view[t] = "invite" /\ Becomes(view, view', t, "login") /\ Becomes(mem, mem', t, mem[t])
          /\ UNCHANGED <<req, call>>
      BY <1>2 DEF AcceptInvite, Becomes
    <2> QED BY <1>0, <2>1, OneTabActs
  <1>3. CASE LoginReturns(t)
    <2>1. Becomes(view, view', t, "loading") /\ Becomes(mem, mem', t, PairOf(signing[t].pair))
          /\ UNCHANGED call
      BY <1>3 DEF LoginReturns, Becomes
    <2>2. view[t] = "login"
      BY <1>0, <1>3 DEF LoginReturns, Fits
    <2>3. others
      BY <1>3, ForgottenRows DEF LoginReturns, References
    <2> QED BY <1>0, <2>1, <2>2, <2>3, OneTabActs
  <1>4. CASE GuardStarts(t)
    <2>1. PICK shown \in {"login", "loading"} : Becomes(view, view', t, shown)
      BY <1>4 DEF GuardStarts, Becomes
    <2>2. view[t] = "loading" /\ Becomes(mem, mem', t, Ensured(t)) /\ UNCHANGED <<req, call>>
      BY <1>4 DEF GuardStarts, Becomes
    <2> QED BY <1>0, <2>1, <2>2, OneTabActs
  <1>5. CASE GuardReturns(t)
    <2>1. PICK shown \in {"app", "login", "must-change"} : Becomes(view, view', t, shown)
      BY <1>5 DEF GuardReturns, Becomes
    <2>2. view[t] = "loading" /\ Becomes(mem, mem', t, mem[t]) /\ UNCHANGED <<req, call>>
      BY <1>5 DEF GuardReturns, Becomes
    <2> QED BY <1>0, <2>1, <2>2, OneTabActs
  <1>6. CASE ChangePassword(t)
    <2>1. view[t] = "must-change" /\ Becomes(view, view', t, "loading") /\ Becomes(mem, mem', t, Ensured(t))
          /\ UNCHANGED <<req, call>>
      BY <1>6 DEF ChangePassword, Becomes
    <2> QED BY <1>0, <2>1, OneTabActs
  <1>7. CASE Reload(t)
    <2>1. PICK shown : shown = IF view[t] \in {"app", "login"} THEN "loading" ELSE view[t]
      OBVIOUS
    <2>2. Becomes(view, view', t, shown) /\ shown # "closed" /\ view[t] # "closed"
      BY <1>7, <2>1 DEF Reload, Becomes
    <2>3. Becomes(mem, mem', t, NoPair) /\ call' = Unheard(t) /\ req' = Drop(t, Open(t))
      BY <1>7 DEF Reload, Becomes
    <2>4. others
      BY <2>3, DroppedRows, NoneDistinct DEF References
    <2>5. quiet
      BY <2>3, CallsUnheard DEF References
    <2> HIDE DEF others, quiet
    <2>6. Acts(t)
      BY <2>2, <2>3, <2>4, <2>5, OneTabActs DEF others, quiet
    <2> QED BY <2>6
  <1>8. CASE SignOut(t) \/ SignOutServed(t)
    <2>1. view[t] = "app" /\ UNCHANGED <<view, mem, req, call>>
      BY <1>0, <1>8 DEF SignOut, SignOutServed, Fits
    <2>2. Becomes(view, view', t, "app") /\ Becomes(mem, mem', t, mem[t])
      BY <2>1 DEF Becomes
    <2> QED BY <1>0, <2>1, <2>2, OneTabActs
  <1>9. CASE SignOutReturns(t)
    <2>1. Becomes(view, view', t, "login") /\ Becomes(mem, mem', t, NoPair) /\ UNCHANGED call
      BY <1>9 DEF SignOutReturns, Becomes
    <2>2. view[t] = "app"
      BY <1>0, <1>9 DEF SignOutReturns, Fits
    <2>3. others
      BY <1>9, ForgottenRows DEF SignOutReturns, References
    <2> QED BY <1>0, <2>1, <2>2, <2>3, OneTabActs
  <1>10. ASSUME NEW r \in Requests, SendRequest(r, t) PROVE Acts(t)
    <2> DEFINE n == Ensured(t).token
               u == tokens[n].user
               row == [NoReq EXCEPT !.state = "sent", !.tab = t, !.retry = TRUE, !.pair = n,
                                    !.user = u, !.kept = TRUE]
    <2>1. req' = [req EXCEPT ![r] = row]
      BY <1>10 DEF SendRequest
    <2> HIDE DEF n, u
    <2>2. row.tab = t
      BY DEF NoReq
    <2> HIDE DEF row
    <2>3. others
      BY <2>1, <2>2 DEF References, ReqOK
    <2>4. view[t] = "app" /\ Becomes(view, view', t, "app") /\ Becomes(mem, mem', t, Ensured(t)) /\ UNCHANGED call
      BY <1>10 DEF SendRequest, Becomes
    <2> QED BY <1>0, <2>3, <2>4, OneTabActs
  <1> QED
    BY <1>1, <1>2, <1>3, <1>4, <1>5, <1>6, <1>7, <1>8, <1>9, <1>10 DEF SessionSteps

\* The request goes on in its tab.
LEMMA RequestActs ==
    ASSUME References, GuardInv, Inert, NEW r \in Requests, ServeRequest(r) \/ Receive(r)
    PROVE  Acts(req[r].tab) /\ req[r].tab \in Tabs
  <1> PICK t : t = req[r].tab
    OBVIOUS
  <1>1. t \in Tabs /\ req[r].state \in {"sent", "answered"}
    BY RequestHasRow DEF References, ServeRequest, Receive, ReceiveOk, Receive401, Receive401Again
  <1>2. view[t] # "closed"
    BY <1>1 DEF Inert, OpenStates
  <1>3. req[r] \in ReqRow
    BY RowsOK DEF References
  <1>4. ASSUME NEW row, row.tab = t, req' = [req EXCEPT ![r] = row]
        PROVE  \A q \in Requests : req'[q] = req[q] \/ req'[q].tab \in {t, None}
    BY <1>4 DEF References, ReqOK
  <1>5. ASSUME NEW state, req' = [req EXCEPT ![r].state = state]
        PROVE  \A q \in Requests : req'[q] = req[q] \/ req'[q].tab \in {t, None}
    <2> DEFINE row == [req[r] EXCEPT !.state = state]
    <2>1. row.tab = t
      BY <1>3, AnswerRows
    <2>2. req' = [req EXCEPT ![r] = row]
      BY <1>5
    <2> HIDE DEF row
    <2> QED BY <1>4, <2>1, <2>2
  <1>6. Becomes(mem, mem, t, mem[t]) /\ Becomes(view, view, t, view[t])
    BY DEF Becomes
  <1>7. CASE ServeRequest(r)
    <2> DEFINE answer == IF Valid(req[r].pair) THEN "ok" ELSE "401"
               performed == IF Valid(req[r].pair) THEN tokens[req[r].pair].user ELSE None
               row == [req[r] EXCEPT !.state = "answered", !.answer = answer, !.performed = performed]
    <2>1. req' = [req EXCEPT ![r] = row] /\ UNCHANGED <<view, mem, call>>
      BY <1>7 DEF ServeRequest, clientVars
    <2> HIDE DEF answer, performed
    <2>2. row.tab = t
      BY <1>3, AnswerRows
    <2> HIDE DEF row
    <2>3. \A q \in Requests : req'[q] = req[q] \/ req'[q].tab \in {t, None}
      BY <1>4, <2>1, <2>2
    <2>4. Acts(t)
      BY <1>1, <1>2, <1>6, <2>1, <2>3, OneTabActs
    <2> QED BY <1>1, <2>4
  <1>8. CASE ReceiveOk(r) \/ Receive401Again(r)
    <2>1. UNCHANGED <<view, mem, call>> /\ \E state \in {"done", "failed"} : req' = [req EXCEPT ![r].state = state]
      BY <1>8 DEF ReceiveOk, Receive401Again, clientVars
    <2>2. \A q \in Requests : req'[q] = req[q] \/ req'[q].tab \in {t, None}
      BY <1>5, <2>1
    <2>3. Acts(t)
      BY <1>1, <1>2, <1>6, <2>1, <2>2, OneTabActs
    <2> QED BY <1>1, <2>3
  <1>9. CASE Receive401(r)
    <2>1. CASE UNCHANGED <<view, mem, call>> /\ req' = [req EXCEPT ![r].state = "waiting"]
      <3>1. \A q \in Requests : req'[q] = req[q] \/ req'[q].tab \in {t, None}
        BY <1>5, <2>1
      <3>2. Acts(t)
        BY <1>1, <1>2, <1>6, <2>1, <3>1, OneTabActs
      <3> QED BY <1>1, <3>2
    <2>2. CASE /\ mem' = [mem EXCEPT ![t].refresh = RefreshToken(t)] /\ UNCHANGED view
               /\ req' = [req EXCEPT ![r].state = "waiting"]
               /\ call' = [call EXCEPT ![r] = [IdleCall EXCEPT !.tab = t, !.pair = RefreshToken(t),
                                                               !.stage = "sent", !.heard = TRUE]]
      <3>1. \A q \in Requests : req'[q] = req[q] \/ req'[q].tab \in {t, None}
        BY <1>5, <2>2
      <3>2. call'[r].tab = t /\ \A c \in Requests \ {r} : call'[c] = call[c]
        <4> DEFINE row == [IdleCall EXCEPT !.tab = t, !.pair = RefreshToken(t), !.stage = "sent", !.heard = TRUE]
        <4>1. row.tab = t
          BY DEF IdleCall
        <4>2. call' = [call EXCEPT ![r] = row]
          BY <2>2
        <4> HIDE DEF row
        <4> QED BY <4>1, <4>2 DEF References, CallOK
      <3>3. mem' = [mem EXCEPT ![t] = [mem[t] EXCEPT !.refresh = RefreshToken(t)]]
        BY <2>2
      <3>4. PICK held : mem' = [mem EXCEPT ![t] = held]
        BY <3>3
      <3>5. Becomes(mem, mem', t, held) /\ Becomes(view, view', t, view[t])
        BY <2>2, <3>4 DEF Becomes
      <3>6. \A c \in Requests : call'[c].heard =>
               call'[c].tab = t \/ (call[c].heard /\ call'[c].tab = call[c].tab)
        BY <3>2
      <3>7. Acts(t)
        BY <1>1, <1>2, <3>1, <3>5, <3>6, OneTabActs
      <3> QED BY <1>1, <3>7
    <2>3. CASE ToLogin(t) /\ UNCHANGED call
      <3>1. Acts(t)
        BY <1>1, <1>2, <2>3, ToLoginActs
      <3> QED BY <1>1, <3>1
    <2> QED BY <1>9, <2>1, <2>2, <2>3 DEF Receive401, clientVars
  <1> QED BY <1>7, <1>8, <1>9 DEF Receive

LEMMA RotationActs ==
    ASSUME References, GuardInv, Inert, NEW c \in Requests, RotateStep(c) \/ RotateLost(c) \/ RotationEnds(c)
    PROVE  Rests \/ \E t \in Tabs : Acts(t)
  <1> USE DEF References
  <1>1. ASSUME NEW stage, call' = [call EXCEPT ![c].stage = stage], UNCHANGED <<view, mem, req>> PROVE Rests
    BY <1>1, OneCallMoves DEF Rests
  <1>2. ASSUME call' = [call EXCEPT ![c] = IdleCall]
        PROVE  \A d \in Requests : call'[d].heard => call[d].heard /\ call'[d].tab = call[d].tab
    BY <1>2, OneCallEnds
  <1>3. CASE RotateCheck(c) \/ RotateConsume(c) \/ RotateLost(c)
    BY <1>1, <1>3 DEF RotateCheck, RotateConsume, RotateLost, clientVars
  <1>4. CASE RotateIssue(c)
    BY <1>4, OneCallIssues DEF Rests, RotateIssue, clientVars
  <1>5. CASE RotateUnheard(c)
    BY <1>2, <1>5 DEF Rests, RotateUnheard, clientVars
  <1>6. ASSUME call[c].heard, call[c].stage # "idle"
        PROVE  call[c].tab \in Tabs /\ view[call[c].tab] # "closed"
    <2>1. call[c].tab \in Tabs
      BY <1>6 DEF CallOK, CallRow
    <2> QED BY <1>6, <2>1 DEF Inert
  <1>7. CASE RotationRefused(c)
    <2>1. call[c].tab \in Tabs /\ view[call[c].tab] # "closed" /\ ToLogin(call[c].tab)
          /\ call' = [call EXCEPT ![c] = IdleCall]
      BY <1>6, <1>7 DEF RotationRefused
    <2> QED BY <1>2, <2>1, ToLoginActs
  <1>8. CASE RotationReturns(c)
    <2>1. PICK t \in Tabs : t = call[c].tab /\ view[t] # "closed"
      BY <1>6, <1>8 DEF RotationReturns
    <2>2. PICK n : n = call[c].issued
      OBVIOUS
    <2> DEFINE again(r) == [req[r] EXCEPT !.state = "sent", !.pair = n, !.retry = FALSE, !.answer = None]
    <2>3. /\ mem' = [mem EXCEPT ![t] = PairOf(n)] /\ UNCHANGED view
          /\ req' = [r \in Requests |-> IF r \in Waiting(t) THEN again(r) ELSE req[r]]
          /\ call' = [call EXCEPT ![c] = IdleCall]
      BY <1>8, <2>1, <2>2 DEF RotationReturns
    <2>4. \A r \in Requests : again(r).tab = req[r].tab
      BY RowsOK DEF ReqRow
    <2> HIDE DEF again
    <2>5. \A r \in Requests : req'[r] = req[r] \/ req'[r].tab \in {t, None}
      BY <2>3, <2>4 DEF Waiting, Open
    <2>6. Becomes(mem, mem', t, PairOf(n)) /\ Becomes(view, view', t, view[t])
      BY <2>3 DEF Becomes
    <2>7. \A d \in Requests : call'[d].heard => call'[d].tab = t \/ (call[d].heard /\ call'[d].tab = call[d].tab)
      BY <1>2, <2>3
    <2>8. Acts(t)
      BY <2>1, <2>5, <2>6, <2>7, OneTabActs
    <2> QED BY <2>8
  <1> QED
    BY <1>3, <1>4, <1>5, <1>7, <1>8 DEF RotateStep, RotationEnds

LEMMA InertStep ==
    ASSUME References, GuardInv, Inert, [Next]_vars
    PROVE  Inert' /\ \A t \in Tabs : view'[t] = "closed" <=> view[t] = "closed"
  <1>1. CASE UNCHANGED vars
    BY <1>1, InertStays DEF vars, Rests
  <1>2. ASSUME NEW n \in Pairs, Expire(n) PROVE Rests
    BY <1>2 DEF Expire, Rests, clientVars
  <1>3. CASE Next
    <2>1. Rests \/ \E t \in Tabs : Acts(t)
      BY <1>2, <1>3, SessionActs, RequestActs, RotationActs DEF Next
    <2> QED BY <2>1, InertStays
  <1> QED BY <1>1, <1>3
-----------------------------------------------------------------------------
(* The single flight.                                                      *)

Consumed(n) == n \in DOMAIN tokens /\ tokens[n].consumed
\* A refresh token that some tab, or the storage, would present.
Holds(n) == n # None /\ (storage.refresh = n \/ \E t \in Tabs : mem[t].refresh = n)
Busy(c) == call[c].stage # "idle"
Asks(c) == call[c].stage \in {"sent", "checked"}
Took(c) == call[c].stage \in {"consumed", "issued"}
\* Issued, and on its way to a tab.
Brings(c, n) == call[c].stage = "issued" /\ call[c].issued = n
SignsIn(t, n) == signing[t].kind = "in" /\ signing[t].pair = n
Coming(n) == (\E c \in Requests : Brings(c, n)) \/ (\E t \in Tabs : SignsIn(t, n))

HeardOnce == /\ \A c \in Requests : call[c].heard => Busy(c)
             /\ \A c, d \in Requests : call[c].heard /\ call[d].heard /\ call[c].tab = call[d].tab => c = d
UnheardLost == \A c \in Requests : Busy(c) /\ ~call[c].heard => call[c].pair \in lost
\* What is on its way is unused, and nobody else has it.
ComingFresh == \A n : Coming(n) => ~Consumed(n) /\ ~Holds(n) /\ \A c \in Requests : Busy(c) => call[c].pair # n
ComingOnce == /\ \A c, d \in Requests : \A n : Brings(c, n) /\ Brings(d, n) => c = d
              /\ \A t, u \in Tabs : \A n : SignsIn(t, n) /\ SignsIn(u, n) => t = u
              /\ \A c \in Requests, t \in Tabs : \A n : ~(Brings(c, n) /\ SignsIn(t, n))

\* With one tab: a consumed token is held or presented only while its rotation is awaited,
\* or after that was cut.
AsksFresh == \A c \in Requests : Asks(c) /\ Consumed(call[c].pair) => call[c].pair \in lost
HoldsFresh == \A n : Holds(n) /\ Consumed(n) =>
                 n \in lost \/ \E c \in Requests : call[c].heard /\ Took(c) /\ call[c].pair = n
SoleTab == \A t, u \in Tabs : view[t] # "closed" /\ view[u] # "closed" => t = u

FlightInv == /\ HeardOnce /\ UnheardLost /\ ComingFresh /\ ComingOnce
             /\ SoleTab => AsksFresh /\ HoldsFresh /\ reused \subseteq lost

LEMMA InitFlight == Init => FlightInv
  <1> SUFFICES ASSUME Init PROVE FlightInv
    OBVIOUS
  <1>1. \A c \in Requests : call[c].stage = "idle" /\ ~call[c].heard
    BY DEF Init, AtRest, IdleCall
  <1>2. \A t \in Tabs : signing[t].kind = "idle" /\ mem[t].refresh = None
    BY DEF Init, AtRest, Idle, NoPair
  <1>3. storage.refresh = None /\ reused = {}
    BY DEF Init, AtRest, NoPair
  <1>4. \A n : ~Coming(n) /\ ~Holds(n)
    BY <1>1, <1>2, <1>3 DEF Coming, Brings, SignsIn, Holds
  <1> QED
    BY <1>1, <1>2, <1>3, <1>4 DEF FlightInv, HeardOnce, UnheardLost, ComingFresh, ComingOnce, AsksFresh,
       HoldsFresh, Busy, Asks, Brings, SignsIn

\* Tokens that are held, on their way or presented have rows.
LEMMA NamesHaveRows ==
    ASSUME References, NEW n
    PROVE  /\ Holds(n) => n \in DOMAIN tokens
           /\ Coming(n) => n \in DOMAIN tokens
           /\ \A c \in Requests : Busy(c) => call[c].pair \in DOMAIN tokens
  <1> USE DEF References
  <1>1. Holds(n) => n \in DOMAIN tokens
    BY DEF Holds, HeldOK, HeldRefs, Ref
  <1>2. ASSUME NEW c \in Requests, Brings(c, n) PROVE n \in DOMAIN tokens
    BY <1>2 DEF Brings, CallOK, CallRow, Ref
  <1>3. ASSUME NEW t \in Tabs, SignsIn(t, n) PROVE n \in DOMAIN tokens
    BY <1>3, SigningHasRow DEF SignsIn
  <1> QED BY <1>1, <1>2, <1>3, CallHasRow DEF Coming, Busy

\* The calls go on, end or are given up; none begins, consumes or issues.
CallsFade ==
    \A c \in Requests :
        /\ Busy(c)' => Busy(c) /\ call'[c].pair = call[c].pair
        /\ Asks(c)' => Asks(c)
        /\ call'[c].heard => Busy(c)' /\ call[c].heard /\ call'[c].tab = call[c].tab
        /\ Busy(c)' /\ ~call'[c].heard => ~call[c].heard \/ call[c].pair \in lost'
        /\ call'[c].stage = "issued" => call[c].stage = "issued" /\ call'[c].issued = call[c].issued
        /\ call[c].heard /\ Took(c) => \/ call[c].pair \in lost'
                                       \/ call'[c].heard /\ Took(c)' /\ call'[c].pair = call[c].pair
SigningFades == \A t \in Tabs : signing'[t].kind = "in" => signing'[t] = signing[t]
HoldsFade == \A n : Holds(n)' => Holds(n)
SameConsumed == \A n : Consumed(n)' <=> Consumed(n)

LEMMA FlightFades ==
    ASSUME FlightInv, SoleTab' => SoleTab, lost \subseteq lost',
           SameConsumed, HoldsFade, SigningFades, CallsFade, SoleTab => reused' \subseteq lost'
    PROVE  FlightInv'
  <1>1. /\ \A c \in Requests : \A n : Brings(c, n)' => Brings(c, n)
        /\ \A t \in Tabs : \A n : SignsIn(t, n)' => SignsIn(t, n)
    BY DEF CallsFade, SigningFades, Brings, SignsIn
  <1>2. \A n : Coming(n)' => Coming(n)
    BY <1>1 DEF Coming
  <1>3. HeardOnce'
    BY DEF FlightInv, HeardOnce, CallsFade
  <1>4. UnheardLost'
    BY DEF FlightInv, UnheardLost, CallsFade
  <1>5. ComingFresh'
    BY <1>2 DEF FlightInv, ComingFresh, SameConsumed, HoldsFade, CallsFade
  <1>6. ComingOnce'
    BY <1>1 DEF FlightInv, ComingOnce
  <1>7. ASSUME SoleTab' PROVE AsksFresh' /\ HoldsFresh' /\ (reused \subseteq lost)'
    <2>1. AsksFresh /\ HoldsFresh
      BY <1>7 DEF FlightInv
    <2>2. AsksFresh'
      <3> SUFFICES ASSUME NEW c \in Requests, Asks(c)', Consumed(call[c].pair)'
                   PROVE  call'[c].pair \in lost'
        BY DEF AsksFresh
      <3>1. Busy(c)'
        BY DEF Asks, Busy
      <3>2. Asks(c) /\ call'[c].pair = call[c].pair
        BY <3>1 DEF CallsFade
      <3> PICK n : n = call[c].pair
        OBVIOUS
      <3>3. Consumed(n)'
        BY <3>2 DEF Consumed
      <3> QED BY <2>1, <3>2, <3>3 DEF AsksFresh, SameConsumed
    <2>3. HoldsFresh'
      BY <2>1 DEF HoldsFresh, HoldsFade, SameConsumed, CallsFade
    <2> QED BY <1>7, <2>2, <2>3
  <1> QED BY <1>3, <1>4, <1>5, <1>6, <1>7 DEF FlightInv
-----------------------------------------------------------------------------
(* What keeps the premises.                                                *)

LEMMA KeptConsumed ==
    ASSUME TokensOK, Marked \/ UNCHANGED tokens PROVE SameConsumed
  BY DEF TokensOK, Marked, Marks, SameConsumed, Consumed

LEMMA NewConsumed ==
    ASSUME TokensOK, Grows, ~tokens'[Len(tokens) + 1].consumed, TokensOK'
    PROVE  SameConsumed /\ Len(tokens) + 1 \notin DOMAIN tokens
  <1>1. DOMAIN tokens' = DOMAIN tokens \cup {Len(tokens) + 1} /\ Len(tokens) + 1 \notin DOMAIN tokens
    BY DEF TokensOK, Grows
  <1> QED BY <1>1 DEF Grows, SameConsumed, Consumed

LEMMA CallsSame ==
    ASSUME FlightInv, UNCHANGED call, lost \subseteq lost' PROVE CallsFade
  BY DEF CallsFade, Busy, Asks, Took, FlightInv, HeardOnce

LEMMA SigningSame == ASSUME UNCHANGED signing PROVE SigningFades
  BY DEF SigningFades

LEMMA SigningGoes ==
    ASSUME SigningOK, NEW t \in Tabs, NEW row, row.kind # "in", signing' = [signing EXCEPT ![t] = row]
    PROVE  SigningFades
  BY DEF SigningOK, SigningFades

LEMMA HoldsSame == ASSUME UNCHANGED <<mem, storage>> PROVE HoldsFade
  BY DEF HoldsFade, Holds

\* A tab takes nothing but what it had, what the storage has, or nothing.
LEMMA HoldsGoes ==
    ASSUME HeldOK, NEW t \in Tabs, NEW p, mem' = [mem EXCEPT ![t] = p],
           p.refresh \in {None, mem[t].refresh, storage.refresh},
           storage' = storage \/ storage'.refresh = None
    PROVE  HoldsFade
  <1>1. \A u \in Tabs : mem'[u] = IF u = t THEN p ELSE mem[u]
    BY DEF HeldOK
  <1> QED BY <1>1 DEF HoldsFade, Holds

LEMMA EnsuredRefresh ==
    ASSUME NEW t PROVE Ensured(t).refresh \in {None, mem[t].refresh, storage.refresh} /\ NoPair.refresh = None
  BY DEF Ensured, NoPair

LEMMA ToLoginFades ==
    ASSUME References, NEW t \in Tabs, ToLogin(t) PROVE HoldsFade /\ SigningFades
  <1>1. mem' = [mem EXCEPT ![t] = NoPair] /\ storage' = NoPair /\ signing' = [signing EXCEPT ![t] = Idle]
    BY DEF ToLogin
  <1>2. NoPair.refresh = None /\ Idle.kind # "in"
    BY DEF NoPair, Idle
  <1> QED BY <1>1, <1>2, HoldsGoes, SigningGoes DEF References

\* The steps of a tab that name no new token.
LEMMA SessionFades ==
    ASSUME References, FlightInv, SoleTab' => SoleTab, NEW t \in Tabs, SessionSteps(t),
           ~(\E u \in Users : Login(t, u)), ~LoginReturns(t)
    PROVE  FlightInv'
  <1> USE DEF References
  <1>1. SameConsumed
    <2>1. UNCHANGED tokens \/ SignOutServed(t)
      BY DEF SessionSteps, AcceptInvite, GuardStarts, GuardReturns, ChangePassword, Reload, SignOut,
             SignOutReturns, SendRequest, serverVars
    <2> QED BY <2>1, WriterMarks, KeptConsumed
  <1>2. SoleTab => reused' \subseteq lost'
    <2>1. UNCHANGED reused /\ lost \subseteq lost'
      BY DEF SessionSteps, AcceptInvite, GuardStarts, GuardReturns, ChangePassword, Reload, SignOut,
             SignOutServed, SignOutReturns, SendRequest
    <2> QED BY <2>1 DEF FlightInv
  <1>3. SigningFades
    <2>1. CASE UNCHANGED signing
      BY <2>1, SigningSame
    <2>2. CASE Reload(t) \/ SignOutReturns(t)
      <3>1. signing' = [signing EXCEPT ![t] = Idle] /\ Idle.kind # "in"
        BY <2>2 DEF Reload, SignOutReturns, Idle
      <3> QED BY <3>1, SigningGoes
    <2>3. CASE SignOut(t)
      <3> DEFINE row == [kind |-> "out", pair |-> Ensured(t).token]
      <3>1. row.kind # "in" /\ signing' = [signing EXCEPT ![t] = row]
        BY <2>3 DEF SignOut
      <3> HIDE DEF row
      <3> QED BY <3>1, SigningGoes
    <2>4. CASE SignOutServed(t)
      <3> DEFINE row == [signing[t] EXCEPT !.kind = "out-done"]
      <3>1. row.kind # "in"
        BY <2>4 DEF SignOutServed, SigningOK, SigningRow
      <3>2. signing' = [signing EXCEPT ![t] = row]
        BY <2>4 DEF SignOutServed
      <3> HIDE DEF row
      <3> QED BY <3>1, <3>2, SigningGoes
    <2> QED
      BY <2>1, <2>2, <2>3, <2>4 DEF SessionSteps, AcceptInvite, GuardStarts, GuardReturns, ChangePassword,
         SendRequest
  <1>4. HoldsFade
    <2>1. CASE UNCHANGED <<mem, storage>>
      BY <2>1, HoldsSame
    <2>2. CASE Reload(t) \/ SignOutReturns(t)
      <3>1. mem' = [mem EXCEPT ![t] = NoPair] /\ storage' \in {storage, NoPair}
        BY <2>2 DEF Reload, SignOutReturns
      <3> QED BY <3>1, EnsuredRefresh, HoldsGoes
    <2>3. CASE mem' = [mem EXCEPT ![t] = Ensured(t)] /\ UNCHANGED storage
      BY <2>3, EnsuredRefresh, HoldsGoes
    <2> QED
      BY <2>1, <2>2, <2>3 DEF SessionSteps, AcceptInvite, GuardStarts, GuardReturns, ChangePassword,
         SignOut, SignOutServed, SendRequest
  <1>5. CallsFade /\ lost \subseteq lost'
    <2>1. CASE UNCHANGED <<call, lost>>
      BY <2>1, CallsSame
    <2>2. CASE Reload(t)
      <3>1. call' = Unheard(t) /\ lost' = lost \cup {call[c].pair : c \in InFlight(t)}
        BY <2>2 DEF Reload
      <3>2. \A c \in Requests : call[c].heard /\ call[c].tab = t => call[c].pair \in lost'
        BY <3>1 DEF InFlight
      <3>3. ASSUME NEW c \in Requests
            PROVE  /\ call'[c].stage = call[c].stage /\ call'[c].tab = call[c].tab
                   /\ call'[c].pair = call[c].pair /\ call'[c].issued = call[c].issued
                   /\ call'[c].heard <=> call[c].heard /\ call[c].tab # t
        BY <3>1, CallsUnheard
      <3>4. \A c \in Requests : call[c].heard => Busy(c)
        BY DEF FlightInv, HeardOnce
      <3>5. CallsFade
        BY <3>2, <3>3, <3>4 DEF CallsFade, Busy, Asks, Took
      <3> QED BY <3>1, <3>5
    <2> QED
      BY <2>1, <2>2 DEF SessionSteps, AcceptInvite, GuardStarts, GuardReturns, ChangePassword, SignOut,
         SignOutServed, SignOutReturns, SendRequest
  <1> QED BY <1>1, <1>2, <1>3, <1>4, <1>5, FlightFades

\* A token of a family of its own is on its way.
LEMMA FlightLogin ==
    ASSUME References, FlightInv, SoleTab' => SoleTab, NEW t \in Tabs, NEW u \in Users, Login(t, u)
    PROVE  FlightInv'
  <1> USE DEF References
  <1> PICK new : new = Len(tokens) + 1
    OBVIOUS
  <1>1. SameConsumed /\ new \notin DOMAIN tokens
    <2>1. TokensOK' /\ Grows
      BY LoginGrows
    <2>2. tokens'[new] = NewRow(u, new)
      BY DEF Login, TokensOK
    <2>3. ~NewRow(u, new).consumed
      BY DEF NewRow
    <2>4. ~tokens'[new].consumed
      BY <2>2, <2>3, Zenon
    <2> QED BY <2>1, <2>4, NewConsumed
  <1>2. ~Coming(new) /\ ~Holds(new) /\ ~Consumed(new) /\ \A c \in Requests : Busy(c) => call[c].pair # new
    BY <1>1, NamesHaveRows DEF Consumed
  <1> DEFINE row == [kind |-> "in", pair |-> new]
  <1>3. row.kind = "in" /\ row.pair = new
    OBVIOUS
  <1>4. UNCHANGED <<mem, storage, call, view, reused, lost>> /\ signing' = [signing EXCEPT ![t] = row]
    BY DEF Login
  <1> HIDE DEF row
  <1>5. \A v \in Tabs : signing'[v] = IF v = t THEN row ELSE signing[v]
    BY <1>4 DEF SigningOK
  <1>6. /\ \A v \in Tabs : \A n : SignsIn(v, n)' => (v # t /\ SignsIn(v, n)) \/ (v = t /\ n = new)
        /\ \A c \in Requests : \A n : Brings(c, n)' <=> Brings(c, n)
    BY <1>3, <1>4, <1>5 DEF SignsIn, Brings
  <1>7. \A n : Coming(n)' => Coming(n) \/ n = new
    BY <1>6 DEF Coming
  <1>8. \A n : Holds(n)' <=> Holds(n)
    BY <1>4 DEF Holds
  <1>9. \A c \in Requests : (Busy(c)' <=> Busy(c)) /\ (Asks(c)' <=> Asks(c)) /\ (Took(c)' <=> Took(c))
    BY <1>4 DEF Busy, Asks, Took
  <1>10. ComingFresh'
    BY <1>1, <1>2, <1>4, <1>7, <1>8, <1>9 DEF FlightInv, ComingFresh, SameConsumed
  <1>11. ComingOnce'
    <2>1. \A n : (\E c \in Requests : Brings(c, n)) \/ (\E v \in Tabs : SignsIn(v, n)) => n # new
      BY <1>2 DEF Coming
    <2> QED BY <1>6, <2>1 DEF FlightInv, ComingOnce
  <1>12. HeardOnce' /\ UnheardLost'
    BY <1>4, <1>9 DEF FlightInv, HeardOnce, UnheardLost
  <1>13. ASSUME SoleTab' PROVE AsksFresh' /\ HoldsFresh' /\ (reused \subseteq lost)'
    <2>1. AsksFresh /\ HoldsFresh /\ reused \subseteq lost
      BY <1>13 DEF FlightInv
    <2>2. \A c \in Requests : Consumed(call[c].pair)' => Consumed(call[c].pair)
      BY <1>1, <1>4 DEF SameConsumed, Consumed
    <2> QED BY <1>1, <1>4, <1>8, <1>9, <2>1, <2>2 DEF AsksFresh, HoldsFresh, SameConsumed
  <1> QED BY <1>10, <1>11, <1>12, <1>13 DEF FlightInv

\* A token that was on its way is held now, and by everybody who held another one
\* besides: the tab, the storage.
LEMMA FlightArrives ==
    ASSUME References, FlightInv, SoleTab' => SoleTab, UNCHANGED <<tokens, reused, lost>>,
           NEW t \in Tabs, NEW p, Coming(p),
           \A n : Holds(n)' => Holds(n) \/ n = p,
           \A n : Coming(n)' => Coming(n) /\ n # p,
           ComingOnce', HeardOnce',
           \A c \in Requests : /\ Busy(c)' => Busy(c) /\ call'[c] = call[c]
                               /\ SoleTab /\ call[c].heard /\ Took(c) /\ ~Busy(c)' => \A n : Holds(n)' => n = p
    PROVE  FlightInv'
  <1>1. ~Consumed(p) /\ ~Holds(p) /\ \A n : Consumed(n)' <=> Consumed(n)
    BY DEF FlightInv, ComingFresh, Consumed
  <1>2. UnheardLost'
    BY DEF FlightInv, UnheardLost
  <1>3. ComingFresh'
    BY <1>1 DEF FlightInv, ComingFresh
  <1>4. ASSUME SoleTab' PROVE AsksFresh' /\ HoldsFresh' /\ (reused \subseteq lost)'
    <2>1. AsksFresh /\ HoldsFresh /\ reused \subseteq lost
      BY <1>4 DEF FlightInv
    <2>2. AsksFresh'
      <3> SUFFICES ASSUME NEW c \in Requests, Asks(c)', Consumed(call[c].pair)'
                   PROVE  call'[c].pair \in lost'
        BY DEF AsksFresh
      <3>1. Busy(c)'
        BY DEF Asks, Busy
      <3>2. call'[c] = call[c]
        BY <3>1
      <3>3. Asks(c) /\ Consumed(call[c].pair)
        BY <3>2 DEF Asks, Consumed
      <3> QED BY <2>1, <3>2, <3>3 DEF AsksFresh
    <2>3. HoldsFresh'
      <3> SUFFICES ASSUME NEW n, Holds(n)', Consumed(n)', n \notin lost
                   PROVE  \E c \in Requests : call'[c].heard /\ Took(c)' /\ call'[c].pair = n
        BY DEF HoldsFresh
      <3>1. n # p /\ Holds(n) /\ Consumed(n)
        BY <1>1
      <3>2. PICK c \in Requests : call[c].heard /\ Took(c) /\ call[c].pair = n
        BY <2>1, <3>1 DEF HoldsFresh
      <3>3. Busy(c)'
        BY <1>4, <3>1, <3>2
      <3>4. call'[c] = call[c]
        BY <3>3
      <3>5. call'[c].heard /\ Took(c)' /\ call'[c].pair = n
        BY <3>2, <3>4 DEF Took
      <3> QED BY <3>5
    <2> QED BY <2>1, <2>2, <2>3
  <1> QED BY <1>2, <1>3, <1>4 DEF FlightInv

LEMMA PairIsHeld ==
    ASSUME HeldOK, NEW t \in Tabs, NEW p, mem' = [mem EXCEPT ![t] = PairOf(p)], storage' = PairOf(p), NEW n, Holds(n)'
    PROVE  n = p \/ \E u \in Tabs \ {t} : mem[u].refresh = n /\ n # None
  <1>1. PairOf(p).refresh = p
    BY DEF PairOf
  <1>2. \A u \in Tabs : mem'[u] = IF u = t THEN PairOf(p) ELSE mem[u]
    BY DEF HeldOK
  <1> QED BY <1>1, <1>2 DEF Holds

LEMMA FlightLoginReturns ==
    ASSUME References, FlightInv, SoleTab' => SoleTab, NEW t \in Tabs, LoginReturns(t)
    PROVE  FlightInv'
  <1> USE DEF References
  <1> PICK p : p = signing[t].pair
    OBVIOUS
  <1>1. SignsIn(t, p)
    BY DEF LoginReturns, SignsIn
  <1>2. /\ mem' = [mem EXCEPT ![t] = PairOf(p)] /\ storage' = PairOf(p)
        /\ signing' = [signing EXCEPT ![t] = Idle] /\ UNCHANGED <<tokens, call, reused, lost>>
    BY DEF LoginReturns, serverVars
  <1>3. \A n : Holds(n)' => Holds(n) \/ n = p
    <2> SUFFICES ASSUME NEW n, Holds(n)' PROVE Holds(n) \/ n = p
      OBVIOUS
    <2>1. n = p \/ \E u \in Tabs \ {t} : mem[u].refresh = n /\ n # None
      BY <1>2, PairIsHeld
    <2> QED BY <2>1 DEF Holds
  <1>4. /\ \A v \in Tabs : \A n : SignsIn(v, n)' => v # t /\ SignsIn(v, n)
        /\ \A c \in Requests : \A n : Brings(c, n)' <=> Brings(c, n)
    BY <1>2 DEF SigningOK, SignsIn, Brings, Idle
  <1>5. ASSUME NEW n, Coming(n)' PROVE Coming(n) /\ n # p
    <2>1. \/ \E c \in Requests : Brings(c, n)
          \/ \E v \in Tabs : v # t /\ SignsIn(v, n)
      BY <1>4, <1>5 DEF Coming
    <2> QED BY <1>1, <2>1 DEF Coming, FlightInv, ComingOnce
  <1>6. ComingOnce'
    BY <1>4 DEF FlightInv, ComingOnce
  <1>7. HeardOnce' /\ \A c \in Requests : (Busy(c)' <=> Busy(c)) /\ call'[c] = call[c] /\ (Took(c) => Busy(c))
    BY <1>2 DEF FlightInv, HeardOnce, Busy, Took
  <1>8. Coming(p)
    BY <1>1 DEF Coming
  <1> QED BY <1>2, <1>3, <1>5, <1>6, <1>7, <1>8, FlightArrives

\* The successor is held now; the token it succeeds is held by nobody, if there is one tab.
LEMMA FlightReturns ==
    ASSUME References, FlightInv, Inert, SoleTab' => SoleTab, NEW c \in Requests, RotationReturns(c)
    PROVE  FlightInv'
  <1> USE DEF References
  <1> PICK p : p = call[c].issued
    OBVIOUS
  <1>0. PICK t \in Tabs : t = call[c].tab
    BY DEF RotationReturns, CallOK, CallRow
  <1>1. Brings(c, p) /\ call[c].heard
    BY DEF RotationReturns, Brings
  <1>2. /\ mem' = [mem EXCEPT ![t] = PairOf(p)] /\ storage' = PairOf(p)
        /\ call' = [call EXCEPT ![c] = IdleCall] /\ UNCHANGED <<tokens, signing, reused, lost>>
    BY <1>0 DEF RotationReturns, serverVars
  <1>3. ASSUME NEW n, Holds(n)'
        PROVE  n = p \/ (Holds(n) /\ ~SoleTab)
    <2>1. n = p \/ \E u \in Tabs \ {t} : mem[u].refresh = n /\ n # None
      BY <1>2, <1>3, PairIsHeld
    <2>2. ASSUME NEW u \in Tabs \ {t}, mem[u].refresh = n, n # None PROVE ~SoleTab
      <3>1. view[t] # "closed" /\ view[u] # "closed"
        BY <1>0, <1>1, <2>2 DEF Inert, NoPair
      <3> QED BY <2>2, <3>1 DEF SoleTab
    <2> QED BY <2>1, <2>2 DEF Holds
  <1>4. /\ \A d \in Requests \ {c} : call'[d] = call[d]
        /\ call'[c].stage = "idle" /\ ~call'[c].heard
    BY <1>2, OneCallEnds
  <1>5. /\ \A d \in Requests : \A n : Brings(d, n)' => d # c /\ Brings(d, n)
        /\ \A v \in Tabs : \A n : SignsIn(v, n)' <=> SignsIn(v, n)
    BY <1>2, <1>4 DEF SignsIn, Brings
  <1>6. ASSUME NEW n, Coming(n)' PROVE Coming(n) /\ n # p
    <2>1. \/ \E d \in Requests : d # c /\ Brings(d, n)
          \/ \E v \in Tabs : SignsIn(v, n)
      BY <1>5, <1>6 DEF Coming
    <2> QED BY <1>1, <2>1 DEF Coming, FlightInv, ComingOnce
  <1>7. ComingOnce'
    BY <1>5 DEF FlightInv, ComingOnce
  <1>8. HeardOnce'
    BY <1>4 DEF FlightInv, HeardOnce, Busy
  <1>9. Coming(p)
    BY <1>1 DEF Coming
  <1>10. \A d \in Requests : /\ Busy(d)' => Busy(d) /\ call'[d] = call[d]
                             /\ SoleTab /\ call[d].heard /\ Took(d) /\ ~Busy(d)' => \A n : Holds(n)' => n = p
    <2> TAKE d \in Requests
    <2>1. Busy(d)' => Busy(d) /\ call'[d] = call[d]
      BY <1>4 DEF Busy
    <2>2. SoleTab => \A n : Holds(n)' => n = p
      BY <1>3
    <2> QED BY <2>1, <2>2
  <1> QED BY <1>2, <1>3, <1>6, <1>7, <1>8, <1>9, <1>10, FlightArrives

\* A rotation begins: of a token that is held, in a tab that awaits no other.
LEMMA FlightBegins ==
    ASSUME References, FlightInv, Inert, SoleTab' => SoleTab, NEW r \in Requests, NEW t \in Tabs,
           view[t] # "closed", InFlight(t) = {}, NEW p, p = RefreshToken(t), p # None,
           mem' = [mem EXCEPT ![t].refresh = p], UNCHANGED <<tokens, storage, signing, lost, reused>>,
           \A d \in Requests \ {r} : call'[d] = call[d],
           call'[r].stage = "sent", call'[r].tab = t, call'[r].pair = p, call'[r].heard
    PROVE  FlightInv'
  <1> USE DEF References
  <1>1. Holds(p)
    BY DEF RefreshToken, Holds
  <1>2. ~Coming(p)
    BY <1>1 DEF FlightInv, ComingFresh
  <1>3. HoldsFade
    <2> DEFINE held == [mem[t] EXCEPT !.refresh = p]
    <2>1. mem[t] \in HeldRefs
      BY DEF HeldOK
    <2>2. held.refresh = p
      BY <2>1 DEF HeldRefs
    <2>3. mem' = [mem EXCEPT ![t] = held]
      OBVIOUS
    <2> HIDE DEF held
    <2>4. \A u \in Tabs : mem'[u] = IF u = t THEN held ELSE mem[u]
      BY <2>3 DEF HeldOK
    <2> QED BY <1>1, <2>2, <2>4 DEF HoldsFade, Holds
  <1>4. /\ \A d \in Requests : \A n : Brings(d, n)' => Brings(d, n)
        /\ \A v \in Tabs : \A n : SignsIn(v, n)' <=> SignsIn(v, n)
    BY DEF Brings, SignsIn
  <1>5. \A n : (Coming(n)' => Coming(n)) /\ (Consumed(n)' <=> Consumed(n))
    BY <1>4 DEF Coming, Consumed
  <1>6. ComingOnce'
    BY <1>4 DEF FlightInv, ComingOnce
  <1>7. \A d \in Requests \ {r} : (Busy(d)' <=> Busy(d)) /\ (Asks(d)' <=> Asks(d)) /\ (Took(d)' <=> Took(d))
    BY DEF Busy, Asks, Took
  <1>8. ComingFresh'
    <2> SUFFICES ASSUME NEW n, Coming(n)'
                 PROVE  ~Consumed(n)' /\ ~Holds(n)' /\ \A d \in Requests : Busy(d)' => call'[d].pair # n
      BY DEF ComingFresh
    <2>1. Coming(n) /\ n # p
      BY <1>2, <1>5
    <2> QED BY <1>3, <1>5, <1>7, <2>1 DEF FlightInv, ComingFresh, HoldsFade
  <1>9. HeardOnce'
    <2>1. \A d \in Requests : call[d].heard => call[d].tab # t
      BY DEF InFlight
    <2>2. Busy(r)'
      BY DEF Busy
    <2> QED BY <1>7, <2>1, <2>2 DEF FlightInv, HeardOnce
  <1>10. UnheardLost'
    BY <1>7 DEF FlightInv, UnheardLost
  <1>11. ASSUME SoleTab' PROVE AsksFresh' /\ HoldsFresh' /\ (reused \subseteq lost)'
    <2>1. AsksFresh /\ HoldsFresh /\ reused \subseteq lost /\ SoleTab
      BY <1>11 DEF FlightInv
    <2>2. ASSUME NEW d \in Requests, call[d].heard PROVE FALSE
      <3>1. call[d].tab \in Tabs
        BY <2>2 DEF FlightInv, HeardOnce, Busy, CallOK, CallRow
      <3>2. view[call[d].tab] # "closed"
        BY <2>2, <3>1 DEF Inert
      <3> QED BY <2>1, <2>2, <3>1, <3>2 DEF SoleTab, InFlight
    <2>3. \A n : Holds(n) /\ Consumed(n) => n \in lost
      BY <2>1, <2>2 DEF HoldsFresh
    <2>4. AsksFresh'
      <3> SUFFICES ASSUME NEW d \in Requests, Asks(d)', Consumed(call[d].pair)'
                   PROVE  call'[d].pair \in lost'
        BY DEF AsksFresh
      <3>1. CASE d = r
        <4>1. Consumed(p)
          BY <3>1 DEF Consumed
        <4> QED BY <1>1, <2>3, <3>1, <4>1
      <3>2. CASE d # r
        <4>1. Asks(d) /\ call'[d] = call[d] /\ Consumed(call[d].pair)
          BY <1>7, <3>2 DEF Consumed
        <4> QED BY <2>1, <4>1 DEF AsksFresh
      <3> QED BY <3>1, <3>2
    <2>5. HoldsFresh'
      BY <1>3, <1>5, <2>3 DEF HoldsFresh, HoldsFade
    <2> QED BY <2>1, <2>4, <2>5
  <1> QED BY <1>6, <1>8, <1>9, <1>10, <1>11 DEF FlightInv

\* Whoever consumes a token is awaited, or was cut; any other call with it was cut.
LEMMA FlightConsumes ==
    ASSUME References, FlightInv, Inert, SoleTab' => SoleTab, NEW c \in Requests, RotateConsume(c),
           NEW n, n = call[c].pair, ~tokens[n].consumed,
           tokens' = [tokens EXCEPT ![n].consumed = TRUE], UNCHANGED reused,
           call' = [call EXCEPT ![c].stage = "consumed"]
    PROVE  FlightInv'
  <1> USE DEF References
  <1>1. n \in DOMAIN tokens /\ call[c].stage = "checked" /\ call[c].tab \in Tabs
    BY CallHasRow DEF RotateConsume, CallOK, CallRow
  <1>2. \A m : Consumed(m)' <=> Consumed(m) \/ m = n
    <2>1. /\ DOMAIN tokens' = DOMAIN tokens
          /\ \A i \in DOMAIN tokens : i # n => tokens'[i].consumed = tokens[i].consumed
          /\ tokens'[n].consumed
      BY <1>1, Consumes, ConsumingTable
    <2> QED BY <1>1, <2>1 DEF Consumed
  <1>3. /\ \A d \in Requests \ {c} : call'[d] = call[d]
        /\ call'[c].stage = "consumed" /\ call'[c].tab = call[c].tab /\ call'[c].pair = n
        /\ call'[c].heard = call[c].heard
    BY OneCallMoves
  <1>4. UNCHANGED <<mem, storage, signing, lost>>
    BY DEF RotateConsume, clientVars
  <1>5. Busy(c) /\ Asks(c) /\ Busy(c)' /\ Took(c)' /\ ~Asks(c)'
        /\ \A d \in Requests \ {c} : (Busy(d)' <=> Busy(d)) /\ (Asks(d)' <=> Asks(d)) /\ (Took(d)' <=> Took(d))
    BY <1>1, <1>3 DEF Busy, Asks, Took
  <1>6. /\ \A d \in Requests : \A m : Brings(d, m)' => Brings(d, m)
        /\ \A v \in Tabs : \A m : SignsIn(v, m)' <=> SignsIn(v, m)
        /\ \A m : Holds(m)' <=> Holds(m)
    BY <1>3, <1>4 DEF Brings, SignsIn, Holds
  <1>7. \A m : Coming(m)' => Coming(m) /\ m # n
    BY <1>5, <1>6 DEF Coming, FlightInv, ComingFresh
  <1>8. ComingFresh'
    BY <1>2, <1>3, <1>5, <1>6, <1>7 DEF FlightInv, ComingFresh
  <1>9. ComingOnce'
    BY <1>6 DEF FlightInv, ComingOnce
  <1>10. HeardOnce' /\ UnheardLost'
    BY <1>3, <1>4, <1>5 DEF FlightInv, HeardOnce, UnheardLost
  <1>11. ASSUME SoleTab' PROVE AsksFresh' /\ HoldsFresh' /\ (reused \subseteq lost)'
    <2>1. AsksFresh /\ HoldsFresh /\ reused \subseteq lost /\ SoleTab
      BY <1>11 DEF FlightInv
    <2>2. call[c].heard \/ n \in lost
      BY <1>5 DEF FlightInv, UnheardLost
    <2>3. ASSUME NEW d \in Requests \ {c}, Asks(d), call[d].pair = n PROVE n \in lost
      <3>1. ~call[d].heard \/ ~call[c].heard
        <4> SUFFICES ASSUME call[d].heard, call[c].heard PROVE FALSE
          OBVIOUS
        <4>1. call[d].tab \in Tabs
          BY <2>3 DEF Asks, CallOK, CallRow
        <4>2. view[call[d].tab] # "closed" /\ view[call[c].tab] # "closed"
          BY <1>1, <4>1 DEF Inert
        <4> QED BY <1>1, <2>1, <4>1, <4>2 DEF SoleTab, FlightInv, HeardOnce
      <3>2. Busy(d)
        BY <2>3 DEF Asks, Busy
      <3> QED BY <1>5, <2>3, <3>1, <3>2 DEF FlightInv, UnheardLost
    <2>4. AsksFresh'
      <3> SUFFICES ASSUME NEW d \in Requests, Asks(d)', Consumed(call[d].pair)'
                   PROVE  call'[d].pair \in lost'
        BY DEF AsksFresh
      <3>1. d # c /\ Asks(d) /\ call'[d] = call[d]
        BY <1>3, <1>5
      <3> PICK m : m = call[d].pair
        OBVIOUS
      <3>2. Consumed(m)'
        BY <3>1 DEF Consumed
      <3> QED BY <1>2, <1>4, <2>1, <2>3, <3>1, <3>2 DEF AsksFresh
    <2>5. HoldsFresh'
      <3> SUFFICES ASSUME NEW m, Holds(m)', Consumed(m)', m \notin lost
                   PROVE  \E d \in Requests : call'[d].heard /\ Took(d)' /\ call'[d].pair = m
        BY <1>4 DEF HoldsFresh
      <3>1. CASE m = n
        BY <1>3, <1>5, <2>2, <3>1
      <3>2. CASE m # n
        <4>1. PICK d \in Requests : call[d].heard /\ Took(d) /\ call[d].pair = m
          BY <1>2, <1>6, <2>1, <3>2 DEF HoldsFresh
        <4>2. d # c
          BY <1>1, <4>1 DEF Took
        <4> QED BY <1>3, <1>5, <4>1, <4>2
      <3> QED BY <3>1, <3>2
    <2> QED BY <1>4, <2>1, <2>4, <2>5
  <1> QED BY <1>8, <1>9, <1>10, <1>11 DEF FlightInv

\* The successor is on its way.
LEMMA FlightIssues ==
    ASSUME References, FlightInv, SoleTab' => SoleTab, NEW c \in Requests, RotateIssue(c)
    PROVE  FlightInv'
  <1> USE DEF References
  <1> PICK new : new = Len(tokens) + 1
    OBVIOUS
  <1>1. SameConsumed /\ new \notin DOMAIN tokens
    <2> DEFINE row == NewRow(tokens[call[c].pair].user, tokens[call[c].pair].family)
    <2>1. TokensOK' /\ Grows
      BY IssueGrows
    <2>2. ~row.consumed
      BY DEF NewRow
    <2>3. tokens' = Append(tokens, row)
      BY DEF RotateIssue
    <2> HIDE DEF row
    <2>4. tokens'[new] = row
      BY <2>3 DEF TokensOK
    <2>5. ~tokens'[new].consumed
      BY <2>2, <2>4, Zenon
    <2> QED BY <2>1, <2>5, NewConsumed
  <1>2. ~Coming(new) /\ ~Holds(new) /\ ~Consumed(new) /\ \A d \in Requests : Busy(d) => call[d].pair # new
    BY <1>1, NamesHaveRows DEF Consumed
  <1>3. /\ \A d \in Requests \ {c} : call'[d] = call[d]
        /\ call'[c].stage = "issued" /\ call'[c].tab = call[c].tab /\ call'[c].pair = call[c].pair
        /\ call'[c].heard = call[c].heard /\ call'[c].issued = new
    BY OneCallIssues
  <1>4. UNCHANGED <<mem, storage, signing, reused, lost>> /\ call[c].stage = "consumed"
    BY DEF RotateIssue, clientVars
  <1>5. /\ \A d \in Requests : \A n : Brings(d, n)' => (d # c /\ Brings(d, n)) \/ (d = c /\ n = new)
        /\ \A v \in Tabs : \A n : SignsIn(v, n)' <=> SignsIn(v, n)
        /\ \A n : Holds(n)' <=> Holds(n)
    BY <1>3, <1>4 DEF Brings, SignsIn, Holds
  <1>6. \A n : Coming(n)' => Coming(n) \/ n = new
    BY <1>5 DEF Coming
  <1>7. \A d \in Requests : /\ (Busy(d)' <=> Busy(d)) /\ (Asks(d)' <=> Asks(d)) /\ (Took(d)' <=> Took(d))
                            /\ call'[d].pair = call[d].pair /\ call'[d].heard = call[d].heard
                            /\ call'[d].tab = call[d].tab
    <2> TAKE d \in Requests
    <2>1. CASE d = c
      BY <1>3, <1>4, <2>1 DEF Busy, Asks, Took
    <2>2. CASE d # c
      BY <1>3, <2>2 DEF Busy, Asks, Took
    <2> QED BY <2>1, <2>2
  <1>8. ComingFresh'
    BY <1>1, <1>2, <1>5, <1>6, <1>7 DEF FlightInv, ComingFresh, SameConsumed
  <1>9. ComingOnce'
    <2>1. \A n : (\E d \in Requests : Brings(d, n)) \/ (\E v \in Tabs : SignsIn(v, n)) => n # new
      BY <1>2 DEF Coming
    <2> QED BY <1>5, <2>1 DEF FlightInv, ComingOnce
  <1>10. HeardOnce' /\ UnheardLost'
    BY <1>4, <1>7 DEF FlightInv, HeardOnce, UnheardLost
  <1>11. ASSUME SoleTab' PROVE AsksFresh' /\ HoldsFresh' /\ (reused \subseteq lost)'
    <2>1. AsksFresh /\ HoldsFresh /\ reused \subseteq lost
      BY <1>11 DEF FlightInv
    <2>2. \A d \in Requests : Consumed(call[d].pair)' => Consumed(call[d].pair)
      BY <1>1, <1>7 DEF SameConsumed, Consumed
    <2> QED BY <1>1, <1>4, <1>5, <1>7, <2>1, <2>2 DEF AsksFresh, HoldsFresh, SameConsumed
  <1> QED BY <1>8, <1>9, <1>10, <1>11 DEF FlightInv

LEMMA CallRefused ==
    ASSUME CallOK, FlightInv, NEW c \in Requests, Busy(c), NEW stage \in {"refused", "checked"},
           call' = [call EXCEPT ![c].stage = stage],
           stage = "checked" => Asks(c), call[c].heard /\ Took(c) => call[c].pair \in lost',
           lost \subseteq lost'
    PROVE  CallsFade
  <1>1. /\ \A d \in Requests \ {c} : call'[d] = call[d]
        /\ call'[c].stage = stage /\ call'[c].tab = call[c].tab /\ call'[c].pair = call[c].pair
        /\ call'[c].heard = call[c].heard
    BY OneCallMoves
  <1>2. \A d \in Requests : call[d].heard => Busy(d)
    BY DEF FlightInv, HeardOnce
  <1> QED BY <1>1, <1>2 DEF CallsFade, Busy, Asks, Took

LEMMA CallForgotten ==
    ASSUME CallOK, FlightInv, NEW c \in Requests, call' = [call EXCEPT ![c] = IdleCall],
           ~(call[c].heard /\ Took(c))
    PROVE  CallsFade
  <1>1. /\ \A d \in Requests \ {c} : call'[d] = call[d]
        /\ call'[c].stage = "idle" /\ ~call'[c].heard
    BY OneCallEnds
  <1>2. \A d \in Requests : call[d].heard => Busy(d)
    BY DEF FlightInv, HeardOnce
  <1> QED BY <1>1, <1>2 DEF CallsFade, Busy, Asks, Took

\* A refused token is one whose rotation was cut, if there is one tab.
LEMMA FlightRefuses ==
    ASSUME References, FlightInv, SoleTab' => SoleTab, NEW c \in Requests,
           RotateCheck(c) \/ (RotateConsume(c) /\ tokens[call[c].pair].consumed)
    PROVE  FlightInv'
  <1> USE DEF References
  <1> PICK n : n = call[c].pair
    OBVIOUS
  <1>1. Busy(c) /\ Asks(c) /\ ~Took(c) /\ n \in DOMAIN tokens
    BY CallHasRow DEF RotateCheck, RotateConsume, Busy, Asks, Took
  <1>2. UNCHANGED <<mem, storage, signing, lost>>
    BY DEF RotateCheck, RotateConsume, clientVars
  <1>3. SameConsumed
    BY CheckMarks, RevokeMarks, KeptConsumed DEF RotateConsume, Marked
  <1>4. CallsFade
    <2>1. \E stage \in {"refused", "checked"} : call' = [call EXCEPT ![c].stage = stage]
      BY DEF RotateCheck, RotateConsume
    <2> QED BY <1>1, <1>2, <2>1, CallRefused
  <1>5. SoleTab => reused' \subseteq lost'
    <2>1. reused' = reused \/ (reused' = reused \cup {n} /\ Consumed(n))
      BY <1>1 DEF RotateCheck, RotateConsume, Consumed
    <2>2. SoleTab /\ Consumed(n) => n \in lost
      BY <1>1 DEF FlightInv, AsksFresh
    <2> QED BY <1>2, <2>1, <2>2 DEF FlightInv
  <1> QED BY <1>2, <1>3, <1>4, <1>5, HoldsSame, SigningSame, FlightFades

\* A rotation is cut, refused or forgotten.
LEMMA FlightEnds ==
    ASSUME References, FlightInv, SoleTab' => SoleTab, NEW c \in Requests,
           RotateLost(c) \/ RotateUnheard(c) \/ RotationRefused(c)
    PROVE  FlightInv'
  <1> USE DEF References
  <1>1. UNCHANGED <<tokens, reused>> /\ lost \subseteq lost'
    BY DEF RotateLost, RotateUnheard, RotationRefused, serverVars
  <1>2. HoldsFade /\ SigningFades
    <2>1. CASE RotateLost(c) \/ RotateUnheard(c)
      BY <2>1, HoldsSame, SigningSame DEF RotateLost, RotateUnheard, clientVars
    <2>2. CASE RotationRefused(c)
      <3>1. call[c].tab \in Tabs /\ ToLogin(call[c].tab)
        BY <2>2 DEF RotationRefused, CallOK, CallRow
      <3> QED BY <3>1, ToLoginFades
    <2> QED BY <2>1, <2>2
  <1>3. CallsFade
    <2>1. CASE RotateLost(c)
      <3>1. Busy(c) /\ call' = [call EXCEPT ![c].stage = "refused"] /\ call[c].pair \in lost'
        BY <2>1 DEF RotateLost, Busy
      <3> QED BY <1>1, <3>1, CallRefused
    <2>2. CASE RotateUnheard(c) \/ RotationRefused(c)
      <3>1. call' = [call EXCEPT ![c] = IdleCall] /\ ~(call[c].heard /\ Took(c))
        BY <2>2 DEF RotateUnheard, RotationRefused, Took
      <3> QED BY <3>1, CallForgotten
    <2> QED BY <2>1, <2>2
  <1>4. SameConsumed
    BY <1>1, KeptConsumed
  <1>5. SoleTab => reused' \subseteq lost'
    BY <1>1 DEF FlightInv
  <1> QED BY <1>1, <1>2, <1>3, <1>4, <1>5, FlightFades

\* A request goes on, joins a rotation, begins one or gives up.
LEMMA FlightRequests ==
    ASSUME References, FlightInv, Inert, SoleTab' => SoleTab, NEW r \in Requests,
           ServeRequest(r) \/ Receive(r)
    PROVE  FlightInv'
  <1> USE DEF References
  <1>1. UNCHANGED <<tokens, reused, lost>>
    BY DEF ServeRequest, Receive, ReceiveOk, Receive401, Receive401Again, serverVars
  <1>2. SameConsumed /\ lost \subseteq lost' /\ (SoleTab => reused' \subseteq lost')
    BY <1>1, KeptConsumed DEF FlightInv
  <1>3. CASE UNCHANGED <<mem, storage, signing, call>>
    BY <1>2, <1>3, CallsSame, HoldsSame, SigningSame, FlightFades
  <1>4. CASE ServeRequest(r) \/ ReceiveOk(r) \/ Receive401Again(r)
    BY <1>3, <1>4 DEF ServeRequest, ReceiveOk, Receive401Again, clientVars
  <1>5. CASE Receive401(r)
    <2> PICK t : t = req[r].tab
      OBVIOUS
    <2>1. t \in Tabs /\ req[r].state = "answered"
      BY <1>5, RequestHasRow DEF Receive401
    <2>2. view[t] # "closed"
      BY <2>1 DEF Inert, OpenStates
    <2>3. CASE /\ InFlight(t) = {} /\ RefreshToken(t) # None
               /\ mem' = [mem EXCEPT ![t].refresh = RefreshToken(t)]
               /\ call' = [call EXCEPT ![r] = [IdleCall EXCEPT !.tab = t, !.pair = RefreshToken(t),
                                                               !.stage = "sent", !.heard = TRUE]]
               /\ UNCHANGED <<storage, view, probe, signing, cached, late>>
      <3> PICK p : p = RefreshToken(t)
        OBVIOUS
      <3>1. mem' = [mem EXCEPT ![t].refresh = p] /\ UNCHANGED <<storage, signing>>
            /\ InFlight(t) = {} /\ p # None
        BY <2>3
      <3>2. call' = [call EXCEPT ![r] = [IdleCall EXCEPT !.tab = t, !.pair = p, !.stage = "sent", !.heard = TRUE]]
        BY <2>3
      <3>3. /\ \A d \in Requests \ {r} : call'[d] = call[d]
            /\ call'[r].stage = "sent" /\ call'[r].tab = t /\ call'[r].pair = p /\ call'[r].heard
        <4> DEFINE row == [IdleCall EXCEPT !.tab = t, !.pair = p, !.stage = "sent", !.heard = TRUE]
        <4>1. row.stage = "sent" /\ row.tab = t /\ row.pair = p /\ row.heard = TRUE
          BY DEF IdleCall
        <4>2. call' = [call EXCEPT ![r] = row]
          BY <3>2
        <4> HIDE DEF row
        <4>3. call'[r] = row /\ \A d \in Requests \ {r} : call'[d] = call[d]
          BY <4>2 DEF CallOK
        <4>4. call'[r].heard = TRUE
          BY <4>1, <4>3
        <4> QED BY <4>1, <4>3, <4>4
      <3> QED BY <1>1, <2>1, <2>2, <3>1, <3>3, FlightBegins
    <2>4. CASE ToLogin(t) /\ UNCHANGED call
      BY <1>2, <2>1, <2>4, ToLoginFades, CallsSame, FlightFades
    <2> QED BY <1>3, <1>5, <2>3, <2>4 DEF Receive401, clientVars
  <1> QED BY <1>4, <1>5 DEF Receive

LEMMA FlightStep ==
    ASSUME References, GuardInv, Inert, FlightInv, [Next]_vars
    PROVE  FlightInv'
  <1> USE DEF References
  <1>1. SoleTab' => SoleTab
    BY InertStep DEF SoleTab
  <1>2. CASE UNCHANGED vars
    BY <1>1, <1>2, KeptConsumed, CallsSame, HoldsSame, SigningSame, FlightFades DEF vars, FlightInv
  <1>3. ASSUME NEW t \in Tabs, SessionSteps(t) PROVE FlightInv'
    BY <1>1, <1>3, SessionFades, FlightLogin, FlightLoginReturns
  <1>4. ASSUME NEW c \in Requests, RotateStep(c) \/ RotateLost(c) \/ RotationEnds(c) PROVE FlightInv'
    <2>1. CASE RotateConsume(c) /\ ~tokens[call[c].pair].consumed
      BY <1>1, <2>1, FlightConsumes DEF RotateConsume
    <2> QED
      BY <1>1, <1>4, <2>1, FlightIssues, FlightRefuses, FlightEnds, FlightReturns DEF RotateStep, RotationEnds
  <1>5. ASSUME NEW n \in Pairs, Expire(n) PROVE FlightInv'
    <2>1. SameConsumed
      BY <1>5, ExpireMarks, KeptConsumed
    <2>2. UNCHANGED <<mem, storage, signing, call, reused, lost>>
      BY <1>5 DEF Expire, clientVars
    <2>3. (SoleTab => reused' \subseteq lost') /\ lost \subseteq lost'
      BY <2>2 DEF FlightInv
    <2> QED BY <1>1, <2>1, <2>2, <2>3, CallsSame, HoldsSame, SigningSame, FlightFades
  <1> QED BY <1>1, <1>2, <1>3, <1>4, <1>5, FlightRequests DEF Next

\* The hypothesis of ReuseExplained, without counting.
LEMMA OneOpenTab ==
    ASSUME Cardinality({t \in Tabs : view[t] # "closed"}) <= 1 PROVE SoleTab
  <1> SUFFICES ASSUME NEW t \in Tabs, NEW u \in Tabs, view[t] # "closed", view[u] # "closed", t # u PROVE FALSE
    BY DEF SoleTab
  <1> DEFINE open == {v \in Tabs : view[v] # "closed"}
  <1>1. IsFiniteSet(open)
    BY TabsFinite, FS_Subset
  <1>2. IsFiniteSet({t}) /\ Cardinality({t}) = 1
    BY FS_Singleton
  <1>3. Cardinality({t} \cup {u}) = Cardinality({t}) + 1 /\ IsFiniteSet({t} \cup {u})
    BY <1>2, FS_AddElement
  <1>4. Cardinality({t} \cup {u}) <= Cardinality(open)
    <2>1. {t} \cup {u} \subseteq open
      OBVIOUS
    <2> HIDE DEF open
    <2> QED BY <1>1, <2>1, FS_Subset
  <1>5. Cardinality(open) \in Nat
    BY <1>1, FS_CardinalityType
  <1> QED BY <1>2, <1>3, <1>4, <1>5
-----------------------------------------------------------------------------
(* The theorems.                                                           *)

\* Every pair that a tab, the storage, a call, a sign-out or a request names is a
\* row of the server's table, whatever is lost, reloaded or refused in between.
THEOREM ReferencesIssued == Spec => []References
  <1>1. Init => References
    BY InitReferences DEF SessionInv
  <1>2. References /\ [Next]_vars => References'
    BY ReferencesStep
  <1> QED BY <1>1, <1>2, PTL DEF Spec

\* Check, consume and issue are three transactions (auth/tokens.py:98); a token has
\* one successor nevertheless: a family never holds two tokens that can be rotated.
THEOREM RefreshHasOneSuccessor == Spec => []OneSuccessor
  <1>1. Init => SessionInv
    BY InitReferences
  <1>2. SessionInv /\ [Next]_vars => SessionInv'
    BY ReferencesStep, ChainStep DEF SessionInv
  <1>3. SessionInv => OneSuccessor
    BY DEF SessionInv, ChainInv
  <1> QED BY <1>1, <1>2, <1>3, PTL DEF Spec

\* The three transactions, interleaved with everything else, implement the chain of
\* TokenFamilies: initial states map to initial states and steps to steps or stutters.
THEOREM RotationImplementsChain == Spec => RotationIsChain
  <1>1. Init => SessionInv /\ CountInv /\ Families!FamiliesInit
    BY InitReferences, CountInit, FamiliesStart
  <1>2. SessionInv /\ CountInv /\ [Next]_vars => SessionInv' /\ CountInv'
    BY ReferencesStep, ChainStep, CountStep DEF SessionInv
  <1>3. SessionInv /\ CountInv /\ SessionInv' /\ CountInv' /\ [Next]_vars
        => [Families!FamiliesNext]_(Families!famVars)
    BY FamiliesStep DEF Families!famVars, IssuedRows, TakenRows
  <1> QED
    BY <1>1, <1>2, <1>3, PTL DEF Spec, RotationIsChain, Families!FamiliesSpec

\* Types of the session.  Every pair that is named was issued, and a page is open only
\* with a token in memory (auth.ts, RequireAuth), whatever signs out, expires, rotates or
\* reloads at the same time.
THEOREM SessionTypes == Spec => []SessionTypeOK
  <1>1. Init => References /\ CountInv /\ GuardInv
    BY InitReferences, CountInit, InitGuard DEF SessionInv
  <1>2. References /\ CountInv /\ GuardInv /\ [Next]_vars => References' /\ CountInv' /\ GuardInv'
    BY ReferencesStep, CountStep, GuardStep
  <1>3. References /\ CountInv /\ GuardInv => SessionTypeOK
    <2> SUFFICES ASSUME References, CountInv, GuardInv PROVE SessionTypeOK
      OBVIOUS
    <2> USE DEF References
    <2>1. DOMAIN tokens \subseteq Pairs /\ \A i \in DOMAIN tokens : tokens[i].family \in Pairs
      BY RowsArePairs
    <2>2. tokens \in Seq(Rows) /\ Len(tokens) <= MaxPairs
      <3>1. ASSUME NEW i \in DOMAIN tokens PROVE tokens[i] \in Rows
        <4>1. tokens[i] \in TokenRow
          BY DEF TokensOK
        <4> QED BY <2>1, <4>1 DEF TokenRow, Rows
      <3>2. tokens \in Seq(TokenRow) /\ Len(tokens) \in Nat /\ DOMAIN tokens = 1..Len(tokens)
        BY DEF TokensOK
      <3>3. tokens \in Seq(Rows)
        BY <3>1, <3>2
      <3>4. MaxPairs \in Nat
        BY BoundsAreNat, FS_CardinalityType, RequestsFinite DEF MaxPairs
      <3>5. Len(tokens) <= MaxPairs
        <4>1. Len(tokens) = 0 \/ Len(tokens) \in DOMAIN tokens
          BY <3>2
        <4> QED BY <2>1, <3>2, <3>4, <4>1 DEF Pairs
      <3> QED BY <3>3, <3>5
    <2>3. mem \in [Tabs -> Held] /\ storage \in Held
      <3>1. HeldRefs \subseteq Held
        BY <2>1 DEF HeldRefs, Held, Ref
      <3> QED BY <3>1 DEF HeldOK
    <2>4. ASSUME NEW t \in Tabs
          PROVE  /\ probe[t].pair \in DOMAIN tokens \cup {None} /\ signing[t].pair \in DOMAIN tokens \cup {None}
                 /\ {mem[t].token, mem[t].refresh} \subseteq DOMAIN tokens \cup {None}
                 /\ view[t] = "app" => mem[t].token # None
      <3>1. mem[t] \in HeldRefs /\ probe[t] \in ProbeRow /\ signing[t] \in SigningRow
        BY DEF HeldOK, SigningOK, GuardInv, GuardTypes
      <3>2. view[t] = "app" => mem[t].token # None
        BY DEF GuardInv, GuardFits, Fits
      <3> QED BY <3>1, <3>2 DEF HeldRefs, ProbeRow, SigningRow, Ref
    <2>5. {storage.token, storage.refresh} \subseteq DOMAIN tokens \cup {None}
      BY DEF HeldOK, HeldRefs, Ref
    <2>6. \A c \in Requests : call[c].stage # "idle" => call[c].pair \in DOMAIN tokens
      BY CallHasRow
    <2>7. \A r \in Requests : req[r].pair \in DOMAIN tokens \cup {None}
      BY DEF ReqOK, ReqRow, Ref
    <2>8. accounts \subseteq Users /\ mustChange \subseteq accounts
          /\ view \in [Tabs -> {"login", "invite", "closed", "loading", "must-change", "app"}]
      BY DEF GuardInv, GuardTypes, AccountsOK, Views
    <2> QED BY <2>2, <2>3, <2>4, <2>5, <2>6, <2>7, <2>8 DEF SessionTypeOK
  <1> QED BY <1>1, <1>2, <1>3, PTL DEF Spec

\* A tab never shows the data of two users (clearSession with queryClient.clear; auth.ts,
\* Login.tsx), however sign-ins and sign-outs of any number of tabs fall between requests
\* and rotations: except where a rotation begun before a sign-in returned after it.
THEOREM CachesOneUser == Spec => []CacheOneUser
  <1>1. Init => References /\ CacheInv
    BY InitReferences, InitCache DEF SessionInv
  <1>2. References /\ CacheInv /\ [Next]_vars => References' /\ CacheInv'
    BY ReferencesStep, CacheStep
  <1>3. CacheInv => CacheOneUser
    <2> SUFFICES ASSUME CacheInv, NEW t \in Tabs, t \notin late PROVE Cardinality(cached[t]) <= 1
      BY DEF CacheOneUser
    <2> DEFINE owner == Owner(mem[t].token)
    <2>1. cached[t] \subseteq {owner}
      BY DEF CacheInv, ShowsOwner
    <2> HIDE DEF owner
    <2>2. IsFiniteSet({owner}) /\ Cardinality({owner}) = 1
      BY FS_Singleton
    <2>3. IsFiniteSet(cached[t]) /\ Cardinality(cached[t]) <= Cardinality({owner})
      BY <2>1, <2>2, FS_Subset
    <2> QED BY <2>2, <2>3
  <1> QED BY <1>1, <1>2, <1>3, PTL DEF Spec

\* With one tab open, every refresh token the server sees again had its rotation cut by a
\* page load or a lost answer: the single flight of auth.ts, whatever number of requests
\* meet a 401 and in whatever order their continuations run.
THEOREM ReusesExplained == Spec => []ReuseExplained
  <1>1. Init => References /\ GuardInv /\ Inert /\ FlightInv
    BY InitReferences, InitGuard, InitInert, InitFlight DEF SessionInv
  <1>2. References /\ GuardInv /\ Inert /\ FlightInv /\ [Next]_vars
        => References' /\ GuardInv' /\ Inert' /\ FlightInv'
    BY ReferencesStep, GuardStep, InertStep, FlightStep
  <1>3. FlightInv => ReuseExplained
    BY OneOpenTab DEF FlightInv, ReuseExplained
  <1> QED BY <1>1, <1>2, <1>3, PTL DEF Spec
=============================================================================
