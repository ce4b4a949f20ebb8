-------------------------- MODULE MCConsoleSession --------------------------
(***************************************************************************)
(* ConsoleSession for TLC.  A behaviour belongs to one crew of Crews: the  *)
(* tabs that are open, the users that have accounts or an invite, and the  *)
(* faults that may happen.                                                 *)
(***************************************************************************)
EXTENDS ConsoleSession, TLC

CONSTANTS Crews,       \* sets of tabs, users and faults
          reload, loss, \* the faults: a page load, a lost answer
          again,        \* a second sign-in
          Invited      \* the users that hold an invite at the start: a temporary password

MCInit ==
    /\ AtRest
    /\ \E crew \in Crews :
          /\ accounts = (Users \cap crew) \ Invited
          /\ mustChange = {}
          /\ view = [t \in Tabs |-> IF t \notin crew THEN "closed"
                                    ELSE IF crew \cap Invited # {} THEN "invite" ELSE "login"]
          /\ spent = [logins |-> IF again \in crew THEN 0 ELSE MaxLogins - 1, expiries |-> 0,
                      reloads |-> IF reload \in crew THEN 0 ELSE MaxReloads,
                      losses |-> IF loss \in crew THEN 0 ELSE MaxLosses]

MCSpec == MCInit /\ [][Next]_vars /\ Fairness
=============================================================================
