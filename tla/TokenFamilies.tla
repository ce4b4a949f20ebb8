---------------------------- MODULE TokenFamilies ----------------------------
(***************************************************************************)
(* What refresh-token rotation promises: the tokens of one sign-in, a      *)
(* family, are a chain.  A token is consumed once, and its successor is    *)
(* issued only when every token before it is consumed.  How the three      *)
(* transactions of a rotation, the tabs and the lost answers interleave is *)
(* no part of it.                                                          *)
(***************************************************************************)
CONSTANTS Families, Tokens

VARIABLES issued,   \* the tokens of every family
          consumed  \* those presented and taken

famVars == <<issued, consumed>>

FamiliesInit ==
    /\ issued = [f \in Families |-> {}]
    /\ consumed = [f \in Families |-> {}]

\* A sign-in.
Begin(f, n) ==
    /\ issued[f] = {} /\ \A g \in Families : n \notin issued[g]
    /\ issued' = [issued EXCEPT ![f] = {n}]
    /\ UNCHANGED consumed

Consume(f, n) ==
    /\ n \in issued[f] \ consumed[f]
    /\ consumed' = [consumed EXCEPT ![f] = @ \cup {n}]
    /\ UNCHANGED issued

\* The successor of the last token.
Succeed(f, n) ==
    /\ issued[f] # {} /\ consumed[f] = issued[f]
    /\ \A g \in Families : n \notin issued[g]
    /\ issued' = [issued EXCEPT ![f] = @ \cup {n}]
    /\ UNCHANGED consumed

FamiliesNext ==
    \E f \in Families, n \in Tokens : Begin(f, n) \/ Consume(f, n) \/ Succeed(f, n)

FamiliesSpec == FamiliesInit /\ [][FamiliesNext]_famVars
==============================================================================
