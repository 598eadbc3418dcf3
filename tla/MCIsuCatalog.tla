---------------------------- MODULE MCIsuCatalog ----------------------------
(***************************************************************************)
(* One ISU is in the initial data, the others are there to be registered   *)
(* by either user, one after the other or at the same time; conditions     *)
(* come from the first of these.                                           *)
(***************************************************************************)
EXTENDS IsuCatalog

CONSTANTS u1, u2, i1, i2, c1, c2

MCAccounts == {[c \in Clients |-> u1], [c \in Clients |-> IF c = c1 THEN u1 ELSE u2]}
MCConditions == {[isu |-> i2, at |-> 1], [isu |-> i2, at |-> 2]}
MCSeed == <<[isu |-> i1, user |-> u1]>>
=============================================================================
