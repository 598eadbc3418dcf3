------------------------ MODULE MCConditionPipeline ------------------------
(***************************************************************************)
(* Up to three POSTs to two ISUs of one shard index.  r1 and r2 are for    *)
(* the same ISU and their times are interleaved, so that every order of    *)
(* arrival occurs: in order, late, and in between.                         *)
(***************************************************************************)
EXTENDS ConditionPipeline

CONSTANTS i1, i2, r1, r2, r3

MCIsuOf == [r \in Requests |-> IF r = r3 THEN i2 ELSE i1]
MCTimesOf == [r \in Requests |-> CASE r = r1 -> {1, 3}
                                   [] r = r2 -> {2}
                                   [] r = r3 -> {1}]
=============================================================================
