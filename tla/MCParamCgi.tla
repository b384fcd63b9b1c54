------------------------------ MODULE MCParamCgi ------------------------------
(* ParamCgi with three parameters of two values.  A request is the name of the group *)
(* and up to two parameters.                                                         *)
EXTENDS ParamCgi, SequencesExt

CONSTANTS v1, v2
MCValues == {v1, v2}

Group == [lines |-> {}, value |-> v1]
MCRequests == {<<Group>> \o r : r \in BoundedSeq([lines : SUBSET (1 .. 3), value : MCValues], 2)}
=============================================================================
