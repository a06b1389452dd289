--------------------------- MODULE MCTaskRollout ---------------------------
(* Instances of TaskRollout for TLC: tasks for one target, which share their *)
(* base id.                                                                 *)
EXTENDS TaskRollout

T(id, gen, kind) == [id |-> id, gen |-> gen, kind |-> kind]

ByHand == {T("hand", 1, "undecodable")}
NoRows == {}
IdOrder == <<"ping-x", "ping-x-2">>
NoConfigs == {}
=============================================================================
