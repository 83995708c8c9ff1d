------------------------------ MODULE MCBlockData ------------------------------
(***************************************************************************)
(* Instances of BlockData for TLC: blocks of two tokens; plain and         *)
(* compressed, rotating, hybrid and mixture-of-experts text models; plain  *)
(* and hybrid vision models.                                               *)
(***************************************************************************)
EXTENDS BlockData

MCModels == {<<"tq", "kv">>, <<"rot", "kv">>, <<"ssm", "kv", "ssm", "tq">>,
             <<"list", "kv">>}
MCVisionModels == {<<"kv", "tq">>, <<"ssm", "kv", "ssm", "tq">>}
MCSubKinds == <<"kv", "ssm">>

ASSUME MCShapes == HybridsFlat /\ PlainVision /\ PrefixFree
================================================================================
