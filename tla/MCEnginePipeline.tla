--------------------------- MODULE MCEnginePipeline ---------------------------
(* Instances of EnginePipeline for TLC: the constants that are not in the     *)
(* .cfg files.                                                                *)
EXTENDS EnginePipeline

FourRecords == <<2, 2, 2, 2>>
FiveRecords == <<2, 2, 2, 2, 2>>

===============================================================================
