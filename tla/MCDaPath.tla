------------------------------ MODULE MCDaPath ------------------------------
(* Small instance of DaPath: the consumer reads two rollups, the second is modelled. *)
EXTENDS DaPath

MCRollups == <<1, 2>>
=============================================================================
