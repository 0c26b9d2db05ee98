----------------------- MODULE MCAggregatorRpcClient -----------------------
(* Small instance of AggregatorRpcClient; the constants are given in the configuration. *)
EXTENDS AggregatorRpcClient
=============================================================================
