----------------------------- MODULE MCRpcPool -----------------------------
(* Two endpoints and two clients, in three situations: a broadcast beside a *)
(* session, scans, and calls that need a capability while one endpoint is   *)
(* on another chain.                                                        *)
EXTENDS RpcPool

CONSTANTS e1, e2, plain, pinned

SceneSet ==
    {[chain |-> {e1, e2}, calls |-> {<<plain, "sendRaw">>, <<pinned, "receipt">>}],
     [chain |-> {e1, e2}, calls |-> {<<plain, "blockNumber">>, <<plain, "logs">>}],
     [chain |-> {e2}, calls |-> {<<plain, "priorityFee">>, <<pinned, "override">>}]}
TierOf == [e \in Endpoint |-> IF e = e2 THEN 1 ELSE 0]
=============================================================================
