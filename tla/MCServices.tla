----------------------------- MODULE MCServices -----------------------------
(***************************************************************************)
(* Instances for the deployment script, the order book, the preparation of *)
(* orders and swaps, the standing intents and the agents' bridges, which   *)
(* share nothing here: part says which of them a behaviour is of, and the  *)
(* others rest.                                                            *)
(***************************************************************************)
EXTENDS PublicDeployment, OrderBook, ProtocolService, StandingIntents, McpBridge

CONSTANTS Parts, b1, b2, preview1

VARIABLE part
vars == <<part, deploymentVars, bookVars, protocolVars, intentVars, bridgeVars>>

\* Nothing is pinned, everything is, or Aqua and its routers are.
MCPinnings == {{}, Name, {"aqua", "aquaSwapRouter", "limitSwapRouter"}}

price(n, d) == [n |-> n, d |-> d]
MCPrice == {price(3, 10), price(1, 1)}

\* Worse for the taker than the rate of the order.
rateOf(in, out) == [in |-> in, out |-> out]
MCRate == {rateOf(1, 2), rateOf(3, 2)}

\* An intent of each kind, with and without what its kind leaves open.
exits(kind, side) == [kind |-> kind, side |-> side, stopLossPrice |-> 1, takeProfitPrice |-> 3]
trigger(kind, side) == [kind |-> kind, side |-> side, triggerPrice |-> 2]
trailing(unit, value, activation) ==
    [kind |-> "trailingStop", side |-> "sell", trail |-> [unit |-> unit, value |-> value],
     activationPrice |-> activation]
MCCommands == {exits("oco", "sell"), [exits("bracket", "buy") EXCEPT !.stopLossPrice = 3, !.takeProfitPrice = 1],
               trigger("stop", "sell"), trigger("takeProfit", "buy"),
               trailing("quote", 1, 2), trailing("bps", 5000, NoPrice)}

\* Two bridges of one agent; its trade needs two transactions first.
MCBridge == {b1, b2}
MCAgentOf == [b \in MCBridge |-> "agent"]
MCPrerequisites == [p \in {preview1} |-> 2]

\* What rests: no chain, no orders, no tokens, one intent nobody asked for.
DeploymentRests ==
    /\ onChain = <<>> /\ shipped = {} /\ rounds = 0 /\ keeper = PinnedKeeper
    /\ partial = NoContracts /\ evidence = NoContracts /\ addresses = FALSE /\ manifest = NoManifest
    /\ script = [at |-> "off", ended |-> "never"] /\ cuts = 0 /\ lags = 0 /\ astray = FALSE
BookRests == stored = <<>> /\ asked = Nothing /\ answer = Nothing

Init ==
    /\ part \in Parts
    /\ IF part = "deployment" THEN DeploymentInit ELSE DeploymentRests
    /\ IF part = "book" THEN BookInit ELSE BookRests
    /\ ProtocolInit /\ (part # "protocol" => aquaAllowance = 0)
    /\ IntentsInit /\ (part # "intents" => command = trigger("stop", "sell"))
    /\ BridgeInit
Next ==
    /\ UNCHANGED part
    /\ \/ part = "deployment" /\ DeploymentNext
          /\ UNCHANGED <<bookVars, protocolVars, intentVars, bridgeVars>>
       \/ part = "book" /\ BookNext
          /\ UNCHANGED <<deploymentVars, protocolVars, intentVars, bridgeVars>>
       \/ part = "protocol" /\ ProtocolNext
          /\ UNCHANGED <<deploymentVars, bookVars, intentVars, bridgeVars>>
       \/ part = "intents" /\ IntentsNext
          /\ UNCHANGED <<deploymentVars, bookVars, protocolVars, bridgeVars>>
       \/ part = "bridge" /\ BridgeNext
          /\ UNCHANGED <<deploymentVars, bookVars, protocolVars, intentVars>>

Spec == Init /\ [][Next]_vars
FairSpec == Spec /\ (part = "deployment" => RunsAgain)

\* In the behaviours of the script.
ScriptFinishes == part = "deployment" => EventuallyDeployed
=============================================================================
