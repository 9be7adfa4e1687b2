-------------------------- MODULE PublicDeployment --------------------------
(***************************************************************************)
(* scripts/deploy-public-chain.ts: a script that puts the contracts on a   *)
(* public chain, binds them to each other, ships two fixture orders and    *)
(* writes the evidence, the addresses and the runtime manifest.  It may be *)
(* cut off anywhere and is run again until it ends well: it goes on from   *)
(* deployments.partial.json, from contracts that are pinned in its         *)
(* environment, and from what is on the chain.                             *)
(***************************************************************************)
EXTENDS Integers, Sequences, Functions

CONSTANTS
    Keeper,         \* addresses that AQUA_KEEPER_KEY may stand for
    PinnedKeeper,   \* the one that the pinned contracts were made with
    Pinnings,       \* which pinned addresses may have code: sets of names
    Rounds,         \* how often the deployer's tokens suffice to fund the services
    MaxCreated, MaxCuts, MaxLags

ASSUME DeploymentAssumption == MaxCreated \in Nat

\* The contracts in the order of the script.  Those that know no other and are
\* known to none (WETH, Permit2, the x402 proxy, the second token) are left out.
Names == <<"aqua", "aquaSwapRouter", "limitSwapRouter", "token",
           "intentController", "orderVaultFactory", "boundedMatcher">>
Name == Range(Names)
PinnedAt(name) == CHOOSE i \in DOMAIN Names : Names[i] = name
Nowhere == 0
Address == 1..(Len(Names) + MaxCreated)
Fixture == {1, 2}

VARIABLES
    onChain,    \* [Address -> what is deployed there]; only matcher ever changes
    shipped,    \* the fixture orders in the Aqua registry
    rounds,     \* what is left of the deployer's tokens
    partial,    \* deployments.partial.json: [Name -> address]
    evidence,   \* deployments.production.json: [Name -> address]
    addresses,  \* is there a deployment-addresses.production.json?
    manifest,   \* runtime-manifest.production.json: the contracts and the keeper
    script,     \* where the script is, and its contracts
    keeper,     \* the keeper of this run
    cuts, lags,
    astray      \* did a run end between its first order and its manifest, read
                \* from a node that was behind, or have another keeper?

chainSide == <<onChain, shipped, rounds>>
files == <<partial, evidence, addresses, manifest>>
history == <<cuts, lags, astray>>
deploymentVars == <<chainSide, files, script, keeper, history>>

NoContracts == [n \in Name |-> Nowhere]
NoManifest == [contracts |-> NoContracts, keeper |-> PinnedKeeper]
HasCode(a) == a # Nowhere /\ onChain[a].name # "nothing"

\* What the constructor of a contract keeps of the contracts before it and of
\* the keeper.
Code(name, contracts, operator) ==
    [name     |-> name,
     aqua     |-> IF name \in {"aquaSwapRouter", "limitSwapRouter"} THEN contracts["aqua"] ELSE Nowhere,
     operator |-> IF name \in {"intentController", "boundedMatcher"} THEN operator ELSE PinnedKeeper,
     targets  |-> IF name = "boundedMatcher"
                    THEN {contracts[t] : t \in {"aquaSwapRouter", "limitSwapRouter",
                                                "intentController", "orderVaultFactory"}}
                    ELSE {},
     matcher  |-> Nowhere]

\* What the script asks of a set of contracts before it records them.
BoundAs(contracts, operator) ==
    LET at(name) == onChain[contracts[name]]
    IN  /\ \A n \in Name : HasCode(contracts[n])
        /\ \A r \in {"aquaSwapRouter", "limitSwapRouter"} : at(r).aqua = contracts["aqua"]
        /\ at("intentController").operator = operator /\ at("boundedMatcher").operator = operator
        /\ at("intentController").matcher = contracts["boundedMatcher"]
        /\ {contracts[t] : t \in {"aquaSwapRouter", "limitSwapRouter",
                                   "intentController", "orderVaultFactory"}}
             \subseteq at("boundedMatcher").targets

\* The pinned contracts, when they are there, were bound by an earlier deployment.
DeploymentInit ==
    /\ \E there \in Pinnings :
         onChain = [a \in Address |->
            IF a \in DOMAIN Names /\ Names[a] \in there
              THEN [Code(Names[a], [n \in Name |-> PinnedAt(n)], PinnedKeeper) EXCEPT
                      !.matcher = IF Names[a] = "intentController" /\ "boundedMatcher" \in there
                                    THEN PinnedAt("boundedMatcher") ELSE Nowhere]
              ELSE Code("nothing", NoContracts, PinnedKeeper)]
    /\ shipped = {} /\ rounds = Rounds
    /\ partial = NoContracts /\ evidence = NoContracts /\ addresses = FALSE /\ manifest = NoManifest
    /\ script = [at |-> "off", ended |-> "never"]
    /\ keeper = PinnedKeeper
    /\ cuts = 0 /\ lags = 0 /\ astray = FALSE

Recorded == evidence # NoContracts
Described == manifest # NoManifest
GoTo(place) == script' = [script EXCEPT !.at = place]
End(how) == script' = [at |-> "off", ended |-> how]

(***************************************************************************)
(* The start of a run: is there a deployment already?                      *)
(***************************************************************************)
Start(k) ==
    /\ script.at = "off"
    /\ script' = [at |-> "validate", contracts |-> NoContracts]
    /\ keeper' = k
    /\ astray' = (astray \/ k # PinnedKeeper)
    /\ UNCHANGED <<chainSide, files, cuts, lags>>

\* A manifest that is there must name the contracts of the evidence.
ManifestAgrees == Described => manifest.contracts = evidence

\* Any failing call makes the recorded deployment one to be replaced.
Validate(answered) ==
    /\ script.at = "validate"
    /\ IF answered /\ Recorded /\ addresses /\ ManifestAgrees /\ BoundAs(evidence, keeper)
         THEN End("well") ELSE GoTo("pinned")
    /\ UNCHANGED <<chainSide, files, keeper, history>>

\* (mutant) the operator is not compared with the key in the environment
AssertedForAnyKeeper(contracts) == \E k \in Keeper : BoundAs(contracts, k)

\* (mutant) what is on record is asked, and not what the run has in hand
AssertedOnRecord(contracts) == Recorded /\ BoundAs(evidence, keeper)

Asserted(contracts) == BoundAs(contracts, keeper)

ReusePinned ==
    /\ script.at = "pinned"
    /\ LET pinned == [n \in Name |-> PinnedAt(n)]
       IN  IF \E n \in Name : ~HasCode(pinned[n]) THEN GoTo("aqua")
           ELSE IF Asserted(pinned)
             THEN script' = [at |-> "evidence", contracts |-> pinned]
           ELSE End("badly")
    /\ UNCHANGED <<chainSide, files, keeper, history>>

(***************************************************************************)
(* One contract after the other: the recorded one, the pinned one, or a    *)
(* new one.  A new contract is on the chain before it is on record.        *)
(***************************************************************************)
Following(name) ==
    IF name = "boundedMatcher" THEN "bind" ELSE Names[PinnedAt(name) + 1]
Take(name, a) ==
    script' = [at |-> Following(name), contracts |-> [script.contracts EXCEPT ![name] = a]]

\* A pinned Aqua router is taken only if it belongs to this Aqua.
Fits(name) ==
    /\ HasCode(PinnedAt(name))
    /\ name = "aquaSwapRouter" => onChain[PinnedAt(name)].aqua = script.contracts["aqua"]

\* A node that is behind does not know the recorded contract yet.
ReuseOrCreate(name, behind) ==
    /\ script.at = name
    /\ behind => HasCode(partial[name]) /\ partial[name] > Len(Names) /\ lags < MaxLags
    /\ lags' = lags + (IF behind THEN 1 ELSE 0) /\ astray' = (astray \/ behind)
    /\ IF HasCode(partial[name]) /\ ~behind
         THEN Take(name, partial[name]) /\ UNCHANGED <<partial, onChain>>
       ELSE IF Fits(name)
         THEN /\ Take(name, PinnedAt(name))
              /\ partial' = [partial EXCEPT ![name] = PinnedAt(name)]
              /\ UNCHANGED onChain
       ELSE \E a \in Address \ DOMAIN Names :
              /\ ~HasCode(a) /\ \A b \in (Len(Names) + 1)..(a - 1) : HasCode(b)
              /\ onChain' = [onChain EXCEPT ![a] = Code(name, script.contracts, keeper)]
              /\ script' = [at |-> "save", name |-> name, new |-> a, contracts |-> script.contracts]
              /\ UNCHANGED partial
    /\ UNCHANGED <<shipped, rounds, evidence, addresses, manifest, keeper, cuts>>

SavePartial ==
    /\ script.at = "save"
    /\ partial' = [partial EXCEPT ![script.name] = script.new]
    /\ Take(script.name, script.new)
    /\ UNCHANGED <<chainSide, evidence, addresses, manifest, keeper, history>>

\* bindMatcher succeeds once; it is not called for a controller bound already.
Bindable(controller, matcher) == onChain[controller].matcher \in {Nowhere, matcher}

Bind ==
    /\ script.at = "bind"
    /\ LET controller == script.contracts["intentController"]
           matcher    == script.contracts["boundedMatcher"]
       IN  IF Bindable(controller, matcher)
             THEN onChain' = [onChain EXCEPT ![controller].matcher = matcher] /\ GoTo("assert")
             ELSE UNCHANGED onChain /\ End("badly")
    /\ UNCHANGED <<shipped, rounds, files, keeper, history>>

AssertBindings ==
    /\ script.at = "assert"
    /\ IF Asserted(script.contracts) THEN GoTo("fund") ELSE End("badly")
    /\ UNCHANGED <<chainSide, files, keeper, history>>

(***************************************************************************)
(* Seeds: tokens for the services, then the two orders.  Aqua takes an     *)
(* order once.                                                             *)
(***************************************************************************)
Fund ==
    /\ script.at = "fund"
    /\ IF rounds > 0 THEN rounds' = rounds - 1 /\ GoTo("ship1")
                     ELSE UNCHANGED rounds /\ End("badly")
    /\ UNCHANGED <<onChain, shipped, files, keeper, history>>

Ship(i) ==
    /\ script.at = (IF i = 1 THEN "ship1" ELSE "ship2")
    /\ LET order == [aqua  |-> script.contracts["aqua"], router |-> script.contracts["limitSwapRouter"],
                     token |-> script.contracts["token"], fixture |-> i]
       IN  IF order \in shipped
             THEN End("badly") /\ UNCHANGED shipped
             ELSE /\ shipped' = shipped \union {order}
                  /\ GoTo(IF i = 1 THEN "ship2" ELSE "evidence")
    /\ UNCHANGED <<onChain, rounds, files, keeper, history>>

(***************************************************************************)
(* Three files, one after the other.                                       *)
(***************************************************************************)
WriteEvidence ==
    /\ script.at = "evidence"
    /\ evidence' = script.contracts
    /\ GoTo("addresses")
    /\ UNCHANGED <<chainSide, partial, addresses, manifest, keeper, history>>

WriteAddresses ==
    /\ script.at = "addresses"
    /\ addresses' = TRUE
    /\ GoTo("manifest")
    /\ UNCHANGED <<chainSide, partial, evidence, manifest, keeper, history>>

WriteManifest ==
    /\ script.at = "manifest"
    /\ manifest' = [contracts |-> script.contracts, keeper |-> keeper]
    /\ End("well")
    /\ UNCHANGED <<chainSide, partial, evidence, addresses, keeper, history>>

\* The script is stopped, or a call, a transaction or a receipt fails it.
Cut ==
    /\ script.at # "off" /\ cuts < MaxCuts
    /\ cuts' = cuts + 1
    /\ astray' = (astray \/ script.at \in {"ship1", "ship2", "evidence", "addresses", "manifest"})
    /\ End("badly")
    /\ UNCHANGED <<chainSide, files, keeper, lags>>

Deploy ==
    \/ \E answered \in BOOLEAN : Validate(answered)
    \/ ReusePinned
    \/ \E n \in Name, behind \in BOOLEAN : ReuseOrCreate(n, behind)
    \/ SavePartial \/ Bind \/ AssertBindings \/ Fund
    \/ \E i \in Fixture : Ship(i)
    \/ WriteEvidence \/ WriteAddresses \/ WriteManifest

DeploymentNext == Deploy \/ Cut \/ \E k \in Keeper : Start(k)

DeploymentSpec == DeploymentInit /\ [][DeploymentNext]_deploymentVars

-----------------------------------------------------------------------------
(***************************************************************************)
(* Properties.                                                             *)
(***************************************************************************)
\* The services never start from a manifest whose contracts do not belong
\* together: routers of another Aqua, a controller bound to another matcher or
\* to none, an operator whose key the services do not have.
ManifestIsBound == Described => BoundAs(manifest.contracts, manifest.keeper)

\* A run that ends well leaves no manifest of another deployment than the one on
\* record, whatever earlier runs were cut off between the files.
SuccessAgrees ==
    script.at = "off" /\ script.ended = "well" =>
      Recorded /\ addresses /\ (Described => manifest.contracts = evidence)

\* Whatever was cut off and whichever keeper and pins a run named, the three files
\* describe one deployment, and it is one whose contracts belong together.
DeploymentAgrees == ManifestIsBound /\ SuccessAgrees

\* The script is run until it ends well: it gets there, unless a run went astray
\* (see the variable).
Retry == script.at = "off" /\ script.ended # "well" /\ Start(PinnedKeeper)
RunsAgain == WF_deploymentVars(Deploy) /\ WF_deploymentVars(Retry)
EventuallyDeployed == <>(astray \/ Described)
=============================================================================
