---------------------------- MODULE Services_proofs ----------------------------
(***************************************************************************)
(* Theorems of the standing intents, for any commands, prices, waits and   *)
(* bounds, wherever the services die; of the deployment script, wherever   *)
(* it is cut off; of the swaps and limit orders that are prepared; and of  *)
(* the book that requests are answered from.                               *)
(***************************************************************************)
EXTENDS StandingIntents, PublicDeployment, ProtocolService, OrderBook,
        FiniteSetTheorems, SequenceTheorems, WellFoundedInduction, TLAPS

-----------------------------------------------------------------------------
(* Standing intents.  Nothing of the evaluator's state says whether the    *)
(* maker authorized the intent: that all of it was made after the one      *)
(* acceptance is the invariant.                                            *)

IntentTyped ==
    /\ intent \in [status : {"none", "awaitingAuthorization", "active", "deleted"},
                   validBefore : Nat]
    /\ time \in Nat
    /\ requests \in Nat /\ acceptances \in {0, 1}
    /\ highWater \in BestPrices \union {NoPrice}

\* A signature comes before the request that brings it, that before the one
\* acceptance, and that before everything the evaluator does.
AuthorizedFirst ==
    /\ requests > 0 => signed
    /\ acceptances = 0 => intent.status # "active"
    /\ acceptances = 1 => signed /\ intent.status \in {"active", "deleted"}
    /\ \/ evaluator # Idle \/ jobs # {} \/ highWater # NoPrice
       \/ \E o \in ObservationIds : watched[o] # Unwatched
       => acceptances = 1

\* The controller knows one group of the intent, and closes it when it activates.
OneGroup ==
    /\ activations \in [{"commandHash"} -> [{"nonce"} \union ObservationIds -> Nat]]
    /\ \A g \in {"nonce"} \union ObservationIds : activations["commandHash"][g] > 0 =>
          g = "nonce" /\ g \in closedGroups /\ activations["commandHash"][g] = 1

IntentInvariant == IntentTyped /\ AuthorizedFirst /\ OneGroup

-----------------------------------------------------------------------------
LEMMA IntentsInitially == ASSUME IntentsInit PROVE IntentInvariant
<1> USE DEF IntentsInit, Controller!InitBoundTo
<1>1. IntentTyped
    BY DEF IntentTyped
<1>2. AuthorizedFirst
    BY DEF AuthorizedFirst
<1>3. OneGroup
    BY DEF OneGroup
<1> QED
    BY <1>1, <1>2, <1>3 DEF IntentInvariant

-----------------------------------------------------------------------------
(* Authorization.                                                           *)

LEMMA ChallengePreserves == ASSUME IntentInvariant, Challenge PROVE IntentInvariant'
<1> USE DEF IntentInvariant, Challenge, controllerVars, workerVars
<1>1. IntentTyped'
    BY IntentAssumption DEF IntentTyped, IntentAssumption
<1>2. AuthorizedFirst'
    BY DEF IntentTyped, AuthorizedFirst
<1>3. OneGroup'
    BY DEF OneGroup
<1> QED
    BY <1>1, <1>2, <1>3

LEMMA SignPreserves == ASSUME IntentInvariant, SignTypedData PROVE IntentInvariant'
<1> USE DEF IntentInvariant, SignTypedData, controllerVars, workerVars
<1>1. IntentTyped' /\ OneGroup'
    BY DEF IntentTyped, OneGroup
<1>2. AuthorizedFirst'
    BY DEF AuthorizedFirst
<1> QED
    BY <1>1, <1>2

LEMMA AuthorizePreserves ==
    ASSUME IntentInvariant, NEW genuine \in BOOLEAN, Authorize(genuine)
    PROVE  IntentInvariant'
<1> USE DEF IntentInvariant, Authorize, controllerVars, workerVars
<1>1. IntentTyped' /\ OneGroup'
    BY DEF IntentTyped, OneGroup
<1>2. AuthorizedFirst'
    BY DEF AuthorizedFirst, VerifySignature
<1> QED
    BY <1>1, <1>2

\* The update consumes the challenge: a second request finds the status changed.
LEMMA ConsumePreserves == ASSUME IntentInvariant, ConsumeRequirement PROVE IntentInvariant'
<1> USE DEF IntentInvariant, ConsumeRequirement, controllerVars, workerVars
<1>1. requests' \in Nat /\ signed' = signed /\ signed
    BY DEF IntentTyped, AuthorizedFirst
<1>2. OneGroup'
    BY DEF OneGroup
<1>3. CASE Consumable
  <2>1. acceptances = 0
      BY <1>3 DEF Consumable, IntentTyped, AuthorizedFirst
  <2>2. acceptances' = 1 /\ intent' = [intent EXCEPT !.status = "active"]
      BY <1>3, <2>1
  <2>3. IntentTyped'
      BY <1>1, <2>2 DEF IntentTyped
  <2>4. AuthorizedFirst'
      BY <1>1, <2>1, <2>2 DEF IntentTyped, AuthorizedFirst
  <2> QED
      BY <1>2, <2>3, <2>4
<1>4. CASE ~Consumable
  <2>1. intent' = intent /\ acceptances' = acceptances
      BY <1>4
  <2>2. IntentTyped' /\ AuthorizedFirst'
      BY <1>1, <2>1 DEF IntentTyped, AuthorizedFirst
  <2> QED
      BY <1>2, <2>2
<1> QED
    BY <1>3, <1>4

-----------------------------------------------------------------------------
(* The evaluator.                                                           *)

\* A cycle begins for an intent that was accepted.
LEMMA RunPreserves == ASSUME IntentInvariant, RunOnce PROVE IntentInvariant'
<1> USE DEF IntentInvariant, RunOnce, controllerVars, requestVars
<1>1. acceptances = 1
    BY DEF IntentTyped, AuthorizedFirst
<1>2. IntentTyped' /\ OneGroup'
    BY DEF IntentTyped, OneGroup
<1>3. AuthorizedFirst'
    BY <1>1 DEF AuthorizedFirst
<1> QED
    BY <1>2, <1>3

\* Whatever a cycle then does, it does for an accepted intent.
LEMMA CyclePreserves ==
    ASSUME IntentInvariant, evaluator # Idle, UNCHANGED <<controllerVars, requestVars>>,
           highWater' \in BestPrices \union {NoPrice}
    PROVE  IntentInvariant'
<1> USE DEF IntentInvariant, controllerVars, requestVars
<1>1. IntentTyped' /\ OneGroup'
    BY DEF IntentTyped, OneGroup
<1>2. acceptances = 1
    BY DEF AuthorizedFirst
<1>3. AuthorizedFirst'
    BY <1>2 DEF AuthorizedFirst
<1> QED
    BY <1>1, <1>3

\* What the evaluator tracks is a price that the book showed.
LEMMA TrackedPrice ==
    ASSUME IntentTyped, NEW best \in BestPrices \union {NoPrice}, TrackHighWater(best)
    PROVE  highWater' \in BestPrices \union {NoPrice}
<1>1. CASE best = NoPrice \/ highWater' = highWater
    BY <1>1 DEF TrackHighWater, IntentTyped
<1>2. CASE best # NoPrice /\ highWater' # highWater
    BY <1>2 DEF TrackHighWater, IntentTyped, Higher
<1> QED
    BY <1>1, <1>2

LEMMA TrackPreserves ==
    ASSUME IntentInvariant, NEW best \in BestPrices \union {NoPrice}, TrackHighWater(best)
    PROVE  IntentInvariant'
<1>1. evaluator # Idle
    BY DEF TrackHighWater, Idle
<1>2. highWater' \in BestPrices \union {NoPrice}
    BY TrackedPrice DEF IntentInvariant
<1> QED
    BY <1>1, <1>2, CyclePreserves DEF TrackHighWater

LEMMA EvaluatePreserves ==
    ASSUME IntentInvariant, NEW best \in BestPrices \union {NoPrice}, NEW deep \in BOOLEAN,
           NEW p \in OrderSets, EvaluateCondition(best, deep, p)
    PROVE  IntentInvariant'
<1>1. evaluator # Idle /\ highWater' = highWater
    BY DEF EvaluateCondition, Idle
<1> QED
    BY <1>1, CyclePreserves DEF EvaluateCondition, IntentInvariant, IntentTyped

LEMMA SecondPreserves == ASSUME IntentInvariant, SecondStatement PROVE IntentInvariant'
<1>1. evaluator # Idle /\ highWater' = highWater
    BY DEF SecondStatement, Idle
<1> QED
    BY <1>1, CyclePreserves DEF SecondStatement, IntentInvariant, IntentTyped

-----------------------------------------------------------------------------
(* The chain, and restarts.                                                 *)

\* What an activation does to the history of the intent.
LEMMA ActivationCloses ==
    ASSUME OneGroup, NEW id, NEW p,
           Controller!Activate("keeper", "commandHash", Group(id), p)
    PROVE  OneGroup'
<1> DEFINE groups == {"nonce"} \union ObservationIds
           done   == activations["commandHash"]
<1>1. /\ done \in [groups -> Nat] /\ "nonce" \in groups
      /\ activations \in [{"commandHash"} -> [groups -> Nat]]
    BY DEF OneGroup
<1>2. "nonce" \notin closedGroups /\ closedGroups' = closedGroups \union {"nonce"}
    BY DEF Controller!Activate, Group
<1>3. done["nonce"] = 0
    BY <1>1, <1>2 DEF OneGroup
<1>4. activations' = [activations EXCEPT !["commandHash"] = [done EXCEPT !["nonce"] = 1]]
    BY <1>1, <1>3 DEF Controller!Activate, Controller!Activated, Group
<1> HIDE DEF done
<1>5. [done EXCEPT !["nonce"] = 1] \in [groups -> Nat]
    BY <1>1
<1>6. activations' \in [{"commandHash"} -> [groups -> Nat]]
    BY <1>1, <1>4, <1>5
<1>7. \A g \in groups : activations'["commandHash"][g] = IF g = "nonce" THEN 1 ELSE done[g]
    BY <1>1, <1>4
<1> QED
    BY <1>2, <1>6, <1>7 DEF OneGroup, done

LEMMA ChainPreserves ==
    ASSUME IntentInvariant, NextBlock \/ \E j \in jobs : MineCall(j)
    PROVE  IntentInvariant'
<1>1. CASE NextBlock
  <2> USE <1>1 DEF NextBlock, Controller!NewBlock, Controller!historyVars,
                   requestVars, workerVars, IntentInvariant
  <2>1. IntentTyped' /\ OneGroup'
      BY DEF IntentTyped, OneGroup
  <2>2. AuthorizedFirst'
      BY DEF AuthorizedFirst
  <2> QED
      BY <2>1, <2>2
<1>2. ASSUME NEW j \in jobs, MineCall(j) PROVE IntentInvariant'
  <2>1. UNCHANGED <<time, requestVars, workerVars, jobs>>
      BY <1>2 DEF MineCall, Controller!Observe, Controller!Reset, Controller!Activate,
                  Controller!chainVars
  <2>2. IntentTyped' /\ AuthorizedFirst'
      BY <2>1 DEF requestVars, workerVars, IntentInvariant, IntentTyped, AuthorizedFirst
  <2>3. ASSUME \/ Controller!Observe("keeper", "commandHash", j.arg)
               \/ Controller!Reset("keeper", "commandHash")
        PROVE  OneGroup'
      BY <2>3 DEF Controller!Observe, Controller!Reset, IntentInvariant, OneGroup
  <2>4. ASSUME Controller!Activate("keeper", "commandHash", Group(j.id), j.arg)
        PROVE  OneGroup'
      BY <2>4, ActivationCloses DEF IntentInvariant
  <2>5. OneGroup'
      BY <1>2, <2>3, <2>4 DEF MineCall
  <2> QED
      BY <2>2, <2>5 DEF IntentInvariant
<1> QED
    BY <1>1, <1>2

LEMMA RestartPreserves == ASSUME IntentInvariant, RestartServices PROVE IntentInvariant'
<1> USE DEF IntentInvariant, RestartServices, controllerVars
<1>1. intent' \in {intent, [intent EXCEPT !.status = "deleted"]}
    OBVIOUS
<1>2. IntentTyped' /\ OneGroup'
    BY <1>1 DEF IntentTyped, OneGroup
<1>3. AuthorizedFirst'
    BY <1>1 DEF IntentTyped, AuthorizedFirst
<1> QED
    BY <1>2, <1>3

LEMMA IntentsStutter == ASSUME IntentInvariant, UNCHANGED intentVars PROVE IntentInvariant'
    BY DEF IntentInvariant, IntentTyped, AuthorizedFirst, OneGroup, intentVars, controllerVars,
           requestVars, workerVars

LEMMA IntentInvariance == IntentsSpec => []IntentInvariant
<1>1. IntentsInit => IntentInvariant
    BY IntentsInitially
<1>2. IntentInvariant /\ [IntentsNext]_intentVars => IntentInvariant'
    BY IntentsStutter, ChallengePreserves, SignPreserves, AuthorizePreserves, ConsumePreserves,
       RunPreserves, TrackPreserves, EvaluatePreserves, SecondPreserves, ChainPreserves,
       RestartPreserves
       DEF IntentsNext
<1> QED
    BY <1>1, <1>2, PTL DEF IntentsSpec

-----------------------------------------------------------------------------
\* An intent stands, is watched, tracked or acted for only when its maker signed,
\* and of several requests that bring the signature one is accepted
\* (consumeRequirement), wherever the services restart.
THEOREM StandingAuthorized == IntentsSpec => []StandingIsAuthorized
<1>1. IntentInvariant => StandingIsAuthorized
    BY DEF IntentInvariant, IntentTyped, AuthorizedFirst, StandingIsAuthorized
<1> QED
    BY <1>1, IntentInvariance, PTL

\* Of the exits of an intent one activates, once, in the group of its nonce
\* (groupId in evaluateIntent, closedGroups in the controller).
THEOREM OneExitActivates == IntentsSpec => []OneExit
<1>1. IntentInvariant => OneExit
    BY DEF IntentInvariant, OneGroup, OneExit
<1> QED
    BY <1>1, IntentInvariance, PTL

-----------------------------------------------------------------------------
(* The deployment script.  What it has found to belong together it records *)
(* several steps later; nothing may come apart in between, in this run or  *)
(* in any that starts after it is cut off.                                 *)

Contracts == [Name -> Address \union {Nowhere}]
Operator  == Keeper \union {PinnedKeeper}
Contract  == [name : Name \union {"nothing"}, aqua : Address \union {Nowhere}, operator : Operator,
              targets : SUBSET (Address \union {Nowhere}), matcher : Address \union {Nowhere}]
Seeding   == {"fund", "ship1", "ship2", "evidence", "addresses", "manifest"}
Running   == [at : Name \union Seeding \union {"validate", "pinned", "bind", "assert"},
              contracts : Contracts]
Saving    == [at : {"save"}, name : Name, new : Address, contracts : Contracts]
Off       == [at : {"off"}, ended : {"never", "well", "badly"}]

DeploymentTyped ==
    /\ onChain \in [Address -> Contract]
    /\ partial \in Contracts /\ evidence \in Contracts
    /\ manifest \in [contracts : Contracts, keeper : Operator]
    /\ script \in Running \union Saving \union Off
    /\ keeper \in Operator

\* The script seeds and records what it has found to be bound; the files that it has
\* written are of these contracts.
SeedsWhatIsBound ==
    /\ script.at \in Seeding => BoundAs(script.contracts, keeper)
    /\ script.at \in {"addresses", "manifest"} => evidence = script.contracts
    /\ script.at = "manifest" => addresses

DeploymentInvariant == DeploymentTyped /\ SeedsWhatIsBound /\ DeploymentAgrees

LEMMA PlacesOfNames ==
  /\ DOMAIN Names \subseteq Address /\ Nowhere \notin Address
  /\ \A n \in Name : PinnedAt(n) \in DOMAIN Names /\ Following(n) \in Name \union {"bind"}
  /\ {"aqua", "aquaSwapRouter", "limitSwapRouter", "intentController", "orderVaultFactory",
      "boundedMatcher"} \subseteq Name
  /\ Name \intersect (Seeding \union {"off", "save", "bind", "nothing"}) = {}
<1>1. DOMAIN Names = 1..7 /\ Len(Names) = 7
    BY DEF Names
<1>2. Name = {Names[i] : i \in 1..7}
    BY <1>1 DEF Name, Range
<1>3. \A n \in Name : PinnedAt(n) \in 1..7 /\ Names[PinnedAt(n)] = n
  <2> TAKE n \in Name
  <2>1. \E i \in 1..7 : Names[i] = n
      BY <1>2
  <2> QED
      BY <1>1, <2>1 DEF PinnedAt
<1>4. /\ Names[1] = "aqua" /\ Names[2] = "aquaSwapRouter" /\ Names[3] = "limitSwapRouter" /\ Names[4] = "token"
      /\ Names[5] = "intentController" /\ Names[6] = "orderVaultFactory" /\ Names[7] = "boundedMatcher"
    BY DEF Names
<1>5. Name = {"aqua", "aquaSwapRouter", "limitSwapRouter", "token", "intentController",
              "orderVaultFactory", "boundedMatcher"}
  <2>1. 1..7 = {1, 2, 3, 4, 5, 6, 7}
      OBVIOUS
  <2> QED
      BY <1>2, <1>4, <2>1
<1>6. \A n \in Name : Following(n) \in Name \union {"bind"}
  <2> TAKE n \in Name
  <2>1. CASE n = "boundedMatcher"
      BY <2>1 DEF Following
  <2>2. CASE n # "boundedMatcher"
    <3>1. PinnedAt(n) + 1 \in 1..7
        BY <1>3, <1>4, <2>2
    <3> QED
        BY <1>2, <2>2, <3>1 DEF Following
  <2> QED
      BY <2>1, <2>2
<1>7. DOMAIN Names \subseteq Address /\ Nowhere \notin Address
    BY <1>1, DeploymentAssumption DEF DeploymentAssumption, Address, Nowhere
<1>8. Name \intersect (Seeding \union {"off", "save", "bind", "nothing"}) = {}
    BY <1>5 DEF Seeding
<1> QED
    BY <1>1, <1>3, <1>5, <1>6, <1>7, <1>8

\* What is deployed stays; all that ever changes is a matcher not yet set.
Stays(before, after) ==
    /\ after.name = before.name /\ after.aqua = before.aqua
    /\ after.operator = before.operator /\ after.targets = before.targets
    /\ before.matcher # Nowhere => after.matcher = before.matcher

LEMMA BoundStays ==
  ASSUME DeploymentTyped, NEW c \in Contracts, NEW k, BoundAs(c, k),
         \A a \in Address : HasCode(a) => Stays(onChain[a], onChain'[a])
  PROVE  BoundAs(c, k)'
<1>1. \A n \in Name : c[n] \in Address /\ HasCode(c[n]) /\ c[n] # Nowhere
    BY DEF BoundAs, HasCode, Contracts
<1>2. \A n \in Name : Stays(onChain[c[n]], onChain'[c[n]])
    BY <1>1
<1>3. \A n \in Name : HasCode(c[n])'
    BY <1>1, <1>2 DEF HasCode, Stays
<1>4. "intentController" \in Name /\ "boundedMatcher" \in Name
      /\ "aquaSwapRouter" \in Name /\ "limitSwapRouter" \in Name
    BY PlacesOfNames
<1> QED
    BY <1>1, <1>2, <1>3, <1>4 DEF BoundAs, Stays

LEMMA CodeIsAContract ==
  ASSUME NEW c \in Contracts, NEW n \in Name \union {"nothing"}, NEW k \in Operator
  PROVE  Code(n, c, k) \in Contract
<1>1. {"aqua", "aquaSwapRouter", "limitSwapRouter", "intentController", "orderVaultFactory"} \subseteq Name
    BY PlacesOfNames
<1>2. \A m \in Name : c[m] \in Address \union {Nowhere}
    BY DEF Contracts
<1>3. PICK targets : targets = IF n = "boundedMatcher"
                                 THEN {c[t] : t \in {"aquaSwapRouter", "limitSwapRouter",
                                                     "intentController", "orderVaultFactory"}} ELSE {}
    OBVIOUS
<1>4. targets \in SUBSET (Address \union {Nowhere})
    BY <1>1, <1>2, <1>3
<1> QED
    BY <1>1, <1>2, <1>3, <1>4 DEF Code, Contract, Operator

LEMMA DeploymentInitially == ASSUME DeploymentInit PROVE DeploymentInvariant
<1> USE DEF DeploymentInit
<1>1. NoContracts \in Contracts /\ PinnedKeeper \in Operator
    BY DEF NoContracts, Contracts, Operator
<1>2. onChain \in [Address -> Contract]
  <2>1. PICK there \in Pinnings :
         onChain = [a \in Address |->
            IF a \in DOMAIN Names /\ Names[a] \in there
              THEN [Code(Names[a], [n \in Name |-> PinnedAt(n)], PinnedKeeper) EXCEPT
                      !.matcher = IF Names[a] = "intentController" /\ "boundedMatcher" \in there
                                    THEN PinnedAt("boundedMatcher") ELSE Nowhere]
              ELSE Code("nothing", NoContracts, PinnedKeeper)]
      OBVIOUS
  <2>2. [n \in Name |-> PinnedAt(n)] \in Contracts
      BY PlacesOfNames DEF Contracts
  <2>3. \A c \in Contracts, n \in Name \union {"nothing"} : Code(n, c, PinnedKeeper) \in Contract
      BY <1>1, CodeIsAContract
  <2>4. \A a \in DOMAIN Names : Names[a] \in Name
      BY DEF Name, Range
  <2>5. PinnedAt("boundedMatcher") \in Address
      BY PlacesOfNames
  <2>6. \A m \in Address \union {Nowhere}, c \in Contract : [c EXCEPT !.matcher = m] \in Contract
      BY DEF Contract
  <2>7. \A a \in Address : onChain[a] \in Contract
    <3> TAKE a \in Address
    <3>1. CASE a \in DOMAIN Names /\ Names[a] \in there
      <4>1. PICK m \in Address \union {Nowhere} :
               m = IF Names[a] = "intentController" /\ "boundedMatcher" \in there
                     THEN PinnedAt("boundedMatcher") ELSE Nowhere
          BY <2>5
      <4>2. onChain[a] = [Code(Names[a], [n \in Name |-> PinnedAt(n)], PinnedKeeper) EXCEPT !.matcher = m]
          BY <2>1, <3>1, <4>1
      <4> QED
          BY <2>2, <2>3, <2>4, <2>6, <3>1, <4>2
    <3>2. CASE ~(a \in DOMAIN Names /\ Names[a] \in there)
        BY <1>1, <2>1, <2>3, <3>2
    <3> QED
        BY <3>1, <3>2
  <2> QED
      BY <2>1, <2>7
<1>3. DeploymentTyped
    BY <1>1, <1>2 DEF DeploymentTyped, NoManifest, Off
<1> QED
    BY <1>3 DEF DeploymentInvariant, SeedsWhatIsBound, Seeding, DeploymentAgrees, ManifestIsBound,
       SuccessAgrees, Described

\* A step of a run that leaves the chain and the files as they are.
LEMMA ScriptMoves ==
  ASSUME DeploymentInvariant, UNCHANGED <<onChain, evidence, addresses, manifest>>,
         partial' \in Contracts, keeper' \in Operator,
         script' \in Running \union Saving \union Off,
         script'.at = "off" => script'.ended # "well",
         script'.at \in Seeding => BoundAs(script'.contracts, keeper'),
         script'.at \in {"addresses", "manifest"} => evidence = script'.contracts,
         script'.at = "manifest" => addresses
  PROVE  DeploymentInvariant'
<1>1. DeploymentTyped'
    BY DEF DeploymentInvariant, DeploymentTyped
<1>2. \A c, k : BoundAs(c, k)' <=> BoundAs(c, k)
    BY DEF BoundAs, HasCode
<1>3. SeedsWhatIsBound'
    BY <1>2 DEF SeedsWhatIsBound, BoundAs, HasCode
<1>4. DeploymentAgrees'
  <2>1. ManifestIsBound'
      BY <1>2 DEF DeploymentInvariant, DeploymentAgrees, ManifestIsBound, Described, BoundAs, HasCode
  <2> QED
      BY <2>1 DEF DeploymentAgrees, SuccessAgrees
<1> QED
    BY <1>1, <1>3, <1>4 DEF DeploymentInvariant

\* A step behind which nothing is to be seeded or recorded yet, though it may deploy or bind.
LEMMA ChainMoves ==
  ASSUME DeploymentInvariant, UNCHANGED <<evidence, addresses, manifest, keeper>>,
         onChain' \in [Address -> Contract],
         \A a \in Address : HasCode(a) => Stays(onChain[a], onChain'[a]),
         partial' \in Contracts, script' \in Running \union Saving \union Off,
         script'.at \notin Seeding, script'.at = "off" => script'.ended # "well"
  PROVE  DeploymentInvariant'
<1>1. DeploymentTyped'
    BY DEF DeploymentInvariant, DeploymentTyped
<1>2. SeedsWhatIsBound'
    BY DEF SeedsWhatIsBound, Seeding
<1>3. ManifestIsBound'
  <2>1. Described' => Described /\ manifest.contracts \in Contracts
      BY DEF Described, DeploymentInvariant, DeploymentTyped
  <2>2. Described' => BoundAs(manifest.contracts, manifest.keeper)'
      BY <2>1, BoundStays DEF DeploymentInvariant, DeploymentAgrees, ManifestIsBound
  <2> QED
      BY <2>2 DEF ManifestIsBound
<1> QED
    BY <1>1, <1>2, <1>3 DEF DeploymentInvariant, DeploymentAgrees, SuccessAgrees

\* Where a run of the script stands.
Places == Name \union Seeding \union {"validate", "pinned", "bind", "assert"}

LEMMA RunsOn ==
  ASSUME DeploymentInvariant, script.at \in Places
  PROVE  /\ script \in Running /\ script.contracts \in Contracts
         /\ \A place \in Places : GoTo(place) =>
              script' \in Running /\ script'.at = place /\ script'.contracts = script.contracts
         /\ \A n \in Name, a \in Address : Take(n, a) =>
              script' \in Running /\ script'.at \in Name \union {"bind"}
<1>1. script \notin Saving /\ script \notin Off
    BY PlacesOfNames DEF Saving, Off, Places, Seeding
<1>2. script \in Running /\ script.contracts \in Contracts
    BY <1>1 DEF DeploymentInvariant, DeploymentTyped, Running
<1>3. ASSUME NEW place \in Places, GoTo(place)
      PROVE  script' \in Running /\ script'.at = place /\ script'.contracts = script.contracts
    BY <1>2, <1>3 DEF GoTo, Running, Places
<1>4. ASSUME NEW n \in Name, NEW a \in Address, Take(n, a)
      PROVE  script' \in Running /\ script'.at \in Name \union {"bind"}
  <2>1. [script.contracts EXCEPT ![n] = a] \in Contracts
      BY <1>2 DEF Contracts
  <2>2. Following(n) \in Name \union {"bind"}
      BY PlacesOfNames
  <2> QED
      BY <1>4, <2>1, <2>2 DEF Take, Running
<1> QED
    BY <1>2, <1>3, <1>4

LEMMA EndsOff ==
  ASSUME NEW how \in {"well", "badly"}, End(how)
  PROVE  script' \in Off /\ script'.at = "off" /\ script'.ended = how
<1> QED
    BY DEF End, Off

LEMMA StartDeploys == ASSUME DeploymentInvariant, NEW k \in Keeper, Start(k) PROVE DeploymentInvariant'
<1>1. script' \in Running /\ script'.at = "validate"
  <2>1. NoContracts \in Contracts
      BY DEF NoContracts, Contracts
  <2> QED
      BY <2>1 DEF Start, Running
<1>2. UNCHANGED <<onChain, evidence, addresses, manifest, partial>> /\ keeper' \in Operator
    BY DEF Start, chainSide, files, Operator
<1> QED
    BY <1>1, <1>2, ScriptMoves DEF DeploymentInvariant, DeploymentTyped, Seeding

LEMMA ValidateDeploys ==
  ASSUME DeploymentInvariant, NEW answered \in BOOLEAN, Validate(answered)
  PROVE  DeploymentInvariant'
<1>1. UNCHANGED <<onChain, evidence, addresses, manifest, partial, keeper>>
    BY DEF Validate, chainSide, files
<1>2. CASE GoTo("pinned")
  <2>1. script' \in Running /\ script'.at = "pinned"
      BY <1>2, RunsOn DEF Validate, Places
  <2> QED
      BY <1>1, <2>1, ScriptMoves DEF DeploymentInvariant, DeploymentTyped, Seeding
<1>3. CASE ~GoTo("pinned")
  <2>1. End("well") /\ Recorded /\ addresses /\ ManifestAgrees
      BY <1>3 DEF Validate
  <2>2. script' \in Off /\ script'.at = "off"
      BY <2>1, EndsOff
  <2>3. DeploymentTyped'
      BY <1>1, <2>2 DEF DeploymentInvariant, DeploymentTyped
  <2>4. SeedsWhatIsBound'
      BY <2>2 DEF SeedsWhatIsBound, Seeding
  <2>5. SuccessAgrees'
      BY <1>1, <2>1 DEF SuccessAgrees, Recorded, ManifestAgrees, Described
  <2>6. ManifestIsBound'
      BY <1>1 DEF DeploymentInvariant, DeploymentAgrees, ManifestIsBound, Described, BoundAs, HasCode
  <2> QED
      BY <2>3, <2>4, <2>5, <2>6 DEF DeploymentInvariant, DeploymentAgrees
<1> QED
    BY <1>2, <1>3

LEMMA PinnedDeploys == ASSUME DeploymentInvariant, ReusePinned PROVE DeploymentInvariant'
<1>1. UNCHANGED <<onChain, evidence, addresses, manifest, partial, keeper>>
    BY DEF ReusePinned, chainSide, files
<1>2. PICK pinned : pinned = [n \in Name |-> PinnedAt(n)]
    OBVIOUS
<1>3. \/ GoTo("aqua") \/ End("badly")
      \/ Asserted(pinned) /\ script' = [at |-> "evidence", contracts |-> pinned]
    BY <1>2 DEF ReusePinned
<1>4. CASE GoTo("aqua")
  <2>1. script' \in Running /\ script'.at = "aqua"
      BY <1>4, PlacesOfNames, RunsOn DEF ReusePinned, Places
  <2> QED
      BY <1>1, <2>1, ScriptMoves DEF DeploymentInvariant, DeploymentTyped, Seeding
<1>5. CASE End("badly")
  <2>1. script' \in Off /\ script'.at = "off" /\ script'.ended = "badly"
      BY <1>5, EndsOff
  <2> QED
      BY <1>1, <2>1, ScriptMoves DEF DeploymentInvariant, DeploymentTyped, Seeding
<1>6. CASE Asserted(pinned) /\ script' = [at |-> "evidence", contracts |-> pinned]
  <2>1. pinned \in Contracts
      BY <1>2, PlacesOfNames DEF Contracts
  <2>2. script' \in Running /\ script'.at = "evidence" /\ BoundAs(script'.contracts, keeper')
      BY <1>1, <1>6, <2>1 DEF Running, Seeding, Asserted
  <2> QED
      BY <1>1, <2>2, ScriptMoves DEF DeploymentInvariant, DeploymentTyped
<1> QED
    BY <1>3, <1>4, <1>5, <1>6

\* A new contract is put where there was none.
LEMMA CreateDeploys ==
  ASSUME DeploymentInvariant, NEW n \in Name, NEW behind \in BOOLEAN, ReuseOrCreate(n, behind)
  PROVE  DeploymentInvariant'
<1>1. UNCHANGED <<evidence, addresses, manifest, keeper>>
    BY DEF ReuseOrCreate
<1>2. script.at \in Places /\ onChain \in [Address -> Contract] /\ partial \in Contracts /\ keeper \in Operator
    BY DEF ReuseOrCreate, Places, DeploymentInvariant, DeploymentTyped
<1>3. CASE UNCHANGED onChain
  <2>1. \E a \in Address : Take(n, a)
    <3>1. CASE HasCode(partial[n]) /\ ~behind
      <4>1. Take(n, partial[n])
          BY <3>1 DEF ReuseOrCreate
      <4> QED
          BY <1>2, <3>1, <4>1 DEF HasCode, Contracts
    <3>2. CASE ~(HasCode(partial[n]) /\ ~behind) /\ Fits(n)
      <4>1. Take(n, PinnedAt(n))
          BY <3>2 DEF ReuseOrCreate
      <4> QED
          BY <4>1, PlacesOfNames
    <3>3. CASE ~(HasCode(partial[n]) /\ ~behind) /\ ~Fits(n)
      <4>1. PICK a \in Address : ~HasCode(a) /\ onChain' = [onChain EXCEPT ![a] = Code(n, script.contracts, keeper)]
          BY <3>3 DEF ReuseOrCreate
      <4>2. onChain'[a].name = n
          BY <1>2, <4>1 DEF Code
      <4> QED
          BY <1>3, <4>1, <4>2, PlacesOfNames DEF HasCode, Nowhere
    <3> QED
        BY <3>1, <3>2, <3>3
  <2>2. script' \in Running /\ script'.at \in Name \union {"bind"}
      BY <1>2, <2>1, RunsOn
  <2>3. partial' \in Contracts
    <3>1. partial' = partial \/ partial' = [partial EXCEPT ![n] = PinnedAt(n)]
             \/ \E a \in Address : ~HasCode(a) /\ onChain' = [onChain EXCEPT ![a] = Code(n, script.contracts, keeper)]
                                   /\ partial' = partial
        BY DEF ReuseOrCreate
    <3> QED
        BY <1>2, <3>1, PlacesOfNames DEF Contracts
  <2>4. script'.at \notin Seeding /\ script'.at # "off"
      BY <2>2, PlacesOfNames DEF Seeding
  <2> QED
      BY <1>1, <1>2, <1>3, <2>2, <2>3, <2>4, ChainMoves DEF Stays
<1>4. CASE onChain' # onChain
  <2>1. PICK a \in Address :
            /\ ~HasCode(a) /\ partial' = partial
            /\ onChain' = [onChain EXCEPT ![a] = Code(n, script.contracts, keeper)]
            /\ script' = [at |-> "save", name |-> n, new |-> a, contracts |-> script.contracts]
      BY <1>4 DEF ReuseOrCreate
  <2>2. script.contracts \in Contracts
      BY <1>2, RunsOn
  <2>3. script' \in Saving /\ script'.at = "save"
      BY <2>1, <2>2 DEF Saving
  <2>4. Code(n, script.contracts, keeper) \in Contract
      BY <1>2, <2>2, CodeIsAContract
  <2>5. onChain' \in [Address -> Contract]
      BY <1>2, <2>1, <2>4
  <2>6. \A b \in Address : HasCode(b) => onChain'[b] = onChain[b]
      BY <1>2, <2>1
  <2> QED
      BY <1>1, <1>2, <2>1, <2>3, <2>5, <2>6, ChainMoves DEF Stays, Seeding
<1> QED
    BY <1>3, <1>4

LEMMA SaveDeploys == ASSUME DeploymentInvariant, SavePartial PROVE DeploymentInvariant'
<1>1. UNCHANGED <<onChain, evidence, addresses, manifest, keeper>>
    BY DEF SavePartial, chainSide
<1>2. script \in Saving
    BY PlacesOfNames DEF SavePartial, DeploymentInvariant, DeploymentTyped, Running, Off, Seeding
<1>3. /\ script.name \in Name /\ script.new \in Address /\ script.contracts \in Contracts
      /\ partial \in Contracts /\ keeper \in Operator
    BY <1>2 DEF Saving, DeploymentInvariant, DeploymentTyped
<1>4. partial' \in Contracts
    BY <1>3 DEF SavePartial, Contracts
<1>5. script' \in Running /\ script'.at \in Name \union {"bind"}
  <2>1. [script.contracts EXCEPT ![script.name] = script.new] \in Contracts
      BY <1>3 DEF Contracts
  <2>2. Following(script.name) \in Name \union {"bind"}
      BY <1>3, PlacesOfNames
  <2> QED
      BY <2>1, <2>2 DEF SavePartial, Take, Running
<1>6. script'.at \notin Seeding /\ script'.at # "off"
    BY <1>5, PlacesOfNames DEF Seeding
<1> QED
    BY <1>1, <1>3, <1>4, <1>5, <1>6, ScriptMoves DEF Seeding

LEMMA BindDeploys == ASSUME DeploymentInvariant, Bind PROVE DeploymentInvariant'
<1>1. UNCHANGED <<evidence, addresses, manifest, keeper, partial>>
    BY DEF Bind, files
<1>2. script.contracts \in Contracts /\ script.at \in Places
    BY RunsOn DEF Bind, Places
<1>3. onChain \in [Address -> Contract] /\ partial \in Contracts
    BY DEF DeploymentInvariant, DeploymentTyped
<1>4. PICK controller, bounded :
          controller = script.contracts["intentController"] /\ bounded = script.contracts["boundedMatcher"]
    OBVIOUS
<1>5. controller \in Address \union {Nowhere} /\ bounded \in Address \union {Nowhere}
    BY <1>2, <1>4, PlacesOfNames DEF Contracts
<1>6. CASE Bindable(controller, bounded)
  <2>1. onChain' = [onChain EXCEPT ![controller].matcher = bounded] /\ GoTo("assert")
      BY <1>4, <1>6 DEF Bind
  <2>2. script' \in Running /\ script'.at = "assert"
      BY <1>2, <2>1, RunsOn DEF Places
  <2>3. \A a \in Address : onChain'[a] = IF a = controller THEN [onChain[a] EXCEPT !.matcher = bounded] ELSE onChain[a]
      BY <1>3, <2>1
  <2>4. \A c \in Contract : [c EXCEPT !.matcher = bounded] \in Contract
                            /\ (c.matcher \in {Nowhere, bounded} => Stays(c, [c EXCEPT !.matcher = bounded]))
      BY <1>5 DEF Contract, Stays
  <2>5. onChain' \in [Address -> Contract]
      BY <1>3, <2>1, <2>3, <2>4
  <2>6. \A a \in Address : Stays(onChain[a], onChain'[a])
    <3> TAKE a \in Address
    <3>1. CASE a = controller
        BY <1>3, <1>6, <2>3, <2>4, <3>1 DEF Bindable
    <3>2. CASE a # controller
        BY <2>3, <3>2 DEF Stays
    <3> QED
        BY <3>1, <3>2
  <2> QED
      BY <1>1, <1>3, <2>2, <2>5, <2>6, ChainMoves DEF Seeding
<1>7. CASE ~Bindable(controller, bounded)
  <2>1. UNCHANGED onChain /\ End("badly")
      BY <1>4, <1>7 DEF Bind
  <2>2. script' \in Off /\ script'.at = "off" /\ script'.ended = "badly"
      BY <2>1, EndsOff
  <2> QED
      BY <1>1, <1>3, <2>1, <2>2, ScriptMoves DEF DeploymentInvariant, DeploymentTyped, Seeding
<1> QED
    BY <1>6, <1>7

\* The contracts are asserted, then the seeding keeps to them.
LEMMA SeedingDeploys ==
  ASSUME DeploymentInvariant, AssertBindings \/ Fund \/ \E i \in Fixture : Ship(i)
  PROVE  DeploymentInvariant'
<1>1. UNCHANGED <<onChain, evidence, addresses, manifest, partial, keeper>>
    BY DEF AssertBindings, Fund, Ship, chainSide, files
<1>2. End("badly") \/ \E place \in {"fund", "ship1", "ship2", "evidence"} :
                          GoTo(place) /\ BoundAs(script.contracts, keeper)
    BY DEF AssertBindings, Fund, Ship, Asserted, DeploymentInvariant, SeedsWhatIsBound, Seeding, Fixture
<1>3. CASE End("badly")
  <2>1. script' \in Off /\ script'.at = "off" /\ script'.ended = "badly"
      BY <1>3, EndsOff
  <2> QED
      BY <1>1, <2>1, ScriptMoves DEF DeploymentInvariant, DeploymentTyped, Seeding
<1>4. ASSUME NEW place \in {"fund", "ship1", "ship2", "evidence"}, GoTo(place),
             BoundAs(script.contracts, keeper)
      PROVE  DeploymentInvariant'
  <2>1. script.at \in Places /\ place \in Places
      BY DEF AssertBindings, Fund, Ship, Places, Seeding, Fixture
  <2>2. script' \in Running /\ script'.at = place /\ script'.contracts = script.contracts
      BY <1>4, <2>1, RunsOn
  <2> QED
      BY <1>1, <1>4, <2>2, ScriptMoves DEF DeploymentInvariant, DeploymentTyped
<1> QED
    BY <1>2, <1>3, <1>4

LEMMA WritingDeploys ==
  ASSUME DeploymentInvariant, WriteEvidence \/ WriteAddresses \/ WriteManifest
  PROVE  DeploymentInvariant'
<1>1. UNCHANGED <<onChain, partial, keeper>>
    BY DEF WriteEvidence, WriteAddresses, WriteManifest, chainSide
<1>2. script.at \in {"evidence", "addresses", "manifest"}
    BY DEF WriteEvidence, WriteAddresses, WriteManifest
<1>3. /\ script.contracts \in Contracts /\ keeper \in Operator
      /\ BoundAs(script.contracts, keeper)
    BY <1>2, RunsOn DEF Places, Seeding, DeploymentInvariant, DeploymentTyped, SeedsWhatIsBound
<1>4. \A c, k : BoundAs(c, k)' <=> BoundAs(c, k)
    BY <1>1 DEF BoundAs, HasCode
<1>5. CASE WriteEvidence \/ WriteAddresses
  <2>1. PICK place \in {"addresses", "manifest"} : GoTo(place) /\ UNCHANGED manifest /\ evidence' = script.contracts
           /\ (place = "manifest" => addresses')
      BY <1>5 DEF WriteEvidence, WriteAddresses, DeploymentInvariant, SeedsWhatIsBound
  <2>2. script' \in Running /\ script'.at = place /\ script'.contracts = script.contracts
      BY <1>2, <2>1, RunsOn DEF Places, Seeding
  <2>3. DeploymentTyped'
      BY <1>1, <1>3, <2>1, <2>2 DEF DeploymentInvariant, DeploymentTyped
  <2>4. SeedsWhatIsBound'
      BY <1>1, <1>3, <1>4, <2>1, <2>2 DEF SeedsWhatIsBound, BoundAs, HasCode
  <2>5. DeploymentAgrees'
    <3>1. ManifestIsBound'
        BY <1>1, <2>1 DEF DeploymentInvariant, DeploymentAgrees, ManifestIsBound, Described, BoundAs, HasCode
    <3> QED
        BY <2>2, <3>1 DEF DeploymentAgrees, SuccessAgrees
  <2> QED
      BY <2>3, <2>4, <2>5 DEF DeploymentInvariant
<1>6. CASE WriteManifest
  <2>1. /\ manifest' = [contracts |-> script.contracts, keeper |-> keeper]
        /\ evidence' = script.contracts /\ addresses' /\ End("well")
      BY <1>6 DEF WriteManifest, DeploymentInvariant, SeedsWhatIsBound
  <2>2. script' \in Off /\ script'.at = "off"
      BY <2>1, EndsOff
  <2>3. DeploymentTyped'
      BY <1>1, <1>3, <2>1, <2>2 DEF DeploymentInvariant, DeploymentTyped
  <2>4. script.contracts # NoContracts
      BY <1>3, PlacesOfNames DEF BoundAs, HasCode, NoContracts
  <2>5. BoundAs(manifest'.contracts, manifest'.keeper)
      BY <1>3, <2>1
  <2>6. ManifestIsBound'
      BY <1>1, <2>5 DEF ManifestIsBound, BoundAs, HasCode
  <2>7. SuccessAgrees'
      BY <2>1, <2>4 DEF SuccessAgrees, Recorded
  <2>8. SeedsWhatIsBound'
      BY <2>2 DEF SeedsWhatIsBound, Seeding
  <2> QED
      BY <2>3, <2>6, <2>7, <2>8 DEF DeploymentInvariant, DeploymentAgrees
<1> QED
    BY <1>5, <1>6

LEMMA CutDeploys == ASSUME DeploymentInvariant, Cut PROVE DeploymentInvariant'
<1>1. UNCHANGED <<onChain, evidence, addresses, manifest, partial, keeper>> /\ End("badly")
    BY DEF Cut, chainSide, files
<1>2. script' \in Off /\ script'.at = "off" /\ script'.ended = "badly"
    BY <1>1, EndsOff
<1> QED
    BY <1>1, <1>2, ScriptMoves DEF DeploymentInvariant, DeploymentTyped, Seeding

\* Whatever cuts runs of the script off, and whichever keepers and pinned contracts
\* they are given: the manifest that the services start from names contracts that
\* were made for each other and for its keeper, and a run that ends well leaves three
\* files of one deployment (validateExisting, reusePinned, assertBindings).
THEOREM FilesDescribeOneDeployment == DeploymentSpec => []DeploymentAgrees
<1>1. DeploymentInit => DeploymentInvariant
    BY DeploymentInitially
<1>2. DeploymentInvariant /\ [DeploymentNext]_deploymentVars => DeploymentInvariant'
  <2> SUFFICES ASSUME DeploymentInvariant, [DeploymentNext]_deploymentVars PROVE DeploymentInvariant'
      OBVIOUS
  <2>1. CASE UNCHANGED deploymentVars
    <3>1. UNCHANGED <<onChain, evidence, addresses, manifest, partial, keeper, script>>
        BY <2>1 DEF deploymentVars, chainSide, files
    <3> QED
        BY <3>1 DEF DeploymentInvariant, DeploymentTyped, SeedsWhatIsBound, DeploymentAgrees,
           ManifestIsBound, SuccessAgrees, Described, Recorded, BoundAs, HasCode
  <2> QED
      BY <2>1, StartDeploys, ValidateDeploys, PinnedDeploys, CreateDeploys, SaveDeploys, BindDeploys,
         SeedingDeploys, WritingDeploys, CutDeploys DEF DeploymentNext, Deploy
<1>3. DeploymentInvariant => DeploymentAgrees
    BY DEF DeploymentInvariant
<1> QED
    BY <1>1, <1>2, <1>3, PTL DEF DeploymentSpec
-----------------------------------------------------------------------------
(* The programs of limit orders: where their instructions are.              *)

Adds(f, is, n) == f[0] = 0 /\ \A k \in 1..n : f[k] = f[k - 1] + Size(is[k])

LEMMA EndsExist ==
  ASSUME NEW is, NEW n \in Nat
  PROVE  \E f : f = [k \in 0..n |-> IF k = 0 THEN 0 ELSE f[k - 1] + Size(is[k])]
<1> DEFINE Given(m) == \E f : Adds(f, is, m)
           lacking == {m \in Nat : ~Given(m)}
<1>1. ASSUME lacking # {} PROVE FALSE
  <2>1. PICK m \in lacking : \A l \in lacking : <<l, m>> \notin OpToRel(<, Nat)
    <3>1. lacking \in SUBSET Nat
        OBVIOUS
    <3> HIDE DEF lacking
    <3> QED
        BY <1>1, <3>1, NatLessThanWellFounded, WFMin
  <2>2. m \in Nat /\ ~Given(m)
      OBVIOUS
  <2>3. m # 0
    <3>1. PICK f : f = [k \in {0} |-> 0]
        OBVIOUS
    <3>2. Adds(f, is, 0)
        BY <3>1 DEF Adds
    <3> QED
        BY <2>2, <3>2
  <2>4. PICK f : Adds(f, is, m - 1)
    <3>1. m - 1 \in Nat /\ m - 1 < m
        BY <2>2, <2>3
    <3>2. m - 1 \notin lacking
      <4> HIDE DEF lacking
      <4> QED
          BY <2>1, <2>2, <3>1 DEF OpToRel
    <3> QED
        BY <3>1, <3>2
  <2>5. PICK g : g = [k \in 0..m |-> IF k = m THEN f[m - 1] + Size(is[m]) ELSE f[k]]
      OBVIOUS
  <2>6. Adds(g, is, m)
      BY <2>2, <2>3, <2>4, <2>5 DEF Adds
  <2> QED
      BY <2>2, <2>6
<1>2. PICK f : Adds(f, is, n)
    BY <1>1
<1>3. PICK g : g = [k \in 0..n |-> f[k]]
    OBVIOUS
<1>4. \A k \in 0..n : g[k] = IF k = 0 THEN 0 ELSE g[k - 1] + Size(is[k])
  <2> TAKE k \in 0..n
  <2>1. CASE k = 0
      BY <1>2, <1>3, <2>1 DEF Adds
  <2>2. CASE k # 0
    <3>1. k \in 1..n /\ k - 1 \in 0..n
        BY <2>2
    <3> QED
        BY <1>2, <1>3, <2>2, <3>1 DEF Adds
  <2> QED
      BY <2>1, <2>2
<1> QED
    BY <1>3, <1>4

LEMMA EndsAddUp ==
  ASSUME NEW is, NEW n \in Nat, Len(is) = n
  PROVE  Adds(Ends(is), is, n)
<1> DEFINE Sums(f) == f = [k \in 0..n |-> IF k = 0 THEN 0 ELSE f[k - 1] + Size(is[k])]
<1>1. \E f : Sums(f)
    BY EndsExist
<1>2. Ends(is) = CHOOSE f : Sums(f)
    BY DEF Ends
<1>3. Sums(Ends(is))
  <2> HIDE DEF Sums
  <2> QED
      BY <1>1, <1>2
<1>4. PICK f : f = Ends(is)
    OBVIOUS
<1>5. f = [k \in 0..n |-> IF k = 0 THEN 0 ELSE f[k - 1] + Size(is[k])]
    BY <1>3, <1>4
<1>6. 0 \in 0..n /\ \A k \in 1..n : k \in 0..n /\ k # 0
    OBVIOUS
<1> QED
    BY <1>4, <1>5, <1>6 DEF Adds

LEMMA Opcodes ==
  /\ LIMIT_OPCODES["jump"] = 10 /\ LIMIT_OPCODES["deadline"] = 13
  /\ LIMIT_OPCODES["staticBalances"] = 17 /\ LIMIT_OPCODES["invalidateBit"] = 18
  /\ LIMIT_OPCODES["invalidateTokenOut"] = 20 /\ LIMIT_OPCODES["limitSwap"] = 21
  /\ LIMIT_OPCODES["limitSwapOnlyFull"] = 22 /\ LIMIT_OPCODES["salt"] = 30
<1> QED
    BY DEF LIMIT_OPCODES

\* The instructions that an order is built of, and where they begin and end.
Instructions(sold, bought, expiry, fullFill) ==
    <<Instruction("deadline", 5, expiry), Instruction("salt", 32, "salt"), Instruction("jump", 2, 153),
      Instruction("staticBalances", 106, [in |-> bought, out |-> sold]),
      IF fullFill THEN Instruction("invalidateBit", 4, "nonce")
                  ELSE Instruction("invalidateTokenOut", 0, ""),
      Instruction(IF fullFill THEN "limitSwapOnlyFull" ELSE "limitSwap", 1, "direction")>>
Close(fullFill) == IF fullFill THEN 159 ELSE 155

LEMMA SkipsBalances ==
  ASSUME NEW deadline, NEW salt, NEW balances, Size(deadline) = 7, Size(salt) = 34, Size(balances) = 108
  PROVE  SkipTo(deadline, salt, balances) = 153
<1>1. PICK is : is = <<deadline, salt>>
    OBVIOUS
<1>2. Len(is) = 2 /\ is[1] = deadline /\ is[2] = salt
    BY <1>1
<1>3. Ends(is)[0] = 0 /\ \A k \in 1..2 : Ends(is)[k] = Ends(is)[k - 1] + Size(is[k])
  <2>1. PICK n \in Nat : n = 2
      OBVIOUS
  <2>2. Adds(Ends(is), is, n)
      BY <1>2, <2>1, EndsAddUp
  <2> QED
      BY <2>1, <2>2 DEF Adds
<1>4. Ends(is)[1] = 7 /\ Ends(is)[2] = 41
    BY <1>2, <1>3
<1>5. SizeOf(is) = 41
    BY <1>2, <1>4 DEF SizeOf
<1> QED
    BY <1>1, <1>5 DEF SkipTo

\* One instruction after the other.
Listed(is, sold, bought, expiry, fullFill) ==
    /\ Len(is) = 6 /\ DOMAIN is = 1..6
    /\ is[1] = Instruction("deadline", 5, expiry) /\ is[2] = Instruction("salt", 32, "salt")
    /\ is[3] = Instruction("jump", 2, 153)
    /\ is[4] = Instruction("staticBalances", 106, [in |-> bought, out |-> sold])
    /\ fullFill => /\ is[5] = Instruction("invalidateBit", 4, "nonce")
                   /\ is[6] = Instruction("limitSwapOnlyFull", 1, "direction")
    /\ ~fullFill => /\ is[5] = Instruction("invalidateTokenOut", 0, "")
                    /\ is[6] = Instruction("limitSwap", 1, "direction")

LEMMA InstructionsListed ==
  ASSUME NEW sold, NEW bought, NEW expiry, NEW fullFill \in BOOLEAN
  PROVE  Listed(Instructions(sold, bought, expiry, fullFill), sold, bought, expiry, fullFill)
<1>0. PICK is : is = Instructions(sold, bought, expiry, fullFill)
    OBVIOUS
<1>1. PICK a, b, c, d, e, f :
        /\ a = Instruction("deadline", 5, expiry) /\ b = Instruction("salt", 32, "salt")
        /\ c = Instruction("jump", 2, 153)
        /\ d = Instruction("staticBalances", 106, [in |-> bought, out |-> sold])
        /\ e = (IF fullFill THEN Instruction("invalidateBit", 4, "nonce")
                            ELSE Instruction("invalidateTokenOut", 0, ""))
        /\ f = Instruction(IF fullFill THEN "limitSwapOnlyFull" ELSE "limitSwap", 1, "direction")
    OBVIOUS
<1>2. is = <<a, b, c, d, e, f>>
    BY <1>0, <1>1, Zenon DEF Instructions
<1>3. /\ Len(is) = 6 /\ DOMAIN is = 1..6
      /\ is[1] = a /\ is[2] = b /\ is[3] = c /\ is[4] = d /\ is[5] = e /\ is[6] = f
    BY <1>2
<1>4. /\ fullFill => e = Instruction("invalidateBit", 4, "nonce")
      /\ ~fullFill => e = Instruction("invalidateTokenOut", 0, "")
    BY <1>1, Zenon
<1>5. /\ fullFill => f = Instruction("limitSwapOnlyFull", 1, "direction")
      /\ ~fullFill => f = Instruction("limitSwap", 1, "direction")
  <2>1. ASSUME fullFill PROVE f = Instruction("limitSwapOnlyFull", 1, "direction")
      BY <1>1, <2>1, Zenon
  <2>2. ASSUME ~fullFill PROVE f = Instruction("limitSwap", 1, "direction")
      BY <1>1, <2>2, Zenon
  <2> QED
      BY <2>1, <2>2
<1> QED
    BY <1>0, <1>1, <1>3, <1>4, <1>5, Zenon DEF Listed

LEMMA SizesKnown ==
  ASSUME NEW sold, NEW bought, NEW expiry, NEW fullFill \in BOOLEAN,
         NEW is, is = Instructions(sold, bought, expiry, fullFill)
  PROVE  /\ Len(is) = 6 /\ DOMAIN is = 1..6
         /\ Size(is[1]) = 7 /\ Size(is[2]) = 34 /\ Size(is[3]) = 4 /\ Size(is[4]) = 108
         /\ Size(is[5]) = (IF fullFill THEN 6 ELSE 2) /\ Size(is[6]) = 3
<1>1. \A i, name, length, argument : i = Instruction(name, length, argument) => Size(i) = 2 + length
    BY DEF Size, Instruction
<1>2. Listed(is, sold, bought, expiry, fullFill)
    BY InstructionsListed
<1>3. Size(is[1]) = 2 + 5 /\ Size(is[2]) = 2 + 32 /\ Size(is[3]) = 2 + 2 /\ Size(is[4]) = 2 + 106
  <2>1. is[1] = Instruction("deadline", 5, expiry) /\ is[2] = Instruction("salt", 32, "salt")
      BY <1>2, Zenon DEF Listed
  <2>2. /\ is[3] = Instruction("jump", 2, 153)
        /\ is[4] = Instruction("staticBalances", 106, [in |-> bought, out |-> sold])
      BY <1>2, Zenon DEF Listed
  <2> QED
      BY <1>1, <2>1, <2>2
<1>4. Size(is[6]) = 2 + 1 /\ (fullFill => Size(is[5]) = 2 + 4) /\ (~fullFill => Size(is[5]) = 2 + 0)
  <2>1. CASE fullFill
    <3>1. /\ is[5] = Instruction("invalidateBit", 4, "nonce")
          /\ is[6] = Instruction("limitSwapOnlyFull", 1, "direction")
        BY <1>2, <2>1, Zenon DEF Listed
    <3>2. Size(is[5]) = 2 + 4 /\ Size(is[6]) = 2 + 1
        BY <1>1, <3>1
    <3> QED
        BY <2>1, <3>2, Zenon
  <2>2. CASE ~fullFill
    <3>1. \E e : /\ is[5] = Instruction("invalidateTokenOut", 0, e)
                 /\ is[6] = Instruction("limitSwap", 1, "direction")
        BY <1>2, <2>2, Zenon DEF Listed
    <3>2. Size(is[5]) = 2 + 0 /\ Size(is[6]) = 2 + 1
        BY <1>1, <3>1
    <3> QED
        BY <2>2, <3>2, Zenon
  <2> QED
      BY <2>1, <2>2
<1>5. Len(is) = 6 /\ DOMAIN is = 1..6
    BY <1>2, Zenon DEF Listed
<1> QED
    BY <1>3, <1>4, <1>5

LEMMA ProgramLaidOut ==
  ASSUME NEW sold, NEW bought, NEW expiry, NEW fullFill \in BOOLEAN,
         NEW program, program = BuildLimitProgram(sold, bought, expiry, fullFill),
         NEW is, is = Instructions(sold, bought, expiry, fullFill)
  PROVE  /\ program.length = Close(fullFill) + 3
         /\ DOMAIN program.code = {0, 7, 41, 45, 153, Close(fullFill)}
         /\ program.code[0] = is[1] /\ program.code[7] = is[2] /\ program.code[41] = is[3]
         /\ program.code[45] = is[4] /\ program.code[153] = is[5]
         /\ program.code[Close(fullFill)] = is[6]
<1>1. /\ Len(is) = 6 /\ DOMAIN is = 1..6
      /\ Size(is[1]) = 7 /\ Size(is[2]) = 34 /\ Size(is[3]) = 4 /\ Size(is[4]) = 108
      /\ Size(is[5]) = (IF fullFill THEN 6 ELSE 2) /\ Size(is[6]) = 3
    BY SizesKnown
<1>2. program = Layout(is)
  <2>1. \A name, length, argument : Size(Instruction(name, length, argument)) = 2 + length
      BY DEF Size, Instruction
  <2>2. SkipTo(Instruction("deadline", 5, expiry), Instruction("salt", 32, "salt"),
               Instruction("staticBalances", 106, [in |-> bought, out |-> sold])) = 153
      BY <2>1, SkipsBalances
  <2> QED
      BY <2>2, Zenon DEF BuildLimitProgram, Instructions
<1>3. PICK end : end = Ends(is)
    OBVIOUS
<1>4. end[0] = 0 /\ \A k \in 1..6 : end[k] = end[k - 1] + Size(is[k])
  <2>1. PICK n \in Nat : n = 6
      OBVIOUS
  <2>2. Adds(Ends(is), is, n)
      BY <1>1, <2>1, EndsAddUp
  <2> QED
      BY <1>3, <2>1, <2>2 DEF Adds
<1>5. /\ end[0] = 0 /\ end[1] = 7 /\ end[2] = 41 /\ end[3] = 45 /\ end[4] = 153
      /\ end[5] = Close(fullFill) /\ end[6] = Close(fullFill) + 3
  <2>1. end[1] = 7 /\ end[2] = 41 /\ end[3] = 45 /\ end[4] = 153
      BY <1>1, <1>4
  <2>2. end[5] = Close(fullFill) /\ end[6] = Close(fullFill) + 3
      BY <1>1, <1>4, <2>1 DEF Close
  <2> QED
      BY <1>4, <2>1, <2>2
<1>6. /\ program.length = end[6]
      /\ program.code = [at \in {end[k - 1] : k \in 1..6} |-> is[CHOOSE k \in 1..6 : end[k - 1] = at]]
    BY <1>1, <1>2, <1>3 DEF Layout, SizeOf
<1>7. Close(fullFill) \in {155, 159}
    BY DEF Close
<1>8. {end[k - 1] : k \in 1..6} = {0, 7, 41, 45, 153, Close(fullFill)}
  <2>1. 1..6 = {1, 2, 3, 4, 5, 6}
      OBVIOUS
  <2> QED
      BY <1>5, <2>1
<1>9. \A j \in 1..6 : (CHOOSE k \in 1..6 : end[k - 1] = end[j - 1]) = j
  <2> TAKE j \in 1..6
  <2>1. PICK k : k = CHOOSE i \in 1..6 : end[i - 1] = end[j - 1]
      OBVIOUS
  <2>2. k \in 1..6 /\ end[k - 1] = end[j - 1]
      BY <2>1
  <2>3. k = j
      BY <1>5, <1>7, <2>2
  <2> QED
      BY <2>1, <2>3
<1>10. \A j \in 1..6 : program.code[end[j - 1]] = is[j]
    BY <1>6, <1>9
<1>11. /\ program.code[end[0]] = is[1] /\ program.code[end[1]] = is[2] /\ program.code[end[2]] = is[3]
       /\ program.code[end[3]] = is[4] /\ program.code[end[4]] = is[5] /\ program.code[end[5]] = is[6]
  <2>1. 1 - 1 = 0 /\ 2 - 1 = 1 /\ 3 - 1 = 2 /\ 4 - 1 = 3 /\ 5 - 1 = 4 /\ 6 - 1 = 5
      OBVIOUS
  <2>2. 1 \in 1..6 /\ 2 \in 1..6 /\ 3 \in 1..6 /\ 4 \in 1..6 /\ 5 \in 1..6 /\ 6 \in 1..6
      OBVIOUS
  <2> QED
      BY <1>10, <2>1, <2>2, Zenon
<1>12. program.length = Close(fullFill) + 3 /\ DOMAIN program.code = {0, 7, 41, 45, 153, Close(fullFill)}
    BY <1>5, <1>6, <1>8, Zenon
<1> QED
    BY <1>5, <1>11, <1>12, Zenon

\* What the instructions are by their opcodes.
Coded(is, sold, bought, fullFill) ==
    /\ is[1].opcode = 13 /\ is[2].opcode = 30 /\ is[3].opcode = 10 /\ is[4].opcode = 17
    /\ is[3].argument = 153 /\ is[4].length = 106 /\ is[4].argument = [in |-> bought, out |-> sold]
    /\ fullFill => is[5].opcode = 18 /\ is[6].opcode = 22
    /\ ~fullFill => is[5].opcode = 20 /\ is[6].opcode = 21

LEMMA OpcodesOfProgram ==
  ASSUME NEW sold, NEW bought, NEW expiry, NEW fullFill \in BOOLEAN,
         NEW is, is = Instructions(sold, bought, expiry, fullFill)
  PROVE  Coded(is, sold, bought, fullFill)
<1>1. \A i, name, length, argument : i = Instruction(name, length, argument) =>
        i.opcode = LIMIT_OPCODES[name] /\ i.argument = argument /\ i.length = length
    BY DEF Instruction
<1>2. Listed(is, sold, bought, expiry, fullFill)
    BY InstructionsListed
<1>3. is[1] = Instruction("deadline", 5, expiry) /\ is[2] = Instruction("salt", 32, "salt")
    BY <1>2, Zenon DEF Listed
<1>4. is[3] = Instruction("jump", 2, 153)
    BY <1>2, Zenon DEF Listed
<1>5. PICK amounts : amounts = [in |-> bought, out |-> sold]
    OBVIOUS
<1>6. is[4] = Instruction("staticBalances", 106, amounts)
    BY <1>2, <1>5, Zenon DEF Listed
<1>7. /\ is[1].opcode = LIMIT_OPCODES["deadline"] /\ is[2].opcode = LIMIT_OPCODES["salt"]
      /\ is[3].opcode = LIMIT_OPCODES["jump"] /\ is[3].argument = 153
      /\ is[4].opcode = LIMIT_OPCODES["staticBalances"] /\ is[4].length = 106 /\ is[4].argument = amounts
    BY <1>1, <1>3, <1>4, <1>6
<1>8. ASSUME fullFill PROVE is[5].opcode = 18 /\ is[6].opcode = 22
  <2>1. /\ is[5] = Instruction("invalidateBit", 4, "nonce")
        /\ is[6] = Instruction("limitSwapOnlyFull", 1, "direction")
      BY <1>2, <1>8, Zenon DEF Listed
  <2> QED
      BY <1>1, <2>1, Opcodes
<1>9. ASSUME ~fullFill PROVE is[5].opcode = 20 /\ is[6].opcode = 21
  <2>1. \E e : /\ is[5] = Instruction("invalidateTokenOut", 0, e)
               /\ is[6] = Instruction("limitSwap", 1, "direction")
      BY <1>2, <1>9, Zenon DEF Listed
  <2> QED
      BY <1>1, <2>1, Opcodes
<1>10. /\ is[1].opcode = 13 /\ is[2].opcode = 30 /\ is[3].opcode = 10 /\ is[4].opcode = 17
    BY <1>7, Opcodes
<1> QED
    BY <1>5, <1>7, <1>8, <1>9, <1>10, Zenon DEF Coded

\* The deadline that the router checks is the one that was asked for.
LEMMA DeadlineOfProgram ==
  ASSUME NEW sold, NEW bought, NEW expiry, NEW fullFill \in BOOLEAN
  PROVE  (CHOOSE i \in Range(BuildLimitProgram(sold, bought, expiry, fullFill).code) :
             i.opcode = LIMIT_OPCODES.deadline).argument = expiry
<1>1. PICK program, is : /\ program = BuildLimitProgram(sold, bought, expiry, fullFill)
                         /\ is = Instructions(sold, bought, expiry, fullFill)
    OBVIOUS
<1>2. /\ DOMAIN program.code = {0, 7, 41, 45, 153, Close(fullFill)}
      /\ program.code[0] = is[1] /\ program.code[7] = is[2] /\ program.code[41] = is[3]
      /\ program.code[45] = is[4] /\ program.code[153] = is[5]
      /\ program.code[Close(fullFill)] = is[6]
    BY <1>1, ProgramLaidOut
<1>3. Range(program.code) = {is[1], is[2], is[3], is[4], is[5], is[6]}
    BY <1>2 DEF Range
<1>4. /\ is[1].opcode = 13 /\ is[1].argument = expiry
      /\ is[2].opcode # 13 /\ is[3].opcode # 13 /\ is[4].opcode # 13 /\ is[5].opcode # 13 /\ is[6].opcode # 13
  <2>1. Coded(is, sold, bought, fullFill)
      BY <1>1, OpcodesOfProgram
  <2>2. Listed(is, sold, bought, expiry, fullFill)
      BY <1>1, InstructionsListed
  <2>3. is[1] = Instruction("deadline", 5, expiry)
      BY <2>2, Zenon DEF Listed
  <2>4. is[1].argument = expiry
      BY <2>3 DEF Instruction
  <2>5. /\ is[1].opcode = 13 /\ is[2].opcode = 30 /\ is[3].opcode = 10 /\ is[4].opcode = 17
        /\ is[5].opcode \in {18, 20} /\ is[6].opcode \in {21, 22}
      BY <2>1 DEF Coded
  <2> QED
      BY <2>4, <2>5
<1>5. \A i \in Range(program.code) : i.opcode = 13 <=> i = is[1]
    BY <1>3, <1>4
<1>6. PICK i : i = CHOOSE j \in Range(program.code) : j.opcode = 13
    OBVIOUS
<1>7. i = is[1]
    BY <1>3, <1>5, <1>6
<1>8. LIMIT_OPCODES.deadline = 13
    BY Opcodes
<1>9. i.argument = expiry
    BY <1>4, <1>7
<1>10. (CHOOSE j \in Range(program.code) : j.opcode = LIMIT_OPCODES.deadline).argument = expiry
    BY <1>6, <1>8, <1>9, Zenon
<1> QED
    BY <1>1, <1>10, Zenon

-----------------------------------------------------------------------------
(* Swaps: whole amounts of products and quotients.                          *)

LEMMA Quotient ==
  ASSUME NEW n \in Nat, NEW d \in Nat \ {0}
  PROVE  n \div d \in Nat /\ d * (n \div d) <= n /\ n < d * (n \div d) + d
<1>1. d \in Int /\ d > 0
    OBVIOUS
<1>2. n \div d \in Int /\ d * (n \div d) <= n /\ n < d * (n \div d) + d
    BY <1>1
<1>3. n \div d >= 0
    BY <1>1, <1>2
<1> QED
    BY <1>2, <1>3

LEMMA Products ==
  ASSUME NEW a \in Nat, NEW b \in Nat, NEW d \in Nat
  PROVE  /\ a * d \in Nat /\ (a >= b => a * d >= b * d)
         /\ d * a = a * d /\ (a > 0 /\ d > 0 => a * d > 0)
<1>1. a * d \in Nat /\ d * a = a * d
    OBVIOUS
<1>2. a > 0 /\ d > 0 => a * d > 0
    OBVIOUS
<1>3. ASSUME a >= b PROVE a * d >= b * d
  <2>1. PICK c \in Nat : a = b + c
      BY <1>3
  <2>2. a * d = b * d + c * d
      BY <2>1
  <2>3. c * d >= 0
      OBVIOUS
  <2> QED
      BY <2>2, <2>3
<1> QED
    BY <1>1, <1>2, <1>3

\* What an amount was bounded by before it was divided by FullBps.
LEMMA LeastOut ==
  ASSUME NEW quoted \in Amounts, NEW bps \in 0..FullBps, NEW out \in Nat,
         out >= Threshold(TRUE, quoted, bps)
  PROVE  out * FullBps > quoted.out * (FullBps - bps) - FullBps
<1>1. PICK d \in Nat \ {0} : d = FullBps
    BY ProtocolAssumption
<1>2. PICK n \in Nat : n = quoted.out * (FullBps - bps)
  <2>1. quoted.out \in Nat /\ FullBps - bps \in Nat
      BY <1>1 DEF Amounts
  <2> QED
      BY <2>1, Products
<1>3. PICK t : t = n \div d
    OBVIOUS
<1>4. t \in Nat /\ d * t <= n /\ n < d * t + d
    BY <1>3, Quotient
<1>5. out >= t
    BY <1>1, <1>2, <1>3 DEF Threshold
<1>6. out * d >= t * d /\ t * d = d * t /\ out * d \in Nat /\ t * d \in Nat
    BY <1>4, <1>5, Products
<1>7. out * d > n - d
    BY <1>4, <1>6
<1> QED
    BY <1>1, <1>2, <1>7

LEMMA MostIn ==
  ASSUME NEW quoted \in Amounts, NEW bps \in 0..FullBps, quoted.in > 0
  PROVE  /\ Threshold(FALSE, quoted, bps) \in Nat \ {0}
         /\ \A in \in Nat : in <= Threshold(FALSE, quoted, bps) =>
               in * FullBps < quoted.in * (FullBps + bps) + FullBps
<1>1. PICK d \in Nat \ {0} : d = FullBps
    BY ProtocolAssumption
<1>2. PICK p \in Nat : p = quoted.in * (FullBps + bps) /\ p > 0
  <2>1. quoted.in \in Nat /\ FullBps + bps \in Nat /\ FullBps + bps > 0
      BY <1>1 DEF Amounts
  <2> QED
      BY <2>1, Products
<1>3. PICK n \in Nat : n = p + d - 1
    OBVIOUS
<1>4. PICK t : t = n \div d
    OBVIOUS
<1>5. t \in Nat /\ d * t <= n /\ n < d * t + d
    BY <1>4, Quotient
<1>6. t # 0
  <2>1. ASSUME t = 0 PROVE FALSE
    <3>1. d * t = 0
        BY <2>1
    <3> QED
        BY <1>2, <1>3, <1>5, <3>1
  <2> QED
      BY <2>1
<1>7. Threshold(FALSE, quoted, bps) = t
    BY <1>1, <1>2, <1>3, <1>4 DEF Threshold
<1>8. \A in \in Nat : in <= t => in * d < p + d
  <2> SUFFICES ASSUME NEW in \in Nat, in <= t PROVE in * d < p + d
      OBVIOUS
  <2>1. t * d >= in * d /\ t * d = d * t /\ in * d \in Nat /\ t * d \in Nat
      BY <1>5, Products
  <2> QED
      BY <1>3, <1>5, <2>1
<1> QED
    BY <1>1, <1>2, <1>5, <1>6, <1>7, <1>8

\* The router's amounts: one is what was asked for, the other a whole amount.
LEMMA RouterAmounts ==
  ASSUME NEW exactIn \in BOOLEAN, NEW requested \in Nat, rate \in [in : Nat \ {0}, out : Nat \ {0}]
  PROVE  /\ AmountsFor(exactIn, requested) \in Amounts
         /\ exactIn => AmountsFor(exactIn, requested).in = requested
         /\ ~exactIn => AmountsFor(exactIn, requested).out = requested
<1>1. PICK i \in Nat \ {0}, o \in Nat \ {0} : i = rate.in /\ o = rate.out
    OBVIOUS
<1>2. requested * o \in Nat /\ requested * i \in Nat
    BY Products
<1>3. (requested * o) \div i \in Nat
    BY <1>2, Quotient
<1>4. requested * i + o - 1 \in Nat
    BY <1>2
<1>5. (requested * i + o - 1) \div o \in Nat
    BY <1>4, Quotient
<1>6. CASE exactIn
  <2>1. AmountsFor(exactIn, requested) = [in |-> requested, out |-> (requested * o) \div i]
      BY <1>1, <1>6, Zenon DEF AmountsFor
  <2>2. /\ AmountsFor(exactIn, requested) \in Amounts
        /\ AmountsFor(exactIn, requested).in = requested
      BY <1>3, <2>1 DEF Amounts
  <2> QED
      BY <1>6, <2>2, Zenon
<1>7. CASE ~exactIn
  <2>1. AmountsFor(exactIn, requested) = [in |-> (requested * i + o - 1) \div o, out |-> requested]
      BY <1>1, <1>7, Zenon DEF AmountsFor, DivUp
  <2>2. /\ AmountsFor(exactIn, requested) \in Amounts
        /\ AmountsFor(exactIn, requested).out = requested
      BY <1>5, <2>1 DEF Amounts
  <2> QED
      BY <1>7, <2>2, Zenon
<1> QED
    BY <1>6, <1>7

\* An order ends when it was asked to, or after a short life if it is to be filled at once.
LifeKept ==
    order # NoOrder =>
      /\ order.lifetime \in Nat /\ order.preparedAt \in Nat
      /\ order.lifetime # 0 => Deadline = order.preparedAt + order.lifetime
      /\ order.lifetime = 0 /\ order.timeInForce \in {"IOC", "FOK"} =>
           Deadline = order.preparedAt + ShortLife

\* What the wallet is given to sign says what was quoted, less the slippage.
Bounded(p) ==
    /\ p \in Plans /\ p.quoted.in > 0
    /\ p.traits.exactIn = p.exactIn /\ p.traits.deadline = p.until
    /\ p.exactIn =>
         /\ p.required = p.requested /\ p.minimum = Threshold(TRUE, p.quoted, p.bps)
         /\ p.minimum > 0 => p.minimum \in p.traits.threshold
    /\ ~p.exactIn =>
         /\ p.minimum = p.requested /\ p.required = Threshold(FALSE, p.quoted, p.bps)
         /\ p.required \in p.traits.threshold
PlanBounded == plan # NoPlan => order # NoOrder /\ Bounded(plan)

ProtocolTyped ==
    /\ clock \in Nat /\ wallet \in [tokens : Nat, allowance : Nat]
    /\ rate \in [in : Nat \ {0}, out : Nat \ {0}]
    /\ filled # NoPlan => plan # NoPlan

ProtocolInvariant == ProtocolTyped /\ LifeKept /\ PlanBounded /\ FilledAsAsked

LEMMA ProtocolInitially == ProtocolInit => ProtocolInvariant
<1> SUFFICES ASSUME ProtocolInit PROVE ProtocolInvariant
    OBVIOUS
<1>1. clock = 1 /\ order = NoOrder /\ rate = [in |-> 1, out |-> 1] /\ plan = NoPlan /\ filled = NoPlan
    BY DEF ProtocolInit
<1>2. wallet \in [tokens : Nat, allowance : Nat]
    BY ProtocolAssumption DEF ProtocolInit
<1> QED
    BY <1>1, <1>2 DEF ProtocolInvariant, ProtocolTyped, LifeKept, PlanBounded, FilledAsAsked

LEMMA ThresholdsAreWhole ==
  ASSUME NEW exactIn \in BOOLEAN, NEW bps \in 0..FullBps, NEW quoted \in Amounts, quoted.in > 0,
         NEW threshold, threshold = Threshold(exactIn, quoted, bps)
  PROVE  threshold \in Nat /\ (~exactIn => threshold > 0)
<1>1. CASE exactIn
  <2>1. PICK d \in Nat \ {0} : d = FullBps
      BY ProtocolAssumption
  <2>2. quoted.out \in Nat /\ FullBps - bps \in Nat
      BY <2>1 DEF Amounts
  <2>3. (quoted.out * (FullBps - bps)) \in Nat
      BY <2>2, Products
  <2>4. (quoted.out * (FullBps - bps)) \div d \in Nat
      BY <2>3, Quotient
  <2> QED
      BY <1>1, <2>1, <2>4 DEF Threshold
<1>2. CASE ~exactIn
  <2>1. threshold = Threshold(FALSE, quoted, bps)
      BY <1>2, Zenon DEF Threshold
  <2>2. threshold \in Nat \ {0}
      BY <2>1, MostIn
  <2>3. threshold \in Nat /\ threshold > 0
      BY <2>2
  <2> QED
      BY <1>2, <2>3, Zenon
<1> QED
    BY <1>1, <1>2

\* A plan bounds what its wallet gives and gets by what was quoted.
Quoted(p, threshold) ==
    /\ p.quoted.in > 0 /\ threshold = Threshold(p.exactIn, p.quoted, p.bps)
    /\ p.required = IF p.exactIn THEN p.requested ELSE threshold
    /\ p.minimum = IF p.exactIn THEN threshold ELSE p.requested
    /\ p.traits = TakerTraits(p.exactIn, threshold, p.until)

LEMMA PlansAreBounded ==
  ASSUME NEW p \in Plans, NEW threshold, Quoted(p, threshold)
  PROVE  Bounded(p)
<1>1. PICK exactIn, requested, bps, until, quoted, required, minimum, traits :
        /\ exactIn \in BOOLEAN /\ requested \in Nat /\ bps \in 0..FullBps /\ until \in Nat
        /\ quoted \in Amounts
        /\ p.exactIn = exactIn /\ p.quoted = quoted /\ p.requested = requested /\ p.bps = bps
        /\ p.required = required /\ p.minimum = minimum /\ p.traits = traits /\ p.until = until
    BY DEF Plans
<1>2. /\ quoted.in > 0 /\ threshold = Threshold(exactIn, quoted, bps)
      /\ required = (IF exactIn THEN requested ELSE threshold)
      /\ minimum = (IF exactIn THEN threshold ELSE requested)
      /\ traits = TakerTraits(exactIn, threshold, until)
    BY <1>1, Zenon DEF Quoted
<1>3. threshold \in Nat /\ (~exactIn => threshold > 0)
    BY <1>1, <1>2, ThresholdsAreWhole
<1>4. /\ traits \in Traits /\ traits.exactIn = exactIn /\ traits.deadline = until
      /\ threshold > 0 => threshold \in traits.threshold
    BY <1>1, <1>2, <1>3 DEF TakerTraits, Traits
<1>5. /\ exactIn => required = requested /\ minimum = threshold
      /\ ~exactIn => required = threshold /\ minimum = requested
      /\ required \in Nat /\ minimum \in Nat
  <2>1. CASE exactIn
      BY <1>1, <1>2, <1>3, <2>1, Zenon
  <2>2. CASE ~exactIn
      BY <1>1, <1>2, <1>3, <2>2, Zenon
  <2> QED
      BY <2>1, <2>2
<1>6. p.quoted.in > 0 /\ p.traits.exactIn = p.exactIn /\ p.traits.deadline = p.until
    BY <1>1, <1>4, <1>2
<1>7. ASSUME exactIn
      PROVE  /\ p.required = p.requested /\ p.minimum = Threshold(TRUE, p.quoted, p.bps)
             /\ p.minimum > 0 => p.minimum \in p.traits.threshold
  <2>1. p.required = p.requested /\ p.minimum = threshold
      BY <1>1, <1>5, <1>7, Zenon
  <2>2. threshold = Threshold(TRUE, quoted, bps)
      BY <1>2, <1>7, Zenon DEF Threshold
  <2>3. p.minimum = Threshold(TRUE, p.quoted, p.bps)
      BY <1>1, <2>1, <2>2, Zenon
  <2>4. p.minimum > 0 => p.minimum \in p.traits.threshold
      BY <1>1, <1>4, <2>1, Zenon
  <2> QED
      BY <2>1, <2>3, <2>4
<1>8. ASSUME ~exactIn
      PROVE  /\ p.minimum = p.requested /\ p.required = Threshold(FALSE, p.quoted, p.bps)
             /\ p.required \in p.traits.threshold
  <2>1. p.minimum = p.requested /\ p.required = threshold
      BY <1>1, <1>5, <1>8, Zenon
  <2>2. threshold = Threshold(FALSE, quoted, bps)
      BY <1>2, <1>8, Zenon DEF Threshold
  <2>3. p.required = Threshold(FALSE, p.quoted, p.bps)
      BY <1>1, <2>1, <2>2, Zenon
  <2>4. p.required \in p.traits.threshold
      BY <1>1, <1>3, <1>4, <1>8, <2>1, Zenon
  <2> QED
      BY <2>1, <2>3, <2>4
<1>9. /\ p.exactIn => exactIn
      /\ ~p.exactIn => ~exactIn
    BY <1>1, Zenon
<1> QED
    BY <1>6, <1>7, <1>8, <1>9, Zenon DEF Bounded

\* A fill that the router let through keeps to the plan.
LEMMA FillsKeepThePlan ==
  ASSUME plan # NoPlan, Bounded(plan), rate \in [in : Nat \ {0}, out : Nat \ {0}],
         NEW got, got = AmountsFor(plan.traits.exactIn, plan.requested),
         \A t \in plan.traits.threshold : IF plan.traits.exactIn THEN got.out >= t ELSE got.in <= t
  PROVE  /\ IF plan.exactIn
              THEN /\ got.in = plan.requested
                   /\ got.out * FullBps > plan.quoted.out * (FullBps - plan.bps) - FullBps
              ELSE /\ got.out = plan.requested
                   /\ got.in * FullBps < plan.quoted.in * (FullBps + plan.bps) + FullBps
         /\ got.in <= plan.required /\ got.out >= plan.minimum
<1>1. /\ plan.exactIn \in BOOLEAN /\ plan.requested \in Nat /\ plan.bps \in 0..FullBps
      /\ plan.quoted \in Amounts /\ plan.quoted.in > 0 /\ plan.required \in Nat /\ plan.minimum \in Nat
      /\ plan.traits.exactIn = plan.exactIn
    BY DEF Bounded, Plans
<1>2. /\ got \in Amounts
      /\ plan.exactIn => got.in = plan.requested
      /\ ~plan.exactIn => got.out = plan.requested
    BY <1>1, RouterAmounts
<1>3. got.in \in Nat /\ got.out \in Nat
    BY <1>2 DEF Amounts
<1>4. CASE plan.exactIn
  <2>1. /\ plan.required = plan.requested /\ plan.minimum = Threshold(TRUE, plan.quoted, plan.bps)
        /\ plan.minimum > 0 => plan.minimum \in plan.traits.threshold
      BY <1>4, Zenon DEF Bounded
  <2>2. plan.minimum \in plan.traits.threshold => got.out >= plan.minimum
      BY <1>1, <1>4, Zenon
  <2>3. got.out >= plan.minimum
    <3>1. plan.minimum > 0 => got.out >= plan.minimum
        BY <2>1, <2>2, Zenon
    <3> QED
        BY <1>1, <1>3, <3>1
  <2>4. got.out * FullBps > plan.quoted.out * (FullBps - plan.bps) - FullBps
      BY <1>1, <1>3, <2>1, <2>3, LeastOut
  <2>5. got.in = plan.requested
      BY <1>2, <1>4, Zenon
  <2>6. got.in <= plan.required
      BY <1>1, <2>1, <2>5
  <2> QED
      BY <1>4, <2>3, <2>4, <2>5, <2>6, Zenon
<1>5. CASE ~plan.exactIn
  <2>1. /\ plan.minimum = plan.requested /\ plan.required = Threshold(FALSE, plan.quoted, plan.bps)
        /\ plan.required \in plan.traits.threshold
      BY <1>5, Zenon DEF Bounded
  <2>2. got.in <= plan.required
      BY <1>1, <1>5, <2>1, Zenon
  <2>3. got.in * FullBps < plan.quoted.in * (FullBps + plan.bps) + FullBps
      BY <1>1, <1>3, <2>1, <2>2, MostIn
  <2>4. got.out = plan.requested
      BY <1>2, <1>5, Zenon
  <2>5. got.out >= plan.minimum
      BY <1>1, <2>1, <2>4
  <2> QED
      BY <1>5, <2>2, <2>3, <2>4, <2>5, Zenon
<1> QED
    BY <1>4, <1>5

LEMMA ProtocolStep == ProtocolInvariant /\ [ProtocolNext]_protocolVars => ProtocolInvariant'
<1> SUFFICES ASSUME ProtocolInvariant, [ProtocolNext]_protocolVars PROVE ProtocolInvariant'
    OBVIOUS
<1>i. ProtocolTyped /\ LifeKept /\ PlanBounded /\ FilledAsAsked
    BY DEF ProtocolInvariant
<1>0. ASSUME order' = order PROVE LifeKept'
    BY <1>i, <1>0 DEF LifeKept, Deadline
<1>1. ASSUME order' = order, plan' = plan, filled' = filled, clock' \in Nat,
             rate' \in [in : Nat \ {0}, out : Nat \ {0}], wallet' \in [tokens : Nat, allowance : Nat]
      PROVE  ProtocolInvariant'
    BY <1>i, <1>0, <1>1 DEF ProtocolInvariant, ProtocolTyped, PlanBounded, Bounded, Threshold, FilledAsAsked
<1>2. ASSUME NEW timeInForce \in {"GTC", "GTD", "IOC", "FOK"}, NEW lifetime \in {0} \cup Lifetime,
             NEW allOrNothing \in BOOLEAN, NEW sellAmount \in SellAmount, NEW buyAmount \in BuyAmount,
             PrepareLimit(timeInForce, lifetime, allOrNothing, sellAmount, buyAmount)
      PROVE  ProtocolInvariant'
  <2>1. order = NoOrder /\ plan = NoPlan /\ filled = NoPlan
      BY <1>i, <1>2 DEF PrepareLimit, ProtocolTyped, PlanBounded
  <2>2. plan' = NoPlan /\ filled' = NoPlan /\ clock' = clock /\ wallet' = wallet
      BY <1>2, <2>1 DEF PrepareLimit
  <2>3. rate' \in [in : Nat \ {0}, out : Nat \ {0}]
      BY <1>2, ProtocolAssumption DEF PrepareLimit
  <2>4. PICK fullFill, expiry, program :
          /\ fullFill \in BOOLEAN
          /\ expiry = Expiry(timeInForce, lifetime)
          /\ program = BuildLimitProgram(sellAmount, buyAmount, expiry, fullFill)
          /\ order'.timeInForce = timeInForce /\ order'.lifetime = lifetime
          /\ order'.preparedAt = clock /\ order'.program = program
    <3>1. (allOrNothing \/ timeInForce = "FOK") \in BOOLEAN
        OBVIOUS
    <3>2. PICK fullFill \in BOOLEAN : fullFill = (allOrNothing \/ timeInForce = "FOK")
        BY <3>1, Zenon
    <3>3. order' = [timeInForce |-> timeInForce, lifetime |-> lifetime, preparedAt |-> clock,
                    sellAmount |-> sellAmount, buyAmount |-> buyAmount, fullFill |-> fullFill,
                    program |-> BuildLimitProgram(sellAmount, buyAmount,
                                                  Expiry(timeInForce, lifetime), fullFill),
                    approves |-> aquaAllowance < sellAmount]
        BY <1>2, <3>2, Zenon DEF PrepareLimit
    <3> QED
        BY <3>3
  <2>5. Deadline' = expiry
    <3>1. (CHOOSE i \in Range(program.code) : i.opcode = LIMIT_OPCODES.deadline).argument = expiry
        BY <2>4, DeadlineOfProgram
    <3> QED
        BY <2>4, <3>1, Zenon DEF Deadline
  <2>6. lifetime \in Nat /\ clock \in Nat
      BY <1>i, ProtocolAssumption DEF ProtocolTyped
  <2>7. LifeKept'
      BY <2>4, <2>5, <2>6 DEF LifeKept, Expiry
  <2> QED
      BY <1>i, <2>2, <2>3, <2>6, <2>7 DEF ProtocolInvariant, ProtocolTyped, PlanBounded, FilledAsAsked
<1>3. CASE ApproveAqua
    BY <1>i, <1>1, <1>3 DEF ApproveAqua, ProtocolTyped
<1>4. CASE ShipLimit
    BY <1>i, <1>1, <1>4 DEF ShipLimit, ProtocolTyped
<1>5. CASE Dock
    BY <1>i, <1>1, <1>5 DEF Dock, ProtocolTyped
<1>6. ASSUME NEW exactIn \in BOOLEAN, NEW payWithNative \in BOOLEAN, NEW requested \in Requested,
             NEW bps \in Slippage, NEW lifetime \in Lifetime,
             PrepareDirect(exactIn, requested, bps, lifetime, payWithNative)
      PROVE  ProtocolInvariant'
  <2>1. /\ order # NoOrder /\ order' = order /\ plan = NoPlan /\ filled' = filled /\ clock' = clock
        /\ rate' = rate /\ wallet' = wallet
      BY <1>6 DEF PrepareDirect
  <2>2. filled' = NoPlan
      BY <1>i, <2>1 DEF ProtocolTyped
  <2>3. PICK quoted, threshold, until :
          /\ quoted = AmountsFor(exactIn, requested) /\ threshold = Threshold(exactIn, quoted, bps)
          /\ until = clock + lifetime
      OBVIOUS
  <2>4. requested \in Nat /\ until \in Nat /\ bps \in 0..FullBps
      BY <1>i, <2>3, ProtocolAssumption DEF ProtocolTyped
  <2>5. quoted \in Amounts /\ quoted.in > 0
    <3>1. quoted \in Amounts
        BY <1>i, <2>3, <2>4, RouterAmounts DEF ProtocolTyped
    <3>2. quoted.in > 0
        BY <1>6, <2>3, Zenon DEF PrepareDirect
    <3> QED
        BY <3>1, <3>2
  <2>6. PICK p : p = plan' /\ Bounded(p)
    <3>1. PICK required, minimum, traits, approves :
            /\ required = (IF exactIn THEN requested ELSE threshold)
            /\ minimum = (IF exactIn THEN threshold ELSE requested)
            /\ traits = TakerTraits(exactIn, threshold, until)
            /\ approves = (wallet.allowance < required)
        OBVIOUS
    <3>2. approves \in BOOLEAN
      <4>1. required \in Nat
        <5>1. threshold \in Nat
            BY <2>3, <2>4, <2>5, ThresholdsAreWhole
        <5>2. CASE exactIn
            BY <2>4, <3>1, <5>2, Zenon
        <5>3. CASE ~exactIn
            BY <3>1, <5>1, <5>3, Zenon
        <5> QED
            BY <5>2, <5>3
      <4>2. wallet.allowance \in Nat
          BY <1>i DEF ProtocolTyped
      <4> QED
          BY <3>1, <4>1, <4>2
    <3>3. plan' = [exactIn |-> exactIn, requested |-> requested, quoted |-> quoted, bps |-> bps,
                   required |-> required, minimum |-> minimum, traits |-> traits,
                   approves |-> approves, wraps |-> payWithNative, until |-> until]
        BY <1>6, <2>3, <3>1, Zenon DEF PrepareDirect
    <3>4. PICK p : p = plan'
        OBVIOUS
    <3>5. threshold \in Nat
        BY <2>3, <2>4, <2>5, ThresholdsAreWhole
    <3>6. p \in Plans
      <4>1. required \in Nat /\ minimum \in Nat
        <5>1. CASE exactIn
            BY <2>4, <3>1, <3>5, <5>1, Zenon
        <5>2. CASE ~exactIn
            BY <2>4, <3>1, <3>5, <5>2, Zenon
        <5> QED
            BY <5>1, <5>2
      <4>2. traits \in Traits
          BY <2>4, <3>1, <3>5 DEF TakerTraits, Traits
      <4> QED
          BY <2>4, <2>5, <3>2, <3>3, <3>4, <4>1, <4>2 DEF Plans
    <3>7. Quoted(p, threshold)
      <4>1. /\ p.exactIn = exactIn /\ p.quoted = quoted /\ p.requested = requested /\ p.bps = bps
            /\ p.required = required /\ p.minimum = minimum /\ p.traits = traits /\ p.until = until
          BY <3>3, <3>4
      <4>2. /\ p.required = (IF p.exactIn THEN p.requested ELSE threshold)
            /\ p.minimum = (IF p.exactIn THEN threshold ELSE p.requested)
          BY <3>1, <4>1, Zenon
      <4>3. p.traits = TakerTraits(p.exactIn, threshold, p.until)
          BY <3>1, <4>1, Zenon
      <4>4. p.quoted.in > 0 /\ threshold = Threshold(p.exactIn, p.quoted, p.bps)
          BY <2>3, <2>5, <4>1, Zenon
      <4> QED
          BY <4>2, <4>3, <4>4, Zenon DEF Quoted
    <3>8. Bounded(p)
        BY <3>6, <3>7, PlansAreBounded
    <3> QED
        BY <3>4, <3>8
  <2>7. Bounded(plan)'
      BY <2>6, Zenon DEF Bounded, Threshold
  <2> QED
      BY <1>i, <1>0, <2>1, <2>2, <2>7 DEF ProtocolInvariant, ProtocolTyped, PlanBounded, FilledAsAsked
<1>7. CASE PrepareWallet
  <2>1. /\ plan # NoPlan /\ order' = order /\ filled' = filled /\ clock' = clock /\ rate' = rate
        /\ plan' = [plan EXCEPT !.wraps = FALSE, !.approves = FALSE]
      BY <1>7 DEF PrepareWallet
  <2>2. order # NoOrder /\ Bounded(plan) /\ plan \in Plans
      BY <1>i, <2>1 DEF PlanBounded, Bounded
  <2>3. /\ plan' \in Plans
        /\ plan'.exactIn = plan.exactIn /\ plan'.requested = plan.requested /\ plan'.quoted = plan.quoted
        /\ plan'.bps = plan.bps /\ plan'.required = plan.required /\ plan'.minimum = plan.minimum
        /\ plan'.traits = plan.traits /\ plan'.until = plan.until
      BY <2>1, <2>2 DEF Plans
  <2>4. plan' # NoPlan
      BY <2>3, ProtocolAssumption
  <2>5. Bounded(plan)'
      BY <2>2, <2>3, Zenon DEF Bounded, Threshold
  <2>6. FilledAsAsked'
      BY <1>i, <2>1, <2>3, Zenon DEF FilledAsAsked
  <2>7. wallet' \in [tokens : Nat, allowance : Nat]
    <3>1. /\ wallet.tokens \in Nat /\ wallet.allowance \in Nat /\ plan.required \in Nat
        BY <1>i, <2>2 DEF ProtocolTyped, Plans
    <3>2. PICK tokens, allowance :
            /\ tokens = (IF plan.wraps THEN wallet.tokens + plan.required ELSE wallet.tokens)
            /\ allowance = (IF plan.approves THEN plan.required ELSE wallet.allowance)
            /\ wallet' = [tokens |-> tokens, allowance |-> allowance]
        BY <1>7, Zenon DEF PrepareWallet
    <3>3. tokens \in Nat /\ allowance \in Nat
        BY <3>1, <3>2
    <3> QED
        BY <3>2, <3>3
  <2> QED
      BY <1>i, <1>0, <2>1, <2>2, <2>4, <2>5, <2>6, <2>7 DEF ProtocolInvariant, ProtocolTyped, PlanBounded
<1>8. CASE Swap
  <2>1. /\ plan # NoPlan /\ order' = order /\ plan' = plan /\ clock' = clock /\ rate' = rate
        /\ clock <= Deadline /\ clock <= plan.traits.deadline
      BY <1>8 DEF Swap, Fillable
  <2>2. PICK got : /\ got = AmountsFor(plan.traits.exactIn, plan.requested)
                   /\ \A t \in plan.traits.threshold :
                        IF plan.traits.exactIn THEN got.out >= t ELSE got.in <= t
                   /\ filled' = [in |-> got.in, out |-> got.out, at |-> clock]
      BY <1>8, Zenon DEF Swap
  <2>3. order # NoOrder /\ Bounded(plan) /\ rate \in [in : Nat \ {0}, out : Nat \ {0}]
      BY <1>i, <2>1 DEF ProtocolTyped, PlanBounded
  <2>4. /\ IF plan.exactIn
             THEN /\ got.in = plan.requested
                  /\ got.out * FullBps > plan.quoted.out * (FullBps - plan.bps) - FullBps
             ELSE /\ got.out = plan.requested
                  /\ got.in * FullBps < plan.quoted.in * (FullBps + plan.bps) + FullBps
        /\ got.in <= plan.required /\ got.out >= plan.minimum
      BY <2>1, <2>2, <2>3, FillsKeepThePlan
  <2>5. filled'.in = got.in /\ filled'.out = got.out /\ filled'.at = clock
      BY <2>2
  <2>6. clock <= plan.until
      BY <2>1, <2>3 DEF Bounded
  <2>7. /\ order.lifetime # 0 => clock <= order.preparedAt + order.lifetime
        /\ order.lifetime = 0 /\ order.timeInForce \in {"IOC", "FOK"} =>
             clock <= order.preparedAt + ShortLife
      BY <1>i, <2>1, <2>3, Zenon DEF LifeKept
  <2>8. FilledAsAsked'
      BY <2>1, <2>4, <2>5, <2>6, <2>7, Zenon DEF FilledAsAsked
  <2>9. Bounded(plan)'
      BY <2>1, <2>3 DEF Bounded, Threshold
  <2>10. wallet' \in [tokens : Nat, allowance : Nat]
    <3>1. got \in Amounts
      <4>1. plan.traits.exactIn \in BOOLEAN /\ plan.requested \in Nat
          BY <2>3 DEF Bounded, Plans, Traits
      <4> QED
          BY <2>2, <2>3, <4>1, RouterAmounts
    <3>2. /\ got.in <= wallet.tokens /\ got.in <= wallet.allowance
          /\ wallet' = [tokens |-> wallet.tokens - got.in, allowance |-> wallet.allowance - got.in]
        BY <1>8, <2>2, Zenon DEF Swap
    <3>3. wallet.tokens - got.in \in Nat /\ wallet.allowance - got.in \in Nat
        BY <1>i, <3>1, <3>2 DEF ProtocolTyped, Amounts
    <3> QED
        BY <3>2, <3>3
  <2> QED
      BY <1>i, <1>0, <2>1, <2>3, <2>8, <2>9, <2>10 DEF ProtocolInvariant, ProtocolTyped, PlanBounded
<1>9. CASE Tick
    BY <1>i, <1>1, <1>9 DEF Tick, ProtocolTyped
<1>10. ASSUME NEW r \in Rate, RateMoves(r) PROVE ProtocolInvariant'
    BY <1>i, <1>1, <1>10, ProtocolAssumption DEF RateMoves, ProtocolTyped
<1>11. CASE UNCHANGED protocolVars
    BY <1>i, <1>1, <1>11 DEF protocolVars, ProtocolTyped
<1> QED
    BY <1>2, <1>3, <1>4, <1>5, <1>6, <1>7, <1>8, <1>9, <1>10, <1>11 DEF ProtocolNext

\* However the rate moved and whenever the wallets signed: a swap that went
\* through kept to what was quoted less the slippage, and filled no order after
\* the end that its maker had asked for.
THEOREM SwapsAreFilledAsAsked == ProtocolSpec => []FilledAsAsked
<1>1. ProtocolInvariant => FilledAsAsked
    BY DEF ProtocolInvariant
<1> QED
    BY ProtocolInitially, ProtocolStep, <1>1, PTL DEF ProtocolSpec

-----------------------------------------------------------------------------
(* What the indexer and the router make of a program.                       *)

\* One step of a walk: the instruction met, and what f says of where it leads.
Reads(program, follow, f, at) ==
    IF at = program.length THEN <<>>
    ELSE IF at \notin DOMAIN program.code THEN <<Truncated>>
    ELSE <<program.code[at]>> \o
           IF follow[at] \in (at + 1)..program.length THEN f[follow[at]] ELSE <<Truncated>>

LEMMA WalksGoForward ==
  ASSUME NEW program, program.length \in Nat, NEW follow, NEW f, NEW g, NEW at \in 0..program.length,
         \A later \in (at + 1)..program.length : f[later] = g[later]
  PROVE  Reads(program, follow, f, at) = Reads(program, follow, g, at)
<1>1. CASE follow[at] \in (at + 1)..program.length
  <2>1. f[follow[at]] = g[follow[at]]
      BY <1>1
  <2> QED
      BY <1>1, <2>1, Zenon DEF Reads
<1>2. CASE follow[at] \notin (at + 1)..program.length
    BY <1>2, Zenon DEF Reads
<1> QED
    BY <1>1, <1>2

LEMMA WalksExist ==
  ASSUME NEW program, program.length \in Nat, NEW follow
  PROVE  \E from : from = [at \in 0..program.length |-> Reads(program, follow, from, at)]
<1> DEFINE ReadsFrom(f, start) == \A at \in 0..program.length :
                                    at >= start => f[at] = Reads(program, follow, f, at)
           Given(m) == \E f : ReadsFrom(f, program.length - m)
           lacking == {m \in 0..program.length : ~Given(m)}
<1>1. ASSUME lacking # {} PROVE FALSE
  <2>1. PICK m \in lacking : \A l \in lacking : <<l, m>> \notin OpToRel(<, Nat)
    <3>1. lacking \in SUBSET Nat
        OBVIOUS
    <3> HIDE DEF lacking
    <3> QED
        BY <1>1, <3>1, NatLessThanWellFounded, WFMin
  <2>2. m \in 0..program.length /\ ~Given(m)
      OBVIOUS
  <2>3. PICK start : start \in 0..program.length /\ start = program.length - m
      BY <2>2
  <2>4. PICK f : \A at \in 0..program.length : at > start => f[at] = Reads(program, follow, f, at)
    <3>1. CASE m = 0
        BY <2>3, <3>1
    <3>2. CASE m # 0
      <4>1. m \in Nat /\ m - 1 \in Nat /\ m - 1 < m /\ m - 1 \in 0..program.length
          BY <2>2, <3>2
      <4>2. m - 1 \notin lacking
        <5> HIDE DEF lacking
        <5> QED
            BY <2>1, <4>1 DEF OpToRel
      <4>3. Given(m - 1)
          BY <4>1, <4>2
      <4>4. PICK f : \A at \in 0..program.length :
                       at >= program.length - (m - 1) => f[at] = Reads(program, follow, f, at)
          BY <4>3
      <4> QED
          BY <2>2, <2>3, <4>4
    <3> QED
        BY <3>1, <3>2
  <2>5. PICK g : g = [at \in 0..program.length |->
                        IF at = start THEN Reads(program, follow, f, at) ELSE f[at]]
      OBVIOUS
  <2>6. \A at \in 0..program.length : at > start => g[at] = f[at]
      BY <2>3, <2>5
  <2>7. \A at \in 0..program.length : at >= start => g[at] = Reads(program, follow, g, at)
    <3> SUFFICES ASSUME NEW at \in 0..program.length, at >= start
                 PROVE  g[at] = Reads(program, follow, g, at)
        OBVIOUS
    <3>1. Reads(program, follow, f, at) = Reads(program, follow, g, at)
      <4>1. \A later \in (at + 1)..program.length : f[later] = g[later]
          BY <2>3, <2>6
      <4> QED
          BY <4>1, WalksGoForward
    <3>2. g[at] = Reads(program, follow, f, at)
        BY <2>3, <2>4, <2>5
    <3> QED
        BY <3>1, <3>2
  <2> QED
      BY <2>2, <2>3, <2>7
<1>2. PICK f : \A at \in 0..program.length : f[at] = Reads(program, follow, f, at)
  <2>1. program.length \in 0..program.length
      OBVIOUS
  <2>2. Given(program.length)
      BY <1>1, <2>1
  <2> QED
      BY <2>2
<1>3. PICK from : from = [at \in 0..program.length |-> f[at]]
    OBVIOUS
<1>4. \A at \in 0..program.length : f[at] = Reads(program, follow, from, at)
  <2> TAKE at \in 0..program.length
  <2>1. \A later \in (at + 1)..program.length : f[later] = from[later]
      BY <1>3
  <2>2. Reads(program, follow, f, at) = Reads(program, follow, from, at)
      BY <2>1, WalksGoForward
  <2> QED
      BY <1>2, <2>2
<1>5. from = [at \in 0..program.length |-> Reads(program, follow, from, at)]
    BY <1>3, <1>4
<1> QED
    BY <1>5

LEMMA WalkUnfolds ==
  ASSUME NEW program, program.length \in Nat, NEW follow
  PROVE  \E from : /\ Walk(program, follow) = from[0]
                   /\ \A at \in 0..program.length : from[at] = Reads(program, follow, from, at)
<1> DEFINE Walks(f) == f = [at \in 0..program.length |-> Reads(program, follow, f, at)]
<1>1. \E f : Walks(f)
    BY WalksExist
<1>2. PICK from : from = CHOOSE f : Walks(f)
    OBVIOUS
<1>3. Walk(program, follow) = from[0]
    BY <1>2 DEF Walk, Reads
<1>4. Walks(from)
  <2> HIDE DEF Walks
  <2> QED
      BY <1>1, <1>2
<1>5. \A at \in 0..program.length : from[at] = Reads(program, follow, from, at)
    BY <1>4
<1> QED
    BY <1>3, <1>5

\* Places in a program that lead from its first byte to its end, and what is there.
Chain(program, follow, places, found, n) ==
    /\ n \in Nat /\ program.length \in Nat /\ places[1] = 0 /\ places[n + 1] = program.length
    /\ \A j \in 1..n :
         /\ places[j] \in 0..program.length /\ places[j] # program.length
         /\ places[j] \in DOMAIN program.code /\ program.code[places[j]] = found[j]
         /\ follow[places[j]] = places[j + 1] /\ places[j + 1] \in (places[j] + 1)..program.length

\* From the j-th place on, s is what is found.
Rest(s, S, found, j, n) ==
    /\ s \in Seq(S) /\ Len(s) = (n + 1) - j
    /\ \A k \in 1..((n + 1) - j) : s[k] = found[(j + k) - 1]

LEMMA OneMore ==
  ASSUME NEW S, NEW n \in Nat, NEW found, NEW j \in 1..n, found[j] \in S,
         NEW s, Rest(s, S, found, j + 1, n), NEW t, t = <<found[j]>> \o s
  PROVE  Rest(t, S, found, j, n)
<1>1. /\ s \in Seq(S) /\ Len(s) = n - j
      /\ \A k \in 1..(n - j) : s[k] = found[j + k]
    BY DEF Rest
<1>2. PICK r : r = <<found[j]>>
    OBVIOUS
<1>3. r \in Seq(S) /\ Len(r) = 1 /\ r[1] = found[j]
    BY <1>2
<1>4. t = r \o s
    BY <1>2
<1>5. t \in Seq(S) /\ Len(t) = 1 + (n - j) /\ Len(t) = (n + 1) - j
  <2>1. r \o s \in Seq(S) /\ Len(r \o s) = Len(r) + Len(s)
      BY <1>1, <1>3, ConcatProperties
  <2>2. t \in Seq(S) /\ Len(t) = 1 + Len(s) /\ Len(s) = n - j
      BY <1>1, <1>3, <1>4, <2>1
  <2>3. Len(t) = 1 + (n - j)
      BY <2>2, Zenon
  <2> QED
      BY <2>2, <2>3
<1>6. \A i \in 1..(1 + (n - j)) : t[i] = IF i <= 1 THEN r[i] ELSE s[i - 1]
    BY <1>1, <1>3, <1>4, ConcatProperties
<1>7. \A k \in 1..((n + 1) - j) : t[k] = found[(j + k) - 1]
  <2> SUFFICES ASSUME NEW k \in 1..((n + 1) - j) PROVE t[k] = found[(j + k) - 1]
      OBVIOUS
  <2>1. CASE k = 1
    <3>1. t[1] = r[1] /\ (j + k) - 1 = j
        BY <1>6, <2>1
    <3> QED
        BY <1>3, <2>1, <3>1
  <2>2. CASE k # 1
    <3>1. k \in 1..(1 + (n - j)) /\ ~(k <= 1) /\ k - 1 \in 1..(n - j) /\ j + (k - 1) = (j + k) - 1
        BY <2>2
    <3>2. t[k] = s[k - 1]
        BY <1>6, <3>1
    <3>3. s[k - 1] = found[j + (k - 1)]
        BY <1>1, <3>1
    <3> QED
        BY <3>1, <3>2, <3>3
  <2> QED
      BY <2>1, <2>2
<1> QED
    BY <1>5, <1>7, Zenon DEF Rest

LEMMA WalksTheChain ==
  ASSUME NEW program, NEW follow, NEW places, NEW found, NEW n, Chain(program, follow, places, found, n),
         NEW S, \A j \in 1..n : found[j] \in S
  PROVE  Rest(Walk(program, follow), S, found, 1, n)
<1>1. /\ n \in Nat /\ program.length \in Nat /\ places[1] = 0 /\ places[n + 1] = program.length
      /\ \A j \in 1..n :
           /\ places[j] \in 0..program.length /\ places[j] # program.length
           /\ places[j] \in DOMAIN program.code /\ program.code[places[j]] = found[j]
           /\ follow[places[j]] = places[j + 1] /\ places[j + 1] \in (places[j] + 1)..program.length
    BY DEF Chain
<1>2. PICK from : /\ Walk(program, follow) = from[0]
                  /\ \A at \in 0..program.length : from[at] = Reads(program, follow, from, at)
    BY <1>1, WalkUnfolds
<1>3. \A j \in 1..n : from[places[j]] = <<found[j]>> \o from[places[j + 1]]
  <2> SUFFICES ASSUME NEW j \in 1..n PROVE from[places[j]] = <<found[j]>> \o from[places[j + 1]]
      OBVIOUS
  <2>1. from[places[j]] = Reads(program, follow, from, places[j])
      BY <1>1, <1>2
  <2>2. PICK at, next : at = places[j] /\ next = places[j + 1]
      OBVIOUS
  <2>3. /\ at # program.length /\ at \in DOMAIN program.code /\ program.code[at] = found[j]
        /\ follow[at] = next /\ next \in (at + 1)..program.length
      BY <1>1, <2>2
  <2>4. Reads(program, follow, from, at) = <<found[j]>> \o from[next]
      BY <2>3, Zenon DEF Reads
  <2> QED
      BY <2>1, <2>2, <2>4
<1>4. from[program.length] = <<>>
  <2>1. program.length \in 0..program.length
      BY <1>1
  <2> QED
      BY <1>2, <2>1, Zenon DEF Reads
<1> DEFINE Holds(m) == Rest(from[places[(n + 1) - m]], S, found, (n + 1) - m, n)
           lacking == {m \in 0..n : ~Holds(m)}
<1>5. ASSUME lacking # {} PROVE FALSE
  <2>1. PICK m \in lacking : \A l \in lacking : <<l, m>> \notin OpToRel(<, Nat)
    <3>1. lacking \in SUBSET Nat
        BY <1>1
    <3> HIDE DEF lacking
    <3> QED
        BY <1>5, <3>1, NatLessThanWellFounded, WFMin
  <2>2. m \in 0..n /\ ~Holds(m)
      OBVIOUS
  <2>3. m # 0
    <3>1. Rest(<<>>, S, found, n + 1, n)
        BY <1>1 DEF Rest
    <3>2. ASSUME m = 0 PROVE Holds(m)
      <4>1. (n + 1) - m = n + 1
          BY <1>1, <3>2
      <4> QED
          BY <1>1, <1>4, <3>1, <4>1
    <3> QED
        BY <2>2, <3>2
  <2>4. m \in Nat /\ m - 1 \in Nat /\ m - 1 < m /\ m - 1 \in 0..n
      BY <1>1, <2>2, <2>3
  <2>5. m - 1 \notin lacking
    <3> HIDE DEF lacking
    <3> QED
        BY <2>1, <2>4 DEF OpToRel
  <2>6. Holds(m - 1)
      BY <2>4, <2>5
  <2>7. PICK j : j = (n + 1) - m /\ j \in 1..n /\ j + 1 = (n + 1) - (m - 1)
      BY <1>1, <2>2, <2>3
  <2>8. Rest(from[places[j + 1]], S, found, j + 1, n)
      BY <2>6, <2>7
  <2>9. from[places[j]] = <<found[j]>> \o from[places[j + 1]] /\ found[j] \in S
      BY <1>3, <2>7
  <2>10. Rest(from[places[j]], S, found, j, n)
      BY <1>1, <2>7, <2>8, <2>9, OneMore
  <2> QED
      BY <2>2, <2>7, <2>10
<1>6. Holds(n)
    BY <1>1, <1>5
<1>7. Rest(from[places[1]], S, found, 1, n)
  <2>1. (n + 1) - n = 1
      BY <1>1
  <2> QED
      BY <1>6, <2>1
<1> QED
    BY <1>1, <1>2, <1>7

\* Where one comes to byte by byte, and where the jump leads past the balances.
LEMMA DecodedInOrder ==
  ASSUME NEW sold, NEW bought, NEW expiry, NEW fullFill \in BOOLEAN,
         NEW program, program = BuildLimitProgram(sold, bought, expiry, fullFill),
         NEW is, is = Instructions(sold, bought, expiry, fullFill), NEW S, \A k \in 1..6 : is[k] \in S
  PROVE  Rest(DecodeProgram(program), S, is, 1, 6)
<1>1. PICK close : close \in {155, 159} /\ close = Close(fullFill) /\ Size(is[5]) = close - 153
  <2>1. Size(is[5]) = (IF fullFill THEN 6 ELSE 2)
      BY SizesKnown
  <2> QED
      BY <2>1 DEF Close
<1>2. /\ program.length = close + 3 /\ DOMAIN program.code = {0, 7, 41, 45, 153, close}
      /\ program.code[0] = is[1] /\ program.code[7] = is[2] /\ program.code[41] = is[3]
      /\ program.code[45] = is[4] /\ program.code[153] = is[5] /\ program.code[close] = is[6]
    BY <1>1, ProgramLaidOut
<1>3. Size(is[1]) = 7 /\ Size(is[2]) = 34 /\ Size(is[3]) = 4 /\ Size(is[4]) = 108 /\ Size(is[6]) = 3
    BY SizesKnown
<1>4. PICK follow : follow = After(program)
    OBVIOUS
<1>5. /\ follow[0] = 7 /\ follow[7] = 41 /\ follow[41] = 45 /\ follow[45] = 153
      /\ follow[153] = close /\ follow[close] = close + 3
  <2>1. \A at \in {0, 7, 41, 45, 153, close} : follow[at] = at + Size(program.code[at])
      BY <1>2, <1>4 DEF After
  <2> QED
      BY <1>1, <1>2, <1>3, <2>1
<1>6. PICK places : /\ places[1] = 0 /\ places[2] = 7 /\ places[3] = 41 /\ places[4] = 45 /\ places[5] = 153
                    /\ places[6] = close /\ places[7] = close + 3
  <2>1. PICK places : places = <<0, 7, 41, 45, 153, close, close + 3>>
      OBVIOUS
  <2> QED
      BY <2>1
<1>7. Chain(program, follow, places, is, 6)
  <2>1. \A j \in 1..6 :
           /\ places[j] \in 0..program.length /\ places[j] # program.length
           /\ places[j] \in DOMAIN program.code /\ program.code[places[j]] = is[j]
           /\ follow[places[j]] = places[j + 1] /\ places[j + 1] \in (places[j] + 1)..program.length
    <3> SUFFICES ASSUME NEW j \in 1..6
                 PROVE  /\ places[j] \in 0..program.length /\ places[j] # program.length
                        /\ places[j] \in DOMAIN program.code /\ program.code[places[j]] = is[j]
                        /\ follow[places[j]] = places[j + 1]
                        /\ places[j + 1] \in (places[j] + 1)..program.length
        OBVIOUS
    <3>1. j = 1 \/ j = 2 \/ j = 3 \/ j = 4 \/ j = 5 \/ j = 6
        OBVIOUS
    <3> QED
        BY <1>1, <1>2, <1>5, <1>6, <3>1
  <2> QED
      BY <1>1, <1>2, <1>6, <2>1 DEF Chain
<1>8. DecodeProgram(program) = Walk(program, follow)
    BY <1>4, Zenon DEF DecodeProgram
<1> QED
    BY <1>7, <1>8, WalksTheChain

LEMMA Routines ==
  /\ Routine(10) = "jump" /\ Routine(13) = "deadline" /\ Routine(17) = "staticBalances"
  /\ Routine(18) = "invalidateBit" /\ Routine(20) = "invalidateTokenOut" /\ Routine(21) = "limitSwap"
  /\ Routine(22) = "limitSwapOnlyFull" /\ Routine(30) = "salt"
<1> QED
    BY DEF Routine

LEMMA RunPastBalances ==
  ASSUME NEW sold, NEW bought, NEW expiry, NEW fullFill \in BOOLEAN,
         NEW program, program = BuildLimitProgram(sold, bought, expiry, fullFill),
         NEW is, is = Instructions(sold, bought, expiry, fullFill), NEW S, \A k \in 1..6 : is[k] \in S,
         NEW met, met[1] = is[1], met[2] = is[2], met[3] = is[3], met[4] = is[5], met[5] = is[6]
  PROVE  Rest(Execution(program), S, met, 1, 5)
<1>1. PICK close : close \in {155, 159} /\ close = Close(fullFill) /\ Size(is[5]) = close - 153
  <2>1. Size(is[5]) = (IF fullFill THEN 6 ELSE 2)
      BY SizesKnown
  <2> QED
      BY <2>1 DEF Close
<1>2. /\ program.length = close + 3 /\ DOMAIN program.code = {0, 7, 41, 45, 153, close}
      /\ program.code[0] = is[1] /\ program.code[7] = is[2] /\ program.code[41] = is[3]
      /\ program.code[45] = is[4] /\ program.code[153] = is[5] /\ program.code[close] = is[6]
    BY <1>1, ProgramLaidOut
<1>3. Size(is[1]) = 7 /\ Size(is[2]) = 34 /\ Size(is[3]) = 4 /\ Size(is[4]) = 108 /\ Size(is[6]) = 3
    BY SizesKnown
<1>4. PICK follow :
        follow = [at \in DOMAIN program.code |->
                    IF Routine(program.code[at].opcode) = "jump" THEN program.code[at].argument
                                                                 ELSE After(program)[at]]
    OBVIOUS
<1>5. follow[0] = 7 /\ follow[7] = 41 /\ follow[41] = 153 /\ follow[153] = close /\ follow[close] = close + 3
  <2>1. /\ Routine(is[1].opcode) # "jump" /\ Routine(is[2].opcode) # "jump" /\ Routine(is[3].opcode) = "jump"
        /\ Routine(is[5].opcode) # "jump" /\ Routine(is[6].opcode) # "jump" /\ is[3].argument = 153
    <3>1. /\ is[1].opcode = 13 /\ is[2].opcode = 30 /\ is[3].opcode = 10 /\ is[3].argument = 153
          /\ is[5].opcode \in {18, 20} /\ is[6].opcode \in {21, 22}
      <4>1. Coded(is, sold, bought, fullFill)
          BY OpcodesOfProgram
      <4> QED
          BY <4>1 DEF Coded
    <3> QED
        BY <3>1, Routines
  <2>2. \A at \in {0, 7, 41, 45, 153, close} :
          /\ Routine(program.code[at].opcode) = "jump" => follow[at] = program.code[at].argument
          /\ Routine(program.code[at].opcode) # "jump" => follow[at] = at + Size(program.code[at])
      BY <1>2, <1>4 DEF After
  <2>3. follow[41] = 153
      BY <1>2, <2>1, <2>2
  <2>4. /\ follow[0] = 0 + Size(is[1]) /\ follow[7] = 7 + Size(is[2]) /\ follow[153] = 153 + Size(is[5])
        /\ follow[close] = close + Size(is[6])
      BY <1>2, <2>1, <2>2
  <2> QED
      BY <1>1, <1>3, <2>3, <2>4
<1>6. PICK places : /\ places[1] = 0 /\ places[2] = 7 /\ places[3] = 41 /\ places[4] = 153
                    /\ places[5] = close /\ places[6] = close + 3
  <2>1. PICK places : places = <<0, 7, 41, 153, close, close + 3>>
      OBVIOUS
  <2> QED
      BY <2>1
<1>7. Chain(program, follow, places, met, 5)
  <2>1. \A j \in 1..5 :
           /\ places[j] \in 0..program.length /\ places[j] # program.length
           /\ places[j] \in DOMAIN program.code /\ program.code[places[j]] = met[j]
           /\ follow[places[j]] = places[j + 1] /\ places[j + 1] \in (places[j] + 1)..program.length
    <3> SUFFICES ASSUME NEW j \in 1..5
                 PROVE  /\ places[j] \in 0..program.length /\ places[j] # program.length
                        /\ places[j] \in DOMAIN program.code /\ program.code[places[j]] = met[j]
                        /\ follow[places[j]] = places[j + 1]
                        /\ places[j + 1] \in (places[j] + 1)..program.length
        OBVIOUS
    <3>1. j = 1 \/ j = 2 \/ j = 3 \/ j = 4 \/ j = 5
        OBVIOUS
    <3> QED
        BY <1>1, <1>2, <1>5, <1>6, <3>1
  <2> QED
      BY <1>1, <1>2, <1>6, <2>1 DEF Chain
<1>8. Execution(program) = Walk(program, follow)
    BY <1>4, Zenon DEF Execution
<1>9. \A j \in 1..5 : met[j] \in S
  <2>1. is[1] \in S /\ is[2] \in S /\ is[3] \in S /\ is[5] \in S /\ is[6] \in S
      OBVIOUS
  <2> QED
      BY <2>1
<1> QED
    BY <1>7, <1>8, <1>9, WalksTheChain

\* The indexer finds the amounts that were asked for, and the router checks the
\* deadline, passes the balances, and ends what it fills.
LEMMA ReadAsAsked ==
  ASSUME NEW sold, NEW bought, NEW expiry, NEW fullFill \in BOOLEAN,
         NEW program, program = BuildLimitProgram(sold, bought, expiry, fullFill)
  PROVE  /\ AllowedProgram(program)
         /\ RecognizeLimitStrategy(program) = [sellAmount |-> sold, buyAmount |-> bought]
<1>1. PICK is : is = Instructions(sold, bought, expiry, fullFill)
    OBVIOUS
<1>2. Coded(is, sold, bought, fullFill)
    BY <1>1, OpcodesOfProgram
<1>3. PICK S : S = {is[k] : k \in 1..6}
    OBVIOUS
<1>4. PICK d : d = DecodeProgram(program)
    OBVIOUS
<1>5. d \in Seq(S) /\ Len(d) = 6 /\ DOMAIN d = 1..6 /\ \A k \in 1..6 : d[k] = is[k]
  <2>1. \A k \in 1..6 : is[k] \in S
      BY <1>3
  <2>2. Rest(d, S, is, 1, 6)
      BY <1>1, <1>4, <2>1, DecodedInOrder
  <2> QED
      BY <2>2 DEF Rest
<1>6. /\ d[1].opcode = 13 /\ d[2].opcode = 30 /\ d[3].opcode = 10 /\ d[4].opcode = 17
      /\ d[5].opcode \in {18, 20} /\ d[6].opcode \in {21, 22}
      /\ d[4].length = 106 /\ d[4].argument = [in |-> bought, out |-> sold]
    BY <1>2, <1>5 DEF Coded
<1>7. {10, 13, 17, 18, 20, 21, 22, 30} \subseteq Range(LIMIT_OPCODES)
  <2>1. PICK table : table = LIMIT_OPCODES
      OBVIOUS
  <2>2. DOMAIN table = {"jump", "deadline", "staticBalances", "invalidateBit", "invalidateTokenOut",
                        "limitSwap", "limitSwapOnlyFull", "salt"}
      BY <2>1 DEF LIMIT_OPCODES
  <2>3. /\ table["jump"] = 10 /\ table["deadline"] = 13 /\ table["staticBalances"] = 17
        /\ table["invalidateBit"] = 18 /\ table["invalidateTokenOut"] = 20 /\ table["limitSwap"] = 21
        /\ table["limitSwapOnlyFull"] = 22 /\ table["salt"] = 30
      BY <2>1, Opcodes
  <2>4. \A name \in DOMAIN table : table[name] \in Range(table)
      BY DEF Range
  <2> QED
      BY <2>1, <2>2, <2>3, <2>4
<1>8. AllowedProgram(program)
  <2>1. \A k \in 1..6 : d[k].opcode \in {10, 13, 17, 18, 20, 21, 22, 30}
    <3> SUFFICES ASSUME NEW k \in 1..6 PROVE d[k].opcode \in {10, 13, 17, 18, 20, 21, 22, 30}
        OBVIOUS
    <3>1. k = 1 \/ k = 2 \/ k = 3 \/ k = 4 \/ k = 5 \/ k = 6
        OBVIOUS
    <3> QED
        BY <1>6, <3>1
  <2>2. \A i \in Range(d) : i.opcode \in Range(LIMIT_OPCODES)
      BY <1>5, <1>7, <2>1 DEF Range
  <2> QED
      BY <1>4, <2>2 DEF AllowedProgram
<1>9. Found(d, {"staticBalances"}) = {4}
  <2>1. Found(d, {"staticBalances"}) = {k \in 1..6 : d[k].opcode = 17}
      BY <1>5, Opcodes DEF Found
  <2>2. \A k \in 1..6 : d[k].opcode = 17 <=> k = 4
    <3> SUFFICES ASSUME NEW k \in 1..6 PROVE d[k].opcode = 17 <=> k = 4
        OBVIOUS
    <3>1. k = 1 \/ k = 2 \/ k = 3 \/ k = 4 \/ k = 5 \/ k = 6
        OBVIOUS
    <3> QED
        BY <1>6, <3>1
  <2> QED
      BY <2>1, <2>2
<1>10. Find(d, {"staticBalances"}) = d[4]
  <2>1. (CHOOSE k \in {4} : \A l \in {4} : k <= l) = 4
      OBVIOUS
  <2> QED
      BY <1>9, <2>1, Zenon DEF Find
<1>11. 5 \in Found(d, {"invalidateBit", "invalidateTokenOut"})
  <2>1. \E name \in {"invalidateBit", "invalidateTokenOut"} : d[5].opcode = LIMIT_OPCODES[name]
      BY <1>6, Opcodes
  <2> QED
      BY <1>5, <2>1 DEF Found
<1>12. 6 \in Found(d, {"limitSwap", "limitSwapOnlyFull"})
  <2>1. \E name \in {"limitSwap", "limitSwapOnlyFull"} : d[6].opcode = LIMIT_OPCODES[name]
      BY <1>6, Opcodes
  <2> QED
      BY <1>5, <2>1 DEF Found
<1>13. LIMIT_OPCODES.deadline = 13 /\ LIMIT_OPCODES.salt = 30
    BY Opcodes
<1>14. ~(\/ Found(d, {"staticBalances"}) = {}
         \/ Found(d, {"invalidateBit", "invalidateTokenOut"}) = {}
         \/ Found(d, {"limitSwap", "limitSwapOnlyFull"}) = {}
         \/ d[1].opcode # LIMIT_OPCODES.deadline \/ d[2].opcode # LIMIT_OPCODES.salt
         \/ Find(d, {"staticBalances"}).length # 106)
    BY <1>6, <1>9, <1>10, <1>11, <1>12, <1>13
<1>15. RecognizeLimitStrategy(program) =
         [sellAmount |-> Find(d, {"staticBalances"}).argument.out,
          buyAmount |-> Find(d, {"staticBalances"}).argument.in]
    BY <1>4, <1>14, Zenon DEF RecognizeLimitStrategy
<1> QED
    BY <1>6, <1>8, <1>10, <1>15

LEMMA RunAsAsked ==
  ASSUME NEW sold, NEW bought, NEW expiry, NEW fullFill \in BOOLEAN,
         NEW program, program = BuildLimitProgram(sold, bought, expiry, fullFill),
         NEW run, run = Execution(program)
  PROVE  [k \in DOMAIN run |-> Routine(run[k].opcode)] =
           <<"deadline", "salt", "jump">> \o
           IF fullFill THEN <<"invalidateBit", "limitSwapOnlyFull">>
                       ELSE <<"invalidateTokenOut", "limitSwap">>
<1>1. PICK is : is = Instructions(sold, bought, expiry, fullFill)
    OBVIOUS
<1>2. Coded(is, sold, bought, fullFill)
    BY <1>1, OpcodesOfProgram
<1>3. PICK S : S = {is[k] : k \in 1..6}
    OBVIOUS
<1>4. PICK met : /\ met[1] = is[1] /\ met[2] = is[2] /\ met[3] = is[3]
                 /\ met[4] = is[5] /\ met[5] = is[6]
  <2>1. PICK met : met = [k \in 1..5 |-> IF k <= 3 THEN is[k] ELSE is[k + 1]]
      OBVIOUS
  <2> QED
      BY <2>1
<1>5. Rest(run, S, met, 1, 5)
  <2>1. \A k \in 1..6 : is[k] \in S
      BY <1>3
  <2> QED
      BY <1>1, <1>4, <2>1, RunPastBalances
<1>6. DOMAIN run = 1..5 /\ \A k \in 1..5 : run[k] = met[k]
    BY <1>5 DEF Rest
<1>7. PICK a, b, names :
        /\ a = Routine(is[5].opcode) /\ b = Routine(is[6].opcode)
        /\ names = {"deadline", "salt", "jump", a, b}
    OBVIOUS
<1>8. /\ fullFill => a = "invalidateBit" /\ b = "limitSwapOnlyFull"
      /\ ~fullFill => a = "invalidateTokenOut" /\ b = "limitSwap"
  <2>1. ASSUME fullFill PROVE a = "invalidateBit" /\ b = "limitSwapOnlyFull"
    <3>1. is[5].opcode = 18 /\ is[6].opcode = 22
        BY <1>2, <2>1, Zenon DEF Coded
    <3> QED
        BY <1>7, <3>1, Routines
  <2>2. ASSUME ~fullFill PROVE a = "invalidateTokenOut" /\ b = "limitSwap"
    <3>1. is[5].opcode = 20 /\ is[6].opcode = 21
        BY <1>2, <2>2, Zenon DEF Coded
    <3> QED
        BY <1>7, <3>1, Routines
  <2> QED
      BY <2>1, <2>2, Zenon
<1>9. PICK ended : ended = <<a, b>>
    OBVIOUS
<1>10. ended = IF fullFill THEN <<"invalidateBit", "limitSwapOnlyFull">>
                           ELSE <<"invalidateTokenOut", "limitSwap">>
  <2>1. CASE fullFill
      BY <1>8, <1>9, <2>1, Zenon
  <2>2. CASE ~fullFill
      BY <1>8, <1>9, <2>2, Zenon
  <2> QED
      BY <2>1, <2>2
<1>11. PICK began : began = <<"deadline", "salt", "jump">>
    OBVIOUS
<1>12. PICK t : t = began \o ended
    OBVIOUS
<1>13. /\ t \in Seq(names) /\ Len(t) = 5
       /\ t[1] = "deadline" /\ t[2] = "salt" /\ t[3] = "jump" /\ t[4] = a /\ t[5] = b
  <2>1. began \in Seq(names) /\ Len(began) = 3
      BY <1>7, <1>11
  <2>2. ended \in Seq(names) /\ Len(ended) = 2 /\ ended[1] = a /\ ended[2] = b
      BY <1>7, <1>9
  <2>3. t \in Seq(names) /\ Len(t) = Len(began) + Len(ended)
      BY <1>12, <2>1, <2>2, ConcatProperties
  <2>4. Len(t) = 5
      BY <2>1, <2>2, <2>3
  <2>5. \A i \in 1..(Len(began) + Len(ended)) :
          t[i] = IF i <= Len(began) THEN began[i] ELSE ended[i - Len(began)]
      BY <1>12, <2>1, <2>2, ConcatProperties
  <2>6. \A i \in 1..5 : t[i] = IF i <= 3 THEN began[i] ELSE ended[i - 3]
      BY <2>1, <2>2, <2>5
  <2>7. t[1] = began[1] /\ t[2] = began[2] /\ t[3] = began[3] /\ t[4] = ended[1] /\ t[5] = ended[2]
      BY <2>6
  <2>8. began[1] = "deadline" /\ began[2] = "salt" /\ began[3] = "jump"
      BY <1>11
  <2> QED
      BY <2>2, <2>3, <2>4, <2>7, <2>8
<1>14. PICK u : u = [k \in 1..5 |-> Routine(run[k].opcode)]
    OBVIOUS
<1>15. u[1] = "deadline" /\ u[2] = "salt" /\ u[3] = "jump" /\ u[4] = a /\ u[5] = b
  <2>1. /\ run[1].opcode = 13 /\ run[2].opcode = 30 /\ run[3].opcode = 10
        /\ run[4] = is[5] /\ run[5] = is[6]
    <3>1. run[1] = is[1] /\ run[2] = is[2] /\ run[3] = is[3] /\ run[4] = is[5] /\ run[5] = is[6]
        BY <1>4, <1>6
    <3>2. is[1].opcode = 13 /\ is[2].opcode = 30 /\ is[3].opcode = 10
        BY <1>2, Zenon DEF Coded
    <3> QED
        BY <3>1, <3>2
  <2>2. \A k \in 1..5 : u[k] = Routine(run[k].opcode)
      BY <1>14
  <2>3. 1 \in 1..5 /\ 2 \in 1..5 /\ 3 \in 1..5 /\ 4 \in 1..5 /\ 5 \in 1..5
      OBVIOUS
  <2>4. /\ u[1] = Routine(13) /\ u[2] = Routine(30) /\ u[3] = Routine(10)
        /\ u[4] = Routine(is[5].opcode) /\ u[5] = Routine(is[6].opcode)
      BY <2>1, <2>2, <2>3
  <2> QED
      BY <1>7, <2>4, Routines
<1>16. \A k \in 1..5 : u[k] = t[k]
  <2> SUFFICES ASSUME NEW k \in 1..5 PROVE u[k] = t[k]
      OBVIOUS
  <2>1. k = 1 \/ k = 2 \/ k = 3 \/ k = 4 \/ k = 5
      OBVIOUS
  <2> QED
      BY <1>13, <1>15, <2>1
<1>17. u = t
    BY <1>13, <1>14, <1>16
<1> QED
    BY <1>6, <1>10, <1>11, <1>12, <1>14, <1>17

\* An order's program is the one built of its amounts.
ProgramBuilt ==
    order # NoOrder =>
      /\ order.fullFill \in BOOLEAN
      /\ \E expiry : order.program = BuildLimitProgram(order.sellAmount, order.buyAmount,
                                                      expiry, order.fullFill)

LEMMA ProgramsStayBuilt == ProgramBuilt /\ [ProtocolNext]_protocolVars => ProgramBuilt'
<1> SUFFICES ASSUME ProgramBuilt, [ProtocolNext]_protocolVars PROVE ProgramBuilt'
    OBVIOUS
<1>1. ASSUME NEW timeInForce \in {"GTC", "GTD", "IOC", "FOK"}, NEW lifetime \in {0} \cup Lifetime,
             NEW allOrNothing \in BOOLEAN, NEW sellAmount \in SellAmount, NEW buyAmount \in BuyAmount,
             PrepareLimit(timeInForce, lifetime, allOrNothing, sellAmount, buyAmount)
      PROVE  ProgramBuilt'
  <2>1. PICK fullFill : fullFill = (allOrNothing \/ timeInForce = "FOK")
      OBVIOUS
  <2>2. PICK expiry, program, approves :
          /\ program = BuildLimitProgram(sellAmount, buyAmount, expiry, fullFill)
          /\ order' = [timeInForce |-> timeInForce, lifetime |-> lifetime, preparedAt |-> clock,
                       sellAmount |-> sellAmount, buyAmount |-> buyAmount, fullFill |-> fullFill,
                       program |-> program, approves |-> approves]
      BY <1>1, <2>1, Zenon DEF PrepareLimit
  <2>3. fullFill \in BOOLEAN
      BY <2>1
  <2>4. /\ order'.fullFill = fullFill /\ order'.sellAmount = sellAmount /\ order'.buyAmount = buyAmount
        /\ order'.program = program
      BY <2>2
  <2> QED
      BY <2>2, <2>3, <2>4, Zenon DEF ProgramBuilt
<1>2. ASSUME order' = order PROVE ProgramBuilt'
    BY <1>2 DEF ProgramBuilt
<1>3. CASE ApproveAqua \/ ShipLimit \/ Dock \/ PrepareWallet \/ Swap \/ Tick \/ \E r \in Rate : RateMoves(r)
    BY <1>2, <1>3 DEF ApproveAqua, ShipLimit, Dock, PrepareWallet, Swap, Tick, RateMoves
<1>4. ASSUME NEW exactIn \in BOOLEAN, NEW payWithNative \in BOOLEAN, NEW requested \in Requested,
             NEW bps \in Slippage, NEW lifetime \in Lifetime,
             PrepareDirect(exactIn, requested, bps, lifetime, payWithNative)
      PROVE  ProgramBuilt'
    BY <1>2, <1>4 DEF PrepareDirect
<1>5. CASE UNCHANGED protocolVars
    BY <1>2, <1>5 DEF protocolVars
<1> QED
    BY <1>1, <1>3, <1>4, <1>5 DEF ProtocolNext

\* Whatever the amounts, the lives and the kinds of orders: what a maker signs is
\* read by the indexer as he asked, and run by the router in the order that checks
\* the deadline first and never meets the balances again.
THEOREM ProgramsMeanTheirOrders == ProtocolSpec => []ProgramMeansTheOrder
<1>1. ProtocolInit => ProgramBuilt
    BY DEF ProtocolInit, ProgramBuilt
<1>2. ProgramBuilt => ProgramMeansTheOrder
  <2> SUFFICES ASSUME ProgramBuilt, order # NoOrder
               PROVE  /\ AllowedProgram(order.program)
                      /\ RecognizeLimitStrategy(order.program) =
                           [sellAmount |-> order.sellAmount, buyAmount |-> order.buyAmount]
                      /\ [k \in DOMAIN Execution(order.program) |->
                            Routine(Execution(order.program)[k].opcode)] =
                           <<"deadline", "salt", "jump">> \o
                           IF order.fullFill THEN <<"invalidateBit", "limitSwapOnlyFull">>
                                             ELSE <<"invalidateTokenOut", "limitSwap">>
      BY DEF ProgramMeansTheOrder
  <2>1. PICK sold, bought, expiry, fullFill, program :
          /\ fullFill \in BOOLEAN /\ program = BuildLimitProgram(sold, bought, expiry, fullFill)
          /\ order.program = program /\ order.sellAmount = sold /\ order.buyAmount = bought
          /\ order.fullFill = fullFill
      BY DEF ProgramBuilt
  <2>2. /\ AllowedProgram(program)
        /\ RecognizeLimitStrategy(program) = [sellAmount |-> sold, buyAmount |-> bought]
      BY <2>1, ReadAsAsked
  <2>3. PICK run : run = Execution(program)
      OBVIOUS
  <2>4. [k \in DOMAIN run |-> Routine(run[k].opcode)] =
          <<"deadline", "salt", "jump">> \o
          IF fullFill THEN <<"invalidateBit", "limitSwapOnlyFull">>
                      ELSE <<"invalidateTokenOut", "limitSwap">>
      BY <2>1, <2>3, RunAsAsked
  <2> QED
      BY <2>1, <2>2, <2>3, <2>4, Zenon
<1> QED
    BY <1>1, <1>2, ProgramsStayBuilt, PTL DEF ProtocolSpec

-----------------------------------------------------------------------------
(* The order book.  What is answered is worked out from a book that does   *)
(* not change, so that the property is its own invariant: the work is in   *)
(* the order of prices, in sums over orders and in the turns of a route.   *)

\* Prices as the book has them: an inverted price may be zero.
Fraction == [n : Nat, d : Nat \ {0}]

LEMMA TimesMonotone ==
  ASSUME NEW a \in Nat, NEW b \in Nat, NEW c \in Nat
  PROVE  a * c \in Nat /\ (a <= b => a * c <= b * c) /\ (a < b /\ c > 0 => a * c < b * c)
OBVIOUS

\* No price is between two of which neither is below the other in turn.
LEMMA NotBelow ==
  ASSUME NEW p \in Fraction, NEW q \in Fraction, NEW r \in Fraction, ~Below(p, q), ~Below(q, r)
  PROVE  ~Below(p, r)
<1>1. PICK pn \in Nat, pd \in Nat \ {0} : p.n = pn /\ p.d = pd
    BY DEF Fraction
<1>2. PICK qn \in Nat, qd \in Nat \ {0} : q.n = qn /\ q.d = qd
    BY DEF Fraction
<1>3. PICK rn \in Nat, rd \in Nat \ {0} : r.n = rn /\ r.d = rd
    BY DEF Fraction
<1>4. PICK a \in Nat, b \in Nat, c \in Nat, d \in Nat, e \in Nat, f \in Nat :
        a = pn * qd /\ b = qn * pd /\ c = qn * rd /\ d = rn * qd /\ e = pn * rd /\ f = rn * pd
    BY TimesMonotone
<1>5. b <= a /\ d <= c
    BY <1>1, <1>2, <1>3, <1>4 DEF Below
<1>6. b * rd <= a * rd /\ d * pd <= c * pd
    BY <1>5, TimesMonotone
<1>7. a * rd = e * qd /\ b * rd = c * pd /\ d * pd = f * qd
    BY <1>4
<1>8. f * qd <= e * qd
    BY <1>6, <1>7
<1>9. ~(e < f)
    BY <1>8, TimesMonotone
<1> QED
    BY <1>1, <1>3, <1>4, <1>9 DEF Below

LEMMA BelowIsStrict ==
  ASSUME NEW p \in Fraction, NEW q \in Fraction
  PROVE  ~(Below(p, q) /\ Below(q, p))
<1>1. PICK pn \in Nat, pd \in Nat \ {0} : p.n = pn /\ p.d = pd
    BY DEF Fraction
<1>2. PICK qn \in Nat, qd \in Nat \ {0} : q.n = qn /\ q.d = qd
    BY DEF Fraction
<1>3. pn * qd \in Nat /\ qn * pd \in Nat
    BY TimesMonotone
<1> QED
    BY <1>1, <1>2, <1>3 DEF Below

-----------------------------------------------------------------------------
(* The book and its order.                                                  *)

StoredOK == \E n \in Nat : stored \in [1..n -> StoredOrder]

LEMMA UnitsTyped ==
  ASSUME NEW side, NEW units \in Nat, NEW price \in Fraction
  PROVE  QuoteUnits(side, units, price) \in Nat
<1>1. PICK n \in Nat, d \in Nat \ {0} : price.n = n /\ price.d = d
    BY DEF Fraction
<1>2. PICK a \in Nat : a = units * n
    BY TimesMonotone
<1>3. \A b \in Nat : b \div d \in Nat
  <2> TAKE b \in Nat
  <2>1. d \in Int /\ d > 0
      OBVIOUS
  <2>2. b \div d \in Int /\ d * (b \div d) <= b /\ b < d * (b \div d) + d
      BY <2>1
  <2> QED
      BY <2>1, <2>2
<1>4. a + d - 1 \in Nat
    OBVIOUS
<1> QED
    BY <1>1, <1>2, <1>3, <1>4 DEF QuoteUnits, Ceil

LEMMA BookTyped ==
  ASSUME StoredOK
  PROVE  \E n \in Nat : /\ DOMAIN Book = 1..n /\ DOMAIN stored = 1..n
                        /\ \A i \in 1..n : /\ Book[i].side \in Side /\ Book[i].price \in Fraction
                                           /\ Book[i].base \in Nat
<1>1. PICK n \in Nat : stored \in [1..n -> StoredOrder]
    BY DEF StoredOK
<1>2. DOMAIN Book = 1..n /\ DOMAIN stored = 1..n /\ \A i \in 1..n : Book[i] = AsRequestedPair(stored[i])
    BY <1>1 DEF Book
<1>3. ASSUME NEW o \in StoredOrder
      PROVE  LET b == AsRequestedPair(o) IN b.side \in Side /\ b.price \in Fraction /\ b.base \in Nat
  <2>1. o.side \in Side /\ o.price \in Price /\ o.base \in Nat
      BY BookAssumption DEF StoredOrder
  <2>2. PICK pn \in Nat \ {0}, pd \in Nat \ {0} : o.price = [n |-> pn, d |-> pd]
      BY <2>1, BookAssumption
  <2>3. o.price \in Fraction
      BY <2>2 DEF Fraction
  <2>4. InvertPrice(o.price) \in Fraction
    <3>1. PICK a \in Nat : a = pd * Precision
        BY TimesMonotone, BookAssumption
    <3>2. \A b \in Nat : b \div pn \in Nat
      <4> TAKE b \in Nat
      <4>1. pn \in Int /\ pn > 0
          OBVIOUS
      <4>2. b \div pn \in Int /\ pn * (b \div pn) <= b /\ b < pn * (b \div pn) + pn
          BY <4>1
      <4> QED
          BY <4>1, <4>2
    <3> QED
        BY <2>2, <3>1, <3>2, BookAssumption DEF InvertPrice, Fraction
  <2>5. QuoteUnits(o.side, o.base, o.price) \in Nat
      BY <2>1, <2>3, UnitsTyped
  <2>6. Flip(o.side) \in Side
      BY DEF Flip, Side
  <2> QED
      BY <2>1, <2>3, <2>4, <2>5, <2>6 DEF AsRequestedPair, StoredOrder
<1> QED
    BY <1>1, <1>2, <1>3

\* Which orders come before which is a strict order of the whole book.
LEMMA OrdersInTurn ==
  ASSUME StoredOK, NEW side, NEW i \in DOMAIN Book, NEW j \in DOMAIN Book
  PROVE  /\ ~(Before(side, i, j) /\ Before(side, j, i))
         /\ i # j => Before(side, i, j) \/ Before(side, j, i)
         /\ \A k \in DOMAIN Book : Before(side, i, j) /\ Before(side, j, k) => Before(side, i, k)
<1>1. PICK n \in Nat : DOMAIN Book = 1..n /\ \A x \in 1..n : Book[x].price \in Fraction
    BY BookTyped
<1>2. \A x, y \in DOMAIN Book : ~(Below(Book[x].price, Book[y].price) /\ Below(Book[y].price, Book[x].price))
    BY <1>1, BelowIsStrict
<1>3. \A x, y, z \in DOMAIN Book :
         ~Below(Book[x].price, Book[y].price) /\ ~Below(Book[y].price, Book[z].price)
           => ~Below(Book[x].price, Book[z].price)
    BY <1>1, NotBelow
<1>4. ~(Before(side, i, j) /\ Before(side, j, i))
    BY <1>1, <1>2 DEF Before
<1>5. i # j => Before(side, i, j) \/ Before(side, j, i)
    BY <1>1 DEF Before
<1>6. \A k \in DOMAIN Book : Before(side, i, j) /\ Before(side, j, k) => Before(side, i, k)
    BY <1>1, <1>2, <1>3 DEF Before
<1> QED
    BY <1>4, <1>5, <1>6

-----------------------------------------------------------------------------
(* Orders in turn.                                                          *)

\* How many of S come before it.
Rank(S, side, i) == Cardinality({j \in S : Before(side, j, i)})

LEMMA OrdersFinite ==
  ASSUME StoredOK, NEW S \in SUBSET DOMAIN Book
  PROVE  IsFiniteSet(S) /\ Cardinality(S) \in Nat
<1>1. PICK n \in Nat : DOMAIN Book = 1..n
    BY BookTyped
<1>2. IsFiniteSet(1..n)
    BY FS_Interval
<1> QED
    BY <1>1, <1>2, FS_Subset, FS_CardinalityType

\* Of two orders the earlier has fewer before it.
LEMMA RanksGrow ==
  ASSUME StoredOK, NEW S \in SUBSET DOMAIN Book, NEW side, NEW i \in S, NEW j \in S, Before(side, i, j)
  PROVE  Rank(S, side, i) < Rank(S, side, j)
<1> DEFINE I == {x \in S : Before(side, x, i)}
           J == {x \in S : Before(side, x, j)}
<1>1. I \subseteq J
    BY OrdersInTurn
<1>2. i \in J /\ i \notin I
    BY OrdersInTurn
<1>3. IsFiniteSet(J) /\ Cardinality(J) \in Nat /\ IsFiniteSet(I) /\ Cardinality(I) \in Nat
    BY OrdersFinite
<1>4. Cardinality(I) <= Cardinality(J) /\ Cardinality(I) # Cardinality(J)
  <2> HIDE DEF I, J
  <2> QED
      BY <1>1, <1>2, <1>3, FS_Subset
<1> QED
    BY <1>3, <1>4 DEF Rank

\* For each place there is one order of S.
LEMMA PlacesAreTaken ==
  ASSUME StoredOK, NEW S \in SUBSET DOMAIN Book, NEW side
  PROVE  /\ \A i, j \in S : Rank(S, side, i) = Rank(S, side, j) => i = j
         /\ \A i \in S : Rank(S, side, i) + 1 \in 1..Cardinality(S)
         /\ \A k \in 1..Cardinality(S) : \E i \in S : Rank(S, side, i) = k - 1
<1>1. IsFiniteSet(S) /\ Cardinality(S) \in Nat
    BY OrdersFinite
<1>2. ASSUME NEW i \in S PROVE Rank(S, side, i) + 1 \in 1..Cardinality(S)
  <2>1. {x \in S : Before(side, x, i)} \subseteq S \ {i}
      BY OrdersInTurn
  <2>2. IsFiniteSet(S \ {i}) /\ Cardinality(S \ {i}) = Cardinality(S) - 1
      BY <1>1, FS_RemoveElement
  <2>3. Rank(S, side, i) \in Nat
      BY OrdersFinite DEF Rank
  <2>4. Rank(S, side, i) <= Cardinality(S \ {i})
      BY <2>1, <2>2, FS_Subset DEF Rank
  <2> QED
      BY <1>1, <2>2, <2>3, <2>4
<1>3. ASSUME NEW i \in S, NEW j \in S, Rank(S, side, i) = Rank(S, side, j) PROVE i = j
  <2>1. Rank(S, side, i) \in Nat
      BY OrdersFinite DEF Rank
  <2>2. CASE Before(side, i, j)
      BY <1>3, <2>1, <2>2, RanksGrow
  <2>3. CASE Before(side, j, i)
      BY <1>3, <2>1, <2>3, RanksGrow
  <2> QED
      BY <2>2, <2>3, OrdersInTurn
<1>4. PICK f : f = [i \in S |-> Rank(S, side, i) + 1]
    OBVIOUS
<1>5. f \in Injection(S, 1..Cardinality(S))
  <2>1. f \in [S -> 1..Cardinality(S)] /\ DOMAIN f = S
      BY <1>2, <1>4
  <2>2. \A i, j \in S : f[i] = f[j] => i = j
    <3> TAKE i, j \in S
    <3>1. Rank(S, side, i) \in Nat /\ Rank(S, side, j) \in Nat
        BY OrdersFinite DEF Rank
    <3> QED
        BY <1>3, <1>4, <3>1
  <2> QED
      BY <2>1, <2>2 DEF Injection, IsInjective
<1>6. IsFiniteSet(1..Cardinality(S)) /\ Cardinality(1..Cardinality(S)) = Cardinality(S)
    BY <1>1, FS_Interval
<1>7. f \in Surjection(S, 1..Cardinality(S))
    BY <1>5, <1>6, FS_Injection
<1>8. \A k \in 1..Cardinality(S) : \E i \in S : Rank(S, side, i) = k - 1
  <2> TAKE k \in 1..Cardinality(S)
  <2>1. PICK i \in S : f[i] = k
      BY <1>7 DEF Surjection
  <2>2. Rank(S, side, i) \in Nat /\ Rank(S, side, i) + 1 = k
      BY <1>4, <2>1, OrdersFinite DEF Rank
  <2> QED
      BY <2>2
<1> QED
    BY <1>2, <1>3, <1>8

InTurn(S, side, n, s) ==
    /\ s \in [1..n -> S] /\ s \in Seq(S) /\ Len(s) = n
    /\ \A k, l \in 1..n : k < l => Before(side, s[k], s[l])
    /\ \A k, l \in 1..n : s[k] = s[l] => k = l
    /\ \A i \in S : \E k \in 1..n : s[k] = i
    /\ \A k \in 1..n : Rank(S, side, s[k]) = k - 1

LEMMA SortedInTurn ==
  ASSUME StoredOK, NEW S \in SUBSET DOMAIN Book, NEW side
  PROVE  InTurn(S, side, Cardinality(S), Sorted(S, side))
<1> DEFINE s == Sorted(S, side)
           n == Cardinality(S)
<1>1. n \in Nat
    BY OrdersFinite
<1>2. s = [k \in 1..n |-> CHOOSE i \in S : Rank(S, side, i) = k - 1]
    BY DEF Sorted, Rank
<1>3. \A k \in 1..n : s[k] \in S /\ Rank(S, side, s[k]) = k - 1
  <2> TAKE k \in 1..n
  <2>1. \E i \in S : Rank(S, side, i) = k - 1
      BY PlacesAreTaken
  <2>2. s[k] = CHOOSE i \in S : Rank(S, side, i) = k - 1
      BY <1>2
  <2> HIDE DEF s
  <2> QED
      BY <2>1, <2>2
<1> HIDE DEF s
<1>4. s \in [1..n -> S]
    BY <1>2, <1>3
<1>5. s \in Seq(S) /\ Len(s) = n
    BY <1>1, <1>4, SeqDef, LenProperties
<1>6. \A k, l \in 1..n : k < l => Before(side, s[k], s[l])
  <2> TAKE k, l \in 1..n
  <2> HAVE k < l
  <2>1. s[k] # s[l]
      BY <1>1, <1>3
  <2>2. ~Before(side, s[l], s[k])
    <3> SUFFICES ASSUME Before(side, s[l], s[k]) PROVE FALSE
        OBVIOUS
    <3>1. PICK a \in S, b \in S : a = s[l] /\ b = s[k]
        BY <1>3
    <3>2. Rank(S, side, a) < Rank(S, side, b)
        BY <3>1, RanksGrow
    <3> QED
        BY <1>1, <1>3, <3>1, <3>2
  <2> QED
      BY <1>3, <2>1, <2>2, OrdersInTurn
<1>7. \A k, l \in 1..n : s[k] = s[l] => k = l
    BY <1>1, <1>3
<1>8. \A i \in S : \E k \in 1..n : s[k] = i
  <2> TAKE i \in S
  <2>1. Rank(S, side, i) + 1 \in 1..n /\ Rank(S, side, i) \in Nat
    <3>1. Rank(S, side, i) \in Nat
        BY OrdersFinite DEF Rank
    <3>2. Rank(S, side, i) + 1 \in 1..n
        BY PlacesAreTaken
    <3> QED
        BY <3>1, <3>2
  <2>2. PICK k \in 1..n : k = Rank(S, side, i) + 1
      BY <2>1
  <2>3. Rank(S, side, s[k]) = Rank(S, side, i) /\ s[k] \in S
      BY <1>3, <2>1, <2>2
  <2> QED
      BY <2>3, PlacesAreTaken
<1> QED
    BY <1>3, <1>4, <1>5, <1>6, <1>7, <1>8 DEF s, InTurn

-----------------------------------------------------------------------------
(* Sums over a finite set.                                                  *)

LEMMA LeastOfSome ==
  ASSUME NEW T \in SUBSET Nat, T # {}
  PROVE  \E n \in T : \A m \in T : n <= m
<1>1. PICK n \in T : \A m \in T : <<m, n>> \notin OpToRel(<, Nat)
    BY NatLessThanWellFounded, WFMin
<1>2. \A m \in T : ~(m < n)
    BY <1>1 DEF OpToRel
<1> QED
    BY <1>2

\* What a sum over S is by its recursive definition.
SumBody(w, f, S) == IF S = {} THEN 0 ELSE LET x == CHOOSE y \in S : TRUE IN w[x] + f[S \ {x}]
Sums(w, D, f) == f = [S \in SUBSET D |-> SumBody(w, f, S)]
Fewer(D, n) == {S \in SUBSET D : Cardinality(S) < n}
SumsBelow(w, D, n) == \E f : \A S \in Fewer(D, n) : f[S] = SumBody(w, f, S)

LEMMA ElementsCounted ==
  ASSUME NEW D, IsFiniteSet(D), NEW S \in SUBSET D
  PROVE  /\ IsFiniteSet(S) /\ Cardinality(S) \in 0..Cardinality(D) /\ Cardinality(D) \in Nat
         /\ S # {} => (CHOOSE x \in S : TRUE) \in S
         /\ \A x \in S : Cardinality(S \ {x}) = Cardinality(S) - 1 /\ Cardinality(S) > 0
<1>1. IsFiniteSet(S) /\ Cardinality(S) <= Cardinality(D)
    BY FS_Subset
<1>2. Cardinality(S) \in Nat /\ Cardinality(D) \in Nat
    BY <1>1, FS_CardinalityType
<1>3. \A x \in S : Cardinality(S \ {x}) = Cardinality(S) - 1 /\ Cardinality(S) > 0
  <2> TAKE x \in S
  <2>1. Cardinality(S \ {x}) = Cardinality(S) - 1
      BY <1>1, FS_RemoveElement
  <2>2. Cardinality(S) # 0
      BY <1>1, FS_EmptySet
  <2> QED
      BY <1>2, <2>1, <2>2
<1>4. S # {} => (CHOOSE x \in S : TRUE) \in S
    BY Zenon
<1> QED
    BY <1>1, <1>2, <1>3, <1>4

\* The recursion has a solution for the sets below any size.
LEMMA SumsOfFewer ==
  ASSUME NEW D, IsFiniteSet(D), NEW w, NEW n \in Nat
  PROVE  SumsBelow(w, D, n)
<1> DEFINE Given(m) == \E f : \A S \in Fewer(D, m) : f[S] = SumBody(w, f, S)
           lacking == {m \in Nat : ~Given(m)}
<1>1. ASSUME lacking # {} PROVE FALSE
  <2>1. lacking \in SUBSET Nat
      OBVIOUS
  <2>2. PICK m \in lacking : \A k \in lacking : m <= k
    <3> HIDE DEF lacking
    <3> QED
        BY <1>1, <2>1, LeastOfSome
  <2>3. m \in Nat /\ ~Given(m)
      OBVIOUS
  <2>4. m # 0
    <3>1. Fewer(D, 0) = {}
        BY ElementsCounted DEF Fewer
    <3> QED
        BY <2>3, <3>1
  <2>5. m - 1 \in Nat /\ m - 1 < m
      BY <2>3, <2>4
  <2>6. Given(m - 1)
    <3>1. m - 1 \notin lacking
      <4> HIDE DEF lacking
      <4> QED
          BY <2>2, <2>3, <2>5
    <3> QED
        BY <2>5, <3>1
  <2>7. PICK f : \A S \in Fewer(D, m - 1) : f[S] = SumBody(w, f, S)
      BY <2>6
  <2>8. PICK g : g = [S \in SUBSET D |-> SumBody(w, f, S)]
      OBVIOUS
  <2>9. ASSUME NEW S \in Fewer(D, m) PROVE g[S] = SumBody(w, g, S)
    <3>1. S \in SUBSET D /\ Cardinality(S) < m
        BY DEF Fewer
    <3>2. CASE S = {}
        BY <2>8, <3>1, <3>2 DEF SumBody
    <3>3. CASE S # {}
      <4>1. PICK x : x = CHOOSE y \in S : TRUE
          OBVIOUS
      <4>2. x \in S
          BY <3>1, <3>3, <4>1, ElementsCounted
      <4>3. PICK R : R = S \ {x}
          OBVIOUS
      <4>4. R \in Fewer(D, m - 1) /\ R \in SUBSET D
        <5>1. Cardinality(R) = Cardinality(S) - 1 /\ Cardinality(S) \in Nat
            BY <3>1, <4>2, <4>3, ElementsCounted
        <5> QED
            BY <2>3, <3>1, <4>3, <5>1 DEF Fewer
      <4>5. g[R] = f[R]
          BY <2>7, <2>8, <4>4
      <4>6. SumBody(w, g, S) = w[x] + g[R] /\ SumBody(w, f, S) = w[x] + f[R]
          BY <3>3, <4>1, <4>3, Zenon DEF SumBody
      <4> QED
          BY <2>8, <3>1, <4>5, <4>6
    <3> QED
        BY <3>2, <3>3
  <2> QED
      BY <2>3, <2>9
<1> QED
    BY <1>1 DEF SumsBelow

LEMMA SumsExist ==
  ASSUME NEW D, IsFiniteSet(D), NEW w
  PROVE  \E f : Sums(w, D, f)
<1>1. PICK n \in Nat : n = Cardinality(D) + 1
    BY FS_CardinalityType
<1>2. PICK f : \A S \in Fewer(D, n) : f[S] = SumBody(w, f, S)
  <2>1. SumsBelow(w, D, n)
      BY SumsOfFewer
  <2> QED
      BY <2>1 DEF SumsBelow
<1>3. \A S \in SUBSET D : f[S] = SumBody(w, f, S)
    BY <1>1, <1>2, ElementsCounted DEF Fewer
<1>4. PICK g : g = [S \in SUBSET D |-> f[S]]
    OBVIOUS
<1>5. \A S \in SUBSET D : g[S] = SumBody(w, g, S)
  <2> TAKE S \in SUBSET D
  <2>1. PICK x : x = CHOOSE y \in S : TRUE
      OBVIOUS
  <2>2. S \ {x} \in SUBSET D
      OBVIOUS
  <2>3. g[S] = f[S] /\ g[S \ {x}] = f[S \ {x}]
      BY <1>4, <2>2
  <2> QED
      BY <1>3, <2>1, <2>3 DEF SumBody
<1> QED
    BY <1>4, <1>5 DEF Sums

\* The library's sum is such a solution, over the set it is taken over.
LEMMA SumIsOne ==
  ASSUME NEW D, IsFiniteSet(D), NEW w
  PROVE  \E f : Sums(w, D, f) /\ SumFunctionOnSet(w, D) = f[D]
<1> DEFINE Solves(f) == f = [S \in SUBSET D |-> IF S = {} THEN 0
                               ELSE LET x == CHOOSE y \in S : TRUE IN w[x] + f[S \ {x}]]
<1>1. \A f : Solves(f) <=> Sums(w, D, f)
    BY DEF Sums, SumBody
<1>2. PICK f : f = CHOOSE g : Solves(g)
    OBVIOUS
<1>3. SumFunctionOnSet(w, D) = f[D]
    BY <1>2 DEF SumFunctionOnSet, FoldFunctionOnSet, MapThenFoldSet
<1>4. Sums(w, D, f)
  <2> HIDE DEF Solves
  <2>1. \E g : Solves(g)
      BY <1>1, SumsExist
  <2> QED
      BY <1>1, <1>2, <2>1
<1> QED
    BY <1>3, <1>4

\* Two solutions agree on what they both cover.
LEMMA SumsAgree ==
  ASSUME NEW D, IsFiniteSet(D), NEW E \in SUBSET D, NEW w, NEW f, Sums(w, D, f), NEW g, Sums(w, E, g)
  PROVE  \A S \in SUBSET E : f[S] = g[S]
<1> DEFINE apart == {Cardinality(S) : S \in {R \in SUBSET E : f[R] # g[R]}}
<1>1. ASSUME apart # {} PROVE FALSE
  <2>1. apart \in SUBSET Nat
      BY ElementsCounted
  <2>2. PICK n \in apart : \A m \in apart : n <= m
    <3> HIDE DEF apart
    <3> QED
        BY <1>1, <2>1, LeastOfSome
  <2>3. PICK S \in SUBSET E : f[S] # g[S] /\ n = Cardinality(S)
      BY <2>2
  <2>4. S \in SUBSET D /\ f[S] = SumBody(w, f, S) /\ g[S] = SumBody(w, g, S)
      BY <2>3 DEF Sums
  <2>5. CASE S = {}
      BY <2>3, <2>4, <2>5 DEF SumBody
  <2>6. CASE S # {}
    <3>1. PICK x : x = CHOOSE y \in S : TRUE
        OBVIOUS
    <3>2. PICK R \in SUBSET E : R = S \ {x}
        OBVIOUS
    <3>3. x \in S /\ Cardinality(R) = Cardinality(S) - 1 /\ Cardinality(S) \in Nat
        BY <2>4, <2>6, <3>1, <3>2, ElementsCounted
    <3>4. f[R] = g[R]
      <4>1. f[R] # g[R] => Cardinality(R) \in apart
          OBVIOUS
      <4> HIDE DEF apart
      <4> QED
          BY <2>2, <2>3, <3>3, <4>1
    <3>5. SumBody(w, f, S) = w[x] + f[R] /\ SumBody(w, g, S) = w[x] + g[R]
        BY <2>6, <3>1, <3>2, Zenon DEF SumBody
    <3> QED
        BY <2>3, <2>4, <3>4, <3>5
  <2> QED
      BY <2>5, <2>6
<1> QED
    BY <1>1

\* A solution adds up in any order.
LEMMA SolutionAddsUp ==
  ASSUME NEW D, IsFiniteSet(D), NEW w, \A x \in D : w[x] \in Nat, NEW f, Sums(w, D, f)
  PROVE  \A S \in SUBSET D : f[S] \in Nat /\ \A x \in S : f[S] = w[x] + f[S \ {x}]
<1> DEFINE Right(S) == f[S] \in Nat /\ \A x \in S : f[S] = w[x] + f[S \ {x}]
           wrong == {Cardinality(S) : S \in {R \in SUBSET D : ~Right(R)}}
<1>1. ASSUME wrong # {} PROVE FALSE
  <2>1. wrong \in SUBSET Nat
      BY ElementsCounted
  <2>2. PICK n \in wrong : \A m \in wrong : n <= m
    <3> HIDE DEF wrong
    <3> QED
        BY <1>1, <2>1, LeastOfSome
  <2>3. PICK S \in SUBSET D : ~Right(S) /\ n = Cardinality(S)
      BY <2>2
  <2>4. ASSUME NEW R \in SUBSET D, Cardinality(R) < Cardinality(S) PROVE Right(R)
    <3>1. ~Right(R) => Cardinality(R) \in wrong
        OBVIOUS
    <3>2. Cardinality(R) \in Nat /\ Cardinality(S) \in Nat
        BY ElementsCounted
    <3> HIDE DEF wrong, Right
    <3> QED
        BY <2>2, <2>3, <2>4, <3>1, <3>2
  <2>5. f[S] = SumBody(w, f, S)
      BY DEF Sums
  <2>6. CASE S = {}
      BY <2>3, <2>5, <2>6 DEF SumBody
  <2>7. CASE S # {}
    <3>1. PICK c : c = CHOOSE x \in S : TRUE
        OBVIOUS
    <3>2. c \in S
        BY <2>7, <3>1
    <3>3. f[S] = w[c] + f[S \ {c}]
        BY <2>5, <2>7, <3>1, Zenon DEF SumBody
    <3>4. \A x \in S : Right(S \ {x}) /\ w[x] \in Nat
      <4> TAKE x \in S
      <4>1. S \ {x} \in SUBSET D /\ Cardinality(S \ {x}) < Cardinality(S)
          BY ElementsCounted
      <4> HIDE DEF Right
      <4> QED
          BY <2>4, <4>1
    <3>5. f[S] \in Nat
      <4>1. f[S \ {c}] \in Nat /\ w[c] \in Nat
          BY <3>2, <3>4
      <4> QED
          BY <3>3, <4>1
    <3>6. ASSUME NEW x \in S PROVE f[S] = w[x] + f[S \ {x}]
      <4>1. CASE x = c
          BY <3>3, <4>1
      <4>2. CASE x # c
        <5>1. PICK R : R = (S \ {c}) \ {x}
            OBVIOUS
        <5>2. R = (S \ {x}) \ {c} /\ x \in S \ {c} /\ c \in S \ {x}
            BY <3>2, <4>2, <5>1
        <5>3. f[S \ {c}] = w[x] + f[R] /\ f[S \ {x}] = w[c] + f[R]
            BY <3>2, <3>4, <5>1, <5>2
        <5>4. PICK T \in SUBSET D : T = S \ {c} /\ Cardinality(T) < Cardinality(S)
          <6>1. Cardinality(S \ {c}) = Cardinality(S) - 1 /\ Cardinality(S) \in Nat
              BY <3>2, ElementsCounted
          <6> QED
              BY <6>1
        <5>5. R \in SUBSET D /\ Cardinality(R) < Cardinality(S)
          <6>1. R = T \ {x} /\ x \in T
              BY <5>1, <5>2, <5>4
          <6>2. Cardinality(R) = Cardinality(T) - 1 /\ Cardinality(T) \in Nat /\ Cardinality(S) \in Nat
              BY <6>1, ElementsCounted
          <6> QED
              BY <5>4, <6>1, <6>2
        <5>6. f[R] \in Nat
            BY <2>4, <5>5
        <5>7. w[x] \in Nat /\ w[c] \in Nat
            BY <3>2
        <5> QED
            BY <3>3, <5>3, <5>6, <5>7
      <4> QED
          BY <4>1, <4>2
    <3> QED
        BY <2>3, <3>5, <3>6
  <2> QED
      BY <2>6, <2>7
<1> QED
    BY <1>1

\* What sums of natural numbers are for the proofs below.
LEMMA SumAddsUp ==
  ASSUME NEW D, IsFiniteSet(D), NEW w, \A x \in D : w[x] \in Nat
  PROVE  /\ SumFunctionOnSet(w, {}) = 0
         /\ \A S \in SUBSET D : SumFunctionOnSet(w, S) \in Nat
         /\ \A S \in SUBSET D : \A x \in S : SumFunctionOnSet(w, S) = w[x] + SumFunctionOnSet(w, S \ {x})
<1>1. PICK f : Sums(w, D, f)
    BY SumsExist
<1>2. \A S \in SUBSET D : SumFunctionOnSet(w, S) = f[S]
  <2> TAKE S \in SUBSET D
  <2>1. IsFiniteSet(S)
      BY FS_Subset
  <2>2. PICK g : Sums(w, S, g) /\ SumFunctionOnSet(w, S) = g[S]
      BY <2>1, SumIsOne
  <2>3. \A R \in SUBSET S : f[R] = g[R]
      BY <1>1, <2>2, SumsAgree
  <2> QED
      BY <2>2, <2>3
<1>3. \A S \in SUBSET D : f[S] \in Nat /\ \A x \in S : f[S] = w[x] + f[S \ {x}]
    BY <1>1, SolutionAddsUp
<1>4. f[{}] = 0
    BY <1>1 DEF Sums, SumBody
<1>5. {} \in SUBSET D /\ \A S \in SUBSET D : \A x \in S : S \ {x} \in SUBSET D
    OBVIOUS
<1> QED
    BY <1>2, <1>3, <1>4, <1>5

\* A part adds up to no more.
LEMMA SumOfPart ==
  ASSUME NEW D, IsFiniteSet(D), NEW w, \A x \in D : w[x] \in Nat, NEW T \in SUBSET D
  PROVE  SumFunctionOnSet(w, T) <= SumFunctionOnSet(w, D)
<1> DEFINE Above == {V \in SUBSET D : T \subseteq V}
           Right(V) == SumFunctionOnSet(w, T) <= SumFunctionOnSet(w, V)
           wrong == {Cardinality(V) : V \in {W \in Above : ~Right(W)}}
<1>1. ASSUME wrong # {} PROVE FALSE
  <2>1. wrong \in SUBSET Nat
      BY ElementsCounted
  <2>2. PICK n \in wrong : \A m \in wrong : n <= m
    <3> HIDE DEF wrong
    <3> QED
        BY <1>1, <2>1, LeastOfSome
  <2>3. PICK V \in Above : ~Right(V) /\ n = Cardinality(V)
      BY <2>2
  <2>4. SumFunctionOnSet(w, T) \in Nat
      BY SumAddsUp
  <2>5. PICK x : x \in V \ T
      BY <2>3, <2>4
  <2>6. V \in SUBSET D /\ x \in V /\ V \ {x} \in Above
      BY <2>5
  <2>7. Cardinality(V \ {x}) < Cardinality(V) /\ Cardinality(V \ {x}) \in Nat /\ Cardinality(V) \in Nat
    <3>1. Cardinality(V \ {x}) = Cardinality(V) - 1 /\ Cardinality(V) > 0 /\ Cardinality(V) \in Nat
        BY <2>6, ElementsCounted
    <3> QED
        BY <3>1
  <2>8. Right(V \ {x})
    <3>1. ~Right(V \ {x}) => Cardinality(V \ {x}) \in wrong
        BY <2>6
    <3> HIDE DEF wrong, Right
    <3> QED
        BY <2>2, <2>3, <2>7, <3>1
  <2>9. PICK R \in SUBSET D : R = V \ {x}
      BY <2>6
  <2>10. SumFunctionOnSet(w, V) = w[x] + SumFunctionOnSet(w, R) /\ SumFunctionOnSet(w, R) \in Nat /\ w[x] \in Nat
      BY <2>6, <2>9, SumAddsUp
  <2> QED
      BY <2>3, <2>4, <2>8, <2>9, <2>10
<1> QED
    BY <1>1

-----------------------------------------------------------------------------
(* The route.                                                               *)

\* What is still wanted after the first k capacities, and that it is so up to n.
StillWanted(wanted, capacity) == IF wanted < capacity THEN 0 ELSE wanted - capacity
WantedUpTo(amount, capacities, n, w) ==
    w = [k \in 0..n |-> IF k = 0 THEN amount ELSE StillWanted(w[k - 1], capacities[k])]
Wanted(amount, capacities, n) == \E w : WantedUpTo(amount, capacities, n, w)

LEMMA WantedExists ==
  ASSUME NEW amount, NEW capacities, NEW n \in Nat
  PROVE  Wanted(amount, capacities, n)
<1> DEFINE lacking == {m \in Nat : ~Wanted(amount, capacities, m)}
<1>1. ASSUME lacking # {} PROVE FALSE
  <2>1. lacking \in SUBSET Nat
      OBVIOUS
  <2>2. PICK m \in lacking : \A k \in lacking : m <= k
    <3> HIDE DEF lacking
    <3> QED
        BY <1>1, <2>1, LeastOfSome
  <2>3. m \in Nat /\ ~Wanted(amount, capacities, m)
      OBVIOUS
  <2>4. m # 0
    <3>1. PICK w : w = [k \in 0..0 |-> amount]
        OBVIOUS
    <3>2. WantedUpTo(amount, capacities, 0, w)
        BY <3>1 DEF WantedUpTo
    <3> QED
        BY <2>3, <3>2 DEF Wanted
  <2>5. m - 1 \in Nat /\ m - 1 < m
      BY <2>3, <2>4
  <2>6. Wanted(amount, capacities, m - 1)
    <3>1. m - 1 \notin lacking
      <4> HIDE DEF lacking
      <4> QED
          BY <2>2, <2>3, <2>5
    <3> QED
        BY <2>5, <3>1
  <2>7. PICK w : WantedUpTo(amount, capacities, m - 1, w)
      BY <2>6 DEF Wanted
  <2>8. PICK v : v = [k \in 0..m |-> IF k = 0 THEN amount ELSE StillWanted(w[k - 1], capacities[k])]
      OBVIOUS
  <2>9. \A k \in 0..(m - 1) : v[k] = w[k]
      BY <2>5, <2>7, <2>8 DEF WantedUpTo
  <2>10. \A k \in 0..m : k # 0 => v[k - 1] = w[k - 1]
      BY <2>3, <2>9
  <2>11. WantedUpTo(amount, capacities, m, v)
      BY <2>8, <2>10 DEF WantedUpTo
  <2> QED
      BY <2>3, <2>11 DEF Wanted
<1> QED
    BY <1>1

Capacities(s, denomination) == [k \in 1..Len(s) |-> Capacity(s[k], denomination)]

LEMMA WantedUnfolds ==
  ASSUME NEW s, NEW r, Len(s) \in Nat
  PROVE  WantedUpTo(r.amount, Capacities(s, r.denomination), Len(s), WantedAfter(s, r))
<1> DEFINE Solves(w) == w = [k \in 0..Len(s) |->
             IF k = 0 THEN r.amount
             ELSE LET capacity == Capacity(s[k], r.denomination)
                  IN  IF w[k - 1] < capacity THEN 0 ELSE w[k - 1] - capacity]
<1>1. WantedAfter(s, r) = CHOOSE w : Solves(w)
    BY DEF WantedAfter
<1>2. ASSUME NEW w PROVE Solves(w) <=> WantedUpTo(r.amount, Capacities(s, r.denomination), Len(s), w)
  <2>1. \A k \in 0..Len(s) : k # 0 => Capacities(s, r.denomination)[k] = Capacity(s[k], r.denomination)
      BY DEF Capacities
  <2> QED
      BY <2>1 DEF WantedUpTo, StillWanted
<1>3. Wanted(r.amount, Capacities(s, r.denomination), Len(s))
    BY WantedExists
<1>4. \E w : Solves(w)
  <2> HIDE DEF Solves
  <2> QED
      BY <1>2, <1>3 DEF Wanted
<1> HIDE DEF Solves
<1> QED
    BY <1>1, <1>2, <1>4

\* What is wanted is a number and only falls.
LEMMA WantedFalls ==
  ASSUME NEW amount \in Nat, NEW n \in Nat, NEW capacities, \A k \in 1..n : capacities[k] \in Nat,
         NEW w, WantedUpTo(amount, capacities, n, w)
  PROVE  /\ w[0] = amount
         /\ \A k \in 0..n : w[k] \in Nat
         /\ \A k \in 1..n : /\ w[k] = StillWanted(w[k - 1], capacities[k]) /\ w[k] <= w[k - 1]
                            /\ w[k - 1] - w[k] <= capacities[k] /\ w[k - 1] - w[k] \in Nat
                            /\ w[k] > 0 => w[k - 1] - w[k] = capacities[k]
<1> DEFINE untyped == {k \in 0..n : w[k] \notin Nat}
<1>1. w[0] = amount /\ \A k \in 1..n : w[k] = StillWanted(w[k - 1], capacities[k])
    BY DEF WantedUpTo
<1>2. ASSUME untyped # {} PROVE FALSE
  <2>1. untyped \in SUBSET Nat
      OBVIOUS
  <2>2. PICK k \in untyped : \A l \in untyped : k <= l
    <3> HIDE DEF untyped
    <3> QED
        BY <1>2, <2>1, LeastOfSome
  <2>3. k \in 1..n /\ w[k] \notin Nat
      BY <1>1
  <2>4. k - 1 \in 0..n /\ k - 1 < k
      BY <2>3
  <2>5. k - 1 \notin untyped
    <3> HIDE DEF untyped
    <3> QED
        BY <2>2, <2>3, <2>4
  <2>6. w[k - 1] \in Nat
      BY <2>4, <2>5
  <2> QED
      BY <1>1, <2>3, <2>6 DEF StillWanted
<1>3. \A k \in 0..n : w[k] \in Nat
    BY <1>2
<1>4. ASSUME NEW k \in 1..n
      PROVE  /\ w[k] <= w[k - 1] /\ w[k - 1] - w[k] <= capacities[k] /\ w[k - 1] - w[k] \in Nat
             /\ w[k] > 0 => w[k - 1] - w[k] = capacities[k]
  <2>1. PICK b \in Nat, c \in Nat : b = w[k - 1] /\ c = capacities[k]
    <3>1. k - 1 \in 0..n
        OBVIOUS
    <3> QED
        BY <1>3, <3>1
  <2>2. w[k] = IF b < c THEN 0 ELSE b - c
      BY <1>1, <2>1 DEF StillWanted
  <2> QED
      BY <2>1, <2>2
<1> QED
    BY <1>1, <1>3, <1>4

\* Nothing is wanted any more after nothing was.
LEMMA NothingMoreWanted ==
  ASSUME NEW amount \in Nat, NEW n \in Nat, NEW capacities, \A k \in 1..n : capacities[k] \in Nat,
         NEW w, WantedUpTo(amount, capacities, n, w), NEW m \in 0..n, w[m] = 0
  PROVE  \A k \in m..n : w[k] = 0
<1> DEFINE wrong == {k \in m..n : w[k] # 0}
<1>1. ASSUME wrong # {} PROVE FALSE
  <2>1. wrong \in SUBSET Nat
      OBVIOUS
  <2>2. PICK k \in wrong : \A l \in wrong : k <= l
    <3> HIDE DEF wrong
    <3> QED
        BY <1>1, <2>1, LeastOfSome
  <2>3. k \in 1..n /\ k - 1 \in m..n /\ k - 1 < k /\ w[k] # 0
      OBVIOUS
  <2>4. k - 1 \notin wrong
    <3> HIDE DEF wrong
    <3> QED
        BY <2>2, <2>3
  <2>5. w[k - 1] = 0
      BY <2>3, <2>4
  <2>6. w[k] \in Nat /\ w[k] <= w[k - 1]
      BY <2>3, WantedFalls
  <2> QED
      BY <2>3, <2>5, <2>6
<1> QED
    BY <1>1

TakenUpTo(capacities, n, w, m) ==
    /\ m \in 1..n /\ {k \in 1..n : w[k - 1] > 0} = 1..m
    /\ \A k \in 1..(m - 1) : w[k - 1] - w[k] = capacities[k]
    /\ w[m] = w[n]
    /\ w[n] > 0 => m = n /\ w[m - 1] - w[m] = capacities[m]

\* The capacities that are reached are the first ones; all but the last are used up.
LEMMA ReachedFirst ==
  ASSUME NEW amount \in Nat \ {0}, NEW n \in Nat \ {0}, NEW capacities, \A k \in 1..n : capacities[k] \in Nat,
         NEW w, WantedUpTo(amount, capacities, n, w)
  PROVE  \E m : TakenUpTo(capacities, n, w, m)
<1> DEFINE ends == {k \in 1..n : w[k] = 0 \/ k = n}
<1>1. n \in ends /\ ends \in SUBSET Nat
    OBVIOUS
<1>2. PICK m \in ends : \A k \in ends : m <= k
  <2> HIDE DEF ends
  <2> QED
      BY <1>1, LeastOfSome
<1>3. m \in 1..n /\ (w[m] = 0 \/ m = n)
    OBVIOUS
<1>4. \A k \in 1..(m - 1) : k \in 1..n /\ w[k] # 0
  <2> TAKE k \in 1..(m - 1)
  <2>1. k \in 1..n /\ k < m
      BY <1>3
  <2>2. k \notin ends
    <3> HIDE DEF ends
    <3> QED
        BY <1>2, <1>3, <2>1
  <2> QED
      BY <2>1, <2>2
<1>5. w[0] = amount /\ \A k \in 0..n : w[k] \in Nat
    BY WantedFalls
<1>6. \A k \in 1..m : w[k - 1] > 0
  <2> TAKE k \in 1..m
  <2>1. CASE k = 1
      BY <1>5, <2>1
  <2>2. CASE k # 1
    <3>1. k - 1 \in 1..(m - 1) /\ k - 1 \in 0..n
        BY <1>3, <2>2
    <3> QED
        BY <1>4, <1>5, <3>1
  <2> QED
      BY <2>1, <2>2
<1>7. \A k \in m..n : w[m] = 0 => w[k] = 0
    BY <1>3, NothingMoreWanted
<1>8. {k \in 1..n : w[k - 1] > 0} = 1..m
  <2>1. \A k \in 1..n : k > m => ~(w[k - 1] > 0)
    <3> TAKE k \in 1..n
    <3> HAVE k > m
    <3>1. k - 1 \in m..n /\ w[m] = 0
        BY <1>3
    <3> QED
        BY <1>7, <3>1
  <2> QED
      BY <1>3, <1>6, <2>1
<1>9. \A k \in 1..(m - 1) : w[k - 1] - w[k] = capacities[k]
  <2> TAKE k \in 1..(m - 1)
  <2>1. k \in 1..n /\ w[k] \in Nat /\ w[k] # 0
      BY <1>3, <1>4, <1>5
  <2> QED
      BY <2>1, WantedFalls
<1>10. w[m] = w[n]
    BY <1>3, <1>7
<1>11. ASSUME w[n] > 0 PROVE m = n /\ w[m - 1] - w[m] = capacities[m]
    BY <1>3, <1>10, <1>11, WantedFalls
<1> QED
    BY <1>3, <1>8, <1>9, <1>10, <1>11 DEF TakenUpTo

LEMMA SumOfFirst ==
  ASSUME NEW m \in Nat, NEW u, \A k \in 1..m : u[k] \in Nat
  PROVE  /\ SumFunctionOnSet(u, 1..0) = 0
         /\ \A k \in 0..m : SumFunctionOnSet(u, 1..k) \in Nat
         /\ \A k \in 1..m : SumFunctionOnSet(u, 1..k) = SumFunctionOnSet(u, 1..(k - 1)) + u[k]
<1>1. PICK D : D = 1..m
    OBVIOUS
<1>2. IsFiniteSet(D) /\ \A x \in D : u[x] \in Nat
    BY <1>1, FS_Interval
<1>3. /\ SumFunctionOnSet(u, {}) = 0
      /\ \A S \in SUBSET D : SumFunctionOnSet(u, S) \in Nat
      /\ \A S \in SUBSET D : \A x \in S : SumFunctionOnSet(u, S) = u[x] + SumFunctionOnSet(u, S \ {x})
    BY <1>2, SumAddsUp
<1>4. 1..0 = {} /\ \A k \in 0..m : 1..k \in SUBSET D
    BY <1>1
<1>5. ASSUME NEW k \in 1..m PROVE SumFunctionOnSet(u, 1..k) = SumFunctionOnSet(u, 1..(k - 1)) + u[k]
  <2>1. k \in 1..k /\ (1..k) \ {k} = 1..(k - 1) /\ k \in 0..m /\ k - 1 \in 0..m
      OBVIOUS
  <2>2. PICK S \in SUBSET D, R \in SUBSET D : S = 1..k /\ R = 1..(k - 1) /\ R = S \ {k} /\ k \in S
      BY <1>4, <2>1
  <2>3. SumFunctionOnSet(u, S) = u[k] + SumFunctionOnSet(u, R) /\ SumFunctionOnSet(u, R) \in Nat /\ u[k] \in Nat
    <3>1. SumFunctionOnSet(u, S) = u[k] + SumFunctionOnSet(u, S \ {k})
        BY <1>3, <2>2
    <3>2. SumFunctionOnSet(u, R) \in Nat
        BY <1>3
    <3>3. u[k] \in Nat
        OBVIOUS
    <3> QED
        BY <2>2, <3>1, <3>2, <3>3
  <2> QED
      BY <2>2, <2>3
<1> QED
    BY <1>3, <1>4, <1>5

\* What is taken in turn is what is no longer wanted.
LEMMA SumTelescopes ==
  ASSUME NEW m \in Nat, NEW w, NEW u,
         \A k \in 0..m : w[k] \in Nat, \A k \in 1..m : u[k] = w[k - 1] - w[k] /\ u[k] \in Nat
  PROVE  SumFunctionOnSet(u, 1..m) = w[0] - w[m]
<1> DEFINE wrong == {k \in 0..m : SumFunctionOnSet(u, 1..k) # w[0] - w[k]}
<1>1. ASSUME wrong # {} PROVE FALSE
  <2>1. wrong \in SUBSET Nat
      OBVIOUS
  <2>2. PICK k \in wrong : \A l \in wrong : k <= l
    <3> HIDE DEF wrong
    <3> QED
        BY <1>1, <2>1, LeastOfSome
  <2>3. k \in 0..m /\ SumFunctionOnSet(u, 1..k) # w[0] - w[k]
      OBVIOUS
  <2>4. k # 0
      BY <2>3, SumOfFirst
  <2>5. k \in 1..m /\ k - 1 \in 0..m /\ k - 1 < k
      BY <2>3, <2>4
  <2>6. k - 1 \notin wrong
    <3> HIDE DEF wrong
    <3> QED
        BY <2>2, <2>3, <2>5
  <2>7. SumFunctionOnSet(u, 1..(k - 1)) = w[0] - w[k - 1]
      BY <2>5, <2>6
  <2>8. SumFunctionOnSet(u, 1..k) = SumFunctionOnSet(u, 1..(k - 1)) + u[k]
      BY <2>5, SumOfFirst
  <2>9. w[0] \in Nat /\ w[k - 1] \in Nat /\ w[k] \in Nat /\ u[k] = w[k - 1] - w[k]
      BY <2>5
  <2> QED
      BY <2>3, <2>7, <2>8, <2>9
<1>2. m \notin wrong
  <2> HIDE DEF wrong
  <2> QED
      BY <1>1
<1> QED
    BY <1>2

\* The base of some orders adds up.
LEMMA BasesAddUp ==
  ASSUME StoredOK
  PROVE  /\ BaseOf({}) = 0
         /\ \A S \in SUBSET DOMAIN Book : BaseOf(S) \in Nat
         /\ \A S \in SUBSET DOMAIN Book : \A i \in S : BaseOf(S) = Book[i].base + BaseOf(S \ {i})
         /\ \A S \in SUBSET DOMAIN Book : \A T \in SUBSET S : BaseOf(T) <= BaseOf(S)
<1>1. PICK D : D = DOMAIN Book
    OBVIOUS
<1>2. PICK u : u = [i \in DOMAIN Book |-> Book[i].base]
    OBVIOUS
<1>3. IsFiniteSet(D)
    BY <1>1, OrdersFinite
<1>4. \A i \in D : u[i] = Book[i].base /\ u[i] \in Nat
    BY <1>1, <1>2, BookTyped
<1>5. \A S : BaseOf(S) = SumFunctionOnSet(u, S)
    BY <1>2 DEF BaseOf
<1>6. /\ SumFunctionOnSet(u, {}) = 0
      /\ \A S \in SUBSET D : SumFunctionOnSet(u, S) \in Nat
      /\ \A S \in SUBSET D : \A x \in S : SumFunctionOnSet(u, S) = u[x] + SumFunctionOnSet(u, S \ {x})
    BY <1>3, <1>4, SumAddsUp
<1>7. ASSUME NEW S \in SUBSET D, NEW T \in SUBSET S PROVE SumFunctionOnSet(u, T) <= SumFunctionOnSet(u, S)
  <2>1. IsFiniteSet(S) /\ \A x \in S : u[x] \in Nat
      BY <1>3, <1>4, FS_Subset
  <2> QED
      BY <2>1, SumOfPart
<1> QED
    BY <1>1, <1>4, <1>5, <1>6, <1>7

LEMMA CapacitiesTyped ==
  ASSUME StoredOK, NEW i \in DOMAIN Book, NEW denomination
  PROVE  Capacity(i, denomination) \in Nat
BY BookTyped, UnitsTyped DEF Capacity

\* A route takes from the orders in turn what is wanted of each.
RouteOf(s, r, w, m, route) ==
    /\ route.kind = "route" /\ route.unfilled = w[Len(s)]
    /\ route.plans = [k \in 1..m |-> [order |-> s[k], units |-> w[k - 1] - w[k]]]
    /\ Len(route.plans) = m /\ DOMAIN route.plans = 1..m
    /\ UnitsOf(route.plans) + route.unfilled = r.amount
    /\ UnitsOf(route.plans) = r.amount - route.unfilled /\ route.unfilled \in 0..r.amount
    /\ \A k \in 1..m : route.plans[k].units \in Nat
    /\ \A k \in 1..(m - 1) : route.plans[k].units = Capacity(s[k], r.denomination)
    /\ route.plans[m].units <= Capacity(s[m], r.denomination)
    /\ route.unfilled > 0 => m = Len(s) /\ route.plans[m].units = Capacity(s[m], r.denomination)

LEMMA RoutePrepared ==
  ASSUME StoredOK, NEW s \in Seq(DOMAIN Book), s # <<>>, NEW r, r.amount \in Nat \ {0},
         NEW report, NEW route, route = PrepareMarketRoute(s, r, report), route.kind = "route"
  PROVE  /\ route.report = report
         /\ \E w, m : m \in 1..Len(s) /\ RouteOf(s, r, w, m, route)
<1>1. PICK n \in Nat \ {0} : n = Len(s)
    BY LenProperties, EmptySeq
<1>2. DOMAIN s = 1..n /\ \A k \in 1..n : s[k] \in DOMAIN Book
    BY <1>1, LenProperties, ElementOfSeq
<1>3. PICK c : c = Capacities(s, r.denomination)
    OBVIOUS
<1>4. \A k \in 1..n : c[k] = Capacity(s[k], r.denomination) /\ c[k] \in Nat
    BY <1>1, <1>2, <1>3, CapacitiesTyped DEF Capacities
<1>5. PICK w : w = WantedAfter(s, r)
    OBVIOUS
<1>6. PICK amount \in Nat \ {0} : amount = r.amount
    OBVIOUS
<1>7. WantedUpTo(amount, c, n, w) /\ (\A k \in 1..n : c[k] \in Nat) /\ n \in Nat /\ amount \in Nat
    BY <1>1, <1>3, <1>4, <1>5, <1>6, WantedUnfolds
<1>8. PICK m \in 1..n :
        /\ {k \in 1..n : w[k - 1] > 0} = 1..m
        /\ \A k \in 1..(m - 1) : w[k - 1] - w[k] = c[k]
        /\ w[m] = w[n]
        /\ w[n] > 0 => m = n /\ w[m - 1] - w[m] = c[m]
  <2>1. PICK m : TakenUpTo(c, n, w, m)
      BY <1>7, ReachedFirst
  <2> QED
      BY <2>1 DEF TakenUpTo
<1>9. /\ w[0] = amount
      /\ \A k \in 0..n : w[k] \in Nat
      /\ \A k \in 1..n : /\ w[k] <= w[k - 1] /\ w[k - 1] - w[k] <= c[k] /\ w[k - 1] - w[k] \in Nat
    BY <1>7, WantedFalls
<1>10. PICK plans : plans = [k \in 1..m |-> [order |-> s[k], units |-> w[k - 1] - w[k]]]
    OBVIOUS
<1>11. route = [kind |-> "route", plans |-> plans, unfilled |-> w[n], report |-> report]
    BY <1>1, <1>2, <1>5, <1>8, <1>10 DEF PrepareMarketRoute, Failed
<1>12. DOMAIN plans = 1..m /\ Len(plans) = m
    BY <1>8, <1>10, LenProperties
<1>13. \A k \in 1..m : k \in 1..n /\ plans[k].units = w[k - 1] - w[k] /\ plans[k].units \in Nat
    BY <1>8, <1>9, <1>10
<1>14. UnitsOf(plans) = amount - w[n]
  <2>1. PICK u : u = [k \in 1..m |-> plans[k].units]
      OBVIOUS
  <2>2. \A k \in 1..m : u[k] = w[k - 1] - w[k] /\ u[k] \in Nat
      BY <1>13, <2>1
  <2>3. m \in Nat
      BY <1>8
  <2>4. SumFunctionOnSet(u, 1..m) = w[0] - w[m]
    <3>1. \A k \in 0..m : w[k] \in Nat
        BY <1>8, <1>9
    <3> QED
        BY <2>2, <2>3, <3>1, SumTelescopes
  <2>5. UnitsOf(plans) = SumFunctionOnSet(u, 1..m)
      BY <1>12, <2>1 DEF UnitsOf
  <2> QED
      BY <1>8, <1>9, <2>4, <2>5
<1>15. w[n] \in Nat /\ w[n] <= amount
  <2>1. w[n] \in Nat
      BY <1>1, <1>9
  <2>2. UnitsOf(plans) \in Nat
    <3>1. PICK u : u = [k \in 1..m |-> plans[k].units]
        OBVIOUS
    <3>2. SumFunctionOnSet(u, 1..m) \in Nat
      <4>1. m \in Nat /\ m \in 0..m /\ \A k \in 1..m : u[k] \in Nat
          BY <1>8, <1>13, <3>1
      <4> QED
          BY <4>1, SumOfFirst
    <3> QED
        BY <1>12, <3>1, <3>2 DEF UnitsOf
  <2> QED
      BY <1>6, <1>14, <2>1, <2>2
<1>16. \A k \in 1..(m - 1) : plans[k].units = Capacity(s[k], r.denomination)
  <2> TAKE k \in 1..(m - 1)
  <2>1. k \in 1..m /\ k \in 1..n
      BY <1>8
  <2> QED
      BY <1>4, <1>8, <1>13, <2>1
<1>17. plans[m].units <= Capacity(s[m], r.denomination)
  <2>1. m \in 1..m /\ m \in 1..n
      BY <1>8
  <2> QED
      BY <1>4, <1>9, <1>13, <2>1
<1>18. w[n] > 0 => m = n /\ plans[m].units = Capacity(s[m], r.denomination)
  <2>1. m \in 1..m /\ m \in 1..n
      BY <1>8
  <2> QED
      BY <1>4, <1>8, <1>13, <2>1
<1>19. RouteOf(s, r, w, m, route)
  <2>1. route.kind = "route" /\ route.plans = plans /\ route.unfilled = w[n]
      BY <1>11
  <2>2. UnitsOf(plans) + w[n] = r.amount /\ UnitsOf(plans) = r.amount - w[n] /\ w[n] \in 0..r.amount
      BY <1>6, <1>14, <1>15
  <2> QED
      BY <1>1, <1>10, <1>12, <1>13, <1>16, <1>17, <1>18, <2>1, <2>2 DEF RouteOf
<1> QED
    BY <1>1, <1>11, <1>19

LEMMA ForemostFirst ==
  ASSUME NEW S, NEW s \in Seq(S), NEW n \in Nat
  PROVE  /\ Foremost(s, n) \in Seq(S)
         /\ Len(Foremost(s, n)) = IF Len(s) < n THEN Len(s) ELSE n
         /\ Len(Foremost(s, n)) \in 0..Len(s) /\ Len(s) \in Nat
         /\ \A k \in 1..Len(Foremost(s, n)) : k \in 1..Len(s) /\ Foremost(s, n)[k] = s[k]
<1>1. Len(s) \in Nat
    BY LenProperties
<1>2. PICK m \in 0..Len(s) : m = IF Len(s) < n THEN Len(s) ELSE n
    BY <1>1
<1>3. /\ SubSeq(s, 1, m) \in Seq(S) /\ Len(SubSeq(s, 1, m)) = m
      /\ \A k \in 1..m : SubSeq(s, 1, m)[k] = s[k]
    BY <1>1, <1>2, SubSeqProperties
<1> QED
    BY <1>1, <1>2, <1>3 DEF Foremost

\* That s has the first orders of C, and all of them unless there are too many for a route.
FirstOrders(side, C, s) ==
    /\ C \in SUBSET DOMAIN Book /\ s \in Seq(DOMAIN Book) /\ Len(s) \in 0..MaxRoute
    /\ Len(s) # MaxRoute => Len(s) = Cardinality(C)
    /\ \A k \in 1..Len(s) : s[k] \in C
    /\ \A k, l \in 1..Len(s) : s[k] = s[l] => k = l
    /\ \A k, l \in 1..Len(s) : k < l => Before(side, s[k], s[l])
    /\ \A i \in C : \/ \E k \in 1..Len(s) : s[k] = i
                    \/ /\ Len(s) = MaxRoute /\ Rank(C, side, i) >= MaxRoute
                       /\ \A k \in 1..Len(s) : Before(side, s[k], i)

\* The orders that a request may take are the first of all that its limit lets in.
LEMMA FirstCompatible ==
  ASSUME StoredOK, NEW side, NEW limit, NEW C, C = Compatible(side, limit),
         NEW s, s = ExecutableOrders(side, limit)
  PROVE  FirstOrders(side, C, s)
<1>1. C \in SUBSET DOMAIN Book
    BY DEF Compatible
<1>2. PICK c \in Nat : c = Cardinality(C)
    BY <1>1, OrdersFinite
<1>3. PICK t : t = Sorted(C, side)
    OBVIOUS
<1>4. /\ t \in [1..c -> C] /\ t \in Seq(C) /\ Len(t) = c
      /\ \A k, l \in 1..c : k < l => Before(side, t[k], t[l])
      /\ \A k, l \in 1..c : t[k] = t[l] => k = l
      /\ \A i \in C : \E k \in 1..c : t[k] = i
      /\ \A k \in 1..c : Rank(C, side, t[k]) = k - 1
  <2>1. InTurn(C, side, c, t)
      BY <1>1, <1>2, <1>3, SortedInTurn
  <2> QED
      BY <2>1 DEF InTurn
<1>5. s = Foremost(t, MaxRoute) /\ MaxRoute \in Nat
    BY <1>3, BookAssumption DEF ExecutableOrders
<1>6. /\ s \in Seq(C) /\ Len(s) = (IF c < MaxRoute THEN c ELSE MaxRoute)
      /\ \A k \in 1..Len(s) : k \in 1..c /\ s[k] = t[k]
  <2>1. PICK n \in Nat : n = MaxRoute /\ s = Foremost(t, n)
      BY <1>5
  <2>2. /\ Foremost(t, n) \in Seq(C)
        /\ Len(Foremost(t, n)) = IF Len(t) < n THEN Len(t) ELSE n
        /\ \A k \in 1..Len(Foremost(t, n)) : k \in 1..Len(t) /\ Foremost(t, n)[k] = t[k]
      BY <1>4, ForemostFirst
  <2> QED
      BY <1>4, <2>1, <2>2
<1>7. s \in Seq(DOMAIN Book)
  <2>1. Len(s) \in Nat
      BY <1>5, <1>6
  <2>2. s \in [1..Len(s) -> C]
      BY <1>6, LenProperties
  <2>3. s \in [1..Len(s) -> DOMAIN Book]
      BY <1>1, <2>2
  <2> QED
      BY <2>1, <2>3, SeqDef
<1>8. ASSUME NEW k \in 1..Len(s), NEW l \in 1..Len(s)
      PROVE  (s[k] = s[l] => k = l) /\ (k < l => Before(side, s[k], s[l]))
  <2>1. k \in 1..c /\ l \in 1..c /\ s[k] = t[k] /\ s[l] = t[l]
      BY <1>6
  <2> QED
      BY <1>4, <2>1
<1>9. \A k \in 1..Len(s) : s[k] \in C
    BY <1>4, <1>6
<1>10. ASSUME NEW i \in C, ~\E k \in 1..Len(s) : s[k] = i
       PROVE  /\ Len(s) = MaxRoute /\ Rank(C, side, i) >= MaxRoute
              /\ \A k \in 1..Len(s) : Before(side, s[k], i)
  <2>1. PICK l \in 1..c : t[l] = i
      BY <1>4
  <2>2. ~(l \in 1..Len(s))
      BY <1>6, <1>10, <2>1
  <2>3. Len(s) = MaxRoute /\ l > MaxRoute
      BY <1>5, <1>6, <2>2
  <2>4. Rank(C, side, i) = l - 1
      BY <1>4, <2>1
  <2>5. \A k \in 1..Len(s) : Before(side, s[k], i)
    <3> TAKE k \in 1..Len(s)
    <3>1. k \in 1..c /\ s[k] = t[k] /\ k < l
        BY <1>5, <1>6, <2>3
    <3> QED
        BY <1>4, <2>1, <3>1
  <2> QED
      BY <1>5, <2>3, <2>4, <2>5
<1> QED
  <2>1. Len(s) \in 0..MaxRoute /\ (Len(s) # MaxRoute => Len(s) = c)
      BY <1>5, <1>6
  <2> QED
      BY <1>1, <1>2, <1>6, <1>7, <1>8, <1>9, <1>10, <2>1 DEF FirstOrders

LEMMA TakenIsBest ==
  ASSUME StoredOK, NEW r, r.amount \in Nat \ {0}, NEW report, NEW route,
         ExecutableOrders(r.side, r.limit) # <<>>,
         route = PrepareMarketRoute(ExecutableOrders(r.side, r.limit), r, report), route.kind = "route"
  PROVE  BestRoute(r, route)
<1>1. PICK side, limit : side = r.side /\ limit = r.limit
    OBVIOUS
<1>2. PICK C : C = Compatible(side, limit)
    OBVIOUS
<1>3. PICK s : s = ExecutableOrders(side, limit)
    OBVIOUS
<1>4. /\ C \in SUBSET DOMAIN Book /\ s \in Seq(DOMAIN Book) /\ Len(s) \in 0..MaxRoute
      /\ \A i \in C : \/ \E k \in 1..Len(s) : s[k] = i
                      \/ /\ Len(s) = MaxRoute /\ Rank(C, side, i) >= MaxRoute
                         /\ \A k \in 1..Len(s) : Before(side, s[k], i)
      /\ \A k \in 1..Len(s) : s[k] \in C
      /\ \A k, l \in 1..Len(s) : k < l => Before(side, s[k], s[l])
  <2>1. FirstOrders(side, C, s)
      BY <1>2, <1>3, FirstCompatible
  <2> QED
      BY <2>1 DEF FirstOrders
<1>5. s # <<>> /\ route = PrepareMarketRoute(s, r, report)
    BY <1>1, <1>3
<1>6. PICK w, m : m \in 1..Len(s) /\ RouteOf(s, r, w, m, route)
    BY <1>4, <1>5, RoutePrepared
<1>7. PICK n \in Nat \ {0} : n = Len(s) /\ n <= MaxRoute /\ m \in 1..n /\ DOMAIN s = 1..n
    BY <1>4, <1>5, <1>6, BookAssumption, LenProperties
<1>8. /\ Len(route.plans) = m /\ DOMAIN route.plans = 1..m
      /\ \A k \in 1..m : route.plans[k].order = s[k]
    BY <1>6 DEF RouteOf
<1>9. PICK taken : taken = {route.plans[k].order : k \in DOMAIN route.plans}
    OBVIOUS
<1>10. taken = {s[k] : k \in 1..m}
    BY <1>8, <1>9
<1>11. taken \subseteq C /\ m \in 1..MaxRoute
    BY <1>4, <1>7, <1>10, BookAssumption
<1>12. ASSUME NEW i \in taken, NEW j \in C \ taken
       PROVE  IF r.side = "buy" THEN ~Below(Book[j].price, Book[i].price)
                                ELSE ~Below(Book[i].price, Book[j].price)
  <2>1. PICK k \in 1..m : i = s[k]
      BY <1>10
  <2>2. Before(side, i, j)
    <3>1. CASE \E l \in 1..Len(s) : s[l] = j
      <4>1. PICK l \in 1..Len(s) : s[l] = j
          BY <3>1
      <4>2. ~(l \in 1..m) /\ k \in 1..n /\ l \in 1..n
          BY <1>7, <1>10, <4>1
      <4>3. k < l
          BY <1>7, <4>2
      <4> QED
          BY <1>4, <1>7, <2>1, <4>1, <4>2, <4>3
    <3>2. CASE ~\E l \in 1..Len(s) : s[l] = j
      <4>1. k \in 1..Len(s)
          BY <1>7
      <4> QED
          BY <1>4, <2>1, <3>2, <4>1
    <3> QED
        BY <3>1, <3>2
  <2>3. i \in DOMAIN Book /\ j \in DOMAIN Book
      BY <1>4, <1>11
  <2>4. Book[i].price \in Fraction /\ Book[j].price \in Fraction
      BY <2>3, BookTyped
  <2>5. ~(Below(Book[i].price, Book[j].price) /\ Below(Book[j].price, Book[i].price))
      BY <2>4, BelowIsStrict
  <2> QED
      BY <1>1, <2>2, <2>5 DEF Before
<1>13. \A k \in 1..(m - 1) : route.plans[k].units = Capacity(route.plans[k].order, r.denomination)
  <2> TAKE k \in 1..(m - 1)
  <2>1. k \in 1..m
      BY <1>7
  <2>2. route.plans[k].units = Capacity(s[k], r.denomination)
      BY <1>6 DEF RouteOf
  <2> QED
      BY <1>8, <2>1, <2>2
<1>14. UnitsOf(route.plans) + route.unfilled = r.amount
    BY <1>6 DEF RouteOf
<1>15. ASSUME route.unfilled > 0
       PROVE  /\ route.plans[m].units = Capacity(route.plans[m].order, r.denomination)
              /\ C = taken \/ m = MaxRoute
  <2>1. m = Len(s) /\ route.plans[m].units = Capacity(s[m], r.denomination)
      BY <1>6, <1>15 DEF RouteOf
  <2>2. m \in 1..m
      BY <1>7
  <2>3. ASSUME m # MaxRoute PROVE C \subseteq taken
      BY <1>4, <1>10, <2>1, <2>3
  <2> QED
      BY <1>8, <1>11, <2>1, <2>2, <2>3
<1> QED
    BY <1>1, <1>2, <1>8, <1>9, <1>11, <1>12, <1>13, <1>14, <1>15 DEF BestRoute

\* An order that is taken by itself is the whole route.
LEMMA TakenAlone ==
  ASSUME StoredOK, NEW r, r.amount \in Nat \ {0}, NEW report, NEW route, NEW i \in DOMAIN Book,
         route = PrepareMarketRoute(<<i>>, r, report), route.kind = "route"
  PROVE  GivesItsOwn(r, route)
<1>1. PICK s : s = <<i>>
    OBVIOUS
<1>2. s \in Seq(DOMAIN Book) /\ s # <<>> /\ Len(s) = 1 /\ s[1] = i
    BY <1>1
<1>3. PICK w, m : m \in 1..Len(s) /\ RouteOf(s, r, w, m, route)
    BY <1>1, <1>2, RoutePrepared
<1>4. m = 1
    BY <1>2, <1>3
<1>5. /\ Len(route.plans) = 1 /\ DOMAIN route.plans = 1..1
      /\ route.plans[1] = [order |-> i, units |-> w[0] - w[1]]
      /\ UnitsOf(route.plans) + route.unfilled = r.amount
      /\ route.plans[1].units <= Capacity(i, r.denomination)
      /\ route.unfilled > 0 => route.plans[1].units = Capacity(i, r.denomination)
    BY <1>2, <1>3, <1>4 DEF RouteOf
<1>6. UnitsOf(route.plans) = route.plans[1].units
  <2>1. PICK u : u = [k \in 1..1 |-> route.plans[k].units]
      OBVIOUS
  <2>2. u[1] \in Nat
      BY <1>2, <1>3, <1>4, <2>1 DEF RouteOf
  <2>3. SumFunctionOnSet(u, 1..1) = u[1]
    <3>1. \A k \in 1..1 : u[k] \in Nat
        BY <2>2
    <3>2. SumFunctionOnSet(u, 1..0) = 0
        BY <3>1, SumOfFirst
    <3>3. PICK n \in Nat : n = 1
        OBVIOUS
    <3>4. \A k \in 1..n : SumFunctionOnSet(u, 1..k) = SumFunctionOnSet(u, 1..(k - 1)) + u[k]
      <4>1. \A k \in 1..n : u[k] \in Nat
          BY <3>1, <3>3
      <4> QED
          BY <4>1, SumOfFirst
    <3>5. PICK k \in 1..n : k = 1 /\ k - 1 = 0
        BY <3>3
    <3>6. SumFunctionOnSet(u, 1..k) = SumFunctionOnSet(u, 1..(k - 1)) + u[k]
        BY <3>4, <3>5
    <3> QED
        BY <2>2, <3>2, <3>5, <3>6
  <2> QED
      BY <1>5, <2>1, <2>3 DEF UnitsOf
<1> QED
    BY <1>5, <1>6 DEF GivesItsOwn

FirstOf(s, n) == {s[k] : k \in 1..n}

\* Units taken from different orders are no more than their base, and all of it
\* when each is taken whole.
LEMMA UnitsOfOrders ==
  ASSUME StoredOK, NEW n \in Nat, NEW s, NEW u, \A k \in 1..n : s[k] \in DOMAIN Book,
         \A k, l \in 1..n : s[k] = s[l] => k = l,
         \A k \in 1..n : u[k] \in Nat /\ u[k] <= Book[s[k]].base
  PROVE  /\ SumFunctionOnSet(u, 1..n) <= BaseOf(FirstOf(s, n))
         /\ (\A k \in 1..n : u[k] = Book[s[k]].base) => SumFunctionOnSet(u, 1..n) = BaseOf(FirstOf(s, n))
<1> DEFINE Until(m) == {s[k] : k \in 1..m}
           whole == \A k \in 1..n : u[k] = Book[s[k]].base
           Right(m) == /\ SumFunctionOnSet(u, 1..m) <= BaseOf(Until(m))
                       /\ whole => SumFunctionOnSet(u, 1..m) = BaseOf(Until(m))
           wrong == {m \in 0..n : ~Right(m)}
<1>1. ASSUME wrong # {} PROVE FALSE
  <2>1. wrong \in SUBSET Nat
      OBVIOUS
  <2>2. PICK m \in wrong : \A l \in wrong : m <= l
    <3> HIDE DEF wrong
    <3> QED
        BY <1>1, <2>1, LeastOfSome
  <2>3. m \in 0..n /\ ~Right(m)
      OBVIOUS
  <2>4. m # 0
    <3>1. Until(0) = {}
        OBVIOUS
    <3>2. SumFunctionOnSet(u, 1..0) = 0
        BY SumOfFirst
    <3>3. BaseOf({}) = 0
        BY BasesAddUp
    <3>4. Right(0)
      <4>1. BaseOf(Until(0)) = 0
          BY <3>1, <3>3
      <4> HIDE DEF Until, whole
      <4> QED
          BY <3>2, <4>1
    <3> HIDE DEF Right
    <3> QED
        BY <2>3, <3>4
  <2>5. PICK l \in 0..n : l = m - 1 /\ l < m /\ m \in 1..n
      BY <2>3, <2>4
  <2>6. l \notin wrong
    <3> HIDE DEF wrong
    <3> QED
        BY <2>2, <2>3, <2>5
  <2>7. Right(l)
    <3> HIDE DEF Right
    <3> QED
        BY <2>6
  <2>8. SumFunctionOnSet(u, 1..m) = SumFunctionOnSet(u, 1..l) + u[m] /\ SumFunctionOnSet(u, 1..l) \in Nat
      BY <2>5, SumOfFirst
  <2>9. PICK S : S = Until(m) /\ S \in SUBSET DOMAIN Book
    <3>1. \A k \in 1..m : k \in 1..n
        BY <2>3
    <3>2. Until(m) \in SUBSET DOMAIN Book
        BY <3>1
    <3> QED
        BY <3>2
  <2>10. PICK T : T = Until(l) /\ T \in SUBSET DOMAIN Book
    <3>1. \A k \in 1..l : k \in 1..n
        BY <2>5
    <3>2. Until(l) \in SUBSET DOMAIN Book
        BY <3>1
    <3> QED
        BY <3>2
  <2>11. s[m] \in S /\ T = S \ {s[m]}
    <3>1. 1..m = 1..l \union {m} /\ m \notin 1..l
        BY <2>5
    <3>2. s[m] \notin T
        BY <2>5, <2>10, <3>1
    <3> QED
        BY <2>9, <2>10, <3>1, <3>2
  <2>12. BaseOf(S) = Book[s[m]].base + BaseOf(T) /\ BaseOf(T) \in Nat
    <3>1. BaseOf(S) = Book[s[m]].base + BaseOf(S \ {s[m]})
        BY <2>9, <2>11, BasesAddUp
    <3>2. BaseOf(T) \in Nat
        BY <2>10, BasesAddUp
    <3> QED
        BY <2>11, <3>1, <3>2
  <2>13. PICK a \in Nat, b \in Nat : a = u[m] /\ b = Book[s[m]].base /\ a <= b /\ (whole => a = b)
    <3>1. Book[s[m]].base \in Nat
        BY <2>5, BookTyped
    <3> QED
        BY <2>5, <3>1
  <2>14. Right(m)
    <3>1. PICK x \in Nat, y \in Nat : x = SumFunctionOnSet(u, 1..l) /\ y = BaseOf(T)
        BY <2>8, <2>12
    <3>2. x <= y /\ (whole => x = y)
        BY <2>7, <2>10, <3>1
    <3>3. SumFunctionOnSet(u, 1..m) = x + a /\ BaseOf(Until(m)) = b + y
        BY <2>8, <2>9, <2>12, <2>13, <3>1
    <3> HIDE DEF Until, whole
    <3> QED
        BY <2>13, <3>2, <3>3
  <2> HIDE DEF Right
  <2> QED
      BY <2>3, <2>14
<1>2. Right(n)
  <2>1. n \in 0..n
      OBVIOUS
  <2> HIDE DEF Right
  <2> QED
      BY <1>1, <2>1
<1>3. FirstOf(s, n) = Until(n)
    BY DEF FirstOf
<1> HIDE DEF Until
<1> QED
    BY <1>2, <1>3

\* The report is worked out from the depth of the orders before the route is.
LEMMA ReportIsOfRoute ==
  ASSUME StoredOK, NEW r, r.amount \in Nat \ {0}, r.denomination = "base", NEW route,
         NEW s, s = ExecutableOrders(r.side, r.limit), s # <<>>,
         route = PrepareMarketRoute(s, r, MatchingFromBook(Depth(s), r.amount)), route.kind = "route"
  PROVE  route.report.unfilled = route.unfilled /\ route.report.consumed = UnitsOf(route.plans)
<1>1. PICK side, limit : side = r.side /\ limit = r.limit
    OBVIOUS
<1>2. /\ s \in Seq(DOMAIN Book) /\ Len(s) \in 0..MaxRoute
      /\ \A k, l \in 1..Len(s) : s[k] = s[l] => k = l
  <2>1. FirstOrders(side, Compatible(side, limit), s)
      BY <1>1, FirstCompatible
  <2> QED
      BY <2>1 DEF FirstOrders
<1>3. PICK report : report = MatchingFromBook(Depth(s), r.amount)
    OBVIOUS
<1>4. route.report = report /\ \E w, m : m \in 1..Len(s) /\ RouteOf(s, r, w, m, route)
    BY <1>2, <1>3, RoutePrepared
<1>5. PICK w, m : m \in 1..Len(s) /\ RouteOf(s, r, w, m, route)
    BY <1>4
<1>6. PICK n \in Nat \ {0} : n = Len(s) /\ m \in 1..n /\ DOMAIN s = 1..n /\ \A k \in 1..n : s[k] \in DOMAIN Book
    BY <1>2, <1>5, LenProperties, ElementOfSeq, BookAssumption
<1>7. PICK u : u = [k \in 1..m |-> route.plans[k].units]
    OBVIOUS
<1>8. UnitsOf(route.plans) = SumFunctionOnSet(u, 1..m)
    BY <1>5, <1>7 DEF UnitsOf, RouteOf
<1>9. ASSUME NEW k \in 1..m
      PROVE  /\ u[k] \in Nat /\ u[k] <= Book[s[k]].base
             /\ route.unfilled > 0 => u[k] = Book[s[k]].base
  <2>1. Capacity(s[k], r.denomination) = Book[s[k]].base
      BY DEF Capacity
  <2>2. u[k] = route.plans[k].units /\ u[k] \in Nat
      BY <1>5, <1>7 DEF RouteOf
  <2>3. CASE k = m
      BY <1>5, <2>1, <2>2, <2>3 DEF RouteOf
  <2>4. CASE k # m
    <3>1. k \in 1..(m - 1)
        BY <1>6, <2>4
    <3>2. u[k] = Book[s[k]].base
        BY <1>5, <2>1, <2>2, <3>1 DEF RouteOf
    <3> QED
        BY <2>2, <3>2
  <2> QED
      BY <2>3, <2>4
<1>10. PICK taken : taken = {s[k] : k \in 1..m} /\ taken \in SUBSET DOMAIN Book
  <2>1. \A k \in 1..m : k \in 1..n
      BY <1>6
  <2>2. {s[k] : k \in 1..m} \in SUBSET DOMAIN Book
      BY <1>6, <2>1
  <2> QED
      BY <2>2
<1>11. /\ SumFunctionOnSet(u, 1..m) <= BaseOf(taken)
       /\ route.unfilled > 0 => SumFunctionOnSet(u, 1..m) = BaseOf(taken)
  <2>1. m \in Nat /\ (\A k \in 1..m : s[k] \in DOMAIN Book) /\ \A k, l \in 1..m : s[k] = s[l] => k = l
      BY <1>2, <1>6
  <2>2. \A k \in 1..m : u[k] \in Nat /\ u[k] <= Book[s[k]].base
      BY <1>9
  <2>3. /\ SumFunctionOnSet(u, 1..m) <= BaseOf(FirstOf(s, m))
        /\ (\A k \in 1..m : u[k] = Book[s[k]].base) => SumFunctionOnSet(u, 1..m) = BaseOf(FirstOf(s, m))
      BY <2>1, <2>2, UnitsOfOrders
  <2>4. FirstOf(s, m) = taken
      BY <1>10 DEF FirstOf
  <2>5. route.unfilled > 0 => \A k \in 1..m : u[k] = Book[s[k]].base
      BY <1>9
  <2> QED
      BY <2>3, <2>4, <2>5
<1>12. PICK all \in SUBSET DOMAIN Book : all = {s[k] : k \in 1..n}
    BY <1>6
<1>13. Depth(s) = BaseOf(all)
    BY <1>6, <1>12 DEF Depth, Range
<1>14. taken \subseteq all /\ (route.unfilled > 0 => taken = all)
    BY <1>5, <1>6, <1>10, <1>12 DEF RouteOf
<1>15. PICK d \in Nat, t \in Nat : d = BaseOf(all) /\ t = BaseOf(taken) /\ t <= d
    BY <1>14, BasesAddUp
<1>16. PICK a \in Nat, f \in Nat, x \in Int : a = r.amount /\ f = route.unfilled /\ x = UnitsOf(route.plans)
                                      /\ x = a - f /\ f <= a
  <2>1. UnitsOf(route.plans) = r.amount - route.unfilled /\ route.unfilled \in 0..r.amount
      BY <1>5 DEF RouteOf
  <2>2. PICK a \in Nat : a = r.amount
      OBVIOUS
  <2>3. route.unfilled \in Nat /\ route.unfilled <= a
      BY <2>1, <2>2
  <2> QED
      BY <2>1, <2>2, <2>3
<1>17. x <= t /\ (f > 0 => x = t /\ t = d)
    BY <1>8, <1>11, <1>14, <1>15, <1>16
<1>18. /\ report.consumed = (IF a < d THEN a ELSE d)
       /\ report.unfilled = (IF a > d THEN a - d ELSE 0)
    BY <1>3, <1>13, <1>15, <1>16 DEF MatchingFromBook
<1> QED
    BY <1>4, <1>15, <1>16, <1>17, <1>18

\* When the first orders do not suffice, no other eight that come before the rest do.
LEMMA ForemostSuffice ==
  ASSUME StoredOK, NEW r, r.amount \in Nat, Depth(ExecutableOrders(r.side, r.limit)) < r.amount
  PROVE  Unfillable(r)
<1>1. PICK side, limit : side = r.side /\ limit = r.limit
    OBVIOUS
<1>2. PICK C : C = Compatible(side, limit)
    OBVIOUS
<1>3. PICK s : s = ExecutableOrders(side, limit)
    OBVIOUS
<1>4. /\ C \in SUBSET DOMAIN Book /\ s \in Seq(DOMAIN Book) /\ Len(s) \in 0..MaxRoute
      /\ \A i \in C : (\E k \in 1..Len(s) : s[k] = i) \/ Rank(C, side, i) >= MaxRoute
  <2>1. FirstOrders(side, C, s)
      BY <1>2, <1>3, FirstCompatible
  <2> QED
      BY <2>1 DEF FirstOrders
<1>5. Range(s) \in SUBSET DOMAIN Book /\ Range(s) = {s[k] : k \in 1..Len(s)}
    BY <1>4, LenProperties, ElementOfSeq DEF Range
<1>6. BaseOf(Range(s)) < r.amount
    BY <1>1, <1>3 DEF Depth
<1>7. ASSUME NEW S \in SUBSET C, \A i \in S, j \in C \ S : Before(side, i, j), Cardinality(S) <= MaxRoute
      PROVE  BaseOf(S) < r.amount
  <2>1. ASSUME NEW i \in S PROVE i \in Range(s)
    <3>1. PICK earlier \in SUBSET DOMAIN Book : earlier = {j \in C : Before(side, j, i)}
        BY <1>4
    <3>2. earlier \subseteq S
        BY <1>4, <1>7, <3>1, OrdersInTurn
    <3>3. i \notin earlier
        BY <1>4, <3>1, OrdersInTurn
    <3>4. IsFiniteSet(S) /\ Cardinality(S) \in Nat /\ Cardinality(earlier) \in Nat
        BY <1>4, OrdersFinite
    <3>5. Cardinality(S \ {i}) = Cardinality(S) - 1 /\ IsFiniteSet(S \ {i})
        BY <3>4, FS_RemoveElement
    <3>6. earlier \subseteq S \ {i}
        BY <3>2, <3>3
    <3>7. Cardinality(earlier) <= Cardinality(S \ {i})
        BY <3>5, <3>6, FS_Subset
    <3>8. Rank(C, side, i) = Cardinality(earlier) /\ MaxRoute \in Nat
        BY <3>1, BookAssumption DEF Rank
    <3>9. ~(Rank(C, side, i) >= MaxRoute)
        BY <1>7, <3>4, <3>5, <3>7, <3>8
    <3> QED
        BY <1>4, <1>5, <3>9
  <2>2. S \in SUBSET Range(s)
      BY <2>1
  <2>3. BaseOf(S) <= BaseOf(Range(s)) /\ BaseOf(S) \in Nat /\ BaseOf(Range(s)) \in Nat
      BY <1>4, <1>5, <2>2, BasesAddUp
  <2> QED
      BY <1>6, <2>3
<1> QED
    BY <1>1, <1>2, <1>7 DEF Unfillable

-----------------------------------------------------------------------------
(* Levels.                                                                  *)

LEMMA BasesOfBoth ==
  ASSUME StoredOK, NEW S \in SUBSET DOMAIN Book, NEW T \in SUBSET DOMAIN Book, S \cap T = {}
  PROVE  BaseOf(S \union T) = BaseOf(S) + BaseOf(T)
<1> DEFINE Right(V) == BaseOf(S \union V) = BaseOf(S) + BaseOf(V)
           wrong == {Cardinality(V) : V \in {W \in SUBSET T : ~Right(W)}}
<1>1. ASSUME wrong # {} PROVE FALSE
  <2>1. IsFiniteSet(T)
      BY OrdersFinite
  <2>2. wrong \in SUBSET Nat
    <3>1. \A V \in SUBSET T : Cardinality(V) \in Nat
        BY <2>1, ElementsCounted
    <3> HIDE DEF Right
    <3> QED
        BY <3>1
  <2>3. PICK n \in wrong : \A m \in wrong : n <= m
    <3> HIDE DEF wrong
    <3> QED
        BY <1>1, <2>2, LeastOfSome
  <2>4. PICK V \in SUBSET T : ~Right(V) /\ n = Cardinality(V)
      BY <2>3
  <2>5. BaseOf(S) \in Nat /\ BaseOf({}) = 0
      BY BasesAddUp
  <2>6. V # {}
    <3>1. S \union {} = S
        OBVIOUS
    <3>2. BaseOf(S \union {}) = BaseOf(S) + BaseOf({})
        BY <2>5, <3>1
    <3> QED
        BY <2>4, <3>2
  <2>7. PICK x : x \in V
      BY <2>6
  <2>8. PICK R : R = V \ {x} /\ R \in SUBSET T
      OBVIOUS
  <2>9. Cardinality(R) < n
    <3>1. Cardinality(V \ {x}) = Cardinality(V) - 1 /\ Cardinality(V) \in Nat
        BY <2>1, <2>7, ElementsCounted
    <3> QED
        BY <2>4, <2>8, <3>1
  <2>10. Right(R)
    <3>1. ~Right(R) => Cardinality(R) \in wrong
        BY <2>8
    <3>2. n \in Nat /\ Cardinality(R) \in Nat
        BY <2>1, <2>4, <2>8, ElementsCounted
    <3> HIDE DEF wrong, Right
    <3> QED
        BY <2>3, <2>9, <3>1, <3>2
  <2>11. PICK W, X : W = S \union V /\ X = S \union R
      OBVIOUS
  <2>12. W \in SUBSET DOMAIN Book /\ X \in SUBSET DOMAIN Book /\ x \in W /\ X = W \ {x}
      BY <2>7, <2>8, <2>11
  <2>13. BaseOf(W) = Book[x].base + BaseOf(W \ {x}) /\ BaseOf(V) = Book[x].base + BaseOf(V \ {x})
      BY <2>7, <2>12, BasesAddUp
  <2>14. BaseOf(R) \in Nat /\ Book[x].base \in Nat
    <3>1. x \in DOMAIN Book /\ R \in SUBSET DOMAIN Book
        BY <2>7, <2>8
    <3> QED
        BY <3>1, BasesAddUp, BookTyped
  <2>15. BaseOf(X) = BaseOf(S) + BaseOf(R)
      BY <2>10, <2>11
  <2>16. BaseOf(W) = BaseOf(S) + BaseOf(V)
      BY <2>5, <2>8, <2>12, <2>13, <2>14, <2>15
  <2> QED
      BY <2>4, <2>11, <2>16
<1>2. Right(T)
  <2>1. Cardinality(T) \in wrong => FALSE
      BY <1>1
  <2> QED
      BY <2>1
<1> QED
    BY <1>2

\* A level has the orders of one price; two levels are apart or the same.
LEMMA LevelsApart ==
  ASSUME StoredOK, NEW i \in DOMAIN Book, NEW j \in Level(i)
  PROVE  /\ i \in Level(i) /\ j \in DOMAIN Book /\ i \in Level(j)
         /\ Level(j) = Level(i)
<1>1. \A x \in DOMAIN Book : Book[x].price \in Fraction
    BY BookTyped
<1>2. \A x \in DOMAIN Book : ~Below(Book[x].price, Book[x].price)
    BY <1>1, BelowIsStrict
<1>3. \A x, y, z \in DOMAIN Book :
         ~Below(Book[x].price, Book[y].price) /\ ~Below(Book[y].price, Book[z].price)
           => ~Below(Book[x].price, Book[z].price)
    BY <1>1, NotBelow
<1>4. /\ j \in DOMAIN Book /\ Book[j].side = Book[i].side
      /\ ~Below(Book[i].price, Book[j].price) /\ ~Below(Book[j].price, Book[i].price)
    BY DEF Level
<1>5. i \in Level(i) /\ i \in Level(j)
    BY <1>2, <1>4 DEF Level
<1>6. ASSUME NEW x \in DOMAIN Book PROVE x \in Level(i) <=> x \in Level(j)
    BY <1>3, <1>4 DEF Level
<1>7. Level(i) \subseteq DOMAIN Book /\ Level(j) \subseteq DOMAIN Book
    BY DEF Level
<1> QED
    BY <1>4, <1>5, <1>6, <1>7

Firsts(side) == {i \in DOMAIN Book : Book[i].side = side /\ \A j \in Level(i) : i <= j}

\* Every order is in the level of a first order, and of one only.
LEMMA FirstsAreLevels ==
  ASSUME StoredOK, NEW side
  PROVE  /\ Firsts(side) \in SUBSET DOMAIN Book
         /\ \A x \in DOMAIN Book : Book[x].side = side => \E f \in Firsts(side) : x \in Level(f)
         /\ \A f, g \in Firsts(side) : f # g => Level(f) \cap Level(g) = {}
<1>1. PICK n \in Nat : DOMAIN Book = 1..n
    BY BookTyped
<1>2. ASSUME NEW x \in DOMAIN Book, Book[x].side = side PROVE \E f \in Firsts(side) : x \in Level(f)
  <2>1. Level(x) \in SUBSET Nat
      BY <1>1 DEF Level
  <2>2. x \in Level(x)
    <3>1. ~Below(Book[x].price, Book[x].price)
        BY BookTyped, BelowIsStrict
    <3> QED
        BY <3>1 DEF Level
  <2>3. PICK f \in Level(x) : \A j \in Level(x) : f <= j
      BY <2>1, <2>2, LeastOfSome
  <2>4. f \in DOMAIN Book /\ Level(f) = Level(x) /\ Book[f].side = side
    <3>1. Book[f].side = Book[x].side
        BY DEF Level
    <3> QED
        BY <1>2, <3>1, LevelsApart
  <2>5. f \in Firsts(side)
      BY <2>3, <2>4 DEF Firsts
  <2> QED
      BY <2>2, <2>4, <2>5
<1>3. ASSUME NEW f \in Firsts(side), NEW g \in Firsts(side), f # g PROVE Level(f) \cap Level(g) = {}
  <2>1. f \in 1..n /\ g \in 1..n /\ (\A j \in Level(f) : f <= j) /\ \A j \in Level(g) : g <= j
      BY <1>1 DEF Firsts
  <2>2. ASSUME NEW x \in Level(f), x \in Level(g) PROVE FALSE
    <3>1. Level(x) = Level(f) /\ f \in Level(f)
        BY <1>1, <2>1, LevelsApart
    <3>2. Level(x) = Level(g) /\ g \in Level(g)
        BY <1>1, <2>1, <2>2, LevelsApart
    <3>3. f <= g /\ g <= f
        BY <2>1, <3>1, <3>2
    <3> QED
        BY <1>3, <2>1, <3>3
  <2> QED
      BY <2>2
<1> QED
    BY <1>2, <1>3 DEF Firsts

LevelsUpTo(t, k) == UNION {Level(t[l]) : l \in 1..k}

\* What a limit at the price of a level lets in: that level and those before it.
LEMMA LetInByLevel ==
  ASSUME StoredOK, NEW side \in Side, NEW n \in Nat, NEW t, InTurn(Firsts(side), Flip(side), n, t), NEW k \in 1..n
  PROVE  Compatible(Flip(side), Book[t[k]].price) = LevelsUpTo(t, k)
<1>1. PICK taker : taker = Flip(side)
    OBVIOUS
<1>2. /\ \A l \in 1..n : t[l] \in Firsts(side)
      /\ \A l, m \in 1..n : l < m => Before(taker, t[l], t[m])
      /\ \A f \in Firsts(side) : \E l \in 1..n : t[l] = f
    BY <1>1 DEF InTurn
<1>3. \A l \in 1..n : /\ t[l] \in DOMAIN Book /\ Book[t[l]].side = side
                      /\ \A j \in Level(t[l]) : t[l] <= j
    BY <1>2 DEF Firsts
<1>4. \A x \in DOMAIN Book : Book[x].price \in Fraction /\ Book[x].side \in Side
    BY BookTyped
<1>5. \A x, y \in DOMAIN Book : ~(Below(Book[x].price, Book[y].price) /\ Below(Book[y].price, Book[x].price))
    BY <1>4, BelowIsStrict
<1>6. \A x, y, z \in DOMAIN Book :
         ~Below(Book[x].price, Book[y].price) /\ ~Below(Book[y].price, Book[z].price)
           => ~Below(Book[x].price, Book[z].price)
    BY <1>4, NotBelow
<1>7. PICK p \in Fraction : p = Book[t[k]].price
    BY <1>3, <1>4
<1>8. p # NoLimit
    BY BookAssumption DEF Fraction
<1>9. \A x \in DOMAIN Book : Book[x].side # taker <=> Book[x].side = side
    BY <1>1, <1>4 DEF Side, Flip
<1>10. \A x : x \in Compatible(taker, p) <=>
          /\ x \in DOMAIN Book /\ Book[x].side = side
          /\ ~(IF taker = "buy" THEN Below(p, Book[x].price) ELSE Below(Book[x].price, p))
    BY <1>8, <1>9 DEF Compatible
<1>11. ASSUME NEW l \in 1..k, NEW x \in Level(t[l]) PROVE x \in Compatible(taker, p)
  <2>1. l \in 1..n /\ (l < k \/ l = k)
      OBVIOUS
  <2>2. PICK f \in DOMAIN Book, g \in DOMAIN Book : f = t[l] /\ g = t[k] /\ p = Book[g].price /\ Book[f].side = side
      BY <1>3, <1>7, <2>1
  <2>3. /\ x \in DOMAIN Book /\ Book[x].side = side
        /\ ~Below(Book[f].price, Book[x].price) /\ ~Below(Book[x].price, Book[f].price)
      BY <2>2 DEF Level
  <2>4. CASE l = k
      BY <1>10, <2>2, <2>3, <2>4
  <2>5. CASE l < k
    <3>1. Before(taker, f, g)
        BY <1>2, <2>1, <2>2, <2>5
    <3>2. IF taker = "buy" THEN ~Below(p, Book[f].price) ELSE ~Below(Book[f].price, p)
        BY <1>5, <2>2, <3>1 DEF Before
    <3>3. IF taker = "buy" THEN ~Below(p, Book[x].price) ELSE ~Below(Book[x].price, p)
        BY <1>6, <2>2, <2>3, <3>2
    <3> QED
        BY <1>10, <2>3, <3>3
  <2> QED
      BY <2>1, <2>4, <2>5
<1>12. ASSUME NEW x \in Compatible(taker, p) PROVE \E l \in 1..k : x \in Level(t[l])
  <2>1. /\ x \in DOMAIN Book /\ Book[x].side = side
        /\ ~(IF taker = "buy" THEN Below(p, Book[x].price) ELSE Below(Book[x].price, p))
      BY <1>10
  <2>2. PICK f \in Firsts(side) : x \in Level(f)
      BY <2>1, FirstsAreLevels
  <2>3. PICK l \in 1..n : t[l] = f
      BY <1>2
  <2>4. ASSUME k < l PROVE FALSE
    <3>1. PICK g \in DOMAIN Book : g = t[k] /\ p = Book[g].price /\ Book[g].side = side
        BY <1>3, <1>7
    <3>2. Before(taker, g, f) /\ f \in DOMAIN Book /\ Book[f].side = side
        BY <1>2, <1>3, <2>3, <2>4, <3>1
    <3>3. ~Below(Book[f].price, Book[x].price) /\ ~Below(Book[x].price, Book[f].price)
        BY <2>2 DEF Level
    <3>4. IF taker = "buy" THEN ~Below(p, Book[f].price) ELSE ~Below(Book[f].price, p)
        BY <1>6, <2>1, <3>1, <3>2, <3>3
    <3>5. ~Below(Book[g].price, Book[f].price) /\ ~Below(Book[f].price, Book[g].price) /\ g < f
        BY <3>1, <3>2, <3>4 DEF Before
    <3>6. g \in Level(f)
        BY <3>1, <3>2, <3>5 DEF Level
    <3>7. f <= g
        BY <1>3, <2>3, <3>6
    <3>8. f \in Nat /\ g \in Nat
        BY <3>1, <3>2, BookTyped
    <3> QED
        BY <3>5, <3>7, <3>8
  <2>5. l \in 1..k
      BY <2>4
  <2> QED
      BY <2>2, <2>3, <2>5
<1> QED
    BY <1>1, <1>7, <1>11, <1>12 DEF LevelsUpTo, Compatible

\* What the levels of one side show up to each of them.
LEMMA ShownUpTo ==
  ASSUME StoredOK, NEW side \in Side, NEW c \in Nat, NEW t, InTurn(Firsts(side), Flip(side), c, t),
         NEW n \in 0..c, NEW b, \A k \in 1..n : b[k] = BaseOf(Level(t[k]))
  PROVE  \A k \in 1..n : SumFunctionOnSet(b, 1..k) = BaseOf(Compatible(Flip(side), Book[t[k]].price))
<1> DEFINE Shown(k) == UNION {Level(t[l]) : l \in 1..k}
           wrong == {k \in 0..n : SumFunctionOnSet(b, 1..k) # BaseOf(Shown(k))}
<1>1. /\ \A k \in 1..n : t[k] \in Firsts(side) /\ t[k] \in DOMAIN Book
      /\ \A k, l \in 1..n : t[k] = t[l] => k = l
    BY DEF InTurn, Firsts
<1>2. \A i \in DOMAIN Book : Level(i) \in SUBSET DOMAIN Book
    BY DEF Level
<1>3. \A k \in 1..n : b[k] \in Nat
    BY <1>1, <1>2, BasesAddUp
<1>4. \A k \in 0..n : Shown(k) \in SUBSET DOMAIN Book
    BY <1>1, <1>2
<1>5. ASSUME wrong # {} PROVE FALSE
  <2>1. wrong \in SUBSET Nat
      OBVIOUS
  <2>2. PICK k \in wrong : \A l \in wrong : k <= l
    <3> HIDE DEF wrong
    <3> QED
        BY <1>5, <2>1, LeastOfSome
  <2>3. k \in 0..n /\ SumFunctionOnSet(b, 1..k) # BaseOf(Shown(k))
      OBVIOUS
  <2>4. k # 0
    <3>1. Shown(0) = {}
        OBVIOUS
    <3>2. SumFunctionOnSet(b, 1..0) = 0
        BY <1>3, SumOfFirst
    <3>3. BaseOf(Shown(0)) = 0
        BY <3>1, BasesAddUp
    <3> HIDE DEF Shown
    <3> QED
        BY <2>3, <3>2, <3>3
  <2>5. PICK j \in 0..n : j = k - 1 /\ j < k /\ k \in 1..n
      BY <2>3, <2>4
  <2>6. SumFunctionOnSet(b, 1..j) = BaseOf(Shown(j))
    <3>1. j \notin wrong
      <4> HIDE DEF wrong
      <4> QED
          BY <2>2, <2>3, <2>5
    <3> HIDE DEF Shown
    <3> QED
        BY <3>1
  <2>7. SumFunctionOnSet(b, 1..k) = SumFunctionOnSet(b, 1..j) + b[k]
      BY <1>3, <2>5, SumOfFirst
  <2>8. PICK S, T : S = Shown(j) /\ T = Level(t[k])
      OBVIOUS
  <2>9. S \in SUBSET DOMAIN Book /\ T \in SUBSET DOMAIN Book
    <3>1. Shown(j) \in SUBSET DOMAIN Book
      <4> HIDE DEF Shown
      <4> QED
          BY <1>4
    <3>2. Level(t[k]) \in SUBSET DOMAIN Book
        BY <1>1, <1>2, <2>5
    <3> QED
        BY <2>8, <3>1, <3>2
  <2>10. Shown(k) = S \union T
    <3>1. 1..k = 1..j \union {k}
        BY <2>5
    <3> QED
        BY <2>8, <3>1
  <2>11. S \cap T = {}
    <3>1. ASSUME NEW l \in 1..j PROVE Level(t[l]) \cap Level(t[k]) = {}
      <4>1. l \in 1..n /\ l # k
          BY <2>5
      <4>2. t[l] # t[k] /\ t[l] \in Firsts(side) /\ t[k] \in Firsts(side)
          BY <1>1, <2>5, <4>1
      <4> QED
          BY <4>2, FirstsAreLevels
    <3> QED
        BY <2>8, <3>1
  <2>12. BaseOf(S \union T) = BaseOf(S) + BaseOf(T)
      BY <2>9, <2>11, BasesOfBoth
  <2>13. SumFunctionOnSet(b, 1..k) = BaseOf(S) + BaseOf(T)
    <3> HIDE DEF Shown
    <3> QED
        BY <2>5, <2>6, <2>7, <2>8
  <2> HIDE DEF Shown
  <2> QED
      BY <2>3, <2>10, <2>12, <2>13
<1>6. ASSUME NEW k \in 1..n PROVE SumFunctionOnSet(b, 1..k) = BaseOf(Compatible(Flip(side), Book[t[k]].price))
  <2>1. k \in 0..n /\ k \notin wrong
    <3>1. k \in 0..n
        OBVIOUS
    <3> HIDE DEF wrong
    <3> QED
        BY <1>5, <3>1
  <2>2. SumFunctionOnSet(b, 1..k) = BaseOf(Shown(k))
    <3> HIDE DEF Shown
    <3> QED
        BY <2>1
  <2>3. k \in 1..c
      OBVIOUS
  <2>4. Compatible(Flip(side), Book[t[k]].price) = Shown(k)
    <3>1. Compatible(Flip(side), Book[t[k]].price) = LevelsUpTo(t, k)
        BY <2>3, LetInByLevel
    <3> QED
        BY <3>1 DEF LevelsUpTo
  <2> HIDE DEF Shown
  <2> QED
      BY <2>2, <2>4
<1> QED
    BY <1>6

LEMMA LevelsReached ==
  ASSUME StoredOK, NEW side \in Side, NEW depth \in Nat, NEW levels, levels = Levels(side, depth)
  PROVE  Reachable(levels, side)
<1>1. Firsts(side) \in SUBSET DOMAIN Book
    BY FirstsAreLevels
<1>2. PICK c \in Nat : c = Cardinality(Firsts(side))
    BY <1>1, OrdersFinite
<1>3. PICK t : t = Sorted(Firsts(side), Flip(side))
    OBVIOUS
<1>4. InTurn(Firsts(side), Flip(side), c, t)
    BY <1>1, <1>2, <1>3, SortedInTurn
<1>5. DOMAIN t = 1..c
    BY <1>4 DEF InTurn
<1>6. PICK v : v = [k \in 1..c |-> [price |-> Book[t[k]].price, base |-> BaseOf(Level(t[k]))]]
    OBVIOUS
<1>7. PICK S : S = {v[k] : k \in 1..c}
    OBVIOUS
<1>8. v \in Seq(S) /\ Len(v) = c
  <2>1. v \in [1..c -> S]
      BY <1>6, <1>7
  <2> QED
      BY <1>2, <2>1, SeqDef, LenProperties
<1>9. levels = Foremost(v, depth)
    BY <1>3, <1>5, <1>6 DEF Levels, Firsts
<1>10. /\ levels \in Seq(S) /\ Len(levels) \in 0..c
       /\ \A k \in 1..Len(levels) : k \in 1..c /\ levels[k] = v[k]
  <2>1. /\ Foremost(v, depth) \in Seq(S) /\ Len(Foremost(v, depth)) \in 0..Len(v)
        /\ \A k \in 1..Len(Foremost(v, depth)) : k \in 1..Len(v) /\ Foremost(v, depth)[k] = v[k]
      BY <1>8, ForemostFirst
  <2> QED
      BY <1>8, <1>9, <2>1
<1>11. PICK n \in 0..c : n = Len(levels) /\ DOMAIN levels = 1..n
    BY <1>10, LenProperties
<1>12. PICK b : b = [l \in DOMAIN levels |-> levels[l].base]
    OBVIOUS
<1>13. \A k \in 1..n : b[k] = BaseOf(Level(t[k])) /\ levels[k].price = Book[t[k]].price
  <2> TAKE k \in 1..n
  <2>1. k \in 1..c /\ k \in DOMAIN levels /\ levels[k] = v[k]
      BY <1>10, <1>11
  <2>2. v[k] = [price |-> Book[t[k]].price, base |-> BaseOf(Level(t[k]))]
      BY <1>6, <2>1
  <2> QED
      BY <1>12, <2>1, <2>2
<1>14. \A k \in 1..n : SumFunctionOnSet(b, 1..k) = BaseOf(Compatible(Flip(side), Book[t[k]].price))
  <2>1. \A k \in 1..n : b[k] = BaseOf(Level(t[k]))
      BY <1>13
  <2> QED
      BY <1>2, <1>4, <2>1, ShownUpTo
<1> QED
    BY <1>11, <1>12, <1>13, <1>14 DEF Reachable

-----------------------------------------------------------------------------
(* Answers.                                                                 *)

\* What an answer a to a request r must be.
FollowsBook(r, a) ==
    /\ a.kind # "book"
    /\ a.kind = "route" => BestRoute(r, a)
    /\ a.kind = "route" /\ r.denomination = "base" =>
         a.report.unfilled = a.unfilled /\ a.report.consumed = UnitsOf(a.plans)
    /\ a.kind = "fokUnfillable" /\ r.denomination = "base" => Unfillable(r)

LEMMA RequestTyped ==
  ASSUME NEW r \in Request
  PROVE  r.amount \in Nat \ {0}
BY BookAssumption DEF Request

LEMMA FailureFollows ==
  ASSUME NEW r, NEW why, why \notin {"book", "route", "fokUnfillable"}
  PROVE  FollowsBook(r, Failed(why)) /\ FollowsBook(r, [kind |-> why])
BY DEF FollowsBook, Failed

LEMMA LiquidityTaken ==
  ASSUME StoredOK, NEW r \in Request, NEW a, a = TakeLiquidity(r)
  PROVE  FollowsBook(r, a)
<1>1. PICK s : s = ExecutableOrders(r.side, r.limit)
    OBVIOUS
<1>2. PICK required : required = RequiredBase(r, IF r.limit = NoLimit THEN Book[s[1]].price ELSE r.limit)
    OBVIOUS
<1>3. PICK report : report = MatchingFromBook(Depth(s), required)
    OBVIOUS
<1>4. a = IF s = <<>> THEN Failed("noLiquidity")
          ELSE IF required = 0 THEN Failed("error")
          ELSE IF r.action = "fok" /\ Depth(s) < required THEN Failed("fokUnfillable")
          ELSE PrepareMarketRoute(s, r, report)
    BY <1>1, <1>2, <1>3 DEF TakeLiquidity
<1>5. r.denomination = "base" => required = r.amount
    BY <1>2 DEF RequiredBase
<1>6. r.amount \in Nat \ {0} /\ r.amount \in Nat
    BY RequestTyped
<1>7. CASE a = Failed("noLiquidity") \/ a = Failed("error")
    BY <1>7, FailureFollows
<1>8. CASE a = Failed("fokUnfillable") /\ Depth(s) < required
  <2>1. r.denomination = "base" => Unfillable(r)
      BY <1>1, <1>5, <1>6, <1>8, ForemostSuffice
  <2> QED
      BY <1>8, <2>1 DEF FollowsBook, Failed
<1>9. CASE s # <<>> /\ a = PrepareMarketRoute(s, r, report)
  <2>1. a.kind \in {"error", "route"}
      BY <1>9 DEF PrepareMarketRoute, Failed
  <2>2. a.kind = "route" => BestRoute(r, a)
      BY <1>1, <1>6, <1>9, TakenIsBest
  <2>3. ASSUME a.kind = "route", r.denomination = "base"
        PROVE  a.report.unfilled = a.unfilled /\ a.report.consumed = UnitsOf(a.plans)
    <3>1. a = PrepareMarketRoute(s, r, MatchingFromBook(Depth(s), r.amount))
        BY <1>3, <1>5, <1>9, <2>3
    <3> QED
        BY <1>1, <1>6, <1>9, <2>3, <3>1, ReportIsOfRoute
  <2> QED
      BY <2>1, <2>2, <2>3 DEF FollowsBook
<1> QED
    BY <1>4, <1>7, <1>8, <1>9

LEMMA PlacedOrTaken ==
  ASSUME StoredOK, NEW r \in Request, NEW a, a = Place(r)
  PROVE  FollowsBook(r, a)
<1>1. a = Failed("error") \/ a = TakeLiquidity(r) \/ a = [kind |-> "rests"]
    BY DEF Place
<1> QED
    BY <1>1, LiquidityTaken, FailureFollows

\* While the book stays so does all that is read from it.
LEMMA BookStays ==
  ASSUME stored' = stored
  PROVE  /\ \A r, route : BestRoute(r, route)' <=> BestRoute(r, route)
         /\ \A r : Unfillable(r)' <=> Unfillable(r)
         /\ \A r, route : GivesItsOwn(r, route)' <=> GivesItsOwn(r, route)
         /\ \A levels, side : Reachable(levels, side)' <=> Reachable(levels, side)
<1>1. Book' = Book
    BY DEF Book, AsRequestedPair
<1>2. \A side, limit : Compatible(side, limit)' = Compatible(side, limit)
    BY <1>1 DEF Compatible
<1>3. \A i, denomination : Capacity(i, denomination)' = Capacity(i, denomination)
    BY <1>1 DEF Capacity
<1>4. \A S : BaseOf(S)' = BaseOf(S)
    BY <1>1 DEF BaseOf
<1>5. \A side, i, j : Before(side, i, j)' <=> Before(side, i, j)
    BY <1>1 DEF Before
<1>6. \A r, route : BestRoute(r, route)' <=> BestRoute(r, route)
    BY <1>1, <1>2, <1>3 DEF BestRoute
<1>7. \A r : Unfillable(r)' <=> Unfillable(r)
    BY <1>2, <1>4, <1>5 DEF Unfillable
<1>8. \A r, route : GivesItsOwn(r, route)' <=> GivesItsOwn(r, route)
    BY <1>3 DEF GivesItsOwn
<1>9. \A levels, side : Reachable(levels, side)' <=> Reachable(levels, side)
    BY <1>2, <1>4 DEF Reachable
<1> QED
    BY <1>6, <1>7, <1>8, <1>9

LEMMA CreateFollows ==
  ASSUME StoredOK, NEW r \in Request, Create(r), stored' = stored
  PROVE  AnswerFollowsBook'
<1>1. PICK a, q : a = answer' /\ q = asked'
    OBVIOUS
<1>2. q = r /\ r.action # "execute" /\ r.action \in {"market", "ioc", "fok", "gtc", "postOnly"}
    BY <1>1 DEF Create, Request
<1>3. a = Failed("error") \/ a = Failed("crossing") \/ a = TakeLiquidity(r) \/ a = Place(r)
    BY <1>1, <1>2 DEF Create
<1>4. FollowsBook(r, a)
    BY <1>3, FailureFollows, LiquidityTaken, PlacedOrTaken
<1>5. BestRoute(r, a)' <=> BestRoute(r, a)
    BY BookStays
<1>6. Unfillable(r)' <=> Unfillable(r)
    BY BookStays
<1>7. RouteIsBest'
    BY <1>1, <1>2, <1>4, <1>5 DEF RouteIsBest, Routed, FollowsBook
<1>8. ReportAgrees'
    BY <1>1, <1>2, <1>4, <1>6 DEF ReportAgrees, Routed, FollowsBook
<1>9. ExecutedAlone'
    BY <1>1, <1>2 DEF ExecutedAlone
<1>10. LevelsAreReachable'
    BY <1>1, <1>4 DEF LevelsAreReachable, FollowsBook
<1> QED
    BY <1>7, <1>8, <1>9, <1>10 DEF AnswerFollowsBook

LEMMA ExecuteFollows ==
  ASSUME StoredOK, NEW r \in Request, NEW i \in DOMAIN stored, ExecuteOrder(i, r), stored' = stored
  PROVE  AnswerFollowsBook'
<1>1. PICK a, q : a = answer' /\ q = asked'
    OBVIOUS
<1>2. a = PrepareMarketRoute(<<i>>, r, Nothing) /\ q = [r EXCEPT !.action = "execute"]
    BY <1>1 DEF ExecuteOrder
<1>3. q.action = "execute" /\ q.amount = r.amount /\ q.denomination = r.denomination
    BY <1>2 DEF Request
<1>4. a.kind \in {"error", "route"}
    BY <1>2 DEF PrepareMarketRoute, Failed
<1>5. i \in DOMAIN Book /\ r.amount \in Nat \ {0}
    BY BookTyped, RequestTyped
<1>6. a.kind = "route" => GivesItsOwn(r, a)
    BY <1>2, <1>5, TakenAlone
<1>7. a.kind = "route" => GivesItsOwn(q, a)
    BY <1>3, <1>6 DEF GivesItsOwn
<1>8. GivesItsOwn(q, a)' <=> GivesItsOwn(q, a)
    BY BookStays
<1>9. RouteIsBest' /\ ReportAgrees'
    BY <1>1, <1>3, <1>4 DEF RouteIsBest, ReportAgrees, Routed
<1>10. ExecutedAlone'
    BY <1>1, <1>7, <1>8 DEF ExecutedAlone
<1>11. LevelsAreReachable'
    BY <1>1, <1>4 DEF LevelsAreReachable
<1> QED
    BY <1>9, <1>10, <1>11 DEF AnswerFollowsBook

LEMMA QueryFollows ==
  ASSUME StoredOK, NEW depth \in 1..MaxOrders, QueryBook(depth), stored' = stored
  PROVE  AnswerFollowsBook'
<1>1. PICK a : a = answer'
    OBVIOUS
<1>2. a = Failed("error") \/ a = [kind |-> "book", bids |-> Levels("buy", depth), asks |-> Levels("sell", depth)]
    BY <1>1 DEF QueryBook
<1>3. a.kind \in {"error", "book"}
    BY <1>2 DEF Failed
<1>4. PICK bids, asks : bids = Levels("buy", depth) /\ asks = Levels("sell", depth)
    OBVIOUS
<1>5. Reachable(bids, "buy") /\ Reachable(asks, "sell")
  <2>1. depth \in Nat /\ "buy" \in Side /\ "sell" \in Side
      BY BookAssumption DEF Side
  <2> QED
      BY <1>4, <2>1, LevelsReached
<1>6. (Reachable(bids, "buy")' <=> Reachable(bids, "buy")) /\ (Reachable(asks, "sell")' <=> Reachable(asks, "sell"))
    BY BookStays
<1>7. a.kind = "book" => a.bids = bids /\ a.asks = asks
    BY <1>2, <1>4 DEF Failed
<1>8. LevelsAreReachable'
    BY <1>1, <1>5, <1>6, <1>7 DEF LevelsAreReachable
<1>9. RouteIsBest' /\ ReportAgrees' /\ ExecutedAlone'
    BY <1>1, <1>3 DEF RouteIsBest, ReportAgrees, ExecutedAlone, Routed
<1> QED
    BY <1>8, <1>9 DEF AnswerFollowsBook

\* Every request for a route, a limit order or the levels is answered as the book of its pair has it, whatever
\* the orders, prices and sizes: best prices first, no more and no less than asked or there is, the report that of
\* the route, the levels what a limit at their price reaches (service.ts: execute; trading.ts: prepareMarketRoute).
THEOREM AnswersFollowBook == BookSpec => []AnswerFollowsBook
<1>1. BookInit => StoredOK /\ AnswerFollowsBook
    BY DEF BookInit, StoredOK, AnswerFollowsBook, RouteIsBest, ReportAgrees, ExecutedAlone, LevelsAreReachable,
           Routed, Nothing
<1>2. StoredOK /\ AnswerFollowsBook /\ [BookNext]_bookVars => StoredOK' /\ AnswerFollowsBook'
  <2> SUFFICES ASSUME StoredOK, AnswerFollowsBook, [BookNext]_bookVars
               PROVE  StoredOK' /\ AnswerFollowsBook'
      OBVIOUS
  <2>1. stored' = stored
      BY DEF BookNext, bookVars
  <2>2. StoredOK'
      BY <2>1 DEF StoredOK
  <2>3. CASE BookNext
      BY <2>1, <2>2, <2>3, CreateFollows, ExecuteFollows, QueryFollows DEF BookNext
  <2>4. CASE UNCHANGED bookVars
    <3>1. PICK a, q : a = answer /\ q = asked
        OBVIOUS
    <3>2. a = answer' /\ q = asked'
        BY <2>4, <3>1 DEF bookVars
    <3>3. /\ BestRoute(q, a)' <=> BestRoute(q, a)
          /\ Unfillable(q)' <=> Unfillable(q)
          /\ GivesItsOwn(q, a)' <=> GivesItsOwn(q, a)
        BY <2>1, BookStays
    <3>4. PICK bids, asks : bids = a.bids /\ asks = a.asks
        OBVIOUS
    <3>5. (Reachable(bids, "buy")' <=> Reachable(bids, "buy")) /\ (Reachable(asks, "sell")' <=> Reachable(asks, "sell"))
        BY <2>1, BookStays
    <3>6. RouteIsBest'
        BY <3>1, <3>2, <3>3 DEF AnswerFollowsBook, RouteIsBest, Routed
    <3>7. ReportAgrees'
        BY <3>1, <3>2, <3>3 DEF AnswerFollowsBook, ReportAgrees, Routed
    <3>8. ExecutedAlone'
        BY <3>1, <3>2, <3>3 DEF AnswerFollowsBook, ExecutedAlone
    <3>9. LevelsAreReachable'
        BY <3>1, <3>2, <3>4, <3>5 DEF AnswerFollowsBook, LevelsAreReachable
    <3> QED
        BY <2>2, <3>6, <3>7, <3>8, <3>9 DEF AnswerFollowsBook
  <2> QED
      BY <2>2, <2>3, <2>4
<1> QED
    BY <1>1, <1>2, PTL DEF BookSpec
=============================================================================
