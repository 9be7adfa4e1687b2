--------------------------- MODULE Authority_proofs ---------------------------
(***************************************************************************)
(* Theorems of who may act, and once.  The intent controller, for any      *)
(* number of intents, groups, makers and proofs and any minimum            *)
(* persistence; its operator never reports the proof hash that the         *)
(* contract stores for "nothing observed".  The authorization server, for  *)
(* any owners, devices and requests under way at once: what stands behind  *)
(* a grant.  The bridges that share a state directory, any number of them: *)
(* what stands behind their token and their payments.                      *)
(***************************************************************************)
EXTENDS AquaIntentController, Authorization, McpBridge, TLAPS

-----------------------------------------------------------------------------
(* The intent controller.                                                   *)

\* The stored observation is the first of the reports that now stand for the
\* same proof.
StandsSinceFirst ==
    \A i \in IntentHashes : observations[i].proofHash # NoProof =>
        \E k \in 1 .. Len(reports[i]) :
            /\ \A j \in k .. Len(reports[i]) :
                  reports[i][j].proof = observations[i].proofHash
            /\ reports[i][k].block = observations[i].firstBlock
            /\ reports[i][k].time = observations[i].firstTimestamp

\* A group is closed as soon as one of its intents activated.
ActivatedIsClosed ==
    \A i \in IntentHashes, g \in Groups : activations[i][g] > 0 => g \in closedGroups

\* A nonce is used as soon as an intent signed with it was consumed.
ConsumedIsUsed ==
    \A s \in SignedIntents : consumed[s] > 0 => s.nonce \in nonceUsed[s.maker]

ControllerInvariant ==
    /\ TypeOK
    /\ StandsSinceFirst
    /\ ActivatedIsClosed /\ GroupActivatesOnce
    /\ ConsumedIsUsed /\ NonceConsumedOnce

LEMMA ControllerBegins == ASSUME Init PROVE ControllerInvariant
<1> USE DEF Init, InitBoundTo, NoObservation, Makers, Nonces
<1>1. TypeOK
    BY DEF TypeOK
<1>2. StandsSinceFirst /\ ActivatedIsClosed /\ GroupActivatesOnce
    BY DEF StandsSinceFirst, ActivatedIsClosed, GroupActivatesOnce
<1>3. ConsumedIsUsed /\ NonceConsumedOnce
    BY DEF ConsumedIsUsed, NonceConsumedOnce
<1> QED
    BY <1>1, <1>2, <1>3 DEF ControllerInvariant

\* What a report, or a withdrawal or activation, does to the log of an intent.
LEMMA ReportAppends ==
    ASSUME NEW log \in Seq([proof : Proofs, block : Nat, time : Nat]),
           NEW p \in Proofs, NEW b \in Nat, NEW t \in Nat,
           NEW last, last = Append(log, [proof |-> p, block |-> b, time |-> t])
    PROVE  /\ last \in Seq([proof : Proofs, block : Nat, time : Nat])
           /\ Len(last) = Len(log) + 1
           /\ \A j \in 1 .. Len(log) : last[j] = log[j]
           /\ last[Len(log) + 1] = [proof |-> p, block |-> b, time |-> t]
    OBVIOUS

LEMMA SignersKnown == \A s \in SignedIntents : s.maker \in Makers /\ s.nonce \in Nonces
    BY DEF Makers, Nonces

LEMMA ConsumePreserves ==
    ASSUME ControllerInvariant, NEW s \in SignedIntents, Consume(s)
    PROVE  ControllerInvariant'
<1> USE DEF Consume, chainVars, ControllerInvariant
<1>1. s.maker \in Makers /\ s.nonce \in Nonces
    BY SignersKnown
<1>2. /\ nonceUsed' \in [Makers -> SUBSET Nonces]
      /\ \A maker \in Makers : nonceUsed'[maker] =
            IF maker = s.maker THEN nonceUsed[maker] \cup {s.nonce} ELSE nonceUsed[maker]
    BY <1>1 DEF TypeOK
<1>3. /\ consumed' \in [SignedIntents -> Nat]
      /\ \A other \in SignedIntents : consumed'[other] =
            IF other = s THEN consumed[s] + 1 ELSE consumed[other]
    BY DEF TypeOK
<1>4. TypeOK'
    BY <1>2, <1>3 DEF TypeOK
<1>5. StandsSinceFirst' /\ ActivatedIsClosed' /\ GroupActivatesOnce'
    BY DEF StandsSinceFirst, ActivatedIsClosed, GroupActivatesOnce
<1>6. \A other \in SignedIntents :
          other.maker = s.maker /\ other.nonce = s.nonce => consumed[other] = 0
  <2> SUFFICES ASSUME NEW other \in SignedIntents,
                      other.maker = s.maker, other.nonce = s.nonce
               PROVE  ~(consumed[other] > 0)
      BY DEF TypeOK
  <2> QED
      BY DEF ConsumedIsUsed
<1>7. ConsumedIsUsed'
  <2> SUFFICES ASSUME NEW other \in SignedIntents, consumed'[other] > 0
               PROVE  other.nonce \in nonceUsed'[other.maker]
      BY DEF ConsumedIsUsed
  <2>1. other.maker \in Makers
      BY SignersKnown
  <2> QED
      BY <1>2, <1>3, <2>1 DEF ConsumedIsUsed
<1>8. NonceConsumedOnce'
    BY <1>3, <1>6 DEF NonceConsumedOnce
<1> QED
    BY <1>4, <1>5, <1>7, <1>8

LEMMA ObservePreserves ==
    ASSUME ControllerInvariant, NoProof \notin Proofs, ControllerAssumption,
           NEW sender, NEW i \in IntentHashes, NEW p \in Proofs, Observe(sender, i, p)
    PROVE  ControllerInvariant'
<1> USE DEF Observe, chainVars, ControllerInvariant
<1> DEFINE log  == reports[i]
           last == reports'[i]
<1>1. log \in Seq([proof : Proofs, block : Nat, time : Nat]) /\ block \in Nat /\ time \in Nat
    BY DEF TypeOK
<1>2. last = Append(log, [proof |-> p, block |-> block, time |-> time])
    BY DEF TypeOK, Reported, Report
<1>3. /\ last \in Seq([proof : Proofs, block : Nat, time : Nat])
      /\ Len(last) = Len(log) + 1
      /\ \A j \in 1 .. Len(log) : last[j] = log[j]
      /\ last[Len(log) + 1] = [proof |-> p, block |-> block, time |-> time]
    BY <1>1, <1>2, ReportAppends
<1>4. \A other \in IntentHashes \ {i} :
          reports'[other] = reports[other] /\ observations'[other] = observations[other]
    BY DEF TypeOK, Reported
<1>5. TypeOK'
  <2>1. observations' \in [IntentHashes -> [firstTimestamp : 0 .. time', firstBlock : 0 .. block',
                                            proofHash : Proofs \cup {NoProof}]]
      BY DEF TypeOK
  <2>2. reports' \in [IntentHashes -> Seq([proof : Proofs, block : Nat, time : Nat])]
      BY <1>3 DEF TypeOK, Reported
  <2> QED
      BY <2>1, <2>2 DEF TypeOK
<1>6. StandsSinceFirst'
  <2> SUFFICES ASSUME NEW other \in IntentHashes, observations'[other].proofHash # NoProof
               PROVE  \E k \in 1 .. Len(reports'[other]) :
                        /\ \A j \in k .. Len(reports'[other]) :
                              reports'[other][j].proof = observations'[other].proofHash
                        /\ reports'[other][k].block = observations'[other].firstBlock
                        /\ reports'[other][k].time = observations'[other].firstTimestamp
      BY DEF StandsSinceFirst
  <2>1. CASE other # i
      BY <2>1, <1>4 DEF StandsSinceFirst
  <2>2. CASE other = i /\ observations[i].proofHash = p
    <3>1. observations'[i] = observations[i]
        BY <2>2 DEF TypeOK
    <3>2. PICK k \in 1 .. Len(log) :
            /\ \A j \in k .. Len(log) : log[j].proof = observations[i].proofHash
            /\ log[k].block = observations[i].firstBlock
            /\ log[k].time = observations[i].firstTimestamp
        BY <2>2 DEF StandsSinceFirst
    <3>3. k \in 1 .. Len(last) /\ last[k] = log[k]
        BY <1>1, <1>3
    <3>4. \A j \in k .. Len(last) : last[j].proof = p
      <4> SUFFICES ASSUME NEW j \in k .. Len(last) PROVE last[j].proof = p
          OBVIOUS
      <4>1. CASE j = Len(log) + 1
          BY <4>1, <1>3
      <4>2. CASE j # Len(log) + 1
        <5>1. Len(log) \in Nat /\ Len(last) = Len(log) + 1
            BY <1>1, <1>3
        <5>2. j \in k .. Len(log) /\ j \in 1 .. Len(log)
            BY <4>2, <5>1
        <5> QED
            BY <5>2, <1>3, <2>2, <3>2
      <4> QED
          BY <4>1, <4>2
    <3> QED
        BY <2>2, <3>1, <3>2, <3>3, <3>4
  <2>3. CASE other = i /\ observations[i].proofHash # p
    <3>1. observations'[i] = [firstTimestamp |-> time, firstBlock |-> block, proofHash |-> p]
        BY <2>3 DEF TypeOK
    <3>2. Len(last) \in 1 .. Len(last) /\ last[Len(last)] = [proof |-> p, block |-> block, time |-> time]
        BY <1>1, <1>3
    <3>3. \A j \in Len(last) .. Len(last) : last[j].proof = p
        BY <1>1, <1>3, <3>2
    <3> QED
        BY <2>3, <3>1, <3>2, <3>3
  <2> QED
      BY <2>1, <2>2, <2>3
<1>7. ActivatedIsClosed' /\ GroupActivatesOnce' /\ ConsumedIsUsed' /\ NonceConsumedOnce'
    BY DEF ActivatedIsClosed, GroupActivatesOnce, ConsumedIsUsed, NonceConsumedOnce
<1> QED
    BY <1>5, <1>6, <1>7

\* Withdrawals and activations empty the record and the log of one intent.
LEMMA ForgettingPreserves ==
    ASSUME ControllerInvariant, NEW i \in IntentHashes, Forgotten(i),
           observations' = [observations EXCEPT ![i] = NoObservation],
           UNCHANGED chainVars
    PROVE  /\ observations' \in [IntentHashes -> [firstTimestamp : 0 .. time', firstBlock : 0 .. block',
                                                  proofHash : Proofs \cup {NoProof}]]
           /\ reports' \in [IntentHashes -> Seq([proof : Proofs, block : Nat, time : Nat])]
           /\ StandsSinceFirst'
<1> USE DEF ControllerInvariant, Forgotten, NoObservation, chainVars
<1>1. observations' \in [IntentHashes -> [firstTimestamp : 0 .. time', firstBlock : 0 .. block',
                                          proofHash : Proofs \cup {NoProof}]]
  <2>1. time \in Nat /\ block \in Nat /\ time' = time /\ block' = block
      BY DEF TypeOK
  <2>2. NoObservation \in [firstTimestamp : 0 .. time, firstBlock : 0 .. block,
                           proofHash : Proofs \cup {NoProof}]
      BY <2>1
  <2> QED
      BY <2>1, <2>2 DEF TypeOK
<1>2. reports' \in [IntentHashes -> Seq([proof : Proofs, block : Nat, time : Nat])]
  <2>1. << >> \in Seq([proof : Proofs, block : Nat, time : Nat])
      OBVIOUS
  <2> QED
      BY <2>1 DEF TypeOK
<1>3. /\ observations'[i].proofHash = NoProof
      /\ \A other \in IntentHashes \ {i} :
            reports'[other] = reports[other] /\ observations'[other] = observations[other]
    BY DEF TypeOK
<1>4. StandsSinceFirst'
    BY <1>3 DEF StandsSinceFirst
<1> QED
    BY <1>1, <1>2, <1>4

LEMMA ResetPreserves ==
    ASSUME ControllerInvariant, NEW sender, NEW i \in IntentHashes, Reset(sender, i)
    PROVE  ControllerInvariant'
<1>1. /\ observations' \in [IntentHashes -> [firstTimestamp : 0 .. time', firstBlock : 0 .. block',
                                             proofHash : Proofs \cup {NoProof}]]
      /\ reports' \in [IntentHashes -> Seq([proof : Proofs, block : Nat, time : Nat])]
      /\ StandsSinceFirst'
    BY ForgettingPreserves DEF Reset
<1>2. TypeOK'
    BY <1>1 DEF Reset, chainVars, ControllerInvariant, TypeOK
<1>3. ActivatedIsClosed' /\ GroupActivatesOnce' /\ ConsumedIsUsed' /\ NonceConsumedOnce'
    BY DEF Reset, ControllerInvariant, ActivatedIsClosed, GroupActivatesOnce, ConsumedIsUsed,
           NonceConsumedOnce
<1> QED
    BY <1>1, <1>2, <1>3 DEF ControllerInvariant

LEMMA ActivatePreserves ==
    ASSUME ControllerInvariant,
           NEW sender, NEW i \in IntentHashes, NEW g \in Groups, NEW p, Activate(sender, i, g, p)
    PROVE  ControllerInvariant'
<1> USE DEF Activate, Activated, ControllerInvariant
<1>1. /\ observations' \in [IntentHashes -> [firstTimestamp : 0 .. time', firstBlock : 0 .. block',
                                             proofHash : Proofs \cup {NoProof}]]
      /\ reports' \in [IntentHashes -> Seq([proof : Proofs, block : Nat, time : Nat])]
      /\ StandsSinceFirst'
    BY ForgettingPreserves
<1>2. activations' \in [IntentHashes -> [Groups -> Nat]]
  <2>1. [activations[i] EXCEPT ![g] = @ + 1] \in [Groups -> Nat]
      BY DEF TypeOK
  <2>2. activations' = [activations EXCEPT ![i] = [activations[i] EXCEPT ![g] = @ + 1]]
      OBVIOUS
  <2> QED
      BY <2>1, <2>2 DEF TypeOK
<1>3. TypeOK'
    BY <1>1, <1>2 DEF chainVars, TypeOK
<1>4. \A j \in IntentHashes, h \in Groups : activations'[j][h] =
          IF j = i /\ h = g THEN activations[j][h] + 1 ELSE activations[j][h]
    BY DEF TypeOK
<1>5. \A j \in IntentHashes : activations[j][g] = 0
    BY DEF TypeOK, ActivatedIsClosed
<1>6. ActivatedIsClosed'
    BY <1>4 DEF ActivatedIsClosed
<1>7. GroupActivatesOnce'
    BY <1>4, <1>5 DEF GroupActivatesOnce
<1>8. ConsumedIsUsed' /\ NonceConsumedOnce'
    BY DEF ConsumedIsUsed, NonceConsumedOnce
<1> QED
    BY <1>1, <1>3, <1>6, <1>7, <1>8

LEMMA OthersPreserve ==
    ASSUME ControllerInvariant,
           \/ \E sender, account \in Senders : BindMatcher(sender, account)
           \/ \E t \in 1 .. MaxTime : NewBlock(t)
           \/ UNCHANGED vars
    PROVE  ControllerInvariant'
<1> USE DEF BindMatcher, NewBlock, vars, chainVars, historyVars, ControllerInvariant
<1>1. TypeOK'
  <2>1. CASE \E t \in 1 .. MaxTime : NewBlock(t)
    <3>1. block' \in Nat /\ time' \in Nat /\ block <= block' /\ time <= time'
        BY <2>1, ControllerAssumption DEF TypeOK, ControllerAssumption
    <3>2. (0 .. block) \subseteq (0 .. block') /\ (0 .. time) \subseteq (0 .. time')
        BY <3>1 DEF TypeOK
    <3>3. observations' \in [IntentHashes -> [firstTimestamp : 0 .. time', firstBlock : 0 .. block',
                                              proofHash : Proofs \cup {NoProof}]]
        BY <2>1, <3>2 DEF TypeOK
    <3> QED
        BY <2>1, <3>1, <3>3 DEF TypeOK
  <2>2. CASE \E sender, account \in Senders : BindMatcher(sender, account)
      BY <2>2 DEF TypeOK
  <2>3. CASE UNCHANGED vars
      BY <2>3 DEF TypeOK
  <2> QED
      BY <2>1, <2>2, <2>3
<1>2. StandsSinceFirst' /\ ActivatedIsClosed' /\ GroupActivatesOnce'
    BY DEF StandsSinceFirst, ActivatedIsClosed, GroupActivatesOnce
<1>3. ConsumedIsUsed' /\ NonceConsumedOnce'
    BY DEF ConsumedIsUsed, NonceConsumedOnce
<1> QED
    BY <1>1, <1>2, <1>3

LEMMA ControllerInvariance == ASSUME NoProof \notin Proofs PROVE Spec => []ControllerInvariant
<1>1. Init => ControllerInvariant
    BY ControllerBegins
<1>2. ControllerInvariant /\ [Next]_vars => ControllerInvariant'
  <2> SUFFICES ASSUME ControllerInvariant, [Next]_vars PROVE ControllerInvariant'
      OBVIOUS
  <2>1. CASE \E s \in SignedIntents : Consume(s)
      BY <2>1, ConsumePreserves
  <2>2. CASE \E sender \in Senders, i \in IntentHashes, p \in Proofs : Observe(sender, i, p)
      BY <2>2, ObservePreserves, ControllerAssumption
  <2>3. CASE \E sender \in Senders, i \in IntentHashes : Reset(sender, i)
      BY <2>3, ResetPreserves
  <2>4. CASE \E sender \in Senders, i \in IntentHashes, g \in Groups, p \in Proofs :
                Activate(sender, i, g, p)
      BY <2>4, ActivatePreserves
  <2>5. CASE \/ \E sender, account \in Senders : BindMatcher(sender, account)
             \/ \E t \in 1 .. MaxTime : NewBlock(t)
             \/ UNCHANGED vars
      BY <2>5, OthersPreserve
  <2> QED
      BY <2>1, <2>2, <2>3, <2>4, <2>5 DEF Next
<1> QED
    BY <1>1, <1>2, PTL DEF Spec

\* No call drives a variable of the controller out of its type, and no stored
\* observation lies in the future.
THEOREM ControllerTyping == ASSUME NoProof \notin Proofs PROVE Spec => []TypeOK
<1>1. ControllerInvariant => TypeOK
    BY DEF ControllerInvariant
<1> QED
    BY <1>1, ControllerInvariance, PTL

\* One intent of a group activates, once (closedGroups in activate).
THEOREM OneActivationPerGroup == ASSUME NoProof \notin Proofs PROVE Spec => []GroupActivatesOnce
<1>1. ControllerInvariant => GroupActivatesOnce
    BY DEF ControllerInvariant
<1> QED
    BY <1>1, ControllerInvariance, PTL

\* A maker's nonce serves one signed intent, once (nonceUsed in consume).
THEOREM OneIntentPerNonce == ASSUME NoProof \notin Proofs PROVE Spec => []NonceConsumedOnce
<1>1. ControllerInvariant => NonceConsumedOnce
    BY DEF ControllerInvariant
<1> QED
    BY <1>1, ControllerInvariance, PTL

\* An intent activates only on a proof reported persistently for the minimum
\* of blocks and seconds (observe and activate).
THEOREM PersistenceHolds ==
    ASSUME NoProof \notin Proofs PROVE Spec => ActivationIsPersistent
<1>1. ControllerInvariant /\ [Next]_vars =>
        [\A i \in IntentHashes :
            activations'[i] # activations[i] => \E p \in Proofs : Persistent(i, p)]_vars
  <2> SUFFICES ASSUME ControllerInvariant, Next,
                      NEW i \in IntentHashes, activations'[i] # activations[i]
               PROVE  \E p \in Proofs : Persistent(i, p)
      OBVIOUS
  <2>1. PICK sender \in Senders, other \in IntentHashes, g \in Groups, p \in Proofs :
            Activate(sender, other, g, p)
      BY DEF Next, Consume, Observe, Reset, BindMatcher, NewBlock, historyVars
  <2>2. other = i
      BY <2>1 DEF Activate, Activated, ControllerInvariant, TypeOK
  <2>3. /\ observations[i].proofHash = p /\ p # NoProof
        /\ block >= observations[i].firstBlock + MinimumBlocks
        /\ time >= observations[i].firstTimestamp + MinimumDelay
      BY <2>1, <2>2 DEF Activate, Due
  <2>4. PICK k \in 1 .. Len(reports[i]) :
            /\ \A j \in k .. Len(reports[i]) : reports[i][j].proof = p
            /\ reports[i][k].block = observations[i].firstBlock
            /\ reports[i][k].time = observations[i].firstTimestamp
      BY <2>3 DEF ControllerInvariant, StandsSinceFirst
  <2> QED
      BY <2>3, <2>4 DEF Persistent
<1> QED
    BY <1>1, ControllerInvariance, PTL DEF Spec, ActivationIsPersistent

-----------------------------------------------------------------------------
(* The invariant of the authorization server.  A confirmed challenge is     *)
(* handed on, from the request that spent it to a code, from there to a     *)
(* family of tokens: it is in one place at a time.                          *)

Routes == {"verify", "complete"}
Assertion == [device : Device, by : ChallengeIds, counter : Nat]
Starting  == [at : {"begin"}, by : ChallengeIds]
Verifying == [at : {"credential"}, assertion : Assertion, route : Routes]
             \union [at : {"counter"}, assertion : Assertion, route : Routes, previous : Nat]
Verified  == [at : Routes \union {"code"}, by : ChallengeIds, owner : Owner]
Issuing   == [at : {"tokens"}, owner : Owner, by : ChallengeIds, family : (1..MaxTokens) \union {None}]
Call      == Starting \union Verifying \union Verified \union Issuing
Grant     == [owner : Owner, by : ChallengeIds, from : 0..MaxTokens]

Typed ==
    /\ AuthorizationTypeOK
    /\ calls \subseteq Call
    /\ assertions \subseteq Assertion /\ accepted \subseteq assertions
    /\ \A a \in assertions : a.by \in DOMAIN challenges
    /\ grants \subseteq Grant

\* What devices count, and what the stored counters have let pass.
CountersInOrder ==
    /\ \A d \in Device : credentials[d] # None => credentials[d].owner = HolderOf[d]
    /\ \A a \in assertions : credentials[a.device] # None /\ (a.device \in Counting => a.counter > 0)
    /\ \A a \in accepted : a.counter <= credentials[a.device].counter

\* The challenge that a request has spent, once it is no longer starting one.
Bearing == {k \in calls : k.at # "begin"}
By(k) == IF k.at \in {"credential", "counter"} THEN k.assertion.by ELSE k.by

Spent(c) ==
    /\ c \in DOMAIN challenges
    /\ challenges[c].used /\ challenges[c].ceremony = "authentication"

\* An assertion of the owner has passed for this challenge of his.
Backed(o, c) ==
    /\ Spent(c) /\ challenges[c].owner = o
    /\ \E a \in accepted : a.by = c /\ HolderOf[a.device] = o

AllBacked ==
    /\ \A k \in Bearing :
         /\ Spent(By(k))
         /\ k \in Verifying => k.assertion \in assertions
         /\ k.at = "counter" => credentials[k.assertion.device].owner = challenges[By(k)].owner
         /\ k.at \notin {"credential", "counter"} => Backed(k.owner, By(k))
    /\ \A i \in DOMAIN codes : Backed(codes[i].owner, codes[i].by)
    /\ \A i \in DOMAIN tokens : Backed(tokens[i].owner, tokens[i].by)
    /\ \A g \in grants : Backed(g.owner, g.by)

Uncoded(c) == \A i \in DOMAIN codes : codes[i].by # c
Untouched(c) ==
    /\ \A i \in DOMAIN tokens : tokens[i].by # c
    /\ \A g \in grants : g.by # c
First(k) == k.at = "tokens" /\ k.family = None
Again(k) == k.at = "tokens" /\ k.family # None

InOnePlace ==
    /\ \A k, l \in Bearing : By(k) = By(l) => k = l
    /\ \A k \in Bearing :
         /\ ~Again(k) => Untouched(By(k))
         /\ k.at # "tokens" => Uncoded(By(k))
         /\ \A i \in DOMAIN codes : codes[i].by = By(k) => codes[i].used
         /\ \A i \in DOMAIN tokens : tokens[i].by = By(k) => tokens[i].used
         /\ Again(k) => /\ k.family \in DOMAIN tokens /\ tokens[k.family].by = k.by
                        /\ \A i \in DOMAIN tokens : tokens[i].family = k.family <=> tokens[i].by = k.by
                        /\ \A g \in grants : g.by = k.by => g.from = k.family
    /\ \A i, j \in DOMAIN codes : codes[i].by = codes[j].by => i = j
    /\ \A i \in DOMAIN codes : ~codes[i].used => Untouched(codes[i].by)

Families ==
    /\ \A i \in DOMAIN tokens :
         tokens[i].family \in DOMAIN tokens /\ tokens[tokens[i].family].by = tokens[i].by
    /\ \A i, j \in DOMAIN tokens :
         /\ tokens[i].family = tokens[j].family <=> tokens[i].by = tokens[j].by
         /\ tokens[i].by = tokens[j].by /\ ~tokens[i].used /\ ~tokens[j].used => i = j
    /\ \A g \in grants, i \in DOMAIN tokens : g.by = tokens[i].by => g.from = tokens[i].family
    /\ \A g, h \in grants : g.by = h.by => g = h

SessionInvariant == Typed /\ CountersInOrder /\ AllBacked /\ InOnePlace /\ Families

-----------------------------------------------------------------------------
(* Sequences, and the shapes of requests.                                   *)

LEMMA Appended ==
    ASSUME NEW S, NEW s \in Seq(S), NEW e \in S
    PROVE  /\ Append(s, e) \in Seq(S) /\ Len(Append(s, e)) = Len(s) + 1
           /\ DOMAIN Append(s, e) = DOMAIN s \union {Len(s) + 1} /\ Len(s) + 1 \notin DOMAIN s
           /\ \A i \in DOMAIN s : Append(s, e)[i] = s[i]
           /\ Append(s, e)[Len(s) + 1] = e
    OBVIOUS

LEMMA Replaced ==
    ASSUME NEW S, NEW s \in Seq(S), NEW i \in DOMAIN s, NEW e \in S
    PROVE  LET t == [s EXCEPT ![i] = e] IN
           /\ t \in Seq(S) /\ Len(t) = Len(s) /\ DOMAIN t = DOMAIN s
           /\ \A j \in DOMAIN s : t[j] = IF j = i THEN e ELSE s[j]
    OBVIOUS

LEMMA Shapes ==
    ASSUME NEW k \in Call
    PROVE  /\ k.at = "begin" => k.by \in ChallengeIds
           /\ k.at \in {"credential", "counter"} <=> k \in Verifying
           /\ k \in Verifying => k.assertion \in Assertion /\ k.route \in Routes
           /\ k.at = "counter" => k.previous \in Nat
           /\ k.at \in {"verify", "complete", "code"} =>
                k \in Verified /\ k.by \in ChallengeIds /\ k.owner \in Owner
           /\ k.at = "tokens" =>
                k \in Issuing /\ k.by \in ChallengeIds /\ k.owner \in Owner
                /\ k.family \in (1..MaxTokens) \union {None}
           /\ k.at # "begin" => By(k) \in ChallengeIds
    BY DEF Call, Starting, Verifying, Verified, Issuing, Routes, By, Assertion

-----------------------------------------------------------------------------
LEMMA InitEstablishes == ASSUME AuthorizationInit PROVE SessionInvariant
<1> USE AuthorizationAssumption DEF AuthorizationInit, AuthorizationAssumption
<1>1. Typed
    BY DEF Typed, AuthorizationTypeOK, RequestState, ChallengeIds
<1>2. CountersInOrder
    BY DEF CountersInOrder
<1>3. AllBacked /\ InOnePlace /\ Families
    BY DEF AllBacked, InOnePlace, Families, Bearing
<1> QED
    BY <1>1, <1>2, <1>3 DEF SessionInvariant

-----------------------------------------------------------------------------
(* What a step leaves as it was.                                            *)

\* Challenges and credentials are kept: whose they are, and that they are spent.
ChallengesKept ==
    \A c \in DOMAIN challenges :
        /\ c \in DOMAIN challenges'
        /\ challenges'[c].owner = challenges[c].owner
        /\ challenges'[c].ceremony = challenges[c].ceremony
        /\ challenges[c].used => challenges'[c].used
CredentialsKept ==
    \A d \in Device : credentials[d] # None =>
        credentials'[d] # None /\ credentials'[d].owner = credentials[d].owner

LEMMA NewChallengeKeeps ==
    ASSUME Typed, NEW o \in Owner, NEW ceremony \in Ceremony, NewChallenge(o, ceremony)
    PROVE  /\ challenges' \in Seq(Challenge) /\ Len(challenges') <= MaxChallenges
           /\ ChallengesKept /\ NewId \in ChallengeIds
<1> DEFINE new == [owner |-> o, ceremony |-> ceremony, used |-> FALSE]
<1>1. new \in Challenge /\ challenges \in Seq(Challenge) /\ Len(challenges) < MaxChallenges
    BY DEF Typed, AuthorizationTypeOK, NewChallenge, Challenge
<1>2. challenges' = Append(challenges, new)
    BY DEF NewChallenge
<1> HIDE DEF new
<1>3. challenges' \in Seq(Challenge) /\ ChallengesKept /\ Len(challenges') = Len(challenges) + 1
    BY <1>1, <1>2, Appended DEF ChallengesKept
<1> QED
    BY <1>1, <1>3, AuthorizationAssumption DEF AuthorizationAssumption, NewId, ChallengeIds

LEMMA SpendKeeps ==
    ASSUME Typed, NEW c \in DOMAIN challenges, Spend(c)
    PROVE  /\ challenges' \in Seq(Challenge) /\ Len(challenges') <= MaxChallenges
           /\ ChallengesKept /\ DOMAIN challenges' = DOMAIN challenges
           /\ challenges'[c].used /\ challenges'[c].ceremony = challenges[c].ceremony
<1> DEFINE row == [challenges[c] EXCEPT !.used = TRUE]
<1>1. challenges \in Seq(Challenge) /\ challenges[c] \in Challenge /\ Len(challenges) <= MaxChallenges
    BY DEF Typed, AuthorizationTypeOK
<1>2. /\ row \in Challenge /\ row.used /\ row.owner = challenges[c].owner
      /\ row.ceremony = challenges[c].ceremony
    BY <1>1 DEF Challenge
<1>3. challenges' = [challenges EXCEPT ![c] = row]
    BY DEF Spend
<1> HIDE DEF row
<1> QED
    BY <1>1, <1>2, <1>3, Replaced DEF ChallengesKept

LEMMA BackedStays ==
    ASSUME ChallengesKept, accepted \subseteq accepted', NEW o, NEW c, Backed(o, c)
    PROVE  Backed(o, c)'
    BY DEF ChallengesKept, Backed, Spent

\* Requests end or begin, and nothing is handed on.
LEMMA NothingHandedOn ==
    ASSUME SessionInvariant, ChallengesKept, CredentialsKept, Bearing' \subseteq Bearing,
           assertions \subseteq assertions', UNCHANGED <<codes, tokens, grants, accepted>>
    PROVE  AllBacked' /\ InOnePlace' /\ Families'
<1>1. AllBacked'
  <2>1. \A o, c : Backed(o, c) => Backed(o, c)'
      BY BackedStays
  <2>2. ASSUME NEW k \in Bearing'
        PROVE  /\ Spent(By(k))'
               /\ k \in Verifying => k.assertion \in assertions'
               /\ k.at = "counter" => credentials'[k.assertion.device].owner = challenges'[By(k)].owner
               /\ k.at \notin {"credential", "counter"} => Backed(k.owner, By(k))'
    <3>1. /\ Spent(By(k)) /\ k \in Bearing /\ k \in Call
          /\ k \in Verifying => k.assertion \in assertions
          /\ k.at = "counter" => credentials[k.assertion.device].owner = challenges[By(k)].owner
          /\ k.at \notin {"credential", "counter"} => Backed(k.owner, By(k))
        BY DEF SessionInvariant, AllBacked, Typed, Bearing
    <3>2. k.at = "counter" => /\ credentials[k.assertion.device] # None
                              /\ k.assertion.device \in Device
        BY <3>1, Shapes DEF SessionInvariant, CountersInOrder, Assertion
    <3> QED
        BY <2>1, <3>1, <3>2 DEF Spent, ChallengesKept, CredentialsKept
  <2> QED
      BY <2>1, <2>2 DEF SessionInvariant, AllBacked
<1>2. InOnePlace'
    BY DEF SessionInvariant, InOnePlace, Untouched, Uncoded
<1>3. Families'
    BY DEF SessionInvariant, Families
<1> QED
    BY <1>1, <1>2, <1>3

\* A request goes on, and has not reached a code or a token.
LEMMA RequestGoesOn ==
    ASSUME SessionInvariant, ChallengesKept, CredentialsKept,
           assertions \subseteq assertions', accepted \subseteq accepted', UNCHANGED <<codes, tokens, grants>>,
           NEW k \in Bearing, k.at # "tokens", NEW l, Bearing' \subseteq (Bearing \ {k}) \union {l},
           By(l) = By(k), l.at # "tokens",
           l \in Verifying => l.assertion \in assertions',
           l.at = "counter" => credentials'[l.assertion.device].owner = challenges'[By(l)].owner,
           l.at \notin {"credential", "counter"} => Backed(l.owner, By(l))'
    PROVE  AllBacked' /\ InOnePlace' /\ Families'
<1>1. AllBacked'
  <2>1. \A o, c : Backed(o, c) => Backed(o, c)'
      BY BackedStays
  <2>2. ASSUME NEW m \in Bearing'
        PROVE  /\ Spent(By(m))'
               /\ m \in Verifying => m.assertion \in assertions'
               /\ m.at = "counter" => credentials'[m.assertion.device].owner = challenges'[By(m)].owner
               /\ m.at \notin {"credential", "counter"} => Backed(m.owner, By(m))'
    <3>1. CASE m = l
      <4>1. Spent(By(k))
          BY DEF SessionInvariant, AllBacked
      <4> QED
          BY <3>1, <4>1 DEF Spent, ChallengesKept
    <3>2. CASE m # l
      <4>1. /\ Spent(By(m)) /\ m \in Bearing /\ m \in Call
            /\ m \in Verifying => m.assertion \in assertions
            /\ m.at = "counter" => credentials[m.assertion.device].owner = challenges[By(m)].owner
            /\ m.at \notin {"credential", "counter"} => Backed(m.owner, By(m))
          BY <3>2 DEF SessionInvariant, AllBacked, Typed, Bearing
      <4>2. m.at = "counter" => /\ credentials[m.assertion.device] # None
                                /\ m.assertion.device \in Device
          BY <4>1, Shapes DEF SessionInvariant, CountersInOrder, Assertion
      <4> QED
          BY <2>1, <4>1, <4>2 DEF Spent, ChallengesKept, CredentialsKept
    <3> QED
        BY <3>1, <3>2
  <2> QED
      BY <2>1, <2>2 DEF SessionInvariant, AllBacked
<1>2. InOnePlace'
  <2>1. ~Again(l) /\ ~Again(k)
      BY DEF Again
  <2>2. \A m \in Bearing' : m = l \/ (m \in Bearing /\ m # k)
      OBVIOUS
  <2> QED
      BY <2>1, <2>2 DEF SessionInvariant, InOnePlace, Untouched, Uncoded, Again
<1>3. Families'
    BY DEF SessionInvariant, Families
<1> QED
    BY <1>1, <1>2, <1>3

LEMMA NothingChanges ==
    /\ UNCHANGED challenges => ChallengesKept
    /\ UNCHANGED credentials => CredentialsKept
    /\ UNCHANGED calls => Bearing' = Bearing
    /\ SessionInvariant /\ UNCHANGED <<credentials, assertions, accepted>> => CountersInOrder'
BY DEF ChallengesKept, CredentialsKept, Bearing, SessionInvariant, CountersInOrder

-----------------------------------------------------------------------------
(* Sign-in, enrollment and the ceremonies.                                  *)

LEMMA ChallengePreserves ==
    ASSUME SessionInvariant, NEW o \in Owner,
           SiweChallenge(o) \/ RegistrationOptions(o)
             \/ \E forOAuth \in BOOLEAN : AuthenticationOptions(o, forOAuth)
    PROVE  SessionInvariant'
<1>1. PICK ceremony \in Ceremony : NewChallenge(o, ceremony)
    BY DEF SiweChallenge, RegistrationOptions, AuthenticationOptions, Ceremony
<1>2. /\ challenges' \in Seq(Challenge) /\ Len(challenges') <= MaxChallenges
      /\ ChallengesKept /\ NewId \in ChallengeIds
    BY <1>1, NewChallengeKeeps DEF SessionInvariant
<1>3. UNCHANGED <<requests, codes, tokens, credentials, counters, assertions, signedIn, accepted, grants>>
    BY DEF SiweChallenge, RegistrationOptions, AuthenticationOptions, ledgerVars, oauthVars
<1>4. UNCHANGED calls \/ calls' = calls \union {[at |-> "begin", by |-> NewId]}
    BY DEF SiweChallenge, RegistrationOptions, AuthenticationOptions, Begins
<1>5. calls' \subseteq Call /\ Bearing' \subseteq Bearing
    BY <1>2, <1>4 DEF SessionInvariant, Typed, Call, Starting, Bearing
<1>6. Typed'
    BY <1>2, <1>3, <1>5 DEF SessionInvariant, Typed, AuthorizationTypeOK, ChallengesKept
<1> QED
    BY <1>2, <1>3, <1>5, <1>6, NothingChanges, NothingHandedOn DEF SessionInvariant

LEMMA SessionPreserves ==
    ASSUME SessionInvariant, NEW c \in ChallengeIds, NEW valid \in BOOLEAN, Session(c, valid)
    PROVE  SessionInvariant'
<1>1. /\ challenges' \in Seq(Challenge) /\ Len(challenges') <= MaxChallenges /\ ChallengesKept
    BY SpendKeeps DEF SessionInvariant, Session
<1>2. /\ UNCHANGED <<requests, codes, tokens, credentials, counters, assertions, accepted, grants, calls>>
      /\ signedIn' \subseteq Owner
  <2>1. challenges[c] \in Challenge
      BY DEF Session, SessionInvariant, Typed, AuthorizationTypeOK
  <2>2. challenges[c].owner \in Owner
      BY <2>1 DEF Challenge
  <2> QED
      BY <2>2 DEF Session, ledgerVars, oauthVars, SessionInvariant, Typed, AuthorizationTypeOK
<1>3. Typed'
    BY <1>1, <1>2 DEF SessionInvariant, Typed, AuthorizationTypeOK, ChallengesKept
<1> QED
    BY <1>1, <1>2, <1>3, NothingChanges, NothingHandedOn DEF SessionInvariant

\* A device that is enrolled has let nothing pass yet.
LEMMA RegisterPreserves ==
    ASSUME SessionInvariant, NEW c \in ChallengeIds, NEW d \in Device, NEW attested \in BOOLEAN,
           Register(c, d, attested)
    PROVE  SessionInvariant'
<1>1. /\ challenges' \in Seq(Challenge) /\ Len(challenges') <= MaxChallenges /\ ChallengesKept
    BY SpendKeeps DEF SessionInvariant, Register
<1>2. UNCHANGED <<requests, codes, tokens, counters, assertions, accepted, grants, calls, signedIn>>
    BY DEF Register, oauthVars
<1> DEFINE row == [owner |-> challenges[c].owner, counter |-> counters[d]]
<1>3. /\ row \in Credential /\ row # None /\ row.owner = HolderOf[d]
    BY AuthorizationAssumption
       DEF Register, SessionInvariant, Typed, AuthorizationTypeOK, Challenge, Credential,
           AuthorizationAssumption
<1>4. UNCHANGED credentials \/ (credentials[d] = None /\ credentials' = [credentials EXCEPT ![d] = row])
    BY DEF Register
<1> HIDE DEF row
<1>5. /\ credentials' \in [Device -> Credential \union {None}] /\ CredentialsKept
      /\ \A e \in Device : credentials'[e] = credentials[e]
                             \/ (e = d /\ credentials[e] = None /\ credentials'[e] = row)
    BY <1>3, <1>4 DEF SessionInvariant, Typed, AuthorizationTypeOK, CredentialsKept
<1>6. Typed'
    BY <1>1, <1>2, <1>5 DEF SessionInvariant, Typed, AuthorizationTypeOK, ChallengesKept
<1>7. CountersInOrder'
    BY <1>2, <1>3, <1>5 DEF SessionInvariant, Typed, CountersInOrder, Assertion
<1> QED
    BY <1>1, <1>2, <1>5, <1>6, <1>7, NothingChanges, NothingHandedOn DEF SessionInvariant

LEMMA ConfirmPreserves ==
    ASSUME SessionInvariant, NEW d \in Device, NEW c \in ChallengeIds, Confirm(d, c)
    PROVE  SessionInvariant'
<1>1. UNCHANGED <<challenges, requests, codes, tokens, credentials, accepted, grants, calls, signedIn>>
    BY DEF Confirm, walletVars, oauthVars
<1>2. /\ counters' \in [Device -> Nat]
      /\ d \in Counting => counters'[d] > 0
    BY DEF Confirm, SessionInvariant, Typed, AuthorizationTypeOK
<1> DEFINE new == [device |-> d, by |-> c, counter |-> counters'[d]]
<1>3. /\ new \in Assertion /\ new.device = d /\ new.counter = counters'[d]
      /\ new.by \in DOMAIN challenges
    BY <1>2 DEF Assertion, Confirm
<1>4. assertions' = assertions \union {new} /\ credentials[d] # None
    BY DEF Confirm
<1> HIDE DEF new
<1>5. Typed'
    BY <1>1, <1>2, <1>3, <1>4 DEF SessionInvariant, Typed, AuthorizationTypeOK
<1>6. CountersInOrder'
    BY <1>1, <1>2, <1>3, <1>4 DEF SessionInvariant, CountersInOrder
<1> QED
    BY <1>1, <1>4, <1>5, <1>6, NothingChanges, NothingHandedOn DEF SessionInvariant

\* A request ends, or a request for OAuth is stored.
LEMMA EndPreserves ==
    ASSUME SessionInvariant, NEW call \in calls, Ends(call),
           requests' \in [ChallengeIds -> RequestState],
           UNCHANGED <<walletVars, ledgerVars, codes, tokens, grants>>
    PROVE  SessionInvariant'
<1>1. calls' \subseteq calls /\ Bearing' \subseteq Bearing
    BY DEF Ends, Bearing
<1>2. Typed'
    BY <1>1 DEF SessionInvariant, Typed, AuthorizationTypeOK, walletVars, ledgerVars
<1> QED
    BY <1>1, <1>2, NothingChanges, NothingHandedOn DEF SessionInvariant, walletVars, ledgerVars

LEMMA BeginPreserves ==
    ASSUME SessionInvariant, NEW call \in calls, BeginAuthorization(call)
    PROVE  SessionInvariant'
<1>1. call.by \in ChallengeIds
    BY Shapes DEF SessionInvariant, Typed, BeginAuthorization
<1>2. requests' \in [ChallengeIds -> RequestState]
    BY <1>1 DEF BeginAuthorization, SessionInvariant, Typed, AuthorizationTypeOK, RequestState
<1> QED
    BY <1>2, EndPreserves DEF BeginAuthorization

LEMMA CutOffPreserves ==
    ASSUME SessionInvariant, NEW call \in calls, CutOff(call)
    PROVE  SessionInvariant'
<1>1. requests' \in [ChallengeIds -> RequestState]
    BY DEF CutOff, oauthVars, SessionInvariant, Typed, AuthorizationTypeOK
<1> QED
    BY <1>1, EndPreserves DEF CutOff, oauthVars

\* The assertion that spends a challenge is the first: nothing has been made of
\* the challenge yet.
LEMMA AuthenticatePreserves ==
    ASSUME SessionInvariant, NEW a \in assertions, NEW route \in Routes, Authenticate(a, route)
    PROVE  SessionInvariant'
<1> DEFINE new == [at |-> "credential", assertion |-> a, route |-> route]
           c == a.by
<1>1. /\ a \in Assertion /\ c \in ChallengeIds /\ ~challenges[c].used
      /\ UNCHANGED <<requests, codes, tokens, credentials, counters, assertions, signedIn, accepted, grants>>
      /\ calls' = calls \union {new}
    BY DEF SessionInvariant, Typed, Assertion, Authenticate, Unused, Begins, ledgerVars, oauthVars
<1>2. /\ new \in Call /\ new.at = "credential" /\ By(new) = c /\ new.assertion = a
    BY <1>1 DEF Call, Verifying, By
<1>3. /\ challenges' \in Seq(Challenge) /\ Len(challenges') <= MaxChallenges
      /\ ChallengesKept /\ Spent(c)'
  <2>1. c \in DOMAIN challenges /\ Spend(c) /\ challenges[c].ceremony = "authentication"
      BY DEF SessionInvariant, Typed, Authenticate, Unused
  <2> QED
      BY <2>1, SpendKeeps DEF SessionInvariant, Spent
<1>4. Bearing' = Bearing \union {new}
    BY <1>1, <1>2 DEF Bearing
<1>5. /\ \A k \in Bearing : By(k) # c
      /\ Untouched(c) /\ Uncoded(c)
    BY <1>1 DEF SessionInvariant, AllBacked, Backed, Spent, Untouched, Uncoded
<1> HIDE DEF new, c
<1>6. CredentialsKept /\ CountersInOrder'
    BY <1>1, NothingChanges
<1>7. AllBacked'
  <2>1. \A o, b : Backed(o, b) => Backed(o, b)'
      BY <1>1, <1>3, BackedStays
  <2>2. ASSUME NEW k \in Bearing'
        PROVE  /\ Spent(By(k))'
               /\ k \in Verifying => k.assertion \in assertions'
               /\ k.at = "counter" => credentials'[k.assertion.device].owner = challenges'[By(k)].owner
               /\ k.at \notin {"credential", "counter"} => Backed(k.owner, By(k))'
    <3>1. CASE k = new
        BY <1>1, <1>2, <1>3, <3>1 DEF c
    <3>2. CASE k # new
      <4>1. k \in Bearing
          BY <1>4, <3>2
      <4>2. /\ Spent(By(k))
            /\ k \in Verifying => k.assertion \in assertions
            /\ k.at = "counter" => credentials[k.assertion.device].owner = challenges[By(k)].owner
            /\ k.at \notin {"credential", "counter"} => Backed(k.owner, By(k))
          BY <4>1 DEF SessionInvariant, AllBacked
      <4> QED
          BY <1>1, <1>3, <2>1, <4>2 DEF Spent, ChallengesKept
    <3> QED
        BY <3>1, <3>2
  <2> QED
      BY <1>1, <2>1, <2>2 DEF SessionInvariant, AllBacked
<1>8. InOnePlace'
  <2>1. ~Again(new) /\ new.at # "tokens"
      BY <1>2 DEF Again
  <2>2. \A k \in Bearing' : k = new \/ k \in Bearing
      BY <1>4
  <2>3. Untouched(c)' /\ Uncoded(c)'
      BY <1>1, <1>5 DEF Untouched, Uncoded
  <2>4. \A k \in Bearing : (Untouched(By(k)) => Untouched(By(k))') /\ (Uncoded(By(k)) => Uncoded(By(k))')
      BY <1>1 DEF Untouched, Uncoded
  <2> QED
      BY <1>1, <1>2, <1>5, <2>1, <2>2, <2>3, <2>4
         DEF SessionInvariant, InOnePlace, Untouched, Uncoded
<1>9. Families'
    BY <1>1 DEF SessionInvariant, Families
<1>10. Typed'
    BY <1>1, <1>2, <1>3 DEF SessionInvariant, Typed, AuthorizationTypeOK, ChallengesKept
<1> QED
    BY <1>6, <1>7, <1>8, <1>9, <1>10 DEF SessionInvariant

LEMMA ReadPreserves ==
    ASSUME SessionInvariant, NEW call \in calls, ReadCredential(call)
    PROVE  SessionInvariant'
<1> DEFINE a == call.assertion
           row == credentials[a.device]
           next == [at |-> "counter", assertion |-> a, route |-> call.route, previous |-> row.counter]
<1>1. /\ call.at = "credential" /\ call \in Bearing /\ a \in Assertion /\ call.route \in Routes
      /\ a \in assertions /\ row # None
      /\ UNCHANGED <<challenges, signedIn, credentials, counters, assertions, accepted,
                     requests, codes, tokens, grants>>
    BY Shapes
       DEF ReadCredential, SessionInvariant, Typed, AllBacked, CountersInOrder, Bearing,
           walletVars, ledgerVars, oauthVars
<1>2. row \in Credential
    BY <1>1 DEF SessionInvariant, Typed, AuthorizationTypeOK, Assertion
<1>3. CASE Ends(call)
    BY <1>1, <1>3, EndPreserves DEF SessionInvariant, Typed, AuthorizationTypeOK, walletVars, ledgerVars
<1>4. CASE GoesOn(call, next) /\ row.owner = challenges[a.by].owner
  <2>1. next \in Call /\ next.at = "counter" /\ next.assertion = a /\ By(next) = By(call)
      BY <1>1, <1>2 DEF Call, Verifying, By, Credential
  <2>2. calls' = (calls \ {call}) \union {next}
      BY <1>4 DEF GoesOn
  <2>3. Bearing' \subseteq (Bearing \ {call}) \union {next}
      BY <2>2 DEF Bearing
  <2>4. Typed'
      BY <1>1, <2>1, <2>2 DEF SessionInvariant, Typed, AuthorizationTypeOK
  <2>5. credentials[next.assertion.device].owner = challenges[By(next)].owner
      BY <1>4, <2>1 DEF By
  <2> HIDE DEF next, a, row
  <2>6. ChallengesKept /\ CredentialsKept /\ CountersInOrder'
      BY <1>1, NothingChanges
  <2>7. AllBacked' /\ InOnePlace' /\ Families'
      BY <1>1, <2>1, <2>3, <2>5, <2>6, RequestGoesOn
  <2> QED
      BY <2>4, <2>6, <2>7 DEF SessionInvariant
<1> QED
    BY <1>3, <1>4 DEF ReadCredential

\* The counter that lets an assertion pass is ahead of all that have passed.
LEMMA AdvancePreserves ==
    ASSUME SessionInvariant, NEW call \in calls, AdvanceCounter(call)
    PROVE  SessionInvariant' /\ PassesInOrder
<1> DEFINE a == call.assertion
           row == credentials[a.device]
<1>1. /\ call.at = "counter" /\ call \in Bearing /\ a \in Assertion /\ call.route \in Routes
      /\ a \in assertions /\ row # None /\ row.owner = challenges[a.by].owner
      /\ Spent(a.by)
      /\ UNCHANGED <<challenges, signedIn, counters, assertions, requests, codes, tokens, grants>>
    BY Shapes
       DEF AdvanceCounter, SessionInvariant, Typed, AllBacked, CountersInOrder, Bearing, By,
           walletVars, oauthVars
<1>2. a.device \in Device /\ a.by \in ChallengeIds /\ a.counter \in Nat
    BY <1>1 DEF Assertion
<1>3. row \in Credential /\ row.owner = HolderOf[a.device] /\ row.owner \in Owner /\ row.counter \in Nat
    BY <1>1, <1>2
       DEF SessionInvariant, Typed, AuthorizationTypeOK, CountersInOrder, Credential
<1>4. CASE Ends(call) /\ UNCHANGED <<credentials, accepted>>
  <2>1. SessionInvariant'
      BY <1>1, <1>4, EndPreserves DEF SessionInvariant, Typed, AuthorizationTypeOK, walletVars, ledgerVars
  <2> QED
      BY <1>4, <2>1 DEF PassesInOrder
<1>5. CASE /\ Ahead(a.counter, row.counter)
           /\ credentials' = [credentials EXCEPT ![a.device].counter = a.counter]
           /\ accepted' = accepted \union {a}
           /\ GoesOn(call, [at |-> call.route, by |-> a.by, owner |-> row.owner])
  <2> DEFINE moved == [row EXCEPT !.counter = a.counter]
  <2>0. PICK next : next = [at |-> call.route, by |-> a.by, owner |-> row.owner]
      OBVIOUS
  <2>1. next \in Call /\ next.at = call.route /\ By(next) = By(call) /\ next.owner = row.owner
      BY <1>1, <1>2, <1>3, <2>0 DEF Call, Verified, By, Routes
  <2>2. calls' = (calls \ {call}) \union {next}
      BY <1>5, <2>0 DEF GoesOn
  <2>3. Bearing' \subseteq (Bearing \ {call}) \union {next}
      BY <2>2 DEF Bearing
  <2>4. /\ moved \in Credential /\ moved # None /\ moved.owner = row.owner
        /\ moved.counter = a.counter
      BY <1>2, <1>3, AuthorizationAssumption DEF Credential, AuthorizationAssumption
  <2>5. credentials' = [credentials EXCEPT ![a.device] = moved]
      BY <1>5
  <2> HIDE DEF moved, row
  <2>6. /\ credentials' \in [Device -> Credential \union {None}]
        /\ credentials'[a.device] = moved
        /\ \A d \in Device \ {a.device} : credentials'[d] = credentials[d]
      BY <1>2, <2>4, <2>5 DEF SessionInvariant, Typed, AuthorizationTypeOK
  <2>7. Typed'
      BY <1>1, <1>5, <2>1, <2>2, <2>6 DEF SessionInvariant, Typed, AuthorizationTypeOK
  <2>8. ChallengesKept /\ CredentialsKept
      BY <1>1, <2>4, <2>6, NothingChanges DEF CredentialsKept, row
  <2>9. a.counter >= row.counter /\ (a.device \in Counting => a.counter > row.counter)
      BY <1>1, <1>2, <1>3, <1>5 DEF Ahead, SessionInvariant, CountersInOrder
  <2>10. \A b \in accepted : b \in Assertion /\ b.counter \in Nat
      BY DEF SessionInvariant, Typed, Assertion
  <2>11. CountersInOrder'
    <3>1. \A d \in Device : credentials'[d] # None => credentials'[d].owner = HolderOf[d]
        BY <1>3, <2>4, <2>6 DEF SessionInvariant, CountersInOrder
    <3>2. \A b \in assertions' : credentials'[b.device] # None /\ (b.device \in Counting => b.counter > 0)
        BY <1>1, <2>8 DEF SessionInvariant, Typed, CountersInOrder, CredentialsKept, Assertion
    <3>3. ASSUME NEW b \in accepted' PROVE b.counter <= credentials'[b.device].counter
      <4>1. CASE b = a
          BY <1>2, <2>4, <2>6, <4>1
      <4>2. CASE b # a /\ b.device = a.device
        <5>1. b.counter <= row.counter /\ b.counter \in Nat
            BY <1>5, <2>10, <4>2 DEF SessionInvariant, CountersInOrder, row
        <5> QED
            BY <1>2, <1>3, <2>4, <2>6, <2>9, <4>2, <5>1
      <4>3. CASE b # a /\ b.device # a.device
          BY <1>5, <2>6, <2>10, <4>3 DEF SessionInvariant, CountersInOrder, Assertion
      <4> QED
          BY <4>1, <4>2, <4>3
    <3> QED
        BY <3>1, <3>2, <3>3 DEF CountersInOrder
  <2>12. Backed(next.owner, By(next))'
    <3>1. a \in accepted' /\ a.by = By(next) /\ next.owner = HolderOf[a.device]
        BY <1>1, <1>3, <1>5, <2>1 DEF By
    <3>2. Spent(By(next)) /\ challenges[By(next)].owner = next.owner
        BY <1>1, <2>1, <3>1
    <3> QED
        BY <1>1, <3>1, <3>2 DEF Backed, Spent
  <2>13. next.at \notin {"tokens", "credential", "counter"} /\ next \notin Verifying
      BY <1>1, <2>1, Shapes DEF Routes
  <2>14. AllBacked' /\ InOnePlace' /\ Families'
      BY <1>1, <1>5, <2>1, <2>3, <2>8, <2>12, <2>13, RequestGoesOn
  <2>15. PassesInOrder
    <3> SUFFICES ASSUME NEW b \in accepted, a.device = b.device, a.device \in Counting
                 PROVE  a.counter > b.counter
        BY <1>5 DEF PassesInOrder
    <3>1. b.counter <= row.counter
        BY DEF SessionInvariant, CountersInOrder, row
    <3> QED
        BY <1>2, <1>3, <2>9, <2>10, <3>1
  <2> QED
      BY <2>7, <2>11, <2>14, <2>15 DEF SessionInvariant
<1> QED
    BY <1>4, <1>5 DEF AdvanceCounter, CounterUnmoved

-----------------------------------------------------------------------------
(* OAuth: what was confirmed is handed on.                                  *)

LEMMA RequestPreserves ==
    ASSUME SessionInvariant, NEW call \in calls, ConsumeRequest(call)
    PROVE  SessionInvariant'
<1>1. /\ call.at = "complete" /\ call \in Bearing /\ call \in Verified
      /\ call.by \in ChallengeIds /\ call.owner \in Owner /\ By(call) = call.by
      /\ Backed(call.owner, call.by)
      /\ UNCHANGED <<challenges, signedIn, credentials, counters, assertions, accepted,
                     codes, tokens, grants>>
    BY Shapes
       DEF ConsumeRequest, SessionInvariant, Typed, AllBacked, Bearing, By, walletVars, ledgerVars
<1>2. requests' \in [ChallengeIds -> RequestState]
    BY <1>1 DEF ConsumeRequest, SessionInvariant, Typed, AuthorizationTypeOK, RequestState
<1>3. CASE Ends(call)
    BY <1>1, <1>2, <1>3, EndPreserves DEF walletVars, ledgerVars
<1>4. CASE GoesOn(call, [call EXCEPT !.at = "code"])
  <2>1. PICK next : next = [call EXCEPT !.at = "code"]
      OBVIOUS
  <2>2. /\ next \in Call /\ next.at = "code" /\ By(next) = By(call) /\ next.owner = call.owner
      BY <1>1, <2>1 DEF Call, Verified, By
  <2>3. calls' = (calls \ {call}) \union {next}
      BY <1>4, <2>1 DEF GoesOn
  <2>4. Bearing' \subseteq (Bearing \ {call}) \union {next}
      BY <2>3 DEF Bearing
  <2>5. Typed'
      BY <1>1, <1>2, <2>2, <2>3 DEF SessionInvariant, Typed, AuthorizationTypeOK
  <2>6. ChallengesKept /\ CredentialsKept /\ CountersInOrder'
      BY <1>1, NothingChanges
  <2>7. Backed(next.owner, By(next))' /\ next \notin Verifying
      BY <1>1, <2>2, <2>6, BackedStays, Shapes
  <2>8. AllBacked' /\ InOnePlace' /\ Families'
      BY <1>1, <2>2, <2>4, <2>6, <2>7, RequestGoesOn
  <2> QED
      BY <2>5, <2>6, <2>8 DEF SessionInvariant
<1> QED
    BY <1>3, <1>4 DEF ConsumeRequest

\* What rests on backing, when only requests, codes, tokens and grants move.
LEMMA BackingStays ==
    ASSUME SessionInvariant,
           UNCHANGED <<challenges, credentials, assertions, accepted>>,
           \A k \in Bearing' : k \in Bearing \/ (k.at \notin {"begin", "credential", "counter"}
                                                  /\ k \notin Verifying /\ Backed(k.owner, By(k))),
           \A i \in DOMAIN codes' : Backed(codes'[i].owner, codes'[i].by),
           \A i \in DOMAIN tokens' : Backed(tokens'[i].owner, tokens'[i].by),
           \A g \in grants' : Backed(g.owner, g.by)
    PROVE  AllBacked' /\ CountersInOrder'
<1>1. \A o, c : Backed(o, c) => Backed(o, c)'
    BY DEF Backed, Spent
<1>2. ASSUME NEW k \in Bearing'
      PROVE  /\ Spent(By(k))'
             /\ k \in Verifying => k.assertion \in assertions'
             /\ k.at = "counter" => credentials'[k.assertion.device].owner = challenges'[By(k)].owner
             /\ k.at \notin {"credential", "counter"} => Backed(k.owner, By(k))'
  <2>1. CASE k \in Bearing
    <3>1. /\ Spent(By(k))
          /\ k \in Verifying => k.assertion \in assertions
          /\ k.at = "counter" => credentials[k.assertion.device].owner = challenges[By(k)].owner
          /\ k.at \notin {"credential", "counter"} => Backed(k.owner, By(k))
        BY <2>1 DEF SessionInvariant, AllBacked
    <3> QED
        BY <1>1, <3>1 DEF Spent
  <2>2. CASE k \notin Bearing
    <3>1. Backed(k.owner, By(k)) /\ k.at \notin {"credential", "counter"} /\ k \notin Verifying
        BY <2>2
    <3> QED
        BY <1>1, <3>1 DEF Backed
  <2> QED
      BY <2>1, <2>2
<1>3. \A i \in DOMAIN codes' : Backed(codes[i].owner, codes[i].by)'
    BY DEF Backed, Spent
<1>4. \A i \in DOMAIN tokens' : Backed(tokens[i].owner, tokens[i].by)'
    BY DEF Backed, Spent
<1>5. \A g \in grants' : Backed(g.owner, g.by)'
    BY <1>1
<1> QED
    BY <1>2, <1>3, <1>4, <1>5, NothingChanges DEF AllBacked

\* A session with the hardware methods is the end of what was confirmed.
LEMMA HardwarePreserves ==
    ASSUME SessionInvariant, NEW call \in calls, IssueHardware(call)
    PROVE  SessionInvariant'
<1>1. /\ call.at = "verify" /\ call \in Bearing /\ call.by \in ChallengeIds /\ call.owner \in Owner
      /\ By(call) = call.by /\ Backed(call.owner, call.by) /\ Untouched(call.by)
      /\ UNCHANGED <<challenges, signedIn, credentials, counters, assertions, accepted,
                     requests, codes, tokens>>
    BY Shapes
       DEF IssueHardware, SessionInvariant, Typed, AllBacked, InOnePlace, Again, Bearing, By,
           walletVars, ledgerVars
<1>2. PICK new : new = [owner |-> call.owner, by |-> call.by, from |-> 0]
    OBVIOUS
<1>3. /\ new \in Grant /\ new.by = call.by /\ new.owner = call.owner
      /\ grants' = grants \union {new}
    BY <1>1, <1>2, AuthorizationAssumption DEF Grant, IssueHardware, AuthorizationAssumption
<1>4. calls' = calls \ {call} /\ Bearing' = Bearing \ {call}
    BY DEF IssueHardware, Ends, Bearing
<1>5. Typed'
    BY <1>1, <1>3, <1>4 DEF SessionInvariant, Typed, AuthorizationTypeOK
<1>6. AllBacked' /\ CountersInOrder'
  <2>1. \A g \in grants' : Backed(g.owner, g.by)
      BY <1>1, <1>3 DEF SessionInvariant, AllBacked
  <2> QED
      BY <1>1, <1>4, <2>1, BackingStays DEF SessionInvariant, AllBacked
<1>7. InOnePlace'
  <2>1. \A k \in Bearing' : By(k) # call.by /\ k \in Bearing
      BY <1>1, <1>4 DEF SessionInvariant, InOnePlace
  <2>2. \A i \in DOMAIN codes : ~codes[i].used => codes[i].by # call.by
      BY <1>1 DEF SessionInvariant, InOnePlace
  <2>3. \A c : c # call.by /\ Untouched(c) => Untouched(c)'
      BY <1>1, <1>3 DEF Untouched
  <2>4. \A c : Uncoded(c) => Uncoded(c)'
      BY <1>1 DEF Uncoded
  <2>5. \A k \in Bearing', g \in grants' : g.by = By(k) => g \in grants
      BY <1>3, <2>1
  <2>6. \A k \in Bearing' : Again(k) => By(k) = k.by
      BY DEF By, Again
  <2> QED
      BY <1>1, <2>1, <2>2, <2>3, <2>4, <2>5, <2>6 DEF SessionInvariant, InOnePlace
<1>8. Families'
    BY <1>1, <1>3 DEF SessionInvariant, Families, Untouched
<1> QED
    BY <1>5, <1>6, <1>7, <1>8 DEF SessionInvariant

LEMMA CodePreserves ==
    ASSUME SessionInvariant, NEW call \in calls, InsertCode(call)
    PROVE  SessionInvariant'
<1>1. /\ call.at = "code" /\ call \in Bearing /\ call.by \in ChallengeIds /\ call.owner \in Owner
      /\ By(call) = call.by /\ Backed(call.owner, call.by)
      /\ Untouched(call.by) /\ Uncoded(call.by)
      /\ UNCHANGED <<challenges, signedIn, credentials, counters, assertions, accepted,
                     requests, tokens, grants>>
    BY Shapes
       DEF InsertCode, SessionInvariant, Typed, AllBacked, InOnePlace, Again, Bearing, By,
           walletVars, ledgerVars
<1>2. PICK new : new = [owner |-> call.owner, by |-> call.by, used |-> FALSE]
    OBVIOUS
<1>3. /\ new \in IssuedCode /\ new.by = call.by /\ new.owner = call.owner /\ ~new.used
      /\ codes' = Append(codes, new) /\ codes \in Seq(IssuedCode)
    BY <1>1, <1>2 DEF IssuedCode, InsertCode, SessionInvariant, Typed, AuthorizationTypeOK
<1>4. /\ codes' \in Seq(IssuedCode) /\ DOMAIN codes' = DOMAIN codes \union {Len(codes) + 1}
      /\ Len(codes) + 1 \notin DOMAIN codes /\ codes'[Len(codes) + 1] = new
      /\ \A i \in DOMAIN codes : codes'[i] = codes[i]
    BY <1>3, Appended
<1>5. calls' = calls \ {call} /\ Bearing' = Bearing \ {call}
    BY DEF InsertCode, Ends, Bearing
<1>6. Typed'
    BY <1>1, <1>4, <1>5 DEF SessionInvariant, Typed, AuthorizationTypeOK
<1>7. AllBacked' /\ CountersInOrder'
  <2>1. \A i \in DOMAIN codes' : Backed(codes'[i].owner, codes'[i].by)
      BY <1>1, <1>3, <1>4 DEF SessionInvariant, AllBacked
  <2> QED
      BY <1>1, <1>5, <2>1, BackingStays DEF SessionInvariant, AllBacked
<1>8. InOnePlace'
  <2>1. \A k \in Bearing' : By(k) # call.by /\ k \in Bearing
      BY <1>1, <1>5 DEF SessionInvariant, InOnePlace
  <2>2. \A c : Untouched(c) => Untouched(c)'
      BY <1>1 DEF Untouched
  <2>3. \A c : c # call.by /\ Uncoded(c) => Uncoded(c)'
      BY <1>3, <1>4 DEF Uncoded
  <2>4. \A i \in DOMAIN codes : codes[i].by # call.by
      BY <1>1 DEF Uncoded
  <2>5. \A i \in DOMAIN codes' : (codes'[i].by = call.by /\ i = Len(codes) + 1)
                                  \/ (i \in DOMAIN codes /\ codes'[i] = codes[i])
      BY <1>3, <1>4
  <2>6. \A i, j \in DOMAIN codes' : codes'[i].by = codes'[j].by => i = j
      BY <2>4, <2>5 DEF SessionInvariant, InOnePlace
  <2>7. \A i \in DOMAIN codes' : ~codes'[i].used => Untouched(codes'[i].by)
      BY <1>1, <2>5 DEF SessionInvariant, InOnePlace
  <2>8. \A i \in DOMAIN codes' : ~codes'[i].used => Untouched(codes[i].by)'
      BY <1>1, <2>7 DEF Untouched
  <2>9. \A k \in Bearing', i \in DOMAIN codes' : codes'[i].by = By(k) => codes'[i].used
      BY <2>1, <2>5 DEF SessionInvariant, InOnePlace
  <2> QED
      BY <1>1, <2>1, <2>2, <2>3, <2>6, <2>8, <2>9 DEF SessionInvariant, InOnePlace
<1>9. Families'
    BY <1>1 DEF SessionInvariant, Families
<1> QED
    BY <1>6, <1>7, <1>8, <1>9 DEF SessionInvariant

\* Rows are spent, and what one of them stood for may pass to a request for tokens.
LEMMA SpentRowHandsOn ==
    ASSUME SessionInvariant,
           UNCHANGED <<challenges, signedIn, credentials, counters, assertions, accepted, requests, grants>>,
           codes' \in Seq(IssuedCode), tokens' \in Seq(Token),
           DOMAIN codes' = DOMAIN codes, DOMAIN tokens' = DOMAIN tokens,
           \A i \in DOMAIN codes : /\ codes'[i].by = codes[i].by /\ codes'[i].owner = codes[i].owner
                                   /\ codes[i].used => codes'[i].used,
           \A i \in DOMAIN tokens : /\ tokens'[i].by = tokens[i].by /\ tokens'[i].owner = tokens[i].owner
                                    /\ tokens'[i].family = tokens[i].family
                                    /\ tokens[i].used => tokens'[i].used,
           NEW new \in Issuing, calls' \subseteq calls \union {new},
           Backed(new.owner, new.by),
           \A k \in Bearing : By(k) # new.by,
           \A i \in DOMAIN codes : codes[i].by = new.by => codes'[i].used,
           \A i \in DOMAIN tokens : tokens[i].by = new.by => tokens'[i].used,
           new.family = None => Untouched(new.by),
           new.family # None =>
               /\ new.family \in DOMAIN tokens /\ tokens[new.family].by = new.by
               /\ \A i \in DOMAIN tokens : tokens[i].family = new.family <=> tokens[i].by = new.by
               /\ \A g \in grants : g.by = new.by => g.from = new.family
    PROVE  SessionInvariant'
<1>1. /\ new \in Call /\ new.at = "tokens" /\ By(new) = new.by /\ new \notin Verifying
    BY DEF Issuing, Call, Verifying, By
<1>2. \A k \in Bearing' : k \in Bearing \/ k = new
    BY <1>1 DEF Bearing
<1>3. Typed'
    BY <1>1 DEF SessionInvariant, Typed, AuthorizationTypeOK
<1>4. AllBacked' /\ CountersInOrder'
  <2>1. \A i \in DOMAIN codes' : Backed(codes'[i].owner, codes'[i].by)
      BY DEF SessionInvariant, AllBacked
  <2>2. \A i \in DOMAIN tokens' : Backed(tokens'[i].owner, tokens'[i].by)
      BY DEF SessionInvariant, AllBacked
  <2>3. \A g \in grants' : Backed(g.owner, g.by)
      BY DEF SessionInvariant, AllBacked
  <2> QED
      BY <1>1, <1>2, <2>1, <2>2, <2>3, BackingStays
<1>5. InOnePlace'
  <2>1. \A c : (Untouched(c) => Untouched(c)') /\ (Uncoded(c) => Uncoded(c)')
      BY DEF Untouched, Uncoded
  <2>2. \A k, l \in Bearing' : By(k) = By(l) => k = l
      BY <1>1, <1>2 DEF SessionInvariant, InOnePlace
  <2>3. ASSUME NEW k \in Bearing'
        PROVE  /\ ~Again(k) => Untouched(By(k))'
               /\ k.at # "tokens" => Uncoded(By(k))'
               /\ \A i \in DOMAIN codes' : codes'[i].by = By(k) => codes'[i].used
               /\ \A i \in DOMAIN tokens' : tokens'[i].by = By(k) => tokens'[i].used
               /\ Again(k) => /\ k.family \in DOMAIN tokens' /\ tokens'[k.family].by = k.by
                              /\ \A i \in DOMAIN tokens' : tokens'[i].family = k.family <=> tokens'[i].by = k.by
                              /\ \A g \in grants' : g.by = k.by => g.from = k.family
    <3>1. CASE k = new
        BY <1>1, <2>1, <3>1 DEF Again
    <3>2. CASE k # new
      <4>1. k \in Bearing
          BY <1>2, <3>2
      <4> QED
          BY <2>1, <4>1 DEF SessionInvariant, InOnePlace
    <3> QED
        BY <3>1, <3>2
  <2>4. \A i, j \in DOMAIN codes' : codes'[i].by = codes'[j].by => i = j
      BY DEF SessionInvariant, InOnePlace
  <2>5. \A i \in DOMAIN codes' : ~codes'[i].used => Untouched(codes'[i].by)
      BY DEF SessionInvariant, InOnePlace
  <2>6. \A i \in DOMAIN codes' : ~codes'[i].used => Untouched(codes[i].by)'
      BY <2>5 DEF Untouched
  <2> QED
      BY <2>2, <2>3, <2>4, <2>6 DEF InOnePlace
<1>6. Families'
  <2>1. /\ \A i \in DOMAIN tokens :
             tokens[i].family \in DOMAIN tokens /\ tokens[tokens[i].family].by = tokens[i].by
        /\ \A i, j \in DOMAIN tokens :
             /\ tokens[i].family = tokens[j].family <=> tokens[i].by = tokens[j].by
             /\ tokens[i].by = tokens[j].by /\ ~tokens[i].used /\ ~tokens[j].used => i = j
        /\ \A g \in grants, i \in DOMAIN tokens : g.by = tokens[i].by => g.from = tokens[i].family
        /\ \A g, h \in grants : g.by = h.by => g = h
      BY DEF SessionInvariant, Families
  <2>2. \A i \in DOMAIN tokens' :
            tokens'[i].family \in DOMAIN tokens' /\ tokens'[tokens'[i].family].by = tokens'[i].by
      BY <2>1
  <2>3. \A i, j \in DOMAIN tokens' :
            tokens'[i].family = tokens'[j].family <=> tokens'[i].by = tokens'[j].by
      BY <2>1
  <2>4. \A i, j \in DOMAIN tokens' :
            tokens'[i].by = tokens'[j].by /\ ~tokens'[i].used /\ ~tokens'[j].used => i = j
    <3>1. \A i \in DOMAIN tokens : ~tokens'[i].used => ~tokens[i].used
        OBVIOUS
    <3> QED
        BY <2>1, <3>1
  <2>5. \A g \in grants', i \in DOMAIN tokens' : g.by = tokens'[i].by => g.from = tokens'[i].family
      BY <2>1
  <2>6. \A g, h \in grants' : g.by = h.by => g = h
      BY <2>1
  <2> QED
      BY <2>2, <2>3, <2>4, <2>5, <2>6 DEF Families
<1> QED
    BY <1>3, <1>4, <1>5, <1>6 DEF SessionInvariant

LEMMA ExchangePreserves ==
    ASSUME SessionInvariant, NEW i \in DOMAIN codes, NEW ok \in BOOLEAN, ExchangeCode(i, ok)
    PROVE  SessionInvariant'
<1>1. /\ codes \in Seq(IssuedCode) /\ codes[i] \in IssuedCode /\ ~codes[i].used
      /\ codes' = [codes EXCEPT ![i] = [codes[i] EXCEPT !.used = TRUE]]
      /\ UNCHANGED <<challenges, signedIn, credentials, counters, assertions, accepted,
                     requests, tokens, grants>>
    BY DEF ExchangeCode, ConsumeCode, SessionInvariant, Typed, AuthorizationTypeOK,
           walletVars, ledgerVars
<1>2. PICK row : row = [codes[i] EXCEPT !.used = TRUE]
    OBVIOUS
<1>3. row \in IssuedCode /\ row.used /\ row.by = codes[i].by /\ row.owner = codes[i].owner
    BY <1>1, <1>2 DEF IssuedCode
<1>4. /\ codes' \in Seq(IssuedCode) /\ DOMAIN codes' = DOMAIN codes
      /\ \A j \in DOMAIN codes : codes'[j] = IF j = i THEN row ELSE codes[j]
    BY <1>1, <1>2, <1>3, Replaced
<1>5. PICK new : new = [at |-> "tokens", owner |-> codes[i].owner, by |-> codes[i].by, family |-> None]
    OBVIOUS
<1>6. /\ new \in Issuing /\ new.by = codes[i].by /\ new.owner = codes[i].owner /\ new.family = None
    BY <1>1, <1>5 DEF Issuing, IssuedCode
<1>7. calls' \subseteq calls \union {new}
    BY <1>5 DEF ExchangeCode, Begins
<1>8. Backed(new.owner, new.by)
    BY <1>6 DEF SessionInvariant, AllBacked
<1>9. /\ \A k \in Bearing : By(k) # new.by
      /\ \A j \in DOMAIN codes : codes[j].by = new.by => j = i
      /\ Untouched(new.by)
    BY <1>1, <1>6 DEF SessionInvariant, InOnePlace
<1>10. tokens' \in Seq(Token) /\ \A j \in DOMAIN tokens : tokens[j].by # new.by
    BY <1>1, <1>9 DEF SessionInvariant, Typed, AuthorizationTypeOK, Untouched
<1>11. \A j \in DOMAIN codes : /\ codes'[j].by = codes[j].by /\ codes'[j].owner = codes[j].owner
                               /\ codes[j].used => codes'[j].used
                               /\ codes[j].by = new.by => codes'[j].used
    BY <1>3, <1>4, <1>9
<1> QED
    BY <1>1, <1>4, <1>6, <1>7, <1>8, <1>9, <1>10, <1>11, SpentRowHandsOn

LEMMA RefreshPreserves ==
    ASSUME SessionInvariant, NEW i \in DOMAIN tokens, NEW ok \in BOOLEAN, Refresh(i, ok)
    PROVE  SessionInvariant'
<1>1. /\ tokens \in Seq(Token) /\ tokens[i] \in Token /\ ~tokens[i].used
      /\ tokens' = [tokens EXCEPT ![i] = [tokens[i] EXCEPT !.used = TRUE]]
      /\ UNCHANGED <<challenges, signedIn, credentials, counters, assertions, accepted,
                     requests, codes, grants>>
    BY DEF Refresh, ConsumeToken, SessionInvariant, Typed, AuthorizationTypeOK,
           walletVars, ledgerVars
<1>2. PICK row : row = [tokens[i] EXCEPT !.used = TRUE]
    OBVIOUS
<1>3. /\ row \in Token /\ row.used /\ row.by = tokens[i].by /\ row.owner = tokens[i].owner
      /\ row.family = tokens[i].family
    BY <1>1, <1>2 DEF Token
<1>4. /\ tokens' \in Seq(Token) /\ DOMAIN tokens' = DOMAIN tokens
      /\ \A j \in DOMAIN tokens : tokens'[j] = IF j = i THEN row ELSE tokens[j]
    BY <1>1, <1>2, <1>3, Replaced
<1>5. PICK new : new = [at |-> "tokens", owner |-> tokens[i].owner, by |-> tokens[i].by,
                        family |-> tokens[i].family]
    OBVIOUS
<1>6. /\ new \in Issuing /\ new.by = tokens[i].by /\ new.owner = tokens[i].owner
      /\ new.family = tokens[i].family /\ new.family # None
    BY <1>1, <1>5, AuthorizationAssumption DEF Issuing, Token, AuthorizationAssumption
<1>7. calls' \subseteq calls \union {new}
    BY <1>5 DEF Refresh, Begins
<1>8. Backed(new.owner, new.by)
    BY <1>6 DEF SessionInvariant, AllBacked
<1>9. /\ \A k \in Bearing : By(k) # new.by
      /\ \A j \in DOMAIN tokens : tokens[j].by = new.by /\ ~tokens[j].used => j = i
      /\ \A j \in DOMAIN codes : codes[j].by = new.by => codes[j].used
    BY <1>1, <1>6 DEF SessionInvariant, InOnePlace, Families, Untouched
<1>10. /\ new.family \in DOMAIN tokens /\ tokens[new.family].by = new.by
       /\ \A j \in DOMAIN tokens : tokens[j].family = new.family <=> tokens[j].by = new.by
       /\ \A g \in grants : g.by = new.by => g.from = new.family
    BY <1>6 DEF SessionInvariant, Families
<1>11. \A j \in DOMAIN tokens : /\ tokens'[j].by = tokens[j].by /\ tokens'[j].owner = tokens[j].owner
                                /\ tokens'[j].family = tokens[j].family
                                /\ tokens[j].used => tokens'[j].used
                                /\ tokens[j].by = new.by => tokens'[j].used
    BY <1>3, <1>4, <1>9
<1>12. codes' \in Seq(IssuedCode)
    BY <1>1 DEF SessionInvariant, Typed, AuthorizationTypeOK
<1> QED
    BY <1>1, <1>4, <1>6, <1>7, <1>8, <1>9, <1>10, <1>11, <1>12, SpentRowHandsOn

\* The new token is the only one of its family that is live, and its grant the
\* only one of its challenge.
LEMMA TokensPreserves ==
    ASSUME SessionInvariant, NEW call \in calls, IssueTokens(call)
    PROVE  SessionInvariant'
<1> DEFINE c == call.by
           family == IF call.family = None THEN Len(tokens) + 1 ELSE call.family
<1>1. /\ call.at = "tokens" /\ call \in Bearing /\ c \in ChallengeIds /\ call.owner \in Owner
      /\ call.family \in (1..MaxTokens) \union {None} /\ By(call) = c /\ Backed(call.owner, c)
      /\ UNCHANGED <<challenges, signedIn, credentials, counters, assertions, accepted,
                     requests, codes>>
    BY Shapes
       DEF IssueTokens, SessionInvariant, Typed, AllBacked, Bearing, By, walletVars, ledgerVars
<1>2. tokens \in Seq(Token) /\ Len(tokens) \in Nat /\ DOMAIN tokens = 1..Len(tokens)
      /\ Len(tokens) < MaxTokens
    BY DEF SessionInvariant, Typed, AuthorizationTypeOK, IssueTokens
<1>3. PICK f : f = family
    OBVIOUS
<1>4. f \in 1..MaxTokens
    BY <1>1, <1>2, <1>3, AuthorizationAssumption DEF AuthorizationAssumption
<1>5. /\ \A i \in DOMAIN tokens : tokens[i].family = f <=> tokens[i].by = c
      /\ \A i \in DOMAIN tokens : tokens[i].by = c => tokens[i].used
      /\ \A g \in grants : g.by = c => g.from = f
      /\ f = Len(tokens) + 1 \/ (f \in DOMAIN tokens /\ tokens[f].by = c)
  <2>1. CASE call.family = None
      BY <1>1, <1>2, <1>3, <2>1 DEF SessionInvariant, InOnePlace, Families, Again, Untouched
  <2>2. CASE call.family # None
      BY <1>1, <1>3, <2>2 DEF SessionInvariant, InOnePlace, Again
  <2> QED
      BY <2>1, <2>2
<1>6. PICK new, grant :
        /\ new = [owner |-> call.owner, by |-> c, family |-> f, used |-> FALSE]
        /\ grant = [owner |-> call.owner, by |-> c, from |-> f]
    OBVIOUS
<1>7. /\ new \in Token /\ new.by = c /\ new.owner = call.owner /\ new.family = f /\ ~new.used
      /\ grant \in Grant /\ grant.by = c /\ grant.owner = call.owner /\ grant.from = f
    BY <1>1, <1>4, <1>6, AuthorizationAssumption DEF Token, Grant, AuthorizationAssumption
<1>8. /\ tokens' = Append(tokens, new) /\ grants' = grants \union {grant}
      /\ calls' = calls \ {call} /\ Bearing' = Bearing \ {call}
    BY <1>3, <1>6 DEF IssueTokens, Ends, Bearing
<1> HIDE DEF c, family
<1>9. /\ tokens' \in Seq(Token) /\ DOMAIN tokens' = DOMAIN tokens \union {Len(tokens) + 1}
      /\ Len(tokens) + 1 \notin DOMAIN tokens /\ tokens'[Len(tokens) + 1] = new
      /\ \A i \in DOMAIN tokens : tokens'[i] = tokens[i]
    BY <1>2, <1>7, <1>8, Appended
<1>10. Typed'
    BY <1>1, <1>7, <1>8, <1>9 DEF SessionInvariant, Typed, AuthorizationTypeOK
<1>11. AllBacked' /\ CountersInOrder'
  <2>1. \A i \in DOMAIN tokens' : Backed(tokens'[i].owner, tokens'[i].by)
      BY <1>1, <1>7, <1>9 DEF SessionInvariant, AllBacked
  <2>2. \A g \in grants' : Backed(g.owner, g.by)
      BY <1>1, <1>7, <1>8 DEF SessionInvariant, AllBacked
  <2> QED
      BY <1>1, <1>8, <2>1, <2>2, BackingStays DEF SessionInvariant, AllBacked
<1>12. \A i \in DOMAIN tokens' : \/ i = Len(tokens) + 1 /\ tokens'[i] = new
                                 \/ i \in DOMAIN tokens /\ tokens'[i] = tokens[i]
    BY <1>9
<1>13. \A g \in grants' : g = grant \/ g \in grants
    BY <1>8
<1>14. InOnePlace'
  <2>1. \A b : b # c /\ Untouched(b) => Untouched(b)'
      BY <1>7, <1>12, <1>13 DEF Untouched
  <2>2. \A b : Uncoded(b) => Uncoded(b)'
      BY <1>1 DEF Uncoded
  <2>3. ASSUME NEW k \in Bearing'
        PROVE  /\ ~Again(k) => Untouched(By(k))'
               /\ k.at # "tokens" => Uncoded(By(k))'
               /\ \A i \in DOMAIN codes' : codes'[i].by = By(k) => codes'[i].used
               /\ \A i \in DOMAIN tokens' : tokens'[i].by = By(k) => tokens'[i].used
               /\ Again(k) => /\ k.family \in DOMAIN tokens' /\ tokens'[k.family].by = k.by
                              /\ \A i \in DOMAIN tokens' : tokens'[i].family = k.family <=> tokens'[i].by = k.by
                              /\ \A g \in grants' : g.by = k.by => g.from = k.family
    <3>1. k \in Bearing /\ By(k) # c
        BY <1>1, <1>8 DEF SessionInvariant, InOnePlace
    <3>2. /\ ~Again(k) => Untouched(By(k))
          /\ k.at # "tokens" => Uncoded(By(k))
          /\ \A i \in DOMAIN codes : codes[i].by = By(k) => codes[i].used
          /\ \A i \in DOMAIN tokens : tokens[i].by = By(k) => tokens[i].used
          /\ Again(k) => /\ k.family \in DOMAIN tokens /\ tokens[k.family].by = k.by
                         /\ \A i \in DOMAIN tokens : tokens[i].family = k.family <=> tokens[i].by = k.by
                         /\ \A g \in grants : g.by = k.by => g.from = k.family
        BY <3>1 DEF SessionInvariant, InOnePlace
    <3>3. Again(k) => By(k) = k.by /\ k.family # f
        BY <1>2, <1>5, <3>1, <3>2 DEF By, Again
    <3> QED
        BY <1>1, <1>7, <1>9, <1>12, <1>13, <2>1, <2>2, <3>1, <3>2, <3>3
  <2>4. \A i \in DOMAIN codes' : ~codes'[i].used => Untouched(codes'[i].by) /\ codes'[i].by # c
      BY <1>1 DEF SessionInvariant, InOnePlace
  <2>5. \A i \in DOMAIN codes' : ~codes'[i].used => Untouched(codes[i].by)'
      BY <1>7, <1>12, <1>13, <2>4 DEF Untouched
  <2> QED
      BY <1>1, <1>8, <2>3, <2>5 DEF SessionInvariant, InOnePlace
<1>15. Families'
  <2>1. \A i \in DOMAIN tokens' :
            tokens'[i].family \in DOMAIN tokens' /\ tokens'[tokens'[i].family].by = tokens'[i].by
      BY <1>5, <1>7, <1>9, <1>12 DEF SessionInvariant, Families
  <2>2. \A i, j \in DOMAIN tokens' :
            /\ tokens'[i].family = tokens'[j].family <=> tokens'[i].by = tokens'[j].by
            /\ tokens'[i].by = tokens'[j].by /\ ~tokens'[i].used /\ ~tokens'[j].used => i = j
      BY <1>5, <1>7, <1>12 DEF SessionInvariant, Families
  <2>3. \A g \in grants', i \in DOMAIN tokens' : g.by = tokens'[i].by => g.from = tokens'[i].family
      BY <1>5, <1>7, <1>12, <1>13 DEF SessionInvariant, Families
  <2>4. ASSUME NEW g \in grants, g.by = c PROVE g = grant
    <3>1. g \in Grant /\ g.from = f
        BY <1>5, <2>4 DEF SessionInvariant, Typed
    <3>2. g.owner = call.owner
        BY <1>1, <2>4 DEF SessionInvariant, AllBacked, Backed
    <3> QED
        BY <1>6, <2>4, <3>1, <3>2 DEF Grant
  <2>5. \A g, h \in grants' : g.by = h.by => g = h
      BY <1>7, <1>13, <2>4 DEF SessionInvariant, Families
  <2> QED
      BY <2>1, <2>2, <2>3, <2>5 DEF Families
<1> QED
    BY <1>10, <1>11, <1>14, <1>15 DEF SessionInvariant

-----------------------------------------------------------------------------
LEMMA SessionStep ==
    ASSUME SessionInvariant, [AuthorizationNext]_authorizationVars
    PROVE  SessionInvariant' /\ PassesInOrder
<1> USE DEF authorizationVars, walletVars, ledgerVars, oauthVars
<1>1. UNCHANGED accepted => PassesInOrder
    BY DEF PassesInOrder
<1>2. CASE UNCHANGED authorizationVars
  <2>1. Typed'
      BY <1>2 DEF SessionInvariant, Typed, AuthorizationTypeOK
  <2> QED
      BY <1>1, <1>2, <2>1, NothingChanges, NothingHandedOn DEF SessionInvariant
<1>3. ASSUME NEW o \in Owner,
             SiweChallenge(o) \/ RegistrationOptions(o)
               \/ \E forOAuth \in BOOLEAN : AuthenticationOptions(o, forOAuth)
      PROVE  SessionInvariant' /\ PassesInOrder
    BY <1>1, <1>3, ChallengePreserves DEF SiweChallenge, RegistrationOptions, AuthenticationOptions
<1>4. ASSUME NEW c \in ChallengeIds, NEW valid \in BOOLEAN, Session(c, valid)
      PROVE  SessionInvariant' /\ PassesInOrder
    BY <1>1, <1>4, SessionPreserves DEF Session
<1>5. ASSUME NEW c \in ChallengeIds, NEW d \in Device, NEW attested \in BOOLEAN, Register(c, d, attested)
      PROVE  SessionInvariant' /\ PassesInOrder
    BY <1>1, <1>5, RegisterPreserves DEF Register
<1>6. ASSUME NEW d \in Device, NEW c \in ChallengeIds, Confirm(d, c)
      PROVE  SessionInvariant' /\ PassesInOrder
    BY <1>1, <1>6, ConfirmPreserves DEF Confirm
<1>7. ASSUME NEW a \in assertions, NEW route \in Routes, Authenticate(a, route)
      PROVE  SessionInvariant' /\ PassesInOrder
    BY <1>1, <1>7, AuthenticatePreserves DEF Authenticate
<1>8. ASSUME NEW i \in DOMAIN codes, NEW ok \in BOOLEAN, ExchangeCode(i, ok)
      PROVE  SessionInvariant' /\ PassesInOrder
    BY <1>1, <1>8, ExchangePreserves DEF ExchangeCode
<1>9. ASSUME NEW i \in DOMAIN tokens, NEW ok \in BOOLEAN, Refresh(i, ok)
      PROVE  SessionInvariant' /\ PassesInOrder
    BY <1>1, <1>9, RefreshPreserves DEF Refresh
<1>10. ASSUME NEW call \in calls, Handle(call)
       PROVE  SessionInvariant' /\ PassesInOrder
  <2>1. CASE AdvanceCounter(call)
      BY <2>1, AdvancePreserves
  <2>2. CASE ReadCredential(call)
      BY <1>1, <2>2, ReadPreserves DEF ReadCredential
  <2>3. CASE BeginAuthorization(call) \/ CutOff(call)
      BY <1>1, <2>3, BeginPreserves, CutOffPreserves DEF BeginAuthorization, CutOff
  <2>4. CASE IssueHardware(call) \/ ConsumeRequest(call)
      BY <1>1, <2>4, HardwarePreserves, RequestPreserves DEF IssueHardware, ConsumeRequest
  <2>5. CASE InsertCode(call) \/ IssueTokens(call)
      BY <1>1, <2>5, CodePreserves, TokensPreserves DEF InsertCode, IssueTokens
  <2> QED
      BY <1>10, <2>1, <2>2, <2>3, <2>4, <2>5 DEF Handle
<1>11. CASE AuthorizationNext
  <2> USE DEF AuthorizationNext, Routes
  <2> QED
      BY <1>3, <1>4, <1>5, <1>6, <1>7, <1>8, <1>9, <1>10, <1>11
<1> QED
    BY <1>2, <1>11

LEMMA SessionInvariance == AuthorizationSpec => []SessionInvariant
<1>1. AuthorizationInit => SessionInvariant
    BY InitEstablishes
<1>2. SessionInvariant /\ [AuthorizationNext]_authorizationVars => SessionInvariant'
    BY SessionStep
<1> QED
    BY <1>1, <1>2, PTL DEF AuthorizationSpec

\* A hardware session goes back to one assertion of its owner's device, and an
\* assertion to one session: however many requests race for a challenge, an
\* authorization request, a code or a refresh token, and wherever they are cut off
\* (consumeChallenge, consumeRequest, consumeCode and rotateRefreshToken).
THEOREM SessionsFollowAssertions == AuthorizationSpec => []SessionFollowsAssertion
<1>1. SessionInvariant => SessionFollowsAssertion
  <2>1. Typed => AuthorizationTypeOK
      BY DEF Typed
  <2>2. AllBacked => \A g \in grants : \E a \in accepted : a.by = g.by /\ HolderOf[a.device] = g.owner
      BY DEF AllBacked, Backed
  <2>3. Families => OneLiveToken /\ \A g, h \in grants : g.by = h.by => g = h
      BY DEF Families, OneLiveToken
  <2> QED
      BY <2>1, <2>2, <2>3 DEF SessionInvariant, SessionFollowsAssertion
<1> QED
    BY <1>1, SessionInvariance, PTL

\* The counters of a device that counts let no assertion pass after a later one,
\* though two requests may have read the same stored counter (advanceCounter).
THEOREM AssertionsPassInOrder == AuthorizationSpec => NoAssertionAfterItsSuccessor
<1>1. SessionInvariant /\ [AuthorizationNext]_authorizationVars => [PassesInOrder]_authorizationVars
    BY SessionStep
<1> QED
    BY <1>1, SessionInvariance, PTL DEF AuthorizationSpec, NoAssertionAfterItsSuccessor

-----------------------------------------------------------------------------
(* The invariant of the bridges.  A refresh token is known to one bridge    *)
(* until it is saved, and from the file to any number of them; a call that  *)
(* is at the transactions of a preview has those before it on the chain.    *)

BridgeState ==
    [at : {"off", "refresh", "login", "callback", "save", "challenge", "bind", "failed", "ready",
           "saving", "validate", "delegate", "awaitDelegation", "prerequisite", "awaitReceipt"},
     refresh : Nat, from : Nat, challenge : Nat, accepted : BOOLEAN,
     previews : SUBSET Preview, preview : Preview \union {Absent}, next : Nat]
CachedToken == [refresh : 1..issued, fresh : BOOLEAN]
Binding == [agent : {AgentOf[b] : b \in Bridge}, used : BOOLEAN]

BridgesTyped ==
    /\ issued \in Nat /\ liveTokens \subseteq 1..issued
    /\ oauthFile \in CachedToken \union {Absent}
    /\ bridges \in [Bridge -> BridgeState]
    /\ bindings \in Seq(Binding)
    /\ delegation \in {"none", "sent", "mined"}
    /\ mined \in [Preview -> Nat] /\ paid \subseteq Preview /\ previewFile \subseteq Preview

Holds(b) == bridges[b].at \in {"refresh", "save"}

\* The token that a bridge has yet to save was not exchanged, and nobody else knows it.
UnsavedIsOwn(b) ==
    At(b, "save") =>
      /\ bridges[b].refresh \in liveTokens \union lostTokens
      /\ oauthFile # Absent => oauthFile.refresh # bridges[b].refresh
      /\ \A c \in Bridge \ {b} : Holds(c) => bridges[c].refresh # bridges[b].refresh

Sends(b) == bridges[b].at \in {"prerequisite", "awaitReceipt"}
HasPreview(b) == Sends(b) \/ bridges[b].at \in {"saving", "validate", "delegate", "awaitDelegation"}

\* Where a call is among the transactions of its preview.
InTurn(b) ==
    /\ HasPreview(b) => bridges[b].preview \in Preview
    /\ Sends(b) => LET p == bridges[b].preview
                   IN  /\ delegation # "none"
                       /\ bridges[b].next \in 1..(mined[p] + 1)
                       /\ bridges[b].next <= Prerequisites[p] + 1
                       /\ At(b, "awaitReceipt") => bridges[b].next <= Prerequisites[p]

Tokens ==
    /\ CachedTokenIsLive
    /\ \A b \in Bridge : UnsavedIsOwn(b) /\ (Holds(b) => bridges[b].refresh \in 1..issued)

Payments ==
    /\ PaidWhenPrepared
    /\ \A p \in Preview : mined[p] <= Prerequisites[p]
    /\ \A b \in Bridge : InTurn(b)

BridgeInvariant == BridgesTyped /\ Tokens /\ Payments

\* Three frames: of what a step leaves alone, when one bridge goes elsewhere.
LEMMA BridgeMoves ==
  ASSUME BridgesTyped, NEW b \in Bridge, NEW s \in BridgeState,
         bridges' = [bridges EXCEPT ![b] = s]
  PROVE  /\ bridges' \in [Bridge -> BridgeState]
         /\ bridges'[b] = s
         /\ \A c \in Bridge \ {b} : bridges'[c] = bridges[c]
<1> QED
    BY DEF BridgesTyped

LEMMA TokensStay ==
  ASSUME BridgesTyped, Tokens, NEW b \in Bridge, NEW s \in BridgeState,
         bridges' = [bridges EXCEPT ![b] = s],
         s.at \notin {"refresh", "save"}, ~At(b, "save"), UNCHANGED tokenVars
  PROVE  Tokens'
<1>1. /\ bridges'[b] = s
      /\ \A c \in Bridge \ {b} : bridges'[c] = bridges[c]
    BY BridgeMoves
<1>2. UNCHANGED <<oauthFile, liveTokens, lostTokens, issued>>
    BY DEF tokenVars
<1>3. \A c \in Bridge : Holds(c)' => c # b /\ Holds(c)
    BY <1>1 DEF Holds
<1>4. \A c \in Bridge : At(c, "save")' <=> At(c, "save")
    BY <1>1 DEF At
<1>5. \A c \in Bridge : At(c, "save") => c # b /\ Holds(c)
    BY DEF At, Holds
<1>6. CachedTokenIsLive'
    BY <1>1, <1>2, <1>4, <1>5 DEF Tokens, CachedTokenIsLive
<1>7. ASSUME NEW c \in Bridge PROVE UnsavedIsOwn(c)' /\ (Holds(c)' => bridges'[c].refresh \in 1..issued')
    BY <1>1, <1>2, <1>3, <1>4, <1>5 DEF Tokens, UnsavedIsOwn
<1> QED
    BY <1>6, <1>7 DEF Tokens

LEMMA PaymentsStay ==
  ASSUME BridgesTyped, Payments, NEW b \in Bridge, NEW s \in BridgeState,
         bridges' = [bridges EXCEPT ![b] = s],
         s.at \in {"off", "refresh", "login", "callback", "save", "challenge", "bind", "failed", "ready"},
         UNCHANGED <<delegation, mined, paid>>
  PROVE  Payments'
<1>1. /\ bridges'[b] = s
      /\ \A c \in Bridge \ {b} : bridges'[c] = bridges[c]
    BY BridgeMoves
<1>2. InTurn(b)'
    BY <1>1 DEF InTurn, HasPreview, Sends
<1>3. ASSUME NEW c \in Bridge \ {b} PROVE InTurn(c)'
    BY <1>1 DEF InTurn, HasPreview, Sends, At, Payments
<1>4. PaidWhenPrepared'
    BY DEF Payments, PaidWhenPrepared
<1> QED
    BY <1>2, <1>3, <1>4 DEF Payments

LEMMA OffIsABridge == Off \in BridgeState
<1> QED
    BY DEF Off, BridgeState

-----------------------------------------------------------------------------
(* The session: the token and the binding.                                  *)

\* A bridge that holds no unsaved token, and will hold none, goes elsewhere.
LEMMA MovingKeeps ==
  ASSUME BridgeInvariant, NEW b \in Bridge, NEW s \in BridgeState,
         bridges' = [bridges EXCEPT ![b] = s], ~At(b, "save"),
         s.at \in {"off", "login", "callback", "challenge", "bind", "failed", "ready"},
         bindings' \in Seq(Binding), UNCHANGED <<tokenVars, tradeVars>>
  PROVE  BridgeInvariant'
<1>1. BridgesTyped'
    BY BridgeMoves DEF BridgeInvariant, BridgesTyped, tokenVars, tradeVars, CachedToken
<1>2. Tokens'
    BY TokensStay DEF BridgeInvariant
<1>3. Payments'
    BY PaymentsStay DEF BridgeInvariant, tradeVars
<1> QED
    BY <1>1, <1>2, <1>3 DEF BridgeInvariant

LEMMA LoadTokenStep ==
  ASSUME BridgeInvariant, NEW b \in Bridge, LoadToken(b)
  PROVE  BridgeInvariant'
<1> USE DEF LoadToken
<1> bridges[b].at = "off"
    BY DEF At
<1> UNCHANGED <<tokenVars, agentVars, tradeVars>>
    OBVIOUS
<1> bindings' = bindings /\ bindings \in Seq(Binding)
    BY DEF agentVars, BridgeInvariant, BridgesTyped
<1>1. CASE oauthFile = Absent
  <2>1. PICK s : s = [Off EXCEPT !.at = "login"]
      OBVIOUS
  <2>2. s \in BridgeState /\ s.at = "login"
      BY <2>1 DEF Off, BridgeState
  <2> QED
      BY <1>1, <2>1, <2>2, MovingKeeps DEF At
<1>2. CASE oauthFile # Absent /\ oauthFile.fresh
  <2>1. PICK s : s = [Off EXCEPT !.at = "challenge", !.accepted = TRUE]
      OBVIOUS
  <2>2. s \in BridgeState /\ s.at = "challenge"
      BY <2>1 DEF Off, BridgeState
  <2> QED
      BY <1>2, <2>1, <2>2, MovingKeeps DEF At
<1>3. CASE oauthFile # Absent /\ ~oauthFile.fresh
  <2>0. oauthFile \in CachedToken /\ issued \in Nat
      BY <1>3 DEF BridgeInvariant, BridgesTyped
  <2>1. PICK s : s = [Off EXCEPT !.at = "refresh", !.refresh = oauthFile.refresh]
      OBVIOUS
  <2> oauthFile.refresh \in 1..issued /\ oauthFile.refresh \in Nat
      BY <2>0 DEF CachedToken
  <2>2. s \in BridgeState /\ s.at = "refresh" /\ s.refresh = oauthFile.refresh
      BY <2>1 DEF Off, BridgeState
  <2>3. bridges' = [bridges EXCEPT ![b] = s]
      BY <1>3, <2>1
  <2> HIDE DEF LoadToken
  <2>4. /\ bridges'[b] = s
        /\ \A c \in Bridge \ {b} : bridges'[c] = bridges[c]
      BY <2>2, <2>3, BridgeMoves DEF BridgeInvariant
  <2>5. UNCHANGED <<oauthFile, liveTokens, lostTokens, issued>>
      BY DEF tokenVars
  <2>6. BridgesTyped'
      BY <2>2, <2>3, BridgeMoves DEF BridgeInvariant, BridgesTyped, tokenVars, tradeVars, CachedToken
  <2>7. Payments'
      BY <2>2, <2>3, PaymentsStay DEF BridgeInvariant, tradeVars
  <2>8. CachedTokenIsLive'
    <3>1. \A c \in Bridge : At(c, "save") => c # b /\ At(c, "save")'
        BY <2>4 DEF At
    <3> QED
        BY <2>4, <2>5, <3>1 DEF BridgeInvariant, Tokens, CachedTokenIsLive
  <2>9. \A c \in Bridge : Holds(c)' => bridges'[c].refresh \in 1..issued'
      BY <2>0, <2>2, <2>4, <2>5 DEF BridgeInvariant, Tokens, Holds, CachedToken
  <2>10. ASSUME NEW c \in Bridge, At(c, "save")' PROVE UnsavedIsOwn(c)'
    <3>1. c # b /\ At(c, "save") /\ UnsavedIsOwn(c)
        BY <2>2, <2>4, <2>10 DEF At, BridgeInvariant, Tokens
    <3>2. ASSUME NEW e \in Bridge \ {c}, Holds(e)' PROVE bridges'[e].refresh # bridges'[c].refresh
        BY <1>3, <2>2, <2>4, <3>1, <3>2 DEF UnsavedIsOwn, Holds
    <3> QED
        BY <2>4, <2>5, <3>1, <3>2 DEF UnsavedIsOwn
  <2>11. \A c \in Bridge : UnsavedIsOwn(c)'
      BY <2>10 DEF UnsavedIsOwn
  <2> QED
      BY <2>6, <2>7, <2>8, <2>9, <2>11 DEF BridgeInvariant, Tokens
<1> QED
    BY <1>1, <1>2, <1>3

\* The server answers with a token that nobody has had.
LEMMA IssuedIsNew ==
  ASSUME BridgeInvariant, NEW b \in Bridge, NEW used, Issue(b, used), ~At(b, "save"),
         bridges' = [bridges EXCEPT ![b] = NewToken(b, used)], used \in Nat,
         oauthFile' = oauthFile, lostTokens' = lostTokens, UNCHANGED <<agentVars, tradeVars>>,
         CachedTokenIsLive',
         \A c \in Bridge \ {b} : At(c, "save") => bridges[c].refresh # used
  PROVE  BridgeInvariant'
<1>0. issued \in Nat /\ bridges \in [Bridge -> BridgeState]
    BY DEF BridgeInvariant, BridgesTyped
<1>1. PICK s : s = NewToken(b, used)
    OBVIOUS
<1>2. s \in BridgeState /\ s.at = "save" /\ s.refresh = issued + 1
  <2>1. bridges[b] \in BridgeState
      BY <1>0
  <2>2. issued + 1 \in Nat
      BY <1>0
  <2> QED
      BY <1>1, <2>1, <2>2 DEF NewToken, BridgeState
<1>3. /\ bridges'[b] = s
      /\ \A c \in Bridge \ {b} : bridges'[c] = bridges[c]
    BY <1>1, <1>2, BridgeMoves DEF BridgeInvariant
<1>4. /\ issued' = issued + 1 /\ issued' \in Nat
      /\ liveTokens' = (liveTokens \ {used}) \union {issued + 1}
    BY <1>0 DEF Issue
<1>5. liveTokens \subseteq 1..issued /\ oauthFile \in CachedToken \union {Absent}
    BY DEF BridgeInvariant, BridgesTyped
<1>6. BridgesTyped'
  <2>1. liveTokens' \subseteq 1..issued'
      BY <1>0, <1>4, <1>5
  <2>2. CachedToken \subseteq CachedToken'
      BY <1>0, <1>4 DEF CachedToken
  <2>3. bridges' \in [Bridge -> BridgeState]
      BY <1>1, <1>2, BridgeMoves DEF BridgeInvariant
  <2> QED
      BY <1>4, <1>5, <2>1, <2>2, <2>3 DEF BridgeInvariant, BridgesTyped, agentVars, tradeVars
<1>7. Payments'
    BY <1>1, <1>2, PaymentsStay DEF BridgeInvariant, tradeVars
<1>8. \A c \in Bridge : Holds(c)' => bridges'[c].refresh \in 1..issued' /\ (c # b => bridges'[c].refresh \in 1..issued /\ Holds(c))
    BY <1>0, <1>2, <1>3, <1>4 DEF BridgeInvariant, Tokens, Holds
<1>9. UnsavedIsOwn(b)'
  <2>1. oauthFile # Absent => oauthFile.refresh \in 1..issued
      BY <1>5 DEF CachedToken
  <2> QED
      BY <1>0, <1>2, <1>3, <1>4, <1>8, <2>1 DEF UnsavedIsOwn
<1>10. ASSUME NEW c \in Bridge \ {b}, At(c, "save")' PROVE UnsavedIsOwn(c)'
  <2>1. At(c, "save") /\ UnsavedIsOwn(c) /\ bridges'[c] = bridges[c]
      BY <1>3, <1>10 DEF At, BridgeInvariant, Tokens
  <2>2. bridges[c].refresh \in liveTokens' \union lostTokens' /\ bridges[c].refresh \in 1..issued
      BY <1>4, <1>5, <1>8, <1>10, <2>1 DEF UnsavedIsOwn, Holds, At
  <2>3. ASSUME NEW e \in Bridge \ {c}, Holds(e)' PROVE bridges'[e].refresh # bridges'[c].refresh
      BY <1>0, <1>2, <1>3, <1>8, <2>1, <2>2, <2>3 DEF UnsavedIsOwn
  <2> QED
      BY <2>1, <2>2, <2>3 DEF UnsavedIsOwn
<1>11. \A c \in Bridge : UnsavedIsOwn(c)'
    BY <1>9, <1>10 DEF UnsavedIsOwn
<1> QED
    BY <1>6, <1>7, <1>8, <1>11 DEF BridgeInvariant, Tokens

LEMMA BridgeGoes ==
  ASSUME BridgesTyped, NEW b \in Bridge, NEW place, Goes(b, place),
         place \in {"login", "callback", "failed", "ready", "awaitDelegation", "awaitReceipt", "validate"}
  PROVE  \E s \in BridgeState : /\ s = [bridges[b] EXCEPT !.at = place]
                                /\ bridges' = [bridges EXCEPT ![b] = s]
<1>1. PICK s : s = [bridges[b] EXCEPT !.at = place]
    OBVIOUS
<1>2. bridges[b] \in BridgeState
    BY DEF BridgesTyped
<1>3. s \in BridgeState
    BY <1>1, <1>2 DEF BridgeState
<1>4. bridges' = [bridges EXCEPT ![b] = s]
    BY <1>1 DEF Goes
<1> QED
    BY <1>1, <1>3, <1>4

LEMMA GoingKeeps ==
  ASSUME BridgeInvariant, NEW b \in Bridge, NEW place, Goes(b, place), ~At(b, "save"),
         place \in {"login", "callback", "failed", "ready"},
         bindings' \in Seq(Binding), UNCHANGED <<tokenVars, tradeVars>>
  PROVE  BridgeInvariant'
<1>1. PICK s \in BridgeState : /\ s = [bridges[b] EXCEPT !.at = place]
                               /\ bridges' = [bridges EXCEPT ![b] = s]
    BY BridgeGoes DEF BridgeInvariant
<1>2. s.at = place
  <2>1. bridges[b] \in BridgeState
      BY DEF BridgeInvariant, BridgesTyped
  <2> QED
      BY <1>1, <2>1 DEF BridgeState
<1> QED
    BY <1>1, <1>2, MovingKeeps

LEMMA Dropped ==
  ASSUME NEW b \in Bridge, NEW place, Drops(b, place), place \in {"login", "failed"}
  PROVE  \E s \in BridgeState : s.at = place /\ bridges' = [bridges EXCEPT ![b] = s]
<1>1. PICK s : s = [Off EXCEPT !.at = place]
    OBVIOUS
<1>2. s \in BridgeState /\ s.at = place
    BY <1>1, OffIsABridge DEF BridgeState
<1> QED
    BY <1>1, <1>2 DEF Drops

LEMMA DroppingKeeps ==
  ASSUME BridgeInvariant, NEW b \in Bridge, NEW place, Drops(b, place), ~At(b, "save"),
         place \in {"login", "failed"}, UNCHANGED <<tokenVars, agentVars, tradeVars>>
  PROVE  BridgeInvariant'
<1>1. PICK s \in BridgeState : s.at = place /\ bridges' = [bridges EXCEPT ![b] = s]
    BY Dropped
<1>2. bindings' \in Seq(Binding)
    BY DEF BridgeInvariant, BridgesTyped, agentVars
<1> QED
    BY <1>1, <1>2, MovingKeeps

\* The answer that is lost: its token is live, and no bridge knows it.
LEMMA LostAnswer ==
  ASSUME BridgeInvariant, NEW b \in Bridge, NEW used, Issue(b, used), used \in Nat,
         At(b, "refresh"), Drops(b, "login"), bridges[b].refresh = used,
         lostTokens' = lostTokens \union {used},
         oauthFile' = oauthFile, UNCHANGED <<agentVars, tradeVars>>
  PROVE  BridgeInvariant'
<1>0. issued \in Nat /\ bridges \in [Bridge -> BridgeState]
    BY DEF BridgeInvariant, BridgesTyped
<1>1. PICK s \in BridgeState : s.at = "login" /\ bridges' = [bridges EXCEPT ![b] = s]
    BY Dropped
<1>2. s.at = "login"
    BY <1>1
<1>3. /\ bridges'[b] = s
      /\ \A c \in Bridge \ {b} : bridges'[c] = bridges[c]
    BY <1>1, BridgeMoves DEF BridgeInvariant
<1>4. /\ issued' = issued + 1 /\ issued' \in Nat
      /\ liveTokens' = (liveTokens \ {used}) \union {issued + 1}
    BY <1>0 DEF Issue
<1>5. liveTokens \subseteq 1..issued /\ oauthFile \in CachedToken \union {Absent}
    BY DEF BridgeInvariant, BridgesTyped
<1>6. BridgesTyped'
  <2>1. liveTokens' \subseteq 1..issued'
      BY <1>0, <1>4, <1>5
  <2>2. CachedToken \subseteq CachedToken'
      BY <1>0, <1>4 DEF CachedToken
  <2>3. bridges' \in [Bridge -> BridgeState]
      BY <1>1, BridgeMoves DEF BridgeInvariant
  <2> QED
      BY <1>4, <1>5, <2>1, <2>2, <2>3 DEF BridgeInvariant, BridgesTyped, agentVars, tradeVars
<1>7. Payments'
    BY <1>1, <1>2, PaymentsStay DEF BridgeInvariant, tradeVars
<1>8. \A c \in Bridge : Holds(c)' => /\ c # b /\ Holds(c) /\ bridges'[c] = bridges[c]
                                     /\ bridges[c].refresh \in 1..issued'
    BY <1>0, <1>2, <1>3, <1>4 DEF BridgeInvariant, Tokens, Holds
<1>9. ASSUME NEW c \in Bridge, At(c, "save")' PROVE UnsavedIsOwn(c)'
  <2>1. c # b /\ At(c, "save") /\ UnsavedIsOwn(c) /\ bridges'[c] = bridges[c]
      BY <1>2, <1>3, <1>9 DEF At, BridgeInvariant, Tokens
  <2>2. Holds(b)
      BY DEF At, Holds
  <2>3. bridges[c].refresh \in liveTokens' \union lostTokens'
      BY <1>4, <2>1, <2>2 DEF UnsavedIsOwn
  <2>4. ASSUME NEW e \in Bridge \ {c}, Holds(e)' PROVE bridges'[e].refresh # bridges'[c].refresh
      BY <1>8, <2>1, <2>4 DEF UnsavedIsOwn
  <2> QED
      BY <2>1, <2>3, <2>4 DEF UnsavedIsOwn
<1>10. \A c \in Bridge : UnsavedIsOwn(c)'
    BY <1>9 DEF UnsavedIsOwn
<1>11. CachedTokenIsLive'
  <2>1. \A c \in Bridge : At(c, "save") => At(c, "save")' /\ bridges'[c].from = bridges[c].from
      BY <1>3 DEF At
  <2> QED
      BY <1>4, <2>1 DEF BridgeInvariant, Tokens, CachedTokenIsLive
<1> QED
    BY <1>6, <1>7, <1>8, <1>10, <1>11 DEF BridgeInvariant, Tokens

LEMMA RefreshBridgeStep ==
  ASSUME BridgeInvariant, NEW b \in Bridge, RefreshBridge(b)
  PROVE  BridgeInvariant'
<1>1. At(b, "refresh") /\ ~At(b, "save") /\ Holds(b) /\ UNCHANGED <<oauthFile, agentVars, tradeVars>>
    BY DEF RefreshBridge, At, Holds
<1>2. PICK used : used = bridges[b].refresh
    OBVIOUS
<1>3. used \in Nat
  <2>1. bridges[b] \in BridgeState
      BY DEF BridgeInvariant, BridgesTyped
  <2> QED
      BY <1>2, <2>1 DEF BridgeState
<1>4. CASE Issue(b, used) /\ bridges' = [bridges EXCEPT ![b] = NewToken(b, used)] /\ UNCHANGED lostTokens
  <2>1. \A c \in Bridge \ {b} : At(c, "save") => bridges[c].refresh # used
      BY <1>1, <1>2 DEF BridgeInvariant, Tokens, UnsavedIsOwn
  <2>2. bridges \in [Bridge -> BridgeState]
      BY DEF BridgeInvariant, BridgesTyped
  <2>3. bridges'[b] = NewToken(b, used) /\ \A c \in Bridge \ {b} : bridges'[c] = bridges[c]
      BY <1>4, <2>2
  <2>4. bridges'[b].at = "save" /\ bridges'[b].from = used
    <3>1. bridges[b] \in BridgeState
        BY <2>2
    <3> QED
        BY <2>3, <3>1 DEF NewToken, BridgeState
  <2>5. \A c \in Bridge : At(c, "save") => At(c, "save")' /\ bridges'[c].from = bridges[c].from
      BY <1>1, <2>3 DEF At
  <2>6. CachedTokenIsLive'
      BY <1>1, <1>4, <2>4, <2>5 DEF BridgeInvariant, Tokens, CachedTokenIsLive, Issue, At
  <2> QED
      BY <1>1, <1>3, <1>4, <2>1, <2>6, IssuedIsNew
<1>5. CASE Issue(b, used) /\ lostTokens' = lostTokens \union {used} /\ Drops(b, "login")
    BY <1>1, <1>2, <1>3, <1>5, LostAnswer
<1>6. CASE Drops(b, "login") /\ UNCHANGED <<liveTokens, lostTokens, issued>>
    BY <1>1, <1>6, DroppingKeeps DEF tokenVars
<1> QED
    BY <1>2, <1>4, <1>5, <1>6 DEF RefreshBridge

LEMMA LoginStep ==
  ASSUME BridgeInvariant, NEW b \in Bridge, Login(b)
  PROVE  BridgeInvariant'
<1>1. ~At(b, "save") /\ UNCHANGED <<tokenVars, agentVars, tradeVars>> /\ (Goes(b, "callback") \/ Goes(b, "failed"))
    BY DEF Login, At
<1> QED
    BY <1>1, GoingKeeps DEF agentVars, BridgeInvariant, BridgesTyped

LEMMA CallbackStep ==
  ASSUME BridgeInvariant, NEW b \in Bridge, Callback(b)
  PROVE  BridgeInvariant'
<1>1. ~At(b, "save") /\ UNCHANGED <<oauthFile, lostTokens, agentVars, tradeVars>>
    BY DEF Callback, At
<1>2. CASE Goes(b, "failed") /\ UNCHANGED <<liveTokens, issued>>
    BY <1>1, <1>2, GoingKeeps DEF tokenVars, agentVars, BridgeInvariant, BridgesTyped
<1>3. CASE Issue(b, 0) /\ bridges' = [bridges EXCEPT ![b] = NewToken(b, 0)]
  <2>0. issued \in Nat /\ bridges \in [Bridge -> BridgeState]
      BY DEF BridgeInvariant, BridgesTyped
  <2>1. \A c \in Bridge : At(c, "save") => bridges[c].refresh # 0
      BY <2>0 DEF BridgeInvariant, Tokens, Holds, At
  <2>2. \A c \in Bridge : At(c, "save") => At(c, "save")' /\ bridges'[c].from = bridges[c].from
      BY <1>1, <1>3, <2>0 DEF At
  <2>3. oauthFile # Absent => oauthFile.refresh # 0
      BY <2>0 DEF BridgeInvariant, BridgesTyped, CachedToken
  <2>4. CachedTokenIsLive'
      BY <1>1, <1>3, <2>2, <2>3 DEF BridgeInvariant, Tokens, CachedTokenIsLive, Issue
  <2> QED
      BY <1>1, <1>3, <2>1, <2>4, IssuedIsNew
<1> QED
    BY <1>2, <1>3 DEF Callback

\* What a bridge saves is live; what another has yet to save stays its own.
LEMMA SaveTokenStep ==
  ASSUME BridgeInvariant, NEW b \in Bridge, SaveToken(b)
  PROVE  BridgeInvariant'
<1>0. issued \in Nat /\ bridges \in [Bridge -> BridgeState]
    BY DEF BridgeInvariant, BridgesTyped
<1>1. /\ At(b, "save") /\ Holds(b) /\ bridges[b].refresh \in liveTokens \union lostTokens
      /\ \A c \in Bridge \ {b} : Holds(c) => bridges[c].refresh # bridges[b].refresh
      /\ bridges[b].refresh \in 1..issued
    BY DEF SaveToken, BridgeInvariant, Tokens, UnsavedIsOwn, At, Holds
<1>2. PICK s : s = [Off EXCEPT !.at = "challenge", !.accepted = TRUE]
    OBVIOUS
<1>3. s \in BridgeState /\ s.at = "challenge"
    BY <1>2 DEF Off, BridgeState
<1>4. /\ bridges' = [bridges EXCEPT ![b] = s]
      /\ oauthFile' = [refresh |-> bridges[b].refresh, fresh |-> TRUE]
      /\ UNCHANGED <<liveTokens, lostTokens, issued, agentVars, tradeVars>>
    BY <1>2 DEF SaveToken
<1>5. /\ bridges'[b] = s
      /\ \A c \in Bridge \ {b} : bridges'[c] = bridges[c]
    BY <1>3, <1>4, BridgeMoves DEF BridgeInvariant
<1>6. BridgesTyped'
  <2>1. oauthFile' \in CachedToken'
      BY <1>1, <1>4 DEF CachedToken
  <2>2. bridges' \in [Bridge -> BridgeState]
      BY <1>3, <1>4, BridgeMoves DEF BridgeInvariant
  <2> QED
      BY <1>4, <2>1, <2>2 DEF BridgeInvariant, BridgesTyped, agentVars, tradeVars
<1>7. Payments'
    BY <1>3, <1>4, PaymentsStay DEF BridgeInvariant, tradeVars
<1>8. CachedTokenIsLive'
    BY <1>1, <1>4 DEF CachedTokenIsLive
<1>9. \A c \in Bridge : Holds(c)' => /\ c # b /\ Holds(c) /\ bridges'[c] = bridges[c]
                                     /\ bridges[c].refresh \in 1..issued'
    BY <1>3, <1>4, <1>5 DEF BridgeInvariant, Tokens, Holds
<1>10. ASSUME NEW c \in Bridge, At(c, "save")' PROVE UnsavedIsOwn(c)'
  <2>1. Holds(c)'
      BY <1>10 DEF At, Holds
  <2>2. c # b /\ At(c, "save") /\ UnsavedIsOwn(c) /\ bridges'[c] = bridges[c]
      BY <1>9, <1>10, <2>1 DEF At, BridgeInvariant, Tokens
  <2>3. oauthFile'.refresh = bridges[b].refresh
      BY <1>4
  <2> QED
      BY <1>1, <1>4, <1>9, <2>1, <2>2, <2>3 DEF UnsavedIsOwn
<1>11. \A c \in Bridge : UnsavedIsOwn(c)'
    BY <1>10 DEF UnsavedIsOwn
<1> QED
    BY <1>6, <1>7, <1>8, <1>9, <1>11 DEF BridgeInvariant, Tokens

\* A bridge that gives up before it saves loses the token, and what it replaces.
LEMMA TokenDropped ==
  ASSUME BridgeInvariant, NEW b \in Bridge, NEW s \in BridgeState,
         s.at \in {"off", "login", "failed"},
         bridges' = [bridges EXCEPT ![b] = s],
         UNCHANGED <<oauthFile, liveTokens, issued, agentVars, tradeVars>>,
         lostTokens \subseteq lostTokens', At(b, "save") => bridges[b].from \in lostTokens'
  PROVE  BridgeInvariant'
<1>1. s \in BridgeState /\ s.at \in {"off", "login", "failed"}
    OBVIOUS
<1>2. /\ bridges' = [bridges EXCEPT ![b] = s]
      /\ UNCHANGED <<oauthFile, liveTokens, issued, agentVars, tradeVars>>
      /\ lostTokens \subseteq lostTokens'
      /\ At(b, "save") => bridges[b].from \in lostTokens'
    OBVIOUS
<1>3. /\ bridges'[b] = s
      /\ \A c \in Bridge \ {b} : bridges'[c] = bridges[c]
    BY <1>1, <1>2, BridgeMoves DEF BridgeInvariant
<1>4. BridgesTyped'
    BY <1>1, <1>2, BridgeMoves
       DEF BridgeInvariant, BridgesTyped, agentVars, tradeVars, CachedToken
<1>5. Payments'
    BY <1>1, <1>2, PaymentsStay DEF BridgeInvariant, tradeVars
<1>6. \A c \in Bridge : Holds(c)' => c # b /\ Holds(c) /\ bridges'[c] = bridges[c]
    BY <1>1, <1>3 DEF Holds
<1>7. ASSUME NEW c \in Bridge, At(c, "save")' PROVE UnsavedIsOwn(c)'
  <2>1. c # b /\ At(c, "save") /\ UnsavedIsOwn(c)
      BY <1>1, <1>3, <1>7 DEF At, BridgeInvariant, Tokens
  <2> QED
      BY <1>2, <1>3, <1>6, <2>1 DEF UnsavedIsOwn
<1>8. \A c \in Bridge : UnsavedIsOwn(c)'
    BY <1>7 DEF UnsavedIsOwn
<1>9. CachedTokenIsLive'
  <2>1. \A c \in Bridge \ {b} : At(c, "save") => At(c, "save")' /\ bridges'[c].from = bridges[c].from
      BY <1>3 DEF At
  <2> QED
      BY <1>2, <2>1 DEF BridgeInvariant, Tokens, CachedTokenIsLive
<1>10. \A c \in Bridge : Holds(c)' => bridges'[c].refresh \in 1..issued'
    BY <1>2, <1>6 DEF BridgeInvariant, Tokens
<1> QED
    BY <1>4, <1>5, <1>8, <1>9, <1>10 DEF BridgeInvariant, Tokens

LEMMA RestartStep ==
  ASSUME BridgeInvariant, NEW b \in Bridge, Restart(b)
  PROVE  BridgeInvariant'
<1>1. Off \in BridgeState /\ Off.at = "off"
    BY OffIsABridge DEF Off
<1> QED
    BY <1>1, TokenDropped DEF Restart

LEMMA SaveFailsStep ==
  ASSUME BridgeInvariant, NEW b \in Bridge, SaveFails(b)
  PROVE  BridgeInvariant'
<1>1. PICK place \in {"login", "failed"} : place = IF bridges[b].from = 0 THEN "failed" ELSE "login"
    OBVIOUS
<1>2. PICK s \in BridgeState : s.at = place /\ bridges' = [bridges EXCEPT ![b] = s]
    BY <1>1, Dropped DEF SaveFails
<1> QED
    BY <1>1, <1>2, TokenDropped DEF SaveFails

LEMMA CreateAgentChallengeStep ==
  ASSUME BridgeInvariant, NEW b \in Bridge, CreateAgentChallenge(b)
  PROVE  BridgeInvariant'
<1>1. PICK fresh : fresh = [agent |-> AgentOf[b], used |-> FALSE]
    OBVIOUS
<1>2. fresh \in Binding /\ bindings \in Seq(Binding)
    BY <1>1 DEF Binding, BridgeInvariant, BridgesTyped
<1>3. bindings' = Append(bindings, fresh)
    BY <1>1 DEF CreateAgentChallenge
<1>4. bindings' \in Seq(Binding) /\ Len(bindings') \in Nat
    BY <1>2, <1>3
<1>5. PICK s : s = [bridges[b] EXCEPT !.at = "bind", !.challenge = Len(bindings')]
    OBVIOUS
<1>6. s \in BridgeState /\ s.at = "bind"
  <2>1. bridges[b] \in BridgeState
      BY DEF BridgeInvariant, BridgesTyped
  <2> QED
      BY <1>4, <1>5, <2>1 DEF BridgeState
<1>7. /\ bridges' = [bridges EXCEPT ![b] = s] /\ ~At(b, "save")
      /\ UNCHANGED <<tokenVars, tradeVars>>
    BY <1>5 DEF CreateAgentChallenge, At
<1> QED
    BY <1>4, <1>6, <1>7, MovingKeeps

LEMMA BindAgentStep ==
  ASSUME BridgeInvariant, NEW b \in Bridge, BindAgent(b)
  PROVE  BridgeInvariant'
<1>1. PICK i : i = bridges[b].challenge
    OBVIOUS
<1>2. bindings' = [bindings EXCEPT ![i].used = TRUE] /\ bindings \in Seq(Binding)
    BY <1>1 DEF BindAgent, BridgeInvariant, BridgesTyped
<1>3. bindings' \in Seq(Binding)
  <2>1. i \in DOMAIN bindings => [bindings[i] EXCEPT !.used = TRUE] \in Binding
    <3>1. i \in DOMAIN bindings => bindings[i] \in Binding
        BY <1>2
    <3> QED
        BY <3>1 DEF Binding
  <2>2. bindings \in [1..Len(bindings) -> Binding] /\ Len(bindings) \in Nat
      BY <1>2
  <2>3. bindings' \in [1..Len(bindings) -> Binding]
      BY <1>2, <2>1, <2>2
  <2> QED
      BY <2>2, <2>3
<1>4. PICK s : s = [bridges[b] EXCEPT !.at = "ready", !.challenge = 0]
    OBVIOUS
<1>5. s \in BridgeState /\ s.at = "ready"
  <2>1. bridges[b] \in BridgeState
      BY DEF BridgeInvariant, BridgesTyped
  <2> QED
      BY <1>4, <2>1 DEF BridgeState
<1>6. /\ bridges' = [bridges EXCEPT ![b] = s] /\ ~At(b, "save")
      /\ UNCHANGED <<tokenVars, tradeVars>>
    BY <1>4 DEF BindAgent, At
<1> QED
    BY <1>3, <1>5, <1>6, MovingKeeps

LEMMA SessionFailsStep ==
  ASSUME BridgeInvariant, NEW b \in Bridge, SessionFails(b)
  PROVE  BridgeInvariant'
<1>1. Drops(b, "failed") /\ ~At(b, "save") /\ UNCHANGED <<tokenVars, agentVars, tradeVars>>
    BY DEF SessionFails, At
<1> QED
    BY <1>1, DroppingKeeps

LEMMA TokenLapsesStep ==
  ASSUME BridgeInvariant, TokenLapses
  PROVE  BridgeInvariant'
<1>1. /\ oauthFile # Absent /\ oauthFile \in CachedToken /\ issued \in Nat
      /\ oauthFile' = [oauthFile EXCEPT !.fresh = FALSE]
      /\ UNCHANGED <<liveTokens, lostTokens, issued, agentVars, tradeVars, bridges>>
    BY DEF TokenLapses, BridgeInvariant, BridgesTyped
<1>2. oauthFile' \in CachedToken' /\ oauthFile'.refresh = oauthFile.refresh
    BY <1>1 DEF CachedToken
<1>3. BridgesTyped'
    BY <1>1, <1>2 DEF BridgeInvariant, BridgesTyped, agentVars, tradeVars
<1>4. Tokens'
  <2>1. CachedTokenIsLive'
      BY <1>1, <1>2 DEF BridgeInvariant, Tokens, CachedTokenIsLive, At
  <2>2. \A b \in Bridge : UnsavedIsOwn(b)' /\ (Holds(b)' => bridges'[b].refresh \in 1..issued')
      BY <1>1, <1>2 DEF BridgeInvariant, Tokens, UnsavedIsOwn, Holds, At
  <2> QED
      BY <2>1, <2>2 DEF Tokens
<1>5. Payments'
    BY <1>1 DEF BridgeInvariant, Payments, PaidWhenPrepared, InTurn, HasPreview, Sends, At, tradeVars
<1> QED
    BY <1>3, <1>4, <1>5 DEF BridgeInvariant

-----------------------------------------------------------------------------
(* The trades: previews, the delegation, the transactions and the payment.  *)

\* A token that lapses is lost, where it was live.
LEMMA RefreshTokenLapsesStep ==
  ASSUME BridgeInvariant, RefreshTokenLapses
  PROVE  BridgeInvariant'
<1>1. /\ UNCHANGED <<oauthFile, issued, bindings, boundAgent, previewFile, delegation, mined, paid, bridges>>
      /\ liveTokens \union lostTokens = liveTokens' \union lostTokens'
      /\ liveTokens' \subseteq liveTokens
    BY DEF RefreshTokenLapses, agentVars, tradeVars
<1>2. BridgesTyped' /\ Payments'
    BY <1>1 DEF BridgeInvariant, BridgesTyped, CachedToken, Payments, PaidWhenPrepared, InTurn,
                HasPreview, Sends, At
<1>3. Tokens'
    BY <1>1 DEF BridgeInvariant, Tokens, CachedTokenIsLive, UnsavedIsOwn, Holds, At
<1> QED
    BY <1>2, <1>3 DEF BridgeInvariant

\* A call goes on: the chain has at least what it had, and the calls of other
\* bridges are where they were.
LEMMA CallKeeps ==
  ASSUME BridgeInvariant, NEW b \in Bridge, NEW s \in BridgeState,
         bridges' = [bridges EXCEPT ![b] = s], HasPreview(b) \/ At(b, "ready"),
         s.at \notin {"refresh", "save"}, InTurn(b)',
         UNCHANGED <<tokenVars, agentVars>>, previewFile' \subseteq Preview,
         delegation' = delegation \/ delegation' = "sent",
         mined' \in [Preview -> Nat],
         \A p \in Preview : mined[p] <= mined'[p] /\ mined'[p] <= Prerequisites[p],
         paid' \subseteq Preview,
         \A p \in paid' \ paid : mined[p] = Prerequisites[p] /\ delegation # "none"
  PROVE  BridgeInvariant'
<1>0. mined \in [Preview -> Nat] /\ paid \subseteq Preview /\ delegation \in {"none", "sent", "mined"}
    BY DEF BridgeInvariant, BridgesTyped
<1>1. \A p \in Preview : mined[p] \in Nat /\ mined'[p] \in Nat /\ Prerequisites[p] \in Nat
    BY <1>0, BridgeAssumption
<1>2. /\ bridges'[b] = s
      /\ \A c \in Bridge \ {b} : bridges'[c] = bridges[c]
    BY BridgeMoves DEF BridgeInvariant
<1>3. ~At(b, "save")
    BY DEF HasPreview, Sends, At
<1>4. BridgesTyped'
    BY <1>0, BridgeMoves DEF BridgeInvariant, BridgesTyped, tokenVars, agentVars, CachedToken
<1>5. Tokens'
    BY <1>3, TokensStay DEF BridgeInvariant
<1>6. ASSUME NEW c \in Bridge \ {b} PROVE InTurn(c)'
  <2>1. InTurn(c) /\ bridges'[c] = bridges[c] /\ bridges[c].next \in Nat
    <3>1. bridges[c] \in BridgeState
        BY DEF BridgeInvariant, BridgesTyped
    <3> QED
        BY <1>2, <3>1 DEF BridgeInvariant, Payments, BridgeState
  <2>2. HasPreview(c)' => HasPreview(c) /\ bridges'[c].preview \in Preview
      BY <2>1 DEF HasPreview, Sends, InTurn
  <2>3. ASSUME Sends(c)' PROVE LET p == bridges'[c].preview
                               IN  /\ delegation' # "none"
                                   /\ bridges'[c].next \in 1..(mined'[p] + 1)
                                   /\ bridges'[c].next <= Prerequisites[p] + 1
                                   /\ At(c, "awaitReceipt")' => bridges'[c].next <= Prerequisites[p]
    <3>1. Sends(c) /\ bridges[c].preview \in Preview
        BY <2>1, <2>3 DEF Sends, HasPreview, InTurn
    <3>2. delegation # "none" /\ delegation' # "none"
        BY <2>1, <3>1 DEF InTurn
    <3>3. bridges[c].next \in 1..(mined[bridges[c].preview] + 1)
        BY <2>1, <3>1 DEF InTurn
    <3>4. bridges[c].next \in 1..(mined'[bridges[c].preview] + 1)
        BY <1>1, <2>1, <3>1, <3>3
    <3>5. /\ bridges[c].next <= Prerequisites[bridges[c].preview] + 1
          /\ At(c, "awaitReceipt")' => bridges[c].next <= Prerequisites[bridges[c].preview]
        BY <2>1, <3>1 DEF InTurn, At
    <3> QED
        BY <2>1, <3>2, <3>4, <3>5
  <2> QED
      BY <2>2, <2>3 DEF InTurn
<1>7. PaidWhenPrepared'
  <2>1. ASSUME NEW p \in paid' PROVE mined'[p] = Prerequisites[p] /\ delegation' # "none"
    <3>1. mined[p] = Prerequisites[p] /\ delegation # "none" /\ p \in Preview
        BY <1>0 DEF BridgeInvariant, Payments, PaidWhenPrepared
    <3> QED
        BY <1>0, <1>1, <3>1
  <2> QED
      BY <2>1 DEF PaidWhenPrepared
<1>8. Payments'
    BY <1>6, <1>7 DEF Payments
<1> QED
    BY <1>4, <1>5, <1>8 DEF BridgeInvariant

\* The chain and the records of payments, when nothing was sent.
LEMMA NothingSent ==
  ASSUME BridgeInvariant, UNCHANGED <<delegation, mined, paid>>
  PROVE  /\ mined' \in [Preview -> Nat] /\ paid' \subseteq Preview
         /\ \A p \in Preview : mined[p] <= mined'[p] /\ mined'[p] <= Prerequisites[p]
<1>1. mined \in [Preview -> Nat] /\ paid \subseteq Preview
    BY DEF BridgeInvariant, BridgesTyped
<1>2. \A p \in Preview : mined[p] \in Nat /\ mined[p] <= Prerequisites[p]
    BY <1>1 DEF BridgeInvariant, Payments
<1> QED
    BY <1>1, <1>2

\* Calls that only this bridge knows of.
LEMMA CallMoves ==
  ASSUME BridgeInvariant, NEW b \in Bridge, NEW s \in BridgeState,
         bridges' = [bridges EXCEPT ![b] = s], HasPreview(b) \/ At(b, "ready"),
         s.at \notin {"refresh", "save"}, InTurn(b)',
         UNCHANGED <<tokenVars, agentVars, delegation, mined, paid>>, previewFile' \subseteq Preview
  PROVE  BridgeInvariant'
<1> QED
    BY NothingSent, CallKeeps

LEMMA RequestTradeStep ==
  ASSUME BridgeInvariant, NEW b \in Bridge, NEW p \in Preview, RequestTrade(b, p)
  PROVE  BridgeInvariant'
<1>1. PICK s : s = [bridges[b] EXCEPT !.at = "saving", !.preview = p, !.previews = previewFile]
    OBVIOUS
<1>2. s \in BridgeState /\ s.at = "saving" /\ s.preview = p
  <2>1. bridges[b] \in BridgeState /\ previewFile \subseteq Preview
      BY DEF BridgeInvariant, BridgesTyped
  <2> QED
      BY <1>1, <2>1 DEF BridgeState
<1>3. /\ bridges' = [bridges EXCEPT ![b] = s] /\ At(b, "ready")
      /\ UNCHANGED <<tokenVars, agentVars, delegation, mined, paid>> /\ previewFile' \subseteq Preview
    BY <1>1 DEF RequestTrade, tradeVars, BridgeInvariant, BridgesTyped
<1>4. InTurn(b)'
  <2>1. bridges'[b] = s
      BY <1>2, <1>3, BridgeMoves DEF BridgeInvariant
  <2> QED
      BY <1>2, <2>1 DEF InTurn, Sends
<1> QED
    BY <1>2, <1>3, <1>4, CallMoves

LEMMA SavePreviewStep ==
  ASSUME BridgeInvariant, NEW b \in Bridge, SavePreview(b)
  PROVE  BridgeInvariant'
<1>0. bridges[b] \in BridgeState /\ HasPreview(b) /\ bridges[b].preview \in Preview
    BY DEF BridgeInvariant, BridgesTyped, Payments, InTurn, HasPreview, At, SavePreview
<1>1. PICK s : s = [bridges[b] EXCEPT !.at = "ready", !.preview = Absent, !.previews = {}]
    OBVIOUS
<1>2. s \in BridgeState /\ s.at = "ready"
    BY <1>0, <1>1 DEF BridgeState
<1>3. bridges[b].previews \subseteq Preview
    BY <1>0 DEF BridgeState
<1>4. /\ bridges' = [bridges EXCEPT ![b] = s]
      /\ UNCHANGED <<tokenVars, agentVars, delegation, mined, paid>> /\ previewFile' \subseteq Preview
    BY <1>0, <1>1, <1>3 DEF SavePreview
<1>5. InTurn(b)'
  <2>1. bridges'[b] = s
      BY <1>2, <1>4, BridgeMoves DEF BridgeInvariant
  <2> QED
      BY <1>2, <2>1 DEF InTurn, Sends, HasPreview
<1> QED
    BY <1>0, <1>2, <1>4, <1>5, CallMoves

LEMMA PostTradeStep ==
  ASSUME BridgeInvariant, NEW b \in Bridge, NEW p \in Preview, PostTrade(b, p)
  PROVE  BridgeInvariant'
<1>1. PICK s : s = [bridges[b] EXCEPT !.at = "validate", !.preview = p]
    OBVIOUS
<1>2. s \in BridgeState /\ s.at = "validate" /\ s.preview = p
  <2>1. bridges[b] \in BridgeState
      BY DEF BridgeInvariant, BridgesTyped
  <2> QED
      BY <1>1, <2>1 DEF BridgeState
<1>3. /\ bridges' = [bridges EXCEPT ![b] = s] /\ At(b, "ready")
      /\ UNCHANGED <<tokenVars, agentVars, delegation, mined, paid>> /\ previewFile' \subseteq Preview
    BY <1>1 DEF PostTrade, tradeVars, BridgeInvariant, BridgesTyped
<1>4. InTurn(b)'
  <2>1. bridges'[b] = s
      BY <1>2, <1>3, BridgeMoves DEF BridgeInvariant
  <2> QED
      BY <1>2, <2>1 DEF InTurn, Sends
<1> QED
    BY <1>2, <1>3, <1>4, CallMoves

\* A call that ends leaves its bridge ready for the next.
LEMMA ReadyKeeps ==
  ASSUME BridgeInvariant, NEW b \in Bridge, HasPreview(b),
         bridges' = [bridges EXCEPT ![b] = Ready(b)], UNCHANGED <<tokenVars, agentVars, tradeVars>>
  PROVE  BridgeInvariant'
<1>1. PICK s : s = Ready(b)
    OBVIOUS
<1>2. s \in BridgeState /\ s.at = "ready"
  <2>1. bridges[b] \in BridgeState
      BY DEF BridgeInvariant, BridgesTyped
  <2> QED
      BY <1>1, <2>1 DEF BridgeState, Ready
<1>3. InTurn(b)'
  <2>1. bridges'[b] = s
      BY <1>1, <1>2, BridgeMoves DEF BridgeInvariant
  <2> QED
      BY <1>2, <2>1 DEF InTurn, Sends, HasPreview
<1>4. UNCHANGED <<delegation, mined, paid>> /\ previewFile' \subseteq Preview
    BY DEF tradeVars, BridgeInvariant, BridgesTyped
<1> QED
    BY <1>1, <1>2, <1>3, <1>4, CallMoves

LEMMA FirstAnswerStep ==
  ASSUME BridgeInvariant, NEW b \in Bridge, FirstAnswer(b)
  PROVE  BridgeInvariant'
<1>0. /\ bridges[b] \in BridgeState /\ HasPreview(b) /\ bridges[b].preview \in Preview
      /\ mined \in [Preview -> Nat] /\ previewFile \subseteq Preview
    BY DEF BridgeInvariant, BridgesTyped, Payments, InTurn, HasPreview, At, FirstAnswer
<1>1. UNCHANGED <<tokenVars, agentVars, tradeVars>>
    BY DEF FirstAnswer
<1>2. UNCHANGED <<delegation, mined, paid>> /\ previewFile' \subseteq Preview
    BY <1>0, <1>1 DEF tradeVars
<1>3. CASE bridges' = [bridges EXCEPT ![b] = [bridges[b] EXCEPT !.at = "delegate"]]
  <2>1. PICK s : s = [bridges[b] EXCEPT !.at = "delegate"]
      OBVIOUS
  <2>2. s \in BridgeState /\ s.at = "delegate" /\ s.preview = bridges[b].preview
      BY <1>0, <2>1 DEF BridgeState
  <2>3. bridges'[b] = s
      BY <1>3, <2>1, <2>2, BridgeMoves DEF BridgeInvariant
  <2>4. InTurn(b)'
      BY <1>0, <2>2, <2>3 DEF InTurn, Sends
  <2> QED
      BY <1>0, <1>1, <1>2, <1>3, <2>1, <2>2, <2>4, CallMoves
<1>4. CASE bridges' = [bridges EXCEPT ![b] = Ready(b)]
    BY <1>0, <1>1, <1>4, ReadyKeeps
<1>5. CASE /\ delegation # "none"
           /\ bridges' = [bridges EXCEPT ![b] = [bridges[b] EXCEPT !.at = "prerequisite", !.next = 1]]
  <2>1. PICK s : s = [bridges[b] EXCEPT !.at = "prerequisite", !.next = 1]
      OBVIOUS
  <2>2. s \in BridgeState /\ s.at = "prerequisite" /\ s.next = 1 /\ s.preview = bridges[b].preview
      BY <1>0, <2>1 DEF BridgeState
  <2>3. bridges'[b] = s
      BY <1>5, <2>1, <2>2, BridgeMoves DEF BridgeInvariant
  <2>4. mined[bridges[b].preview] \in Nat /\ Prerequisites[bridges[b].preview] \in Nat
      BY <1>0, BridgeAssumption
  <2>5. InTurn(b)'
      BY <1>0, <1>2, <1>5, <2>2, <2>3, <2>4 DEF InTurn, Sends, At
  <2> QED
      BY <1>0, <1>1, <1>2, <1>5, <2>1, <2>2, <2>5, CallMoves
<1> QED
    BY <1>3, <1>4, <1>5 DEF FirstAnswer

LEMMA EnsureDelegationStep ==
  ASSUME BridgeInvariant, NEW b \in Bridge, EnsureDelegation(b)
  PROVE  BridgeInvariant'
<1>0. bridges[b] \in BridgeState /\ HasPreview(b) /\ bridges[b].preview \in Preview
    BY DEF BridgeInvariant, BridgesTyped, Payments, InTurn, HasPreview, At, EnsureDelegation
<1>1. PICK s \in BridgeState : /\ s = [bridges[b] EXCEPT !.at = "awaitDelegation"]
                               /\ bridges' = [bridges EXCEPT ![b] = s]
    BY BridgeGoes DEF BridgeInvariant, EnsureDelegation
<1>2. s.at = "awaitDelegation" /\ s.preview = bridges[b].preview
    BY <1>0, <1>1 DEF BridgeState
<1>3. InTurn(b)'
  <2>1. bridges'[b] = s
      BY <1>1, BridgeMoves DEF BridgeInvariant
  <2> QED
      BY <1>0, <1>2, <2>1 DEF InTurn, Sends
<1>4. /\ delegation' = delegation \/ delegation' = "sent"
      /\ UNCHANGED <<tokenVars, agentVars, previewFile, mined, paid>>
    BY DEF EnsureDelegation
<1>5. /\ mined \in [Preview -> Nat] /\ paid \subseteq Preview /\ previewFile \subseteq Preview
      /\ \A p \in Preview : mined[p] \in Nat /\ mined[p] <= Prerequisites[p]
    BY DEF BridgeInvariant, BridgesTyped, Payments
<1>6. /\ mined' \in [Preview -> Nat] /\ paid' \subseteq Preview /\ paid' \ paid = {}
      /\ \A p \in Preview : mined[p] <= mined'[p] /\ mined'[p] <= Prerequisites[p]
    BY <1>4, <1>5
<1> QED
    BY <1>0, <1>1, <1>2, <1>3, <1>4, <1>5, <1>6, CallKeeps

LEMMA DelegationConfirmedStep ==
  ASSUME BridgeInvariant, NEW b \in Bridge, DelegationConfirmed(b)
  PROVE  BridgeInvariant'
<1>0. bridges[b] \in BridgeState /\ HasPreview(b) /\ bridges[b].preview \in Preview
    BY DEF BridgeInvariant, BridgesTyped, Payments, InTurn, HasPreview, At, DelegationConfirmed
<1>1. PICK s \in BridgeState : /\ s = [bridges[b] EXCEPT !.at = "validate"]
                               /\ bridges' = [bridges EXCEPT ![b] = s]
    BY BridgeGoes DEF BridgeInvariant, DelegationConfirmed
<1>2. s.at = "validate" /\ s.preview = bridges[b].preview
    BY <1>0, <1>1 DEF BridgeState
<1>3. InTurn(b)'
  <2>1. bridges'[b] = s
      BY <1>1, BridgeMoves DEF BridgeInvariant
  <2> QED
      BY <1>0, <1>2, <2>1 DEF InTurn, Sends
<1>4. /\ UNCHANGED <<tokenVars, agentVars, delegation, mined, paid>> /\ previewFile' \subseteq Preview
    BY DEF DelegationConfirmed, tradeVars, BridgeInvariant, BridgesTyped
<1> QED
    BY <1>0, <1>1, <1>2, <1>3, <1>4, CallMoves

LEMMA SendPrerequisiteStep ==
  ASSUME BridgeInvariant, NEW b \in Bridge, SendPrerequisite(b)
  PROVE  BridgeInvariant'
<1>0. bridges[b] \in BridgeState /\ HasPreview(b) /\ Sends(b) /\ InTurn(b)
    BY DEF BridgeInvariant, BridgesTyped, Payments, HasPreview, Sends, At, SendPrerequisite
<1>1. PICK s \in BridgeState : /\ s = [bridges[b] EXCEPT !.at = "awaitReceipt"]
                               /\ bridges' = [bridges EXCEPT ![b] = s]
    BY BridgeGoes DEF BridgeInvariant, SendPrerequisite
<1>2. s.at = "awaitReceipt" /\ s.preview = bridges[b].preview /\ s.next = bridges[b].next
    BY <1>0, <1>1 DEF BridgeState
<1>3. /\ UNCHANGED <<tokenVars, agentVars, delegation, mined, paid>> /\ previewFile' \subseteq Preview
    BY DEF SendPrerequisite, tradeVars, BridgeInvariant, BridgesTyped
<1>4. InTurn(b)'
  <2>1. bridges'[b] = s
      BY <1>1, BridgeMoves DEF BridgeInvariant
  <2>2. bridges[b].next <= Prerequisites[bridges[b].preview]
      BY DEF SendPrerequisite
  <2> QED
      BY <1>0, <1>2, <1>3, <2>1, <2>2 DEF InTurn, Sends, At
<1> QED
    BY <1>0, <1>1, <1>2, <1>3, <1>4, CallMoves

LEMMA WaitForReceiptStep ==
  ASSUME BridgeInvariant, NEW b \in Bridge, WaitForReceipt(b)
  PROVE  BridgeInvariant'
<1>0. bridges[b] \in BridgeState /\ HasPreview(b) /\ Sends(b) /\ InTurn(b) /\ At(b, "awaitReceipt")
    BY DEF BridgeInvariant, BridgesTyped, Payments, HasPreview, Sends, At, WaitForReceipt
<1>1. PICK p : p = bridges[b].preview
    OBVIOUS
<1>2. PICK n : n = bridges[b].next
    OBVIOUS
<1>3. /\ p \in Preview /\ n \in 1..(mined[p] + 1) /\ n <= Prerequisites[p] /\ delegation # "none"
    BY <1>0, <1>1, <1>2 DEF InTurn
<1>4. /\ mined \in [Preview -> Nat] /\ paid \subseteq Preview /\ previewFile \subseteq Preview
      /\ \A q \in Preview : mined[q] \in Nat /\ Prerequisites[q] \in Nat /\ mined[q] <= Prerequisites[q]
    BY BridgeAssumption DEF BridgeInvariant, BridgesTyped, Payments
<1>5. n \in Nat
    BY <1>3, <1>4
<1>6. PICK s : s = [bridges[b] EXCEPT !.at = "prerequisite", !.next = n + 1]
    OBVIOUS
<1>7. s \in BridgeState /\ s.at = "prerequisite" /\ s.next = n + 1 /\ s.preview = p
  <2>1. n + 1 \in Nat
      BY <1>5
  <2> QED
      BY <1>0, <1>1, <1>6, <2>1 DEF BridgeState
<1>8. /\ bridges' = [bridges EXCEPT ![b] = s]
      /\ mined' = [mined EXCEPT ![p] = IF mined[p] < n THEN n ELSE mined[p]]
      /\ UNCHANGED <<tokenVars, agentVars, previewFile, delegation, paid>>
    BY <1>1, <1>2, <1>6 DEF WaitForReceipt
<1>9. /\ mined' \in [Preview -> Nat] /\ n <= mined'[p] /\ mined'[p] \in Nat
      /\ \A q \in Preview : mined[q] <= mined'[q] /\ mined'[q] <= Prerequisites[q]
    BY <1>3, <1>4, <1>5, <1>8
<1>10. InTurn(b)'
  <2>1. bridges'[b] = s
      BY <1>7, <1>8, BridgeMoves DEF BridgeInvariant
  <2>2. n + 1 \in 1..(mined'[p] + 1) /\ n + 1 <= Prerequisites[p] + 1
      BY <1>3, <1>4, <1>5, <1>9
  <2> QED
      BY <1>3, <1>7, <1>8, <2>1, <2>2 DEF InTurn, Sends, At
<1> QED
    BY <1>0, <1>4, <1>7, <1>8, <1>9, <1>10, CallKeeps

LEMMA RetryPaymentStep ==
  ASSUME BridgeInvariant, NEW b \in Bridge, RetryPayment(b)
  PROVE  BridgeInvariant'
<1>0. bridges[b] \in BridgeState /\ HasPreview(b) /\ Sends(b) /\ InTurn(b)
    BY DEF BridgeInvariant, BridgesTyped, Payments, HasPreview, Sends, At, RetryPayment
<1>1. PICK p : p = bridges[b].preview
    OBVIOUS
<1>2. /\ p \in Preview /\ bridges[b].next \in 1..(mined[p] + 1) /\ delegation # "none"
      /\ bridges[b].next > Prerequisites[p]
    BY <1>0, <1>1 DEF InTurn, RetryPayment
<1>3. /\ mined \in [Preview -> Nat] /\ paid \subseteq Preview /\ previewFile \subseteq Preview
      /\ \A q \in Preview : mined[q] \in Nat /\ Prerequisites[q] \in Nat /\ mined[q] <= Prerequisites[q]
    BY BridgeAssumption DEF BridgeInvariant, BridgesTyped, Payments
<1>4. mined[p] = Prerequisites[p]
    BY <1>2, <1>3
<1>5. PICK s : s = Ready(b)
    OBVIOUS
<1>6. s \in BridgeState /\ s.at = "ready"
    BY <1>0, <1>5 DEF BridgeState, Ready
<1>7. /\ bridges' = [bridges EXCEPT ![b] = s] /\ paid' = paid \union {p}
      /\ UNCHANGED <<tokenVars, agentVars, previewFile, delegation, mined>>
    BY <1>1, <1>5 DEF RetryPayment
<1>8. InTurn(b)'
  <2>1. bridges'[b] = s
      BY <1>6, <1>7, BridgeMoves DEF BridgeInvariant
  <2> QED
      BY <1>6, <2>1 DEF InTurn, Sends, HasPreview
<1>9. /\ mined' \in [Preview -> Nat] /\ paid' \subseteq Preview
      /\ \A q \in Preview : mined[q] <= mined'[q] /\ mined'[q] <= Prerequisites[q]
    BY <1>2, <1>3, <1>7
<1>10. \A q \in paid' \ paid : mined[q] = Prerequisites[q] /\ delegation # "none"
    BY <1>2, <1>4, <1>7
<1> QED
    BY <1>0, <1>3, <1>6, <1>7, <1>8, <1>9, <1>10, CallKeeps

LEMMA CallFailsStep ==
  ASSUME BridgeInvariant, NEW b \in Bridge, CallFails(b)
  PROVE  BridgeInvariant'
<1> QED
    BY ReadyKeeps DEF CallFails, HasPreview, Sends

LEMMA MineDelegationStep ==
  ASSUME BridgeInvariant, MineDelegation
  PROVE  BridgeInvariant'
<1>1. /\ delegation' = "mined"
      /\ UNCHANGED <<oauthFile, liveTokens, lostTokens, issued, bindings, previewFile, mined, paid, bridges>>
    BY DEF MineDelegation, tokenVars, agentVars
<1>2. BridgesTyped'
    BY <1>1 DEF BridgeInvariant, BridgesTyped, CachedToken
<1>3. Tokens'
    BY <1>1 DEF BridgeInvariant, Tokens, CachedTokenIsLive, UnsavedIsOwn, Holds, At
<1>4. Payments'
    BY <1>1 DEF BridgeInvariant, Payments, PaidWhenPrepared, InTurn, HasPreview, Sends, At
<1> QED
    BY <1>2, <1>3, <1>4 DEF BridgeInvariant

LEMMA SessionLapsesStep ==
  ASSUME BridgeInvariant, NEW b \in Bridge, SessionLapses(b)
  PROVE  BridgeInvariant'
<1>1. /\ bridges \in [Bridge -> BridgeState]
      /\ bridges' = [bridges EXCEPT ![b] = [bridges[b] EXCEPT !.accepted = FALSE]]
      /\ UNCHANGED <<oauthFile, liveTokens, lostTokens, issued, bindings, previewFile, delegation, mined, paid>>
    BY DEF SessionLapses, tokenVars, agentVars, tradeVars, BridgeInvariant, BridgesTyped
<1>2. PICK s : s = [bridges[b] EXCEPT !.accepted = FALSE]
    OBVIOUS
<1>3. /\ s \in BridgeState /\ s.at = bridges[b].at /\ s.refresh = bridges[b].refresh
      /\ s.from = bridges[b].from /\ s.preview = bridges[b].preview /\ s.next = bridges[b].next
  <2>1. bridges[b] \in BridgeState
      BY <1>1
  <2> QED
      BY <1>2, <2>1 DEF BridgeState
<1>4. bridges' \in [Bridge -> BridgeState]
    BY <1>1, <1>2, <1>3
<1>5. \A c \in Bridge : /\ bridges'[c].at = bridges[c].at
                        /\ bridges'[c].refresh = bridges[c].refresh
                        /\ bridges'[c].from = bridges[c].from
                        /\ bridges'[c].preview = bridges[c].preview
                        /\ bridges'[c].next = bridges[c].next
    BY <1>1, <1>2, <1>3
<1>6. BridgesTyped'
    BY <1>1, <1>4 DEF BridgeInvariant, BridgesTyped, CachedToken
<1>7. Tokens'
    BY <1>1, <1>5 DEF BridgeInvariant, Tokens, CachedTokenIsLive, UnsavedIsOwn, Holds, At
<1>8. Payments'
    BY <1>1, <1>5 DEF BridgeInvariant, Payments, PaidWhenPrepared, InTurn, HasPreview, Sends, At
<1> QED
    BY <1>6, <1>7, <1>8 DEF BridgeInvariant

LEMMA BridgeStarts == BridgeInit => BridgeInvariant
<1> SUFFICES ASSUME BridgeInit PROVE BridgeInvariant
    OBVIOUS
<1>1. /\ oauthFile = Absent /\ previewFile = {} /\ liveTokens = {} /\ issued = 0
      /\ bridges = [b \in Bridge |-> Off] /\ bindings = <<>> /\ delegation = "none"
      /\ mined = [p \in Preview |-> 0] /\ paid = {}
    BY DEF BridgeInit
<1>2. BridgesTyped
    BY <1>1, OffIsABridge DEF BridgesTyped
<1>3. \A b \in Bridge : bridges[b].at = "off"
    BY <1>1 DEF Off
<1>4. Tokens
    BY <1>1, <1>3 DEF Tokens, CachedTokenIsLive, UnsavedIsOwn, Holds, At
<1>5. Payments
    BY <1>1, <1>3, BridgeAssumption DEF Payments, PaidWhenPrepared, InTurn, HasPreview, Sends
<1> QED
    BY <1>2, <1>4, <1>5 DEF BridgeInvariant

LEMMA BridgeKeeps == BridgeInvariant /\ [BridgeNext]_bridgeVars => BridgeInvariant'
<1> SUFFICES ASSUME BridgeInvariant, [BridgeNext]_bridgeVars PROVE BridgeInvariant'
    OBVIOUS
<1>1. CASE UNCHANGED bridgeVars
  <2>1. UNCHANGED <<oauthFile, liveTokens, lostTokens, issued, bindings, previewFile, delegation, mined, paid, bridges>>
      BY <1>1 DEF bridgeVars, tokenVars, agentVars, tradeVars
  <2> QED
      BY <2>1 DEF BridgeInvariant, BridgesTyped, CachedToken, Tokens, CachedTokenIsLive, UnsavedIsOwn,
                  Payments, PaidWhenPrepared, InTurn, HasPreview, Sends, Holds, At
<1>2. ASSUME NEW b \in Bridge, BridgeStep(b) PROVE BridgeInvariant'
    BY <1>2, LoadTokenStep, RefreshBridgeStep, LoginStep, CallbackStep, SaveTokenStep, SaveFailsStep,
       CreateAgentChallengeStep, BindAgentStep, SessionFailsStep, RequestTradeStep, PostTradeStep,
       SavePreviewStep, FirstAnswerStep, EnsureDelegationStep, DelegationConfirmedStep,
       SendPrerequisiteStep, WaitForReceiptStep, RetryPaymentStep, CallFailsStep,
       SessionLapsesStep, RestartStep DEF BridgeStep
<1> QED
    BY <1>1, <1>2, MineDelegationStep, TokenLapsesStep, RefreshTokenLapsesStep DEF BridgeNext

LEMMA BridgeInvariance == BridgeSpec => []BridgeInvariant
<1> QED
    BY BridgeStarts, BridgeKeeps, PTL DEF BridgeSpec

\* The refresh token in the shared file can be exchanged, or its successor is on its
\* way to the file, or was lost: for any bridges that load, exchange, lose and save
\* tokens in any order, and are killed anywhere (oauthAccessToken, tokenRequest, save).
THEOREM BridgesShareTokens == BridgeSpec => []CachedTokenIsLive
<1>1. BridgeInvariant => CachedTokenIsLive
    BY DEF BridgeInvariant, Tokens
<1> QED
    BY <1>1, BridgeInvariance, PTL

\* A payment is signed behind every transaction that its preview needs, and a
\* delegation, however many bridges post the trade, fail and post it again
\* (ensureDelegation, executePrerequisites, retryPayment).
THEOREM PaymentsArePrepared == BridgeSpec => []PaidWhenPrepared
<1>1. BridgeInvariant => PaidWhenPrepared
    BY DEF BridgeInvariant, Payments
<1> QED
    BY <1>1, BridgeInvariance, PTL
=============================================================================
