------------------------ MODULE AquaIntentController ------------------------
(***************************************************************************)
(* The intent controller (contracts/src/AquaIntentController.sol): it      *)
(* consumes the nonces of signed intents, keeps for each conditional       *)
(* intent when the operator first reported its condition true, and lets    *)
(* one intent of a group activate once the report has stood long enough.   *)
(*                                                                         *)
(* The contract keeps one record per intent.  What it has been told is     *)
(* kept here as history (reports, activations, consumed), so that the      *)
(* properties can speak of everything reported and not of that record.     *)
(***************************************************************************)
EXTENDS Integers, Sequences

CONSTANTS
    Senders,         \* accounts that send transactions
    Operator,        \* immutable operator
    Deployer,        \* immutable deployer
    NoMatcher,       \* address(0)
    IntentHashes,
    Groups,
    Proofs,          \* proof hashes the operator reports
    NoProof,         \* bytes32(0)
    SignedIntents,   \* what makers signed: maker, commandHash, nonce, validBefore
    MinimumBlocks,
    MinimumDelay,
    MaxBlock,        \* bound on block.number
    MaxTime,         \* bound on block.timestamp
    MaxReports       \* bound on the reports about one intent

Makers == {s.maker : s \in SignedIntents}
Nonces == {s.nonce : s \in SignedIntents}

ASSUME ControllerAssumption ==
    /\ Operator \in Senders /\ Deployer \in Senders /\ NoMatcher \notin Senders
    /\ MinimumBlocks \in Nat /\ MinimumDelay \in Nat
    /\ MaxBlock \in Nat /\ MaxTime \in Nat /\ MaxReports \in Nat

VARIABLES
    block,          \* block.number
    time,           \* block.timestamp
    matcher,        \* the bound matcher, or NoMatcher
    nonceUsed,      \* per maker: the nonces consumed
    observations,   \* per intent: the first report of the proof that stands
    closedGroups,
    reports,        \* history, per intent: what was reported since it last
                    \* activated or its condition was last reported false
    activations,    \* history, per intent and group: how often it activated
    consumed        \* history, per signed intent: how often it was consumed

chainVars   == <<block, time>>
historyVars == <<reports, activations, consumed>>
vars == <<chainVars, matcher, nonceUsed, observations, closedGroups, historyVars>>

NoObservation == [firstTimestamp |-> 0, firstBlock |-> 0, proofHash |-> NoProof]

Report(p)      == [proof |-> p, block |-> block, time |-> time]
Reported(i, p) == reports' = [reports EXCEPT ![i] = Append(@, Report(p))]
Forgotten(i)   == reports' = [reports EXCEPT ![i] = << >>]

InitBoundTo(account) ==
    /\ block = 1 /\ time = 1
    /\ matcher = account
    /\ nonceUsed = [maker \in Makers |-> {}]
    /\ observations = [i \in IntentHashes |-> NoObservation]
    /\ closedGroups = {}
    /\ reports = [i \in IntentHashes |-> << >>]
    /\ activations = [i \in IntentHashes |-> [g \in Groups |-> 0]]
    /\ consumed = [s \in SignedIntents |-> 0]

Init == InitBoundTo(NoMatcher)

-----------------------------------------------------------------------------

\* Anyone may bring an intent its maker signed.
Consume(s) ==
    /\ time <= s.validBefore
    /\ s.nonce \notin nonceUsed[s.maker]
    /\ nonceUsed' = [nonceUsed EXCEPT ![s.maker] = @ \cup {s.nonce}]
    /\ consumed' = [consumed EXCEPT ![s] = @ + 1]
    /\ UNCHANGED <<chainVars, matcher, observations, closedGroups, reports, activations>>

\* (mutant) a new proof keeps the block and time of the one it replaces
ObserveKeepingFirst(sender, i, p) ==
    /\ sender = Operator
    /\ observations' = [observations EXCEPT ![i] =
         IF @.proofHash = NoProof
           THEN [firstTimestamp |-> time, firstBlock |-> block, proofHash |-> p]
           ELSE [@ EXCEPT !.proofHash = p]]
    /\ Reported(i, p)
    /\ UNCHANGED <<chainVars, matcher, nonceUsed, closedGroups, activations, consumed>>

\* observe(i, p, true): the proof that already stands keeps its first report.
Observe(sender, i, p) ==
    /\ sender = Operator
    /\ observations' = [observations EXCEPT ![i] =
         IF @.proofHash = p
           THEN @
           ELSE [firstTimestamp |-> time, firstBlock |-> block, proofHash |-> p]]
    /\ Reported(i, p)
    /\ UNCHANGED <<chainVars, matcher, nonceUsed, closedGroups, activations, consumed>>

\* observe(i, p, false), whatever p is
Reset(sender, i) ==
    /\ sender = Operator
    /\ observations' = [observations EXCEPT ![i] = NoObservation]
    /\ Forgotten(i)
    /\ UNCHANGED <<chainVars, matcher, nonceUsed, closedGroups, activations, consumed>>

BindMatcher(sender, account) ==
    /\ sender = Deployer
    /\ matcher = NoMatcher
    /\ matcher' = account
    /\ UNCHANGED <<chainVars, nonceUsed, observations, closedGroups, historyVars>>

\* The condition activate checks on the stored observation.
Due(i, p) ==
    /\ observations[i].proofHash = p
    /\ block >= observations[i].firstBlock + MinimumBlocks
    /\ time >= observations[i].firstTimestamp + MinimumDelay

Activated(i, g) == activations' = [activations EXCEPT ![i][g] = @ + 1]

\* (mutant) the group stays open
ActivateReopening(sender, i, g, p) ==
    /\ sender \in {Operator, matcher}
    /\ g \notin closedGroups
    /\ Due(i, p)
    /\ observations' = [observations EXCEPT ![i] = NoObservation]
    /\ Activated(i, g) /\ Forgotten(i)
    /\ UNCHANGED <<chainVars, matcher, nonceUsed, closedGroups, consumed>>

Activate(sender, i, g, p) ==
    /\ sender \in {Operator, matcher}
    /\ g \notin closedGroups
    /\ Due(i, p)
    /\ closedGroups' = closedGroups \cup {g}
    /\ observations' = [observations EXCEPT ![i] = NoObservation]
    /\ Activated(i, g) /\ Forgotten(i)
    /\ UNCHANGED <<chainVars, matcher, nonceUsed, consumed>>

\* The next block; several transactions may share one.
NewBlock(t) ==
    /\ block < MaxBlock
    /\ t > time
    /\ block' = block + 1 /\ time' = t
    /\ UNCHANGED <<matcher, nonceUsed, observations, closedGroups, historyVars>>

Next ==
    \/ \E s \in SignedIntents : Consume(s)
    \/ \E sender \in Senders, i \in IntentHashes, p \in Proofs :
          Len(reports[i]) < MaxReports /\ Observe(sender, i, p)
    \/ \E sender \in Senders, i \in IntentHashes : Reset(sender, i)
    \/ \E sender, account \in Senders : BindMatcher(sender, account)
    \/ \E sender \in Senders, i \in IntentHashes, g \in Groups, p \in Proofs :
          Activate(sender, i, g, p)
    \/ \E t \in 1 .. MaxTime : NewBlock(t)

Spec == Init /\ [][Next]_vars

-----------------------------------------------------------------------------
(* Properties.                                                              *)

\* Every variable stays within its type, and no observation lies ahead of the
\* block it is compared with.
TypeOK ==
    /\ block \in Nat /\ time \in Nat
    /\ matcher \in Senders \cup {NoMatcher}
    /\ nonceUsed \in [Makers -> SUBSET Nonces]
    /\ observations \in [IntentHashes -> [firstTimestamp : 0 .. time, firstBlock : 0 .. block,
                                          proofHash : Proofs \cup {NoProof}]]
    /\ closedGroups \subseteq Groups
    /\ reports \in [IntentHashes -> Seq([proof : Proofs, block : Nat, time : Nat])]
    /\ activations \in [IntentHashes -> [Groups -> Nat]]
    /\ consumed \in [SignedIntents -> Nat]

\* Everything heard of the intent since some report of p, at least the minimum
\* number of blocks and the minimum delay ago, was p again: no other proof was
\* reported after it, and by what reports keeps the condition was not reported
\* false and the intent did not activate since.
Persistent(i, p) ==
    \E k \in 1 .. Len(reports[i]) :
        /\ \A j \in k .. Len(reports[i]) : reports[i][j].proof = p
        /\ reports[i][k].block + MinimumBlocks <= block
        /\ reports[i][k].time + MinimumDelay <= time

\* An intent activates only when one proof was reported for it persistently,
\* however reports, withdrawals and earlier activations were interleaved.
ActivationIsPersistent ==
    [][\A i \in IntentHashes :
         activations'[i] # activations[i] => \E p \in Proofs : Persistent(i, p)]_vars

\* Of all intents of a group one activates, once.
GroupActivatesOnce ==
    \A g \in Groups, i, other \in IntentHashes :
        /\ activations[i][g] <= 1
        /\ activations[i][g] > 0 /\ activations[other][g] > 0 => i = other

\* A maker's nonce is good for one intent, once: another command signed with
\* the same nonce cannot be consumed any more.
NonceConsumedOnce ==
    \A s, other \in SignedIntents :
        /\ consumed[s] <= 1
        /\ /\ s.maker = other.maker /\ s.nonce = other.nonce
           /\ consumed[s] > 0 /\ consumed[other] > 0
           => s = other

=============================================================================
