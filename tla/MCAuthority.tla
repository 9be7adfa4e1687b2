---------------------------- MODULE MCAuthority ----------------------------
(***************************************************************************)
(* Instances for the three parts that decide who may act, and how often:   *)
(* the vaults, the intent controller and the authorization server.  They   *)
(* share no state, so that each is checked while the others rest: part     *)
(* says whose behaviour it is.                                             *)
(***************************************************************************)
EXTENDS AquaOrderVault, AquaIntentController, Authorization, TLC

CONSTANTS
    Parts,
    v1, v2, alice, market, S, B, o1, o2, o3,
    keeper, stranger, matchmaker, place, amend,
    bob, aliceLedger, bobLedger

VARIABLE part

allVars == <<part, vaultVars, vars, authorizationVars>>

\* Two vaults of one owner selling the same token, with two strategies for the
\* first so that an amendment can replace an order by another one.
MCOwnerOf     == [v \in {v1, v2} |-> alice]
MCSellTokenOf == [v \in {v1, v2} |-> S]
MCMakerOf     == [o \in {o1, o2, o3} |-> IF o = o3 THEN v2 ELSE v1]
MCHoldings    == [a \in {v1, v2, alice, market} |-> [t \in {S, B} |->
                    CASE a = alice /\ t = S -> 3
                      [] a = market /\ t = B -> 2
                      [] OTHER -> 0]]

\* Two intents, which may activate in the same group or in different ones, and
\* a maker who signed two commands with one nonce.
MCSignedIntents == {[maker |-> alice, commandHash |-> c, nonce |-> 1, validBefore |-> 2] :
                       c \in {place, amend}}

\* Two owners, each the holder of a device; that of bob does not count.
MCHolderOf == [d \in Device |-> IF d = aliceLedger THEN alice ELSE bob]

Symmetry == Permutations(IntentHashes) \cup Permutations(Groups) \cup Permutations(Proofs)

AllInit == part \in Parts /\ VaultInit /\ Init /\ AuthorizationInit
AllNext ==
    /\ UNCHANGED part
    /\ \/ part = "vaults" /\ VaultNext /\ UNCHANGED <<vars, authorizationVars>>
       \/ part = "controller" /\ Next /\ UNCHANGED <<vaultVars, authorizationVars>>
       \/ part = "authorization" /\ AuthorizationNext /\ UNCHANGED <<vaultVars, vars>>
AllSpec == AllInit /\ [][AllNext]_allVars
=============================================================================
