------------------------------ MODULE McpBridge ------------------------------
(***************************************************************************)
(* The bridge that runs beside an agent (apps/mcp-bridge/src/oauth.ts,     *)
(* main.ts): its access token, the binding of its agent, and the posting   *)
(* of a trade with the delegation, the prerequisite transactions and the   *)
(* payment that it may need.  Several bridges of one owner share the files *)
(* of a state directory.                                                   *)
(*                                                                         *)
(* The authorization server, the trade API and the chain appear as the     *)
(* bridge meets them (Authorization and TradeSubmission are their models). *)
(* Every await is a step; a bridge may be killed at any of them, and a     *)
(* call that failed leaves what it had done.                               *)
(***************************************************************************)
EXTENDS Integers, Sequences, FiniteSets

CONSTANTS
    Bridge,
    AgentOf,          \* [Bridge -> its agent's address]
    Preview,
    Prerequisites,    \* [Preview -> how many transactions it needs first]
    Absent,
    MaxRefreshTokens, MaxBindings \* bounds

ASSUME BridgeAssumption ==
    /\ Prerequisites \in [Preview -> 0..2]
    /\ MaxRefreshTokens \in Nat /\ MaxBindings \in Nat

VARIABLES
    oauthFile,    \* oauth.json: the refresh token, and is its access token fresh?
    previewFile,  \* previews.json
    liveTokens,   \* refresh tokens that the server will exchange
    lostTokens,   \* those that lapsed, or were exchanged for a successor that no bridge has
    issued,       \* refresh tokens issued so far
    bridges,      \* [Bridge -> where it is]
    bindings,     \* agent_binding_challenges: the agent of each, and is it used?
    boundAgent,   \* owner_agent_bindings
    delegation,   \* on the chain: "none", "sent", "mined"; the API counts it when sent
    mined,        \* [Preview -> its prerequisites that succeeded]
    paid          \* previews whose payment was sent

tokenVars == <<oauthFile, liveTokens, lostTokens, issued>>
agentVars == <<bindings, boundAgent>>
tradeVars == <<previewFile, delegation, mined, paid>>
bridgeVars == <<tokenVars, agentVars, tradeVars, bridges>>

\* accepted: does the API still accept the session's access token?
Off == [at |-> "off", refresh |-> 0, from |-> 0, challenge |-> 0, accepted |-> FALSE,
        previews |-> {}, preview |-> Absent, next |-> 0]

BridgeInit ==
    /\ oauthFile = Absent /\ previewFile = {}
    /\ liveTokens = {} /\ lostTokens = {} /\ issued = 0
    /\ bridges = [b \in Bridge |-> Off]
    /\ bindings = <<>> /\ boundAgent = Absent
    /\ delegation = "none"
    /\ mined = [p \in Preview |-> 0] /\ paid = {}

At(b, place) == bridges[b].at = place
Goes(b, place) == bridges' = [bridges EXCEPT ![b].at = place]

\* What the session held so far is not used again.
Drops(b, place) == bridges' = [bridges EXCEPT ![b] = [Off EXCEPT !.at = place]]

-----------------------------------------------------------------------------
(* ensureSession, which every tool call awaits and the first one starts.    *)

\* oauthAccessToken: the cached token will do, or can be refreshed, or there is
\* none to refresh.
LoadToken(b) ==
    /\ At(b, "off")
    /\ bridges' = [bridges EXCEPT ![b] =
         IF oauthFile = Absent THEN [Off EXCEPT !.at = "login"]
         ELSE IF oauthFile.fresh THEN [Off EXCEPT !.at = "challenge", !.accepted = TRUE]
         ELSE [Off EXCEPT !.at = "refresh", !.refresh = oauthFile.refresh]]
    /\ UNCHANGED <<tokenVars, agentVars, tradeVars>>

Issue(b, used) ==
    /\ issued < MaxRefreshTokens
    /\ issued' = issued + 1
    /\ liveTokens' = (liveTokens \ {used}) \union {issued'}

\* (mutant) the token that was exchanged is kept
KeepToken(b, used) == [bridges[b] EXCEPT !.at = "save", !.from = used]

NewToken(b, used) == [bridges[b] EXCEPT !.at = "save", !.from = used, !.refresh = issued + 1]

\* tokenRequest with the refresh token.  What fails, the loss of the answer too,
\* leads to an interactive login.
RefreshBridge(b) ==
    /\ At(b, "refresh")
    /\ LET used == bridges[b].refresh
       IN  \/ /\ used \in liveTokens /\ Issue(b, used)
              /\ bridges' = [bridges EXCEPT ![b] = NewToken(b, used)]
              /\ UNCHANGED lostTokens
           \/ /\ used \in liveTokens /\ Issue(b, used)
              /\ lostTokens' = lostTokens \union {used}
              /\ Drops(b, "login")
           \/ /\ Drops(b, "login")
              /\ UNCHANGED <<liveTokens, lostTokens, issued>>
    /\ UNCHANGED <<oauthFile, agentVars, tradeVars>>

\* The browser, the Ledger and the callback, on a port that one bridge can have;
\* a timeout or an error fails the session.
Login(b) ==
    /\ At(b, "login")
    /\ \/ /\ ~\E other \in Bridge : At(other, "callback")
          /\ Goes(b, "callback")
       \/ Goes(b, "failed")
    /\ UNCHANGED <<tokenVars, agentVars, tradeVars>>

Callback(b) ==
    /\ At(b, "callback")
    /\ \/ Goes(b, "failed") /\ UNCHANGED <<liveTokens, issued>>
       \/ Issue(b, 0) /\ bridges' = [bridges EXCEPT ![b] = NewToken(b, 0)]
    /\ UNCHANGED <<oauthFile, lostTokens, agentVars, tradeVars>>

\* save
SaveToken(b) ==
    /\ At(b, "save")
    /\ oauthFile' = [refresh |-> bridges[b].refresh, fresh |-> TRUE]
    /\ bridges' = [bridges EXCEPT ![b] = [Off EXCEPT !.at = "challenge", !.accepted = TRUE]]
    /\ UNCHANGED <<liveTokens, lostTokens, issued, agentVars, tradeVars>>

\* The file cannot be written: a token that was exchanged is lost, and what failed
\* leads to a login, or fails the session.
SaveFails(b) ==
    /\ At(b, "save")
    /\ Drops(b, IF bridges[b].from = 0 THEN "failed" ELSE "login")
    /\ lostTokens' = lostTokens \union {bridges[b].from}
    /\ UNCHANGED <<oauthFile, liveTokens, issued, agentVars, tradeVars>>

\* ensureAgentBinding: a challenge, and the agent's signature of it.
CreateAgentChallenge(b) ==
    /\ At(b, "challenge") /\ bridges[b].accepted
    /\ Len(bindings) < MaxBindings
    /\ bindings' = Append(bindings, [agent |-> AgentOf[b], used |-> FALSE])
    /\ bridges' = [bridges EXCEPT ![b].at = "bind", ![b].challenge = Len(bindings')]
    /\ UNCHANGED <<tokenVars, boundAgent, tradeVars>>

BindAgent(b) ==
    /\ At(b, "bind") /\ bridges[b].accepted
    /\ ~bindings[bridges[b].challenge].used
    /\ bindings' = [bindings EXCEPT ![bridges[b].challenge].used = TRUE]
    /\ boundAgent' = bindings[bridges[b].challenge].agent
    /\ bridges' = [bridges EXCEPT ![b].at = "ready", ![b].challenge = 0]
    /\ UNCHANGED <<tokenVars, tradeVars>>

\* Whatever throws in ensureSession is kept: every later call gets the same error.
SessionFails(b) ==
    /\ bridges[b].at \in {"challenge", "bind"}
    /\ Drops(b, "failed")
    /\ UNCHANGED <<tokenVars, agentVars, tradeVars>>

-----------------------------------------------------------------------------
(* request_trade and post_trade.                                            *)

\* A preview is made for the agent that is bound, and saved by reading and
\* rewriting the file.
RequestTrade(b, p) ==
    /\ At(b, "ready") /\ bridges[b].accepted /\ boundAgent # Absent
    /\ bridges' = [bridges EXCEPT ![b].at = "saving", ![b].preview = p, ![b].previews = previewFile]
    /\ UNCHANGED <<tokenVars, agentVars, tradeVars>>

SavePreview(b) ==
    /\ At(b, "saving")
    /\ previewFile' = bridges[b].previews \union {bridges[b].preview}
    /\ bridges' = [bridges EXCEPT ![b].at = "ready", ![b].preview = Absent, ![b].previews = {}]
    /\ UNCHANGED <<tokenVars, agentVars, delegation, mined, paid>>

PostTrade(b, p) ==
    /\ At(b, "ready") /\ p \in previewFile
    /\ bridges' = [bridges EXCEPT ![b].at = "validate", ![b].preview = p]
    /\ UNCHANGED <<tokenVars, agentVars, tradeVars>>

Ready(b) == [bridges[b] EXCEPT !.at = "ready", !.preview = Absent, !.next = 0]

\* The first answer: no delegation is known, payment is required, or the trade
\* has been paid for.
FirstAnswer(b) ==
    /\ At(b, "validate") /\ bridges[b].accepted
    /\ bridges' = [bridges EXCEPT ![b] =
         IF delegation = "none" THEN [@ EXCEPT !.at = "delegate"]
         ELSE IF bridges[b].preview \in paid THEN Ready(b)
         ELSE [@ EXCEPT !.at = "prerequisite", !.next = 1]]
    /\ UNCHANGED <<tokenVars, agentVars, tradeVars>>

\* ensureDelegation: signed on the Ledger, submitted, and awaited.
EnsureDelegation(b) ==
    /\ At(b, "delegate") /\ bridges[b].accepted
    /\ delegation' = IF delegation = "none" THEN "sent" ELSE delegation
    /\ Goes(b, "awaitDelegation")
    /\ UNCHANGED <<tokenVars, agentVars, previewFile, mined, paid>>

DelegationConfirmed(b) ==
    /\ At(b, "awaitDelegation") /\ delegation = "mined"
    /\ Goes(b, "validate")
    /\ UNCHANGED <<tokenVars, agentVars, tradeVars>>

\* executePrerequisites: one after the other.
SendPrerequisite(b) ==
    /\ At(b, "prerequisite") /\ bridges[b].next <= Prerequisites[bridges[b].preview]
    /\ Goes(b, "awaitReceipt")
    /\ UNCHANGED <<tokenVars, agentVars, tradeVars>>

\* (mutant) the next transaction follows without a receipt
ReceiptIgnored(b) ==
    /\ At(b, "awaitReceipt")
    /\ bridges' = [bridges EXCEPT ![b].at = "prerequisite", ![b].next = @ + 1]
    /\ UNCHANGED <<tokenVars, agentVars, tradeVars>>

\* waitForReceipt: a receipt of success.
WaitForReceipt(b) ==
    /\ At(b, "awaitReceipt")
    /\ mined' = [mined EXCEPT ![bridges[b].preview] = IF @ < bridges[b].next THEN bridges[b].next ELSE @]
    /\ bridges' = [bridges EXCEPT ![b].at = "prerequisite", ![b].next = @ + 1]
    /\ UNCHANGED <<tokenVars, agentVars, previewFile, delegation, paid>>

\* retryPayment: what the agent signs lets its tokens be taken.
RetryPayment(b) ==
    /\ At(b, "prerequisite") /\ bridges[b].next > Prerequisites[bridges[b].preview]
    /\ paid' = paid \union {bridges[b].preview}
    /\ bridges' = [bridges EXCEPT ![b] = Ready(b)]
    /\ UNCHANGED <<tokenVars, agentVars, previewFile, delegation, mined>>

\* An answer that is not ok, a receipt of failure or none for two minutes, or a
\* signer that refuses ends the call; the trade may be posted again.
CallFails(b) ==
    /\ bridges[b].at \in {"validate", "delegate", "awaitDelegation", "prerequisite", "awaitReceipt"}
    /\ bridges' = [bridges EXCEPT ![b] = Ready(b)]
    /\ UNCHANGED <<tokenVars, agentVars, tradeVars>>

-----------------------------------------------------------------------------
\* The chain mines the registration of the delegation.
MineDelegation ==
    /\ delegation = "sent" /\ delegation' = "mined"
    /\ UNCHANGED <<tokenVars, agentVars, previewFile, mined, paid, bridges>>

\* The cached access token grows old, and that of a session, which keeps it.
TokenLapses ==
    /\ oauthFile # Absent /\ oauthFile.fresh
    /\ oauthFile' = [oauthFile EXCEPT !.fresh = FALSE]
    /\ UNCHANGED <<liveTokens, lostTokens, issued, agentVars, tradeVars, bridges>>

\* The server takes a refresh token for eight hours.
RefreshTokenLapses ==
    /\ \E token \in liveTokens :
         liveTokens' = liveTokens \ {token} /\ lostTokens' = lostTokens \union {token}
    /\ UNCHANGED <<oauthFile, issued, agentVars, tradeVars, bridges>>

SessionLapses(b) ==
    /\ bridges[b].accepted
    /\ bridges' = [bridges EXCEPT ![b].accepted = FALSE]
    /\ UNCHANGED <<tokenVars, agentVars, tradeVars>>

\* The bridge is killed and started again.
Restart(b) ==
    /\ bridges[b] # Off
    /\ bridges' = [bridges EXCEPT ![b] = Off]
    /\ lostTokens' = IF At(b, "save") THEN lostTokens \union {bridges[b].from} ELSE lostTokens
    /\ UNCHANGED <<oauthFile, liveTokens, issued, agentVars, tradeVars>>

BridgeStep(b) ==
    \/ LoadToken(b) \/ RefreshBridge(b) \/ Login(b) \/ Callback(b) \/ SaveToken(b) \/ SaveFails(b)
    \/ CreateAgentChallenge(b) \/ BindAgent(b) \/ SessionFails(b)
    \/ \E p \in Preview : RequestTrade(b, p) \/ PostTrade(b, p)
    \/ SavePreview(b) \/ FirstAnswer(b) \/ EnsureDelegation(b) \/ DelegationConfirmed(b)
    \/ SendPrerequisite(b) \/ WaitForReceipt(b) \/ RetryPayment(b) \/ CallFails(b)
    \/ SessionLapses(b) \/ Restart(b)

BridgeNext == MineDelegation \/ TokenLapses \/ RefreshTokenLapses \/ \E b \in Bridge : BridgeStep(b)

BridgeSpec == BridgeInit /\ [][BridgeNext]_bridgeVars

-----------------------------------------------------------------------------
(* Properties.                                                              *)

\* The refresh token in the file can be exchanged, or its successor is with a
\* bridge that has yet to save it, or it lapsed, or was lost with an answer, a file
\* that could not be written or a killed bridge:
\* bridges that refresh at the same time never leave behind a used token that a
\* login would have to replace.
CachedTokenIsLive ==
    oauthFile # Absent =>
      \/ oauthFile.refresh \in liveTokens \union lostTokens
      \/ \E b \in Bridge : At(b, "save") /\ bridges[b].from = oauthFile.refresh

\* A payment is signed when every transaction that the preview asks for first has
\* succeeded, and a delegation was submitted, however often calls failed, bridges
\* were killed, and the trade was posted again.
PaidWhenPrepared ==
    \A p \in paid : mined[p] = Prerequisites[p] /\ delegation # "none"
=============================================================================
