---------------------------- MODULE Authorization ----------------------------
(***************************************************************************)
(* Who may trade: the sign-in by wallet (packages/adapters/src/auth.ts),   *)
(* the Ledger ceremonies (ledger-webauthn.ts), the OAuth grants and the    *)
(* rotation of refresh tokens (oauth.ts), behind the routes of             *)
(* apps/api/src/server.ts.  A request is a chain of database statements:   *)
(* each is a step of its own, requests interleave, and any of them may be  *)
(* cut off between two statements.                                         *)
(***************************************************************************)
EXTENDS Integers, Sequences, FiniteSets

CONSTANTS
    Owner,          \* wallet addresses
    Device,         \* Ledger devices, each with one FIDO2 credential
    HolderOf,       \* [Device -> Owner]: who confirms on the device
    Counting,       \* the devices that count what they sign; the others report 0
    None,
    MaxChallenges, MaxTokens, MaxCalls

\* A row of webauthn_credentials.
Credential == [owner : Owner, counter : Nat]

ASSUME AuthorizationAssumption ==
    /\ HolderOf \in [Device -> Owner] /\ Counting \subseteq Device
    /\ MaxChallenges \in Nat /\ MaxTokens \in Nat
    /\ None \notin Nat \union Credential

VARIABLES
    challenges,    \* auth_challenges and webauthn_challenges, in order of creation
    requests,      \* oauth_authorization_requests: [challenge -> its state]
    codes,         \* oauth_authorization_codes
    tokens,        \* oauth_refresh_tokens
    credentials,   \* webauthn_credentials: [Device -> row]
    counters,      \* [Device -> the counter of the device itself]
    assertions,    \* what devices have signed
    signedIn,      \* owners with an access token of the method siwe
    calls,         \* requests of the API that are being handled
    accepted,      \* assertions that passed
    grants         \* hardware sessions: who, and from which challenge

walletVars == <<challenges, signedIn>>
ledgerVars == <<credentials, counters, assertions, accepted>>
oauthVars == <<requests, codes, tokens, grants>>
authorizationVars == <<walletVars, ledgerVars, oauthVars, calls>>

Ceremony == {"siwe", "registration", "authentication"}
Challenge == [owner : Owner, ceremony : Ceremony, used : BOOLEAN]
RequestState == {"none", "open", "used"}
ChallengeIds == 1..MaxChallenges
NewId == Len(challenges) + 1

AuthorizationInit ==
    /\ challenges = <<>> /\ codes = <<>> /\ tokens = <<>>
    /\ requests = [c \in ChallengeIds |-> "none"]
    /\ credentials = [d \in Device |-> None]
    /\ counters = [d \in Device |-> 0]
    /\ assertions = {} /\ signedIn = {} /\ calls = {} /\ accepted = {} /\ grants = {}

\* A request of the API goes on, or ends.
Room == Cardinality(calls) < MaxCalls
Begins(call) == Room /\ calls' = calls \union {call}
GoesOn(call, next) == calls' = (calls \ {call}) \union {next}
Ends(call) == calls' = calls \ {call}

NewChallenge(o, ceremony) ==
    /\ Len(challenges) < MaxChallenges
    /\ challenges' = Append(challenges, [owner |-> o, ceremony |-> ceremony, used |-> FALSE])

\* UPDATE ... SET used_at=now() WHERE used_at IS NULL ... RETURNING
Unused(c, ceremony) == challenges[c].ceremony = ceremony /\ ~challenges[c].used
Spend(c) == challenges' = [challenges EXCEPT ![c].used = TRUE]

(***************************************************************************)
(* Sign-in by wallet.                                                      *)
(***************************************************************************)
SiweChallenge(o) ==
    /\ NewChallenge(o, "siwe")
    /\ UNCHANGED <<signedIn, ledgerVars, oauthVars, calls>>

\* The challenge is spent whether or not the signature is that of its owner.
Session(c, valid) ==
    /\ c \in DOMAIN challenges /\ Unused(c, "siwe")
    /\ Spend(c)
    /\ signedIn' = IF valid THEN signedIn \union {challenges[c].owner} ELSE signedIn
    /\ UNCHANGED <<ledgerVars, oauthVars, calls>>

(***************************************************************************)
(* Enrollment of a device, by an owner who is signed in.                   *)
(***************************************************************************)
RegistrationOptions(o) ==
    /\ o \in signedIn
    /\ NewChallenge(o, "registration")
    /\ UNCHANGED <<signedIn, ledgerVars, oauthVars, calls>>

\* The holder of the device attests for the challenge he was given.  The
\* challenge is spent also if the attestation is refused or the request is cut
\* off; a credential is stored once.
Register(c, d, attested) ==
    /\ c \in DOMAIN challenges /\ Unused(c, "registration")
    /\ HolderOf[d] = challenges[c].owner
    /\ Spend(c)
    /\ credentials' = IF attested /\ credentials[d] = None
                        THEN [credentials EXCEPT ![d] = [owner |-> challenges[c].owner, counter |-> counters[d]]]
                        ELSE credentials
    /\ UNCHANGED <<signedIn, counters, assertions, accepted, oauthVars, calls>>

(***************************************************************************)
(* The authentication ceremony: anyone may ask for a challenge of an owner *)
(* and the holder of any enrolled device may confirm it.                   *)
(***************************************************************************)
Enrolled(o) == \E d \in Device : credentials[d] # None /\ credentials[d].owner = o

\* /v1/auth/ledger/authentication/options, and the first half of
\* /oauth/authorize/start and /authorize/ceremony.
AuthenticationOptions(o, forOAuth) ==
    /\ Enrolled(o)
    /\ NewChallenge(o, "authentication")
    /\ IF forOAuth THEN Begins([at |-> "begin", by |-> NewId]) ELSE UNCHANGED calls
    /\ UNCHANGED <<signedIn, ledgerVars, oauthVars>>

BeginAuthorization(call) ==
    /\ call.at = "begin"
    /\ requests' = [requests EXCEPT ![call.by] = "open"]
    /\ Ends(call)
    /\ UNCHANGED <<walletVars, ledgerVars, codes, tokens, grants>>

Confirm(d, c) ==
    /\ c \in DOMAIN challenges /\ challenges[c].ceremony = "authentication"
    /\ credentials[d] # None
    /\ ~\E a \in assertions : a.device = d /\ a.by = c
    /\ counters' = IF d \in Counting THEN [counters EXCEPT ![d] = @ + 1] ELSE counters
    /\ assertions' = assertions \union {[device |-> d, by |-> c, counter |-> counters'[d]]}
    /\ UNCHANGED <<walletVars, credentials, accepted, oauthVars, calls>>

\* The assertion reaches one of the routes that finish a ceremony, perhaps more
\* than once: the first spends the challenge.
Authenticate(a, route) ==
    /\ Unused(a.by, "authentication")
    /\ Spend(a.by)
    /\ Begins([at |-> "credential", assertion |-> a, route |-> route])
    /\ UNCHANGED <<signedIn, ledgerVars, oauthVars>>

\* A device that does not count is taken as it is.
Ahead(counter, stored) == counter > stored \/ (counter = 0 /\ stored = 0)

\* The row of the credential is read, and the assertion verified against it.
ReadCredential(call) ==
    /\ call.at = "credential"
    /\ LET a   == call.assertion
           row == credentials[a.device]
       IN  IF row.owner = challenges[a.by].owner /\ Ahead(a.counter, row.counter)
             THEN GoesOn(call, [at |-> "counter", assertion |-> a, route |-> call.route,
                                previous |-> row.counter])
             ELSE Ends(call)
    /\ UNCHANGED <<walletVars, ledgerVars, oauthVars>>

\* advanceCounter, a compare-and-set on the counter that was read.

\* (mutant) the stored counter is not compared again
CounterUnmovedOrNot(a, previous) == Ahead(a.counter, previous)

CounterUnmoved(a, previous) ==
    credentials[a.device].counter = previous /\ Ahead(a.counter, credentials[a.device].counter)

AdvanceCounter(call) ==
    /\ call.at = "counter"
    /\ LET a == call.assertion
       IN  IF CounterUnmoved(a, call.previous)
             THEN /\ credentials' = [credentials EXCEPT ![a.device].counter = a.counter]
                  /\ accepted' = accepted \union {a}
                  /\ GoesOn(call, [at |-> call.route, by |-> a.by, owner |-> credentials[a.device].owner])
             ELSE Ends(call) /\ UNCHANGED <<credentials, accepted>>
    /\ UNCHANGED <<walletVars, counters, assertions, oauthVars>>

\* /v1/auth/ledger/authentication/verify: a session with the hardware methods, of no
\* family of tokens.
IssueHardware(call) ==
    /\ call.at = "verify"
    /\ grants' = grants \union {[owner |-> call.owner, by |-> call.by, from |-> 0]}
    /\ Ends(call)
    /\ UNCHANGED <<walletVars, ledgerVars, requests, codes, tokens>>

(***************************************************************************)
(* OAuth: the request becomes a code, the code a family of refresh tokens, *)
(* of which each is exchanged for the next.                                *)
(***************************************************************************)
ConsumeRequest(call) ==
    /\ call.at = "complete"
    /\ IF requests[call.by] = "open" /\ challenges[call.by].owner = call.owner
         THEN /\ requests' = [requests EXCEPT ![call.by] = "used"]
              /\ GoesOn(call, [call EXCEPT !.at = "code"])
         ELSE Ends(call) /\ UNCHANGED requests
    /\ UNCHANGED <<walletVars, ledgerVars, codes, tokens, grants>>

InsertCode(call) ==
    /\ call.at = "code"
    /\ codes' = Append(codes, [owner |-> call.owner, by |-> call.by, used |-> FALSE])
    /\ Ends(call)
    /\ UNCHANGED <<walletVars, ledgerVars, requests, tokens, grants>>

\* The client shows the code with its verifier.  A resource that is not the
\* one of the code is refused when the code is spent.

\* (mutant) a code is good for more than one exchange
ConsumeCodeAgain(k) == codes' = [codes EXCEPT ![k].used = TRUE]

ConsumeCode(k) == ~codes[k].used /\ codes' = [codes EXCEPT ![k].used = TRUE]

ExchangeCode(k, resourceAccepted) ==
    /\ ConsumeCode(k)
    /\ IF resourceAccepted
         THEN Begins([at |-> "tokens", owner |-> codes[k].owner, by |-> codes[k].by,
                      family |-> None])
         ELSE UNCHANGED calls
    /\ UNCHANGED <<walletVars, ledgerVars, requests, tokens, grants>>

ConsumeToken(t) == ~tokens[t].used /\ tokens' = [tokens EXCEPT ![t].used = TRUE]

Refresh(t, resourceAccepted) ==
    /\ ConsumeToken(t)
    /\ IF resourceAccepted
         THEN Begins([at |-> "tokens", owner |-> tokens[t].owner, by |-> tokens[t].by,
                      family |-> tokens[t].family])
         ELSE UNCHANGED calls
    /\ UNCHANGED <<walletVars, ledgerVars, requests, codes, grants>>

\* The refresh token is stored before the access token is made.
IssueTokens(call) ==
    /\ call.at = "tokens" /\ Len(tokens) < MaxTokens
    /\ LET family == IF call.family = None THEN Len(tokens) + 1 ELSE call.family
       IN  /\ tokens' = Append(tokens, [owner |-> call.owner, by |-> call.by,
                                        family |-> family, used |-> FALSE])
           /\ grants' = grants \union {[owner |-> call.owner, by |-> call.by, from |-> family]}
    /\ Ends(call)
    /\ UNCHANGED <<walletVars, ledgerVars, requests, codes>>

(***************************************************************************)
(* A request is cut off between two statements: a failing database, or a   *)
(* restart of the API.                                                     *)
(***************************************************************************)
CutOff(call) ==
    /\ Ends(call)
    /\ UNCHANGED <<walletVars, ledgerVars, oauthVars>>

Handle(call) ==
    \/ BeginAuthorization(call) \/ ReadCredential(call) \/ AdvanceCounter(call) \/ IssueHardware(call)
    \/ ConsumeRequest(call) \/ InsertCode(call) \/ IssueTokens(call) \/ CutOff(call)

AuthorizationNext ==
    \/ \E o \in Owner : SiweChallenge(o) \/ RegistrationOptions(o)
    \/ \E o \in Owner, forOAuth \in BOOLEAN : AuthenticationOptions(o, forOAuth)
    \/ \E c \in ChallengeIds, valid \in BOOLEAN : Session(c, valid)
    \/ \E c \in ChallengeIds, d \in Device, attested \in BOOLEAN : Register(c, d, attested)
    \/ \E d \in Device, c \in ChallengeIds : Confirm(d, c)
    \/ \E a \in assertions, route \in {"verify", "complete"} : Authenticate(a, route)
    \/ \E k \in DOMAIN codes, ok \in BOOLEAN : ExchangeCode(k, ok)
    \/ \E t \in DOMAIN tokens, ok \in BOOLEAN : Refresh(t, ok)
    \/ \E call \in calls : Handle(call)

AuthorizationSpec == AuthorizationInit /\ [][AuthorizationNext]_authorizationVars

-----------------------------------------------------------------------------
(***************************************************************************)
(* Properties.                                                             *)
(***************************************************************************)
Token == [owner : Owner, by : ChallengeIds, family : 1..MaxTokens, used : BOOLEAN]
IssuedCode == [owner : Owner, by : ChallengeIds, used : BOOLEAN]

AuthorizationTypeOK ==
    /\ challenges \in Seq(Challenge) /\ Len(challenges) <= MaxChallenges
    /\ requests \in [ChallengeIds -> RequestState]
    /\ codes \in Seq(IssuedCode)
    /\ tokens \in Seq(Token)
    /\ credentials \in [Device -> Credential \union {None}]
    /\ counters \in [Device -> Nat]
    /\ signedIn \subseteq Owner

\* A family has one token that can be refreshed (README: refresh tokens are
\* single-use), also when two requests show the same token at once.
OneLiveToken ==
    \A i, j \in DOMAIN tokens :
       tokens[i].family = tokens[j].family /\ ~tokens[i].used /\ ~tokens[j].used => i = j

\* Behind every hardware session stands one assertion that its owner confirmed
\* on his device, and an assertion yields one session, however often it is sent,
\* its code exchanged or its tokens refreshed, and at whichever of the routes.
SessionFollowsAssertion ==
    /\ AuthorizationTypeOK
    /\ \A g \in grants : \E a \in accepted : a.by = g.by /\ HolderOf[a.device] = g.owner
    /\ \A g, h \in grants : g.by = h.by => g = h
    /\ OneLiveToken

PassesInOrder ==
    \A a \in accepted' \ accepted, b \in accepted :
        a.device = b.device /\ a.device \in Counting => a.counter > b.counter

\* Of two assertions of a device, answered at the same time or in any order, the
\* one that the device signed first never passes after the other.
NoAssertionAfterItsSuccessor == [][PassesInOrder]_authorizationVars
=============================================================================
