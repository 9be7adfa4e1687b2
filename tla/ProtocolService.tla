--------------------------- MODULE ProtocolService ---------------------------
(***************************************************************************)
(* What the backend prepares for wallets to sign: limit orders (their      *)
(* program, approval and shipping) and swaps against an order (quote,      *)
(* thresholds, taker traits, approval, wrapping), from                     *)
(* packages/contracts/src/service.ts, program.ts and traits.ts, and how    *)
(* the indexer reads a shipped program back (events.ts).                   *)
(*                                                                         *)
(* The wallets sign when they like, or never; Aqua and its router are      *)
(* external: an order's rate may move between a quote and its swap.  A     *)
(* program is a function from byte offsets to instructions, whose sizes    *)
(* are the real ones.                                                      *)
(***************************************************************************)
EXTENDS Integers, Sequences, Functions

CONSTANTS
    SellAmount, BuyAmount, \* units an order sells, and buys
    Requested,     \* units a swap asks for
    Rate,          \* rates [in, out] at which the router fills an order
    Slippage,      \* slippageBps of a request
    FullBps,       \* 10 000
    Lifetime,      \* lifetimeSeconds of a request
    Funds,         \* what the wallets hold and have allowed before
    ShortLife,     \* life of an IOC or FOK order that asks for none (60)
    Forever,       \* MAX_UINT40
    MaxClock,      \* bound on the time
    NoOrder, NoPlan

\* DirectSwapResult: what was quoted and allowed, and what the wallet is to do.
Amounts == [in : Nat, out : Nat]
Traits  == [exactIn : BOOLEAN, threshold : SUBSET Nat, deadline : Nat]
Plans   == [exactIn : BOOLEAN, requested : Nat, quoted : Amounts, bps : 0..FullBps,
            required : Nat, minimum : Nat, traits : Traits, approves : BOOLEAN, wraps : BOOLEAN,
            until : Nat]

ASSUME ProtocolAssumption ==
    /\ FullBps \in Nat \ {0} /\ Slippage \subseteq 0..FullBps
    /\ ShortLife \in Nat \ {0} /\ MaxClock \in Nat /\ Forever \in Nat /\ Forever > MaxClock
    /\ SellAmount \union BuyAmount \subseteq Nat \ {0}
    /\ Requested \union Lifetime \union Funds \subseteq Nat
    /\ Rate \subseteq [in : Nat \ {0}, out : Nat \ {0}]
    /\ NoPlan \notin Plans

VARIABLES
    clock,
    order,         \* the limit order that was prepared, or NoOrder
    inAqua,        \* whether Aqua holds it
    rate,          \* at which the router fills it now
    aquaAllowance, \* of the maker for Aqua
    plan,          \* the swap that was prepared, or NoPlan
    wallet,        \* the taker's wrapped tokens and allowance for the router
    filled         \* what the plan's swap did, or NoPlan

protocolVars == <<clock, order, inAqua, rate, aquaAllowance, plan, wallet, filled>>

-----------------------------------------------------------------------------
(* Programs.                                                                *)

LIMIT_OPCODES ==
    [jump |-> 10, deadline |-> 13, staticBalances |-> 17, invalidateBit |-> 18,
     invalidateTokenOut |-> 20, limitSwap |-> 21, limitSwapOnlyFull |-> 22, salt |-> 30]

\* What the router runs for an opcode: its table is shifted by one.
Routine(opcode) ==
    CASE opcode + 1 = 11 -> "jump"               [] opcode + 1 = 14 -> "deadline"
      [] opcode + 1 = 18 -> "staticBalances"     [] opcode + 1 = 19 -> "invalidateBit"
      [] opcode + 1 = 21 -> "invalidateTokenOut" [] opcode + 1 = 22 -> "limitSwap"
      [] opcode + 1 = 23 -> "limitSwapOnlyFull"  [] opcode + 1 = 31 -> "salt"
      [] OTHER -> "none"

Instruction(name, length, argument) ==
    [opcode |-> LIMIT_OPCODES[name], length |-> length, argument |-> argument]
Size(instruction) == 2 + instruction.length

\* Where the first k instructions end.
Ends(instructions) ==
    LET end[k \in 0..Len(instructions)] == IF k = 0 THEN 0 ELSE end[k - 1] + Size(instructions[k])
    IN  end
SizeOf(instructions) == Ends(instructions)[Len(instructions)]

\* concatHex: the instructions one behind the other
Layout(instructions) ==
    LET offset(k) == Ends(instructions)[k - 1]
    IN  [length |-> SizeOf(instructions),
         code   |-> [at \in {offset(k) : k \in DOMAIN instructions} |->
                       instructions[CHOOSE k \in DOMAIN instructions : offset(k) = at]]]

\* (mutant) the size of the jump itself is forgotten
SkipToShort(deadline, salt, balances) == SizeOf(<<deadline, salt, balances>>)

\* Aqua has loaded the balances already: the program jumps over the instruction,
\* which is there for the indexer to read.
SkipTo(deadline, salt, balances) == SizeOf(<<deadline, salt>>) + 4 + Size(balances)

BuildLimitProgram(sellAmount, buyAmount, expiry, fullFill) ==
    LET deadline == Instruction("deadline", 5, expiry)
        salt     == Instruction("salt", 32, "salt")
        balances == Instruction("staticBalances", 106, [in |-> buyAmount, out |-> sellAmount])
    IN  Layout(<<deadline, salt,
                 Instruction("jump", 2, SkipTo(deadline, salt, balances)),
                 balances,
                 IF fullFill THEN Instruction("invalidateBit", 4, "nonce")
                             ELSE Instruction("invalidateTokenOut", 0, ""),
                 Instruction(IF fullFill THEN "limitSwapOnlyFull" ELSE "limitSwap", 1, "direction")>>)

Truncated == [opcode |-> -1, length |-> 0, argument |-> ""]

\* The instructions met from the first byte on, each leading on to follow[at].
Walk(program, follow) ==
    LET from[at \in 0..program.length] ==
          IF at = program.length THEN <<>>
          ELSE IF at \notin DOMAIN program.code THEN <<Truncated>>
          ELSE <<program.code[at]>> \o
                 IF follow[at] \in (at + 1)..program.length THEN from[follow[at]] ELSE <<Truncated>>
    IN  from[0]

After(program) == [at \in DOMAIN program.code |-> at + Size(program.code[at])]

DecodeProgram(program) == Walk(program, After(program))

\* The router: runLoop
Execution(program) ==
    LET leads(at) == IF Routine(program.code[at].opcode) = "jump" THEN program.code[at].argument
                                                                  ELSE After(program)[at]
    IN  Walk(program, [at \in DOMAIN program.code |-> leads(at)])

AllowedProgram(program) ==
    \A i \in Range(DecodeProgram(program)) : i.opcode \in Range(LIMIT_OPCODES)

Found(instructions, names) ==
    {k \in DOMAIN instructions : \E n \in names : instructions[k].opcode = LIMIT_OPCODES[n]}

\* The first instruction with one of the opcodes: Array.find
Find(instructions, names) ==
    instructions[CHOOSE k \in Found(instructions, names) : \A l \in Found(instructions, names) : k <= l]

RecognizeLimitStrategy(program) ==
    LET is       == DecodeProgram(program)
        balances == Find(is, {"staticBalances"})
    IN  IF \/ Found(is, {"staticBalances"}) = {}
           \/ Found(is, {"invalidateBit", "invalidateTokenOut"}) = {}
           \/ Found(is, {"limitSwap", "limitSwapOnlyFull"}) = {}
           \/ is[1].opcode # LIMIT_OPCODES.deadline \/ is[2].opcode # LIMIT_OPCODES.salt
           \/ balances.length # 106
          THEN NoOrder
          ELSE [sellAmount |-> balances.argument.out, buyAmount |-> balances.argument.in]

-----------------------------------------------------------------------------
(* Limit orders.                                                            *)

\* (mutant) every order that asks for no end has none
ExpiryForever(timeInForce, lifetime) == IF lifetime # 0 THEN clock + lifetime ELSE Forever

\* A request that asks for no lifetime has lifetime 0.
Expiry(timeInForce, lifetime) ==
    IF lifetime # 0 THEN clock + lifetime
    ELSE IF timeInForce \in {"IOC", "FOK"} THEN clock + ShortLife ELSE Forever

PrepareLimit(timeInForce, lifetime, allOrNothing, sellAmount, buyAmount) ==
    LET fullFill == allOrNothing \/ timeInForce = "FOK" IN
    /\ order = NoOrder
    /\ timeInForce = "GTD" => lifetime # 0
    /\ order' = [timeInForce |-> timeInForce, lifetime |-> lifetime, preparedAt |-> clock,
                 sellAmount |-> sellAmount, buyAmount |-> buyAmount,
                 fullFill |-> fullFill,
                 program |-> BuildLimitProgram(sellAmount, buyAmount,
                                               Expiry(timeInForce, lifetime), fullFill),
                 approves |-> aquaAllowance < sellAmount]
    /\ rate' = [in |-> buyAmount, out |-> sellAmount]
    /\ UNCHANGED <<clock, inAqua, aquaAllowance, plan, wallet, filled>>

\* The maker's wallet: the approval of the plan, its shipment, its dock.
ApproveAqua ==
    /\ order # NoOrder /\ order.approves
    /\ aquaAllowance' = order.sellAmount
    /\ UNCHANGED <<clock, order, inAqua, rate, plan, wallet, filled>>

ShipLimit ==
    /\ order # NoOrder /\ ~inAqua
    /\ inAqua' = TRUE
    /\ UNCHANGED <<clock, order, rate, aquaAllowance, plan, wallet, filled>>

Dock ==
    /\ inAqua /\ inAqua' = FALSE
    /\ UNCHANGED <<clock, order, rate, aquaAllowance, plan, wallet, filled>>

-----------------------------------------------------------------------------
(* Swaps.                                                                   *)

DivUp(n, d) == (n + d - 1) \div d

\* The router: both amounts of a fill at the present rate.
AmountsFor(exactIn, requested) ==
    IF exactIn THEN [in |-> requested, out |-> (requested * rate.out) \div rate.in]
               ELSE [in |-> DivUp(requested * rate.in, rate.out), out |-> requested]

Deadline == (CHOOSE i \in Range(order.program.code) : i.opcode = LIMIT_OPCODES.deadline).argument
Fillable == inAqua /\ clock <= Deadline

Threshold(exactIn, quoted, bps) ==
    IF exactIn THEN (quoted.out * (FullBps - bps)) \div FullBps
               ELSE (quoted.in * (FullBps + bps) + FullBps - 1) \div FullBps

\* encodeTakerTraits: a threshold of zero is left out
TakerTraits(exactIn, threshold, deadline) ==
    [exactIn |-> exactIn, threshold |-> IF threshold > 0 THEN {threshold} ELSE {},
     deadline |-> deadline]

\* directQuoteContext and prepareDirect.  A quote that reverts, or one of nothing,
\* is answered with an error.
PrepareDirect(exactIn, requested, bps, lifetime, payWithNative) ==
    LET quoted    == AmountsFor(exactIn, requested)
        threshold == Threshold(exactIn, quoted, bps)
        required  == IF exactIn THEN requested ELSE threshold
    IN  /\ order # NoOrder /\ Fillable /\ AllowedProgram(order.program)
        /\ plan = NoPlan
        /\ quoted.in > 0 /\ quoted.out > 0
        /\ plan' = [exactIn |-> exactIn, requested |-> requested, quoted |-> quoted, bps |-> bps,
                    required |-> required, minimum |-> IF exactIn THEN threshold ELSE requested,
                    traits |-> TakerTraits(exactIn, threshold, clock + lifetime),
                    approves |-> wallet.allowance < required, wraps |-> payWithNative,
                    until |-> clock + lifetime]
        /\ UNCHANGED <<clock, order, inAqua, rate, aquaAllowance, wallet, filled>>

\* The taker's wallet: the deposit and the approval of the plan, once.
PrepareWallet ==
    /\ plan # NoPlan /\ (plan.wraps \/ plan.approves)
    /\ wallet' = [tokens    |-> IF plan.wraps THEN wallet.tokens + plan.required ELSE wallet.tokens,
                  allowance |-> IF plan.approves THEN plan.required ELSE wallet.allowance]
    /\ plan' = [plan EXCEPT !.wraps = FALSE, !.approves = FALSE]
    /\ UNCHANGED <<clock, order, inAqua, rate, aquaAllowance, filled>>

\* The router checks the deadlines and the threshold, and moves the tokens.
Swap ==
    /\ plan # NoPlan /\ filled = NoPlan /\ Fillable /\ clock <= plan.traits.deadline
    /\ LET got == AmountsFor(plan.traits.exactIn, plan.requested)
       IN  /\ \A t \in plan.traits.threshold :
                 IF plan.traits.exactIn THEN got.out >= t ELSE got.in <= t
           /\ got.in <= wallet.tokens /\ got.in <= wallet.allowance /\ got.out <= aquaAllowance
           /\ filled' = [in |-> got.in, out |-> got.out, at |-> clock]
           /\ wallet' = [tokens |-> wallet.tokens - got.in, allowance |-> wallet.allowance - got.in]
           /\ aquaAllowance' = aquaAllowance - got.out
    /\ UNCHANGED <<clock, order, inAqua, rate, plan>>

\* Other fills move the rate (here only once a quote was given).
RateMoves(r) ==
    /\ inAqua /\ plan # NoPlan /\ filled = NoPlan /\ rate' = r
    /\ UNCHANGED <<clock, order, inAqua, aquaAllowance, plan, wallet, filled>>

Tick ==
    /\ clock < MaxClock /\ filled = NoPlan /\ clock' = clock + 1
    /\ UNCHANGED <<order, inAqua, rate, aquaAllowance, plan, wallet, filled>>

ProtocolInit ==
    /\ clock = 1 /\ order = NoOrder /\ inAqua = FALSE
    /\ rate = [in |-> 1, out |-> 1]
    /\ plan = NoPlan /\ filled = NoPlan
    /\ aquaAllowance \in Funds
    /\ wallet = [tokens |-> aquaAllowance, allowance |-> aquaAllowance]

ProtocolNext ==
    \/ \E timeInForce \in {"GTC", "GTD", "IOC", "FOK"}, lifetime \in {0} \cup Lifetime,
          allOrNothing \in BOOLEAN, sellAmount \in SellAmount, buyAmount \in BuyAmount :
         PrepareLimit(timeInForce, lifetime, allOrNothing, sellAmount, buyAmount)
    \/ ApproveAqua \/ ShipLimit \/ Dock
    \/ \E exactIn, payWithNative \in BOOLEAN, requested \in Requested, bps \in Slippage,
          lifetime \in Lifetime :
         PrepareDirect(exactIn, requested, bps, lifetime, payWithNative)
    \/ PrepareWallet \/ Swap \/ Tick
    \/ \E r \in Rate : RateMoves(r)

ProtocolSpec == ProtocolInit /\ [][ProtocolNext]_protocolVars

-----------------------------------------------------------------------------
(* Properties.                                                              *)

\* A prepared program does for the router and for the indexer what was asked for:
\* the indexer reads the amounts of the request, and the router, which must not
\* meet the balances again, checks the deadline before it invalidates and swaps.
ProgramMeansTheOrder ==
    order # NoOrder =>
      LET run == Execution(order.program)
      IN  /\ AllowedProgram(order.program)
          /\ RecognizeLimitStrategy(order.program) =
               [sellAmount |-> order.sellAmount, buyAmount |-> order.buyAmount]
          /\ [k \in DOMAIN run |-> Routine(run[k].opcode)] =
               <<"deadline", "salt", "jump">> \o
               IF order.fullFill THEN <<"invalidateBit", "limitSwapOnlyFull">>
                                 ELSE <<"invalidateTokenOut", "limitSwap">>

\* However the rate moved and whenever the wallets signed: the taker of a swap
\* that went through gives and gets what the quote promised but for the slippage
\* he allowed, and no order of a maker is filled after the life he gave it, nor
\* one to be filled at once later than its short life.
FilledAsAsked ==
    filled # NoPlan =>
      /\ IF plan.exactIn
           THEN /\ filled.in = plan.requested
                /\ filled.out * FullBps > plan.quoted.out * (FullBps - plan.bps) - FullBps
           ELSE /\ filled.out = plan.requested
                /\ filled.in * FullBps < plan.quoted.in * (FullBps + plan.bps) + FullBps
      /\ filled.in <= plan.required /\ filled.out >= plan.minimum
      /\ filled.at <= plan.until
      /\ order.lifetime # 0 => filled.at <= order.preparedAt + order.lifetime
      /\ order.lifetime = 0 /\ order.timeInForce \in {"IOC", "FOK"} =>
           filled.at <= order.preparedAt + ShortLife
=============================================================================
