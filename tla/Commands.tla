------------------------------ MODULE Commands ------------------------------
(***************************************************************************)
(* The trade commands run by hand from a shell: src/execution/trade.py at  *)
(* bitFlyer, which nets what an account holds of a product, and            *)
(* src/execution/gmo_trade.py at GMO, where a position keeps its id until  *)
(* it is settled.  Both read the venue first and then send one order after *)
(* another, so that other shells, the bot and the venue's own screens come *)
(* in between.                                                             *)
(***************************************************************************)
EXTENDS Integers, SequencesExt, FiniteSetsExt

CONSTANTS
    Shells,       \* the terminals that run commands
    Lot,          \* MIN_LOT and LEVERAGE_MIN_SIZE, in units
    HandSizes,    \* sizes traded on the venues' own screens, and by the bot
    MaxSent,      \* bound: orders of the commands
    MaxScreens    \* bound: trades that are not the commands'

ASSUME CommandsAssumption ==
    /\ Lot \in Nat \ {0} /\ HandSizes \subseteq Nat \ {0}
    /\ {MaxSent, MaxScreens} \subseteq Nat

VARIABLES
    settings,    \* .env.dev: use_live_api and allow_orders
    flyer,       \* bitFlyer: what is held, in order, all of one side
    flyerRests,  \* bitFlyer: the sides of the active limit orders
    gmo,         \* GMO: the open positions by id
    gmoRests,    \* GMO: the active orders
    shell,       \* what each terminal is doing
    sent,        \* orders the commands have sent
    screens      \* trades of others

commandVars == <<settings, flyer, flyerRests, gmo, gmoRests, shell, sent, screens>>

Sides == {"BUY", "SELL"}
Opposite(side) == IF side = "BUY" THEN "SELL" ELSE "BUY"

(* alone: nobody else has traded since the command read the positions.     *)
(* kept: what its orders left, of positions above a lot.                   *)
Idle == [doing |-> "nothing", execute |-> FALSE, todo |-> <<>>, alone |-> TRUE, kept |-> 0]

Closing(venue, execute, positions) ==
    [Idle EXCEPT !.doing = venue, !.execute = execute, !.todo = positions]

CommandsInit ==
    /\ settings \in [useLive : BOOLEAN, allowOrders : BOOLEAN]
    /\ flyer = <<>> /\ flyerRests = EmptyBag
    /\ gmo = <<>> /\ gmoRests = {}
    /\ shell = [s \in Shells |-> Idle]
    /\ sent = 0 /\ screens = 0

-----------------------------------------------------------------------------
(* account_client_from_settings, of both clients: reads need a live key.   *)
MayRead == settings.useLive

(* trading_client_from_settings.                                           *)
OrdersAllowed == settings.useLive /\ settings.allowOrders

(* _guard_orders.                                                          *)
MayTrade(size) == OrdersAllowed /\ size <= Lot

(* What is left of positions ps when an order takes size from the oldest.  *)
NetOne(acc, p) ==
    IF acc.left >= p.size THEN [acc EXCEPT !.left = @ - p.size]
    ELSE [left |-> 0, kept |-> Append(acc.kept, [p EXCEPT !.size = @ - acc.left])]

Netted(ps, size) == FoldLeft(NetOne, [left |-> size, kept |-> <<>>], ps)

(* bitFlyer executes an order: the opposite side is netted first, and what *)
(* is more than that opens the other side.                                 *)
FlyerAfter(ps, side, size) ==
    IF ps = <<>> \/ Head(ps).side = side THEN Append(ps, [side |-> side, size |-> size])
    ELSE LET net == Netted(ps, size)
         IN  IF net.left = 0 THEN net.kept ELSE <<[side |-> side, size |-> net.left]>>

(* The other terminals are no longer alone with what they read.            *)
Disturbed(s) == [t \in Shells |-> IF t = s THEN shell[t] ELSE [shell[t] EXCEPT !.alone = FALSE]]

SendsOne == sent < MaxSent /\ sent' = sent + 1

-----------------------------------------------------------------------------
(* trade buy and trade sell: one order of the lot, after the three gates.  *)
(* A limit order rests; without a price it is refused.                     *)
FlyerOrder(s, side, limit) ==
    /\ shell[s].doing = "nothing"
    /\ MayTrade(Lot) /\ SendsOne
    /\ IF limit
       THEN flyerRests' = flyerRests (+) SetToBag({side}) /\ UNCHANGED flyer
       ELSE flyer' = FlyerAfter(flyer, side, Lot) /\ UNCHANGED flyerRests
    /\ shell' = Disturbed(s)
    /\ UNCHANGED <<settings, gmo, gmoRests, screens>>

(* trade close reads the positions ...                                     *)
FlyerCloseReads(s, execute) ==
    /\ shell[s].doing = "nothing" /\ MayRead /\ flyer # <<>>
    /\ shell' = [shell EXCEPT ![s] = Closing("flyer close", execute, flyer)]
    /\ UNCHANGED <<settings, flyer, flyerRests, gmo, gmoRests, sent, screens>>

(* Mutant: the order is of the lot, also for a smaller position.           *)
MutFlyerCloseOrder(p) == [side |-> Opposite(p.side), size |-> Lot]

(* ... and sends for each of them a market order of the other side, at     *)
(* most a lot.  Without --execute it only tells; a closed gate ends it.    *)
FlyerCloseOrder(p) == [side |-> Opposite(p.side), size |-> Min({p.size, Lot})]

FlyerCloseSends(s) ==
    /\ shell[s].doing = "flyer close" /\ shell[s].todo # <<>>
    /\ LET p == Head(shell[s].todo)
           order == FlyerCloseOrder(p)
       IN  IF shell[s].execute /\ MayTrade(order.size)
           THEN /\ SendsOne
                /\ flyer' = FlyerAfter(flyer, order.side, order.size)
                /\ shell' = [Disturbed(s) EXCEPT ![s].todo = Tail(@),
                                                 ![s].kept = @ + p.size - order.size]
           ELSE /\ shell' = IF shell[s].execute THEN [shell EXCEPT ![s] = Idle]
                            ELSE [shell EXCEPT ![s].todo = Tail(@)]
                /\ UNCHANGED <<flyer, sent>>
    /\ UNCHANGED <<settings, flyerRests, gmo, gmoRests, screens>>

(* trade cancel-all.                                                       *)
FlyerCancelAll(s) ==
    /\ shell[s].doing = "nothing" /\ OrdersAllowed /\ SendsOne
    /\ flyerRests' = EmptyBag
    /\ UNCHANGED <<settings, flyer, gmo, gmoRests, shell, screens>>

-----------------------------------------------------------------------------
(* An order that opens a position of the GMO account, which is new, or     *)
(* settles the one with the id.                                            *)
GmoOpens(side)    == [kind |-> "open", side |-> side, size |-> Lot, id |-> sent + 1]
GmoSettles(id, p) == [kind |-> "settle", side |-> Opposite(p.side), size |-> p.size, id |-> id]

Reserved(id) == \E o \in gmoRests : o.kind = "settle" /\ o.id = id

(* What GMO does with an order: a settlement of a position that is gone,   *)
(* smaller or reserved by a resting order is refused.                      *)
GmoAccepts(order) ==
    order.kind = "open" \/ ( /\ order.id \in DOMAIN gmo
                             /\ gmo[order.id].size >= order.size /\ ~Reserved(order.id) )

GmoAfter(order) ==
    IF order.kind = "open"
    THEN Append(gmo, [side |-> order.side, size |-> order.size])
    ELSE [gmo EXCEPT ![order.id].size = @ - order.size]

(* gmo_trade long and gmo_trade short.                                     *)
GmoOrder(s, side, limit) ==
    /\ shell[s].doing = "nothing"
    /\ MayTrade(Lot) /\ SendsOne
    /\ IF limit
       THEN gmoRests' = gmoRests \union {GmoOpens(side)} /\ UNCHANGED gmo
       ELSE gmo' = GmoAfter(GmoOpens(side)) /\ UNCHANGED gmoRests
    /\ UNCHANGED <<settings, flyer, flyerRests, shell, screens>>

(* The open positions, in whatever order they are listed.                  *)
GmoHeld == SetToSeq({ [id |-> id, p |-> gmo[id]] : id \in { i \in DOMAIN gmo : gmo[i].size > 0 } })

(* gmo_trade close reads the positions ...                                 *)
GmoCloseReads(s, execute) ==
    /\ shell[s].doing = "nothing" /\ MayRead /\ GmoHeld # <<>>
    /\ shell' = [shell EXCEPT ![s] = Closing("gmo close", execute, GmoHeld)]
    /\ UNCHANGED <<settings, flyer, flyerRests, gmo, gmoRests, sent, screens>>

(* Mutant: closed as at bitFlyer, by an order of the other side.           *)
MutGmoCloseOrder(held) == GmoOpens(Opposite(held.p.side))

(* ... and settles each by its id, with the size it read.                  *)
GmoCloseOrder(held) == GmoSettles(held.id, held.p)

(* A closed gate, a size above the lot or a refusal ends the command, with *)
(* the positions after it left as they are.                                *)
GmoCloseSends(s) ==
    /\ shell[s].doing = "gmo close" /\ shell[s].todo # <<>>
    /\ LET order == GmoCloseOrder(Head(shell[s].todo))
       IN  IF ~shell[s].execute
           THEN /\ shell' = [shell EXCEPT ![s].todo = Tail(@)]
                /\ UNCHANGED <<gmo, sent>>
           ELSE IF MayTrade(order.size) /\ GmoAccepts(order)
           THEN /\ SendsOne
                /\ gmo' = GmoAfter(order)
                /\ shell' = [shell EXCEPT ![s].todo = Tail(@)]
           ELSE /\ shell' = [shell EXCEPT ![s] = Idle]
                /\ UNCHANGED <<gmo, sent>>
    /\ UNCHANGED <<settings, flyer, flyerRests, gmoRests, screens>>

(* gmo_trade cancel-all: every active order, the stops of the bot too.     *)
GmoCancelAll(s) ==
    /\ shell[s].doing = "nothing" /\ OrdersAllowed /\ SendsOne
    /\ gmoRests' = {}
    /\ UNCHANGED <<settings, flyer, flyerRests, gmo, shell, screens>>

(* The command ends.                                                       *)
CommandEnds(s) ==
    /\ shell[s].doing # "nothing" /\ shell[s].todo = <<>>
    /\ shell' = [shell EXCEPT ![s] = Idle]
    /\ UNCHANGED <<settings, flyer, flyerRests, gmo, gmoRests, sent, screens>>

-----------------------------------------------------------------------------
(* Trades on the venue's screen, and limit orders that execute or expire.  *)
FlyerTrades(side, size) ==
    /\ screens < MaxScreens /\ screens' = screens + 1
    /\ flyer' = FlyerAfter(flyer, side, size)
    /\ shell' = [s \in Shells |-> [shell[s] EXCEPT !.alone = FALSE]]
    /\ UNCHANGED <<settings, flyerRests, gmo, gmoRests, sent>>

FlyerLimitEnds(side) ==
    /\ BagIn(side, flyerRests)
    /\ flyerRests' = flyerRests (-) SetToBag({side})
    /\ \/ /\ flyer' = FlyerAfter(flyer, side, Lot)
          /\ shell' = [s \in Shells |-> [shell[s] EXCEPT !.alone = FALSE]]
       \/ UNCHANGED <<flyer, shell>>
    /\ UNCHANGED <<settings, gmo, gmoRests, sent, screens>>

(* The bot, or the screen of GMO: a position of any size opens, a stop is  *)
(* rested for one, or one is settled.                                      *)
GmoTrades(side, size) ==
    /\ screens < MaxScreens /\ screens' = screens + 1
    /\ \/ gmo' = Append(gmo, [side |-> side, size |-> size]) /\ UNCHANGED gmoRests
       \/ \E id \in DOMAIN gmo :
            /\ gmo[id].side = side /\ gmo[id].size = size /\ ~Reserved(id)
            /\ \/ gmoRests' = gmoRests \union {GmoSettles(id, gmo[id])} /\ UNCHANGED gmo
               \/ gmo' = GmoAfter(GmoSettles(id, gmo[id])) /\ UNCHANGED gmoRests
    /\ UNCHANGED <<settings, flyer, flyerRests, shell, sent>>

GmoRestingExecutes(order) ==
    /\ order \in gmoRests
    /\ gmoRests' = gmoRests \ {order}
    /\ gmo' = GmoAfter(order)
    /\ UNCHANGED <<settings, flyer, flyerRests, shell, sent, screens>>

FlyerNext ==
    \/ \E s \in Shells :
          \/ \E side \in Sides, limit \in BOOLEAN : FlyerOrder(s, side, limit)
          \/ \E execute \in BOOLEAN : FlyerCloseReads(s, execute)
          \/ FlyerCloseSends(s) \/ FlyerCancelAll(s) \/ CommandEnds(s)
    \/ \E side \in Sides : \/ FlyerLimitEnds(side)
                          \/ \E size \in HandSizes : FlyerTrades(side, size)

GmoNext ==
    \/ \E s \in Shells :
          \/ \E side \in Sides, limit \in BOOLEAN : GmoOrder(s, side, limit)
          \/ \E execute \in BOOLEAN : GmoCloseReads(s, execute)
          \/ GmoCloseSends(s) \/ GmoCancelAll(s) \/ CommandEnds(s)
    \/ \E side \in Sides, size \in HandSizes : GmoTrades(side, size)
    \/ \E order \in gmoRests : GmoRestingExecutes(order)

CommandsNext == FlyerNext \/ GmoNext

CommandsSpec == CommandsInit /\ [][CommandsNext]_commandVars

-----------------------------------------------------------------------------
(* The sizes of a sequence of positions.                                   *)
Units(ps) == FoldLeft(LAMBDA sum, p : sum + p.size, 0, ps)

GmoExposure(side) ==
    SumFunction([id \in { id \in DOMAIN gmo : gmo[id].side = side } |-> gmo[id].size])

(* gmo_trade close settles by id: whatever other shells, the bot and the   *)
(* screens do between its read and its orders, none of its orders ever     *)
(* opens a position or adds to one, on either side.                        *)
GmoCloseNeverOpens ==
    [][ (\E s \in Shells : shell[s].doing = "gmo close" /\ shell'[s] # shell[s])
        => \A side \in Sides : GmoExposure(side)' <= GmoExposure(side) ]_commandVars

(* trade close while nobody else trades: after each of its orders what is  *)
(* held is what it has still to close and what was above a lot, so at its  *)
(* end the account is flat but for that, and has not turned over.          *)
LoneCloseKeepsPace ==
    \A s \in Shells :
        LET c == shell[s]
        IN  c.doing = "flyer close" /\ c.execute /\ c.alone
            => /\ Units(flyer) = Units(c.todo) + c.kept
               /\ \A i \in DOMAIN c.todo, j \in DOMAIN flyer : flyer[j].side = c.todo[i].side
=============================================================================
