----------------------------- MODULE Preflight -----------------------------
(***************************************************************************)
(* The self-check of a deployment (execution/selfcheck.py) and the limits  *)
(* it shares with the hourly cycles (execution/risk.py): the notional cap  *)
(* of a book, the margin its full occupancy takes, and the entries a cycle *)
(* may still place.  Amounts are integers, the leverage and the headroom   *)
(* are multiplied out.                                                     *)
(***************************************************************************)
EXTENDS Integers, FiniteSets, FiniteSetsExt, Functions

CONSTANTS
    Deployed,      \* the books: records of a symbol and a slot count
    OurLots,       \* LEVERAGE_MIN_SIZE: symbol -> size
    VenueLots,     \* the tables of sizes GMO may publish, 0 for a symbol left out
    PriceTables,   \* the closes the symbols may stand at
    Deposits,      \* what the account may be worth
    NoCap,         \* MAX_BOOK_NOTIONAL_JPY is unset: a model value
    NotANumber,    \* it is no number: a model value
    NotionalCaps,  \* its values
    Leverage,      \* GMO_LEVERAGE
    Headroom,      \* <<n, d>>: _HEADROOM
    MinRatio,      \* _MIN_MARGIN_RATIO, in percent
    MaxMoves       \* bound: changes of prices, sizes, the deposit and the cap

ASSUME PreflightAssumption ==
    /\ IsFiniteSet(Deployed)
    /\ \A b \in Deployed : b.symbol \in DOMAIN OurLots /\ b.slots \in Nat \ {0}
    /\ \A s \in DOMAIN OurLots : OurLots[s] \in Nat \ {0}
    /\ \A prices \in PriceTables : prices \in [DOMAIN OurLots -> Nat \ {0}]
    /\ {Leverage, Headroom[1], Headroom[2]} \subseteq Nat \ {0} /\ MinRatio \in Nat
    /\ Headroom[2] <= Headroom[1]
    /\ Deposits \subseteq Nat /\ NotionalCaps \ {NoCap, NotANumber} \subseteq Nat

VARIABLES
    lotAt,        \* symbol -> GMO's minimum
    priceOf,      \* symbol -> the close of the newest bar
    deposit,      \* what the account is worth
    notionalCap,  \* MAX_BOOK_NOTIONAL_JPY
    occupied,     \* book -> slots it has a position in
    green,        \* ghost: a self-check has passed, and nothing but the
                  \* cycles' own entries and exits has happened since
    moves

preflightVars == <<lotAt, priceOf, deposit, notionalCap, occupied, green, moves>>

PreflightInit ==
    /\ lotAt = OurLots /\ priceOf \in PriceTables
    /\ deposit \in Deposits /\ notionalCap \in NotionalCaps
    /\ occupied = [b \in Deployed |-> 0] /\ green = FALSE /\ moves = 0

-----------------------------------------------------------------------------
(* The limits.                                                             *)

(* peak_exposure_jpy, of n slots.                                          *)
Notional(b, n) == n * OurLots[b.symbol] * priceOf[b.symbol]

AllNotional(slotsOf) == SumFunction([b \in Deployed |-> Notional(b, slotsOf[b])])

(* GMO: what is held takes its margin off what is available.  Times        *)
(* Leverage, as required_margin_jpy divides by it.                         *)
Available == deposit * Leverage - AllNotional(occupied)

WithinCap(b) ==
    /\ notionalCap # NotANumber
    /\ notionalCap # NoCap => Notional(b, b.slots) <= notionalCap

(* The margin ratio, which GMO leaves out of the answer while flat.        *)
RatioTooLow ==
    LET held == AllNotional(occupied)
    IN  held > 0 /\ deposit * Leverage * 100 < MinRatio * held

(* entry_budget: a margin that cannot be read grants nothing.              *)
EntryBudget(b, free, readable) ==
    IF free = 0 \/ ~readable \/ RatioTooLow THEN 0
    ELSE LET affordable == (Available * Headroom[2]) \div (Notional(b, 1) * Headroom[1])
         IN  Max({0, Min({free, affordable})})

-----------------------------------------------------------------------------
(* The self-check.                                                         *)

(* check_min_sizes: too small a size is a drift as well as too large a one *)
(* or a symbol that is not published.                                      *)
Drifted == {s \in DOMAIN OurLots : lotAt[s] # OurLots[s]}

(* Mutant: the headroom of the cycles is forgotten.                        *)
MutMarginSuffices ==
    Available >= AllNotional([b \in Deployed |-> b.slots])

(* What all books take at full occupancy, as entry_budget would have it.   *)
MarginSuffices ==
    Available * Headroom[2] >= AllNotional([b \in Deployed |-> b.slots]) * Headroom[1]

(* exposure_budget; without the live API there is no margin to look at.    *)
ExposureFits(useLive) ==
    (\A b \in Deployed : WithinCap(b)) /\ (useLive => MarginSuffices)

(* Keys, schema, the exchange's status, the private read and the bars may  *)
(* fail.  A log that cannot be written does not: record swallows it.       *)
Probes == {"keys", "schema", "status", "private", "bars"}

SelfCheck ==
    \E failed \in SUBSET Probes, useLive \in BOOLEAN :
       LET passed == /\ failed \subseteq (IF useLive THEN {} ELSE {"private"})
                     /\ Drifted = {} /\ ExposureFits(useLive)
       IN  /\ green' = (passed /\ useLive)
           /\ UNCHANGED <<lotAt, priceOf, deposit, notionalCap, occupied, moves>>

-----------------------------------------------------------------------------
(* The cycles, and what changes around them.                               *)

(* A cycle over book b: a breach of the cap or a spent budget stops new    *)
(* entries only.  The strategy wants some of what is granted, and GMO      *)
(* refuses a size below its minimum.                                       *)
EnterBook(b) ==
    /\ WithinCap(b)
    /\ \E readable \in BOOLEAN :
          \E n \in 1 .. EntryBudget(b, b.slots - occupied[b], readable) :
             /\ lotAt[b.symbol] \in 1 .. OurLots[b.symbol]
             /\ occupied' = [occupied EXCEPT ![b] = @ + n]
    /\ UNCHANGED <<lotAt, priceOf, deposit, notionalCap, green, moves>>

(* Exits are never held back.                                              *)
ExitBook(b) ==
    /\ occupied[b] > 0
    /\ occupied' = [occupied EXCEPT ![b] = @ - 1]
    /\ UNCHANGED <<lotAt, priceOf, deposit, notionalCap, green, moves>>

(* Prices move, and what is held with them; money is paid in or out; GMO   *)
(* changes its table; the environment file is edited.                      *)
ThingsChange ==
    /\ moves < MaxMoves /\ moves' = moves + 1
    /\ \/ priceOf' \in PriceTables /\ deposit' \in Deposits /\ UNCHANGED <<lotAt, notionalCap>>
       \/ lotAt' \in VenueLots /\ UNCHANGED <<priceOf, deposit, notionalCap>>
       \/ notionalCap' \in NotionalCaps /\ UNCHANGED <<lotAt, priceOf, deposit>>
    /\ green' = FALSE /\ UNCHANGED occupied

PreflightNext ==
    \/ SelfCheck \/ ThingsChange
    \/ \E b \in Deployed : EnterBook(b) \/ ExitBook(b)

PreflightSpec == PreflightInit /\ [][PreflightNext]_preflightVars

-----------------------------------------------------------------------------
(* After a self-check that passed, and until something else moves, every   *)
(* free slot of every book is granted however the books fill and empty, in *)
(* whatever order -- unless the margin ratio has come down to where the    *)
(* cycles stop, which the self-check does not look at.                     *)
GreenMeansRoom ==
    green => \A b \in Deployed :
        LET free == b.slots - occupied[b]
        IN  /\ WithinCap(b) /\ lotAt[b.symbol] = OurLots[b.symbol]
            /\ ~RatioTooLow => EntryBudget(b, free, TRUE) = free

=============================================================================
