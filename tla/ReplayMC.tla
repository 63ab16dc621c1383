----------------------------- MODULE ReplayMC ------------------------------
(* Instances of Replay for TLC.                                            *)
EXTENDS Replay

AllTrades == Trades
OddTrades == { t \in Trades : t % 2 = 1 }
LastTwo   == {MaxTrade - 1, MaxTrade}

ThreePrices == 3..5
GapPrices   == {4, 6, 7}
=============================================================================
