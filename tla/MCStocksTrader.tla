--------------------------- MODULE MCStocksTrader ---------------------------
(* Finite instance of StocksTrader.                                        *)
EXTENDS StocksTrader, TLC

SymbolSymmetry == Permutations(Symbols)
MCPnls == {-2, 1}
=============================================================================
