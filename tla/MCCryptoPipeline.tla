-------------------------- MODULE MCCryptoPipeline --------------------------
(* Finite instance of CryptoPipeline.                                      *)
EXTENDS CryptoPipeline, TLC

SymbolSymmetry == Permutations(Symbols)
MCPnls == {-2, 1}
=============================================================================
