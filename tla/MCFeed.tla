------------------------------- MODULE MCFeed -------------------------------
(* Two sources into one queue, as record_dual.py runs them.                *)
EXTENDS Feed

CONSTANTS alpaca, coinbase, btc

\* "both" is a ticker with a quote and a trade, and to Alpaca a control message.
MCAnswers == [body : {"trade", "both", "garbled"}, product : {btc}]
=============================================================================
