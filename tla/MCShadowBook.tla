---------------------------- MODULE MCShadowBook ----------------------------
(* The shadow books of one symbol over a few quotes.                       *)
EXTENDS ShadowBook
=============================================================================
