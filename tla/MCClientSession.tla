---------------------------- MODULE MCClientSession -----------------------------
(* Two connections, so that an old one meets its successor.                *)
EXTENDS ClientSession
===============================================================================
