------------------------------ MODULE MCWebAuth ------------------------------
(* WebAuth for TLC: two pages of one browser, two requests in flight. *)
EXTENDS WebAuth
=============================================================================
