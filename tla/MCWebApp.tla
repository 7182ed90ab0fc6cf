------------------------------ MODULE MCWebApp ------------------------------
(* WebApp on a small instance.                                             *)
EXTENDS WebApp
=============================================================================
