------------------------------- MODULE MCWebUI -------------------------------
(* Instances of WebUI for TLC. *)
EXTENDS WebUI

CONSTANTS page1, page2, view1, view2
=============================================================================
