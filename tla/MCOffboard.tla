------------------------------ MODULE MCOffboard ------------------------------
(***************************************************************************)
(* One vehicle is onboarded, heard and offboarded and the layout set by    *)
(* one application thread, and the broker grants every request.            *)
(***************************************************************************)
EXTENDS FleetRegistry

=============================================================================
