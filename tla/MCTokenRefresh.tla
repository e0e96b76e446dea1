-------------------------- MODULE MCTokenRefresh --------------------------
(* Two callers, three refreshes; lifetimes below, at and above the margin.   *)
EXTENDS TokenRefresh
============================================================================
