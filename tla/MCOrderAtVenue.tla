-------------------------- MODULE MCOrderAtVenue --------------------------
(* Orders at the venue small enough for TLC. *)
EXTENDS OrderAtVenue

\* Every event has an id of its own; no event is offered but those on the wire.
NoEvents == {}
=============================================================================
