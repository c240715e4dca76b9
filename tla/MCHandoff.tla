------------------------------ MODULE MCHandoff ------------------------------
(***************************************************************************)
(* Sessions that share the capsule directory.  Host pi serves session p,   *)
(* and so on: with the hosts of MCHosts the first session can go through   *)
(* two handoffs in a row, or two attempts at one, while a host of another  *)
(* session writes and drops capsules of its own.                           *)
(***************************************************************************)
EXTENDS Handoff

MCHosts == {"p1", "p2", "p3", "q1"}

MCSessionOf ==
    [host \in Hosts |->
        IF host \in {"p1", "p2", "p3"} THEN "p" ELSE "q"]

MCReleases == {"r1", "r2"}
=============================================================================
