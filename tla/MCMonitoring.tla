----------------------------- MODULE MCMonitoring -----------------------------
(***************************************************************************)
(* A small instance of Monitoring: the health check with a scrape, and two *)
(* scrapes that overlap.                                                   *)
(***************************************************************************)
EXTENDS Monitoring

CONSTANTS s1, s2

ProbeOrScrapes == {{"docker", s1}, {s1, s2}}

=============================================================================
