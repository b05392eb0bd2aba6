----------------------------- MODULE MCCrawler -----------------------------
(* A small instance of Crawler for TLC. *)
EXTENDS Crawler

MCCities == <<"Chennai", "Pune">>
=============================================================================
