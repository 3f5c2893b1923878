----------------------------- MODULE MCCrawlJob -----------------------------
(* TLC instance of CrawlJob: three URLs, one seed. *)
EXTENDS CrawlJob
CONSTANTS u1, u2, u3
Urls3 == {u1, u2, u3}
OneSeed == <<u1>>
TwoSeeds == <<u1, u2>>
EngineFaults == {"engine_death", "user_browser", "degraded"}
=============================================================================
