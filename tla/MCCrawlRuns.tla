---------------------------- MODULE MCCrawlRuns ----------------------------
(* Small instances of CrawlRuns. *)
EXTENDS CrawlRuns, TLC

(* Discovery may be silent for long; a price refresh is short. *)
SlowDiscovery == {"discovering"}

(* A refresh of a large shop, one request every two seconds, runs for up to *)
(* WORKER_MAX_RUN_MINUTES = 40 without a heartbeat.                         *)
SlowRefresh == {"refreshing"}

(* Worker slots and rows are interchangeable. *)
Interchangeable == Permutations(Workers) \cup Permutations(Runs)
=============================================================================
