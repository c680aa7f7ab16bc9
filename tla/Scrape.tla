-------------------------------- MODULE Scrape --------------------------------
(***************************************************************************)
(* Prometheus reads the metrics while requests are served.  The Exposer    *)
(* (external) collects the families in the order in which Metrics has      *)
(* registered them, the counters before the histogram, and holds no thread *)
(* of the service meanwhile: what is seen of an endpoint are three values, *)
(* each of another moment.                                                 *)
(***************************************************************************)
EXTENDS RequestService

CONSTANT Observed       \* endpoints whose metrics are looked at

ASSUME ObservedAssumption == Observed \subseteq Api

VARIABLE sample         \* what the last scrape has shown so far

scrapeVars == <<serviceVars, sample>>

\* Of one endpoint.  History: `between`, the requests that were between the two
\* increments when the first value was read.
NoSample == [step |-> "none", ep |-> "login", total |-> 0, failed |-> 0, timed |-> 0, between |-> 0]

ScrapeInit == ServiceInit /\ sample = NoSample

Shows(from, s) == sample.step = from /\ sample' = s /\ UNCHANGED serviceVars

\* http_requests_total, with which the next scrape begins as well.
ReadTotal(ep) ==
    \E from \in {"none", "timed"} :
        Shows(from, [NoSample EXCEPT !.step = "total", !.ep = ep, !.total = total[ep],
                                     !.between = Cardinality(With(ep, {"outcome"}))])
\* http_requests_failed_total.
ReadFailed ==
    Shows("total", [sample EXCEPT !.step = "failed", !.failed = failed[sample.ep]])
\* http_request_duration_seconds, the count of its observations.
ReadTimed ==
    Shows("failed", [sample EXCEPT !.step = "timed", !.timed = observed[sample.ep]])

Collect == ReadFailed \/ ReadTimed \/ \E ep \in Observed : ReadTotal(ep)

ScrapeNext == Collect \/ (ServiceNext /\ UNCHANGED sample)

ScrapeSpec == ScrapeInit /\ [][ScrapeNext]_scrapeVars
FairScrapeSpec == ScrapeSpec /\ ServiceFairness

-----------------------------------------------------------------------------
\* What Prometheus sees of an endpoint never falls behind what was counted when
\* the scrape began, but for the requests that were between their two increments
\* then, and never runs ahead of what is counted by its end.  (It may run ahead of
\* the total it shows: failed and timed are read later.)
SampleFits ==
    sample.step = "timed" =>
        LET shown == sample.failed + sample.timed
        IN  /\ sample.total <= shown + sample.between
            /\ shown <= total[sample.ep]

===============================================================================
