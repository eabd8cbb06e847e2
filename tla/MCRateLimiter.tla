--------------------------- MODULE MCRateLimiter ----------------------------
(* Model checking of the rate limiter: two workers that share an entry, two *)
(* entries, a window of three ticks that fits twice into the run's time.    *)
EXTENDS RateLimiterHistory

=============================================================================
