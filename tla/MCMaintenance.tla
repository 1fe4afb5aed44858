---------------------------- MODULE MCMaintenance ----------------------------
EXTENDS Maintenance

\* Each job has the longer interval in one of the two.
TwoPolicies == {[j \in Jobs |-> j], [j \in Jobs |-> Max(Jobs) + 3 - j]}

\* (5000 * 2^failures).min(3600000)
Doubling == [n \in 0 .. MaxDoublings |-> Min({RetryDelay * 2 ^ n, LongestDelay})]
=============================================================================
