---------------------------- MODULE MCUsageLedger ----------------------------
\* The usage ledger for TLC: a rate limit the client is told of, a timeout, a
\* throttled Bedrock call, and an error of the object store that looks alike.
EXTENDS UsageLedger, TLC

MCErrors == {[source |-> "provider", name |-> "ratelimiterror", says |-> {"slow down"}],
             [source |-> "bedrock_model", name |-> "throttlingexception", says |-> {"timeout"}],
             [source |-> "botocore", name |-> "clienterror", says |-> {"unauthorized"}]}
Symmetry == Permutations(Reqs)
=============================================================================
