----------------------------- MODULE MCJobQueue -----------------------------
EXTENDS JobQueue, TLC

CONSTANTS j1, j2

\* One ordinary job, and one whose candidates fire a gate rule half-way.
PlainAndGated == j1 :> "plain" @@ j2 :> "gated"

OneGated == j1 :> "gated"

=============================================================================
