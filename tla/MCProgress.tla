----------------------------- MODULE MCProgress -----------------------------
\* Progress with a bounded number of terms, threads and faults.
EXTENDS Progress
=============================================================================
