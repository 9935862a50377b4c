------------------------------- MODULE MCJobs -------------------------------
\* The instance of Jobs for TLC: three jobs, two of them abortable.
EXTENDS Jobs

CONSTANTS j1, j2, j3, w1, w2, none

Jobs3 == {j1, j2, j3}
TwoAbortable == {j1, j2}
TwoWorkers == {w1, w2}

=============================================================================
