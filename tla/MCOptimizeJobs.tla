---- MODULE MCOptimizeJobs ----
(* One job, for jobs share nothing but the file; two clients.                    *)
EXTENDS OptimizeJobs, TLC

CONSTANTS tune, tab1, tab2, run1
====
