---- MODULE JobLifecycle ----
(* What the status of an optimization job promises whoever polls it.  A job runs *)
(* once; afterwards the end of its process and a cancellation may still contend  *)
(* for the status.  A restart makes up nothing: it shows a status the job had, a *)
(* running one as interrupted, or has forgotten the job.                         *)

CONSTANT Jobs

VARIABLES
    status,              \* of each job
    had                  \* all statuses it ever had

Statuses == {"absent", "running", "done", "failed", "cancelled", "interrupted"}

Init ==
    /\ status = [j \in Jobs |-> "absent"]
    /\ had = [j \in Jobs |-> {"absent"}]

Becomes(j, st) ==
    /\ status' = [status EXCEPT ![j] = st]
    /\ had' = [had EXCEPT ![j] = @ \cup {st}]

Start(j) == had[j] = {"absent"} /\ Becomes(j, "running")

Finish(j) ==
    /\ status[j] \in {"running", "cancelled"}
    /\ \E st \in {"done", "failed"} : Becomes(j, st)

Cancel(j) == status[j] \in {"running", "done", "failed", "cancelled"} /\ Becomes(j, "cancelled")

Restart ==
    /\ status' \in [Jobs -> Statuses \ {"running"}]
    /\ \A j \in Jobs :
         \/ status'[j] \in had[j]
         \/ status'[j] = "interrupted" /\ "running" \in had[j]
    /\ had' = [j \in Jobs |-> had[j] \cup {status'[j]}]

Next == Restart \/ \E j \in Jobs : Start(j) \/ Finish(j) \/ Cancel(j)

Spec == Init /\ [][Next]_<<status, had>>
====
