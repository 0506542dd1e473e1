----------------------------- MODULE Autoscaler -----------------------------
(***************************************************************************)
(* The autoscaler's policy (services/autoscaling.py): the load signal of a *)
(* deployment and the next replica count.                                  *)
(*                                                                         *)
(* A load is a level against its target: "none" (not measured), "low"      *)
(* (below target * scale_down_ratio), "mid", or "high" (above the target). *)
(***************************************************************************)
EXTENDS Integers

Levels == {"none", "low", "mid", "high"}

\* The gateway's histogram of first-token times, reduced to where an observation
\* lies: its three bands of finite buckets, and "over" the last finite bucket.
Bands == {"low", "mid", "high", "over"}

\* hist_p95 and the comparison of its value with the target.  The total is the
\* count of the last finite bucket, so observations over it are not seen; the
\* first band that holds 95% of the total decides.
hist_p95(obs) ==
    LET total == obs["low"] + obs["mid"] + obs["high"]
        reaches(n) == 100 * n >= 95 * total
    IN  CASE total = 0 -> "none"
          [] total # 0 /\ reaches(obs["low"]) -> "low"
          [] total # 0 /\ ~reaches(obs["low"]) /\ reaches(obs["low"] + obs["mid"]) -> "mid"
          [] OTHER -> "high"

\* read_signal: queue depth is measured over the replicas that serve.
read_signal(obs, queue, serving) ==
    [ttft |-> hist_p95(obs), queue |-> IF serving = 0 THEN "none" ELSE queue,
     serving |-> serving]

\* desired_replicas: one step, inside the window, never without data.
Busy(sig) == sig.ttft = "high" \/ sig.queue = "high"
Slack(sig, min) ==
    /\ sig.ttft \in {"none", "low"} /\ sig.queue \in {"none", "low"}
    /\ sig.ttft # "none" \/ sig.queue # "none"
    /\ sig.serving >= min
desired_replicas(current, min, max, sig) ==
    CASE Busy(sig) /\ current < max -> current + 1
      [] Slack(sig, min) /\ current > min -> current - 1
      [] OTHER -> current
=============================================================================
