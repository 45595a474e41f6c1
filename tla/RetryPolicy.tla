----------------------------- MODULE RetryPolicy -----------------------------
(***************************************************************************)
(* What one classified send outcome does to a delivery: Policy.Decide of   *)
(* internal/sender/policy.go, with the backoff schedule, the rate-limit    *)
(* cap and the jitter.  Durations are counted in clock ticks.              *)
(***************************************************************************)
EXTENDS Integers, Sequences

CONSTANTS
  MaxAttempts,     \* TenantSettings.Retry.MaxAttempts; zero or less means one
  Backoff,         \* TenantSettings.Retry.Backoff, a sequence of durations
  RateLimitCap,    \* Policy.RateLimitCap; zero means no cap
  AuthRetryAfter,  \* Policy.AuthRetryAfter
  JitterPercent    \* Policy.Jitter, 20 for the default 0.2

ASSUME PolicyAssumption ==
  /\ MaxAttempts \in Int
  /\ Backoff \in Seq(Nat)
  /\ RateLimitCap \in Nat
  /\ AuthRetryAfter \in Nat
  /\ JitterPercent \in 0..100

\* store.ErrorClass: the five failure classes, and none for success.
Classes == {"none", "transient", "rate_limited", "permanent", "policy", "auth"}

\* The retry budget Decide works with.
MaxOf == IF MaxAttempts <= 0 THEN 1 ELSE MaxAttempts

\* The wait of an empty schedule is one minute, one tick here.
DefaultBackoff == 1

\* Policy.backoff: the entry of the n-th consumed attempt, the last one
\* reused when the schedule is shorter.
BackoffFor(n) ==
  IF Backoff = <<>> THEN DefaultBackoff
  ELSE LET i == IF n < 1 THEN 1 ELSE n
       IN Backoff[IF i > Len(Backoff) THEN Len(Backoff) ELSE i]

\* The schedule entry of a class: a rate-limited delivery waits at most the cap.
WaitFor(class, n) ==
  IF class = "rate_limited" /\ RateLimitCap > 0 /\ BackoffFor(n) > RateLimitCap
    THEN RateLimitCap
    ELSE BackoffFor(n)

\* Policy.jittered: d times a factor drawn from [1 - jitter, 1 + jitter),
\* truncated to a whole duration.
Jittered(d) ==
  IF JitterPercent = 0 \/ d = 0
    THEN {d}
    ELSE {x \in 0..(2 * d) : /\ 100 * (x + 1) > d * (100 - JitterPercent)
                             /\ 100 * x < d * (100 + JitterPercent)}

Decision(status, wait, inc) == [status |-> status, wait |-> wait, inc |-> inc]

\* Mutant: the budget compared off by one.
DecideOneMore(class, attempts) ==
  CASE class = "none" -> {Decision("sent", 0, FALSE)}
    [] class \in {"transient", "rate_limited"} ->
         IF attempts >= MaxOf
           THEN {Decision("failed", 0, TRUE)}
           ELSE {Decision("deferred", w, TRUE) :
                   w \in Jittered(WaitFor(class, attempts + 1))}
    [] class = "auth" -> {Decision("queued", AuthRetryAfter, FALSE)}
    [] OTHER -> {Decision("failed", 0, FALSE)}

\* Policy.Decide: the decisions the policy can take for a class, given the
\* attempts the delivery had when it was claimed.  Jitter is the only choice.
Decide(class, attempts) ==
  CASE class = "none" -> {Decision("sent", 0, FALSE)}
    [] class \in {"transient", "rate_limited"} ->
         IF attempts + 1 >= MaxOf
           THEN {Decision("failed", 0, TRUE)}
           ELSE {Decision("deferred", w, TRUE) :
                   w \in Jittered(WaitFor(class, attempts + 1))}
    [] class = "auth" -> {Decision("queued", AuthRetryAfter, FALSE)}
    [] OTHER -> {Decision("failed", 0, FALSE)}
=============================================================================
