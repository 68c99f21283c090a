------------------------------ MODULE Backoff -------------------------------
(***************************************************************************)
(* The waits between the attempts of one webhook delivery (delivery/       *)
(* delivery.go), with durations as signed words of Width bits and the      *)
(* effective limits of the dispatcher (delivery/dispatcher.go).            *)
(***************************************************************************)
EXTENDS Integers

CONSTANTS Width,        \* bits of a time.Duration (64 in the build)
          Configs,      \* [base, max, maxAttempts] as configured
          DefaultBase, DefaultMax, DefaultMaxAttempts

ASSUME BackoffAssumption ==
  /\ Width \in Nat /\ Width > 3
  /\ DefaultBase \in 1..(2^(Width - 1) - 1) /\ DefaultMax \in 1..(2^(Width - 1) - 1)

VARIABLES cfg, attempt, schedule, wait, outcome

backoffVars == <<cfg, attempt, schedule, wait, outcome>>

BackoffInit ==
  /\ cfg \in Configs /\ attempt = 0 /\ schedule = 0 /\ wait = 0 /\ outcome = "pending"

\* withDefaults of the dispatcher's Config.
MaxAttempts == IF cfg.maxAttempts <= 0 THEN DefaultMaxAttempts ELSE cfg.maxAttempts

\* A word read as a signed number.
Signed(w) == IF w >= 2^(Width - 1) THEN w - 2^Width ELSE w

\* base << attempt
Shifted(base, n) == Signed((base * 2^n) % 2^Width)

OrDefault(d, default) == IF d <= 0 THEN default ELSE d

\* Faulty: a shifted duration that wrapped to a negative one is taken.
nextDelayNoSign(n, base, max) ==
  IF n >= 0 /\ n < Width - 2 /\ Shifted(base, n) < max THEN Shifted(base, n) ELSE max

\* nextDelay without jitter, for a base and a maximum that are set.
nextDelay(n, base, max) ==
  IF n >= 0 /\ n < Width - 2 /\ Shifted(base, n) > 0 /\ Shifted(base, n) < max
  THEN Shifted(base, n) ELSE max

\* fullJitter
Jitter(d) == IF d <= 0 THEN {0} ELSE 0..d

\* An attempt fails: the next waits for a time of its schedule, or there is none.
Fails ==
  /\ outcome = "pending"
  /\ IF attempt + 1 >= MaxAttempts THEN outcome' = "dead" /\ UNCHANGED <<attempt, schedule, wait>>
     ELSE LET d == nextDelay(attempt, OrDefault(cfg.base, DefaultBase), OrDefault(cfg.max, DefaultMax))
          IN  /\ schedule' = d /\ wait' \in Jitter(d) /\ attempt' = attempt + 1
              /\ UNCHANGED outcome
  /\ UNCHANGED cfg

Succeeds == outcome = "pending" /\ outcome' = "delivered" /\ UNCHANGED <<cfg, attempt, schedule, wait>>

BackoffDone == outcome # "pending" /\ UNCHANGED backoffVars

BackoffNext == Fails \/ Succeeds \/ BackoffDone

BackoffSpec == BackoffInit /\ [][BackoffNext]_backoffVars

-----------------------------------------------------------------------------
(* Properties.                                                             *)

BaseDelay == OrDefault(cfg.base, DefaultBase)

MaxDelay == OrDefault(cfg.max, DefaultMax)

\* min(Base*2^n, Max), in unbounded arithmetic.
Promised(n) == IF BaseDelay * 2^n < MaxDelay THEN BaseDelay * 2^n ELSE MaxDelay

\* "Schedule is min(Base*2^attempt, Max)": however large the attempt, the
\* shift that overflows is never taken for a delay.
WaitsAreTheSchedule == attempt > 0 => schedule = Promised(attempt - 1)
=============================================================================
