----------------------------- MODULE RestartPolicy -----------------------------
(***************************************************************************)
(* The restart bookkeeping of supervise: RestartPolicy::on_panic and the   *)
(* capped exponential backoff.  Time passes in units of which ResetAfter   *)
(* make BACKOFF_RESET_AFTER_CLEAN; delays are in seconds.                  *)
(***************************************************************************)
EXTENDS Naturals

CONSTANTS
    None,        \* Option::None
    ResetAfter,  \* BACKOFF_RESET_AFTER_CLEAN, in units of the clock
    MaxRestarts  \* bound: panics in one behaviour

ASSUME PolicyAssumption == ResetAfter \in Nat \ {0} /\ MaxRestarts \in Nat /\ None \notin Nat

BackoffCap == 30

VARIABLES
    consecutive_restarts,
    last_restart_at,       \* time since it, None before the first panic
    delay,                 \* what the last on_panic returned, 0 before
    restarts               \* panics so far

policyVars == <<consecutive_restarts, last_restart_at, delay, restarts>>

Capped(n) == IF n < BackoffCap THEN n ELSE BackoffCap

(* Mutants, used by no specification, end in a name of their fault.       *)
(* Without the clamp the shift amount of a 64-bit value wraps.             *)
backoff_Unclamped(n) == IF n % 64 < 5 THEN 2 ^ (n % 64) ELSE BackoffCap

backoff(n) == Capped(2 ^ (IF n < 5 THEN n ELSE 5))

PolicyInit == consecutive_restarts = 0 /\ last_restart_at = None /\ delay = 0 /\ restarts = 0

on_panic ==
    /\ LET n == IF last_restart_at # None /\ last_restart_at >= ResetAfter
                THEN 0 ELSE consecutive_restarts
       IN  delay' = backoff(n) /\ consecutive_restarts' = n + 1
    /\ last_restart_at' = 0

PolicyPanic == restarts < MaxRestarts /\ restarts' = restarts + 1 /\ on_panic

(* The clock; ages beyond ResetAfter are not told apart.                   *)
Elapse ==
    /\ last_restart_at # None /\ last_restart_at < ResetAfter
    /\ last_restart_at' = last_restart_at + 1
    /\ UNCHANGED <<consecutive_restarts, delay, restarts>>

PolicyNext == PolicyPanic \/ Elapse

(* In a crash loop the delay never shrinks, over any number of restarts,   *)
(* and never passes BACKOFF_CAP: only ResetAfter without a panic brings it *)
(* back to one second.                                                     *)
CrashLoopBacksOff ==
    [][ restarts' > restarts =>
          IF last_restart_at # None /\ last_restart_at >= ResetAfter
          THEN delay' = 1
          ELSE delay' \in delay..BackoffCap /\ delay' # 0 ]_policyVars
=============================================================================
