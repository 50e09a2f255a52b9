---------------------------- MODULE JobLifecycle ----------------------------
(***************************************************************************)
(* What the job queue promises to the services that use it, without        *)
(* workers, leases, locks or clocks: a job waits, is run by one attempt at *)
(* a time out of a bounded retry budget, and ends.  An attempt that is no  *)
(* longer current has no step at all.  JobQueue implements this.           *)
(***************************************************************************)
EXTENDS Integers

CONSTANTS Jobs, Attempts, MaxAttempts, None

VARIABLES
  phase,    \* absent, waiting, active or ended
  attempt,  \* the attempt that runs an active job
  tries,    \* attempts charged to the retry budget
  domain    \* whether what the job drives is open or closed

lifecycle == <<phase, attempt, tries, domain>>

Init ==
  /\ phase = [j \in Jobs |-> "absent"]
  /\ attempt = [j \in Jobs |-> None]
  /\ tries = [j \in Jobs |-> 0]
  /\ domain = [j \in Jobs |-> "open"]

\* Job j goes to phase p, run by a, with n attempts charged.
Move(j, p, a, n) ==
  /\ phase' = [phase EXCEPT ![j] = p]
  /\ attempt' = [attempt EXCEPT ![j] = a]
  /\ tries' = [tries EXCEPT ![j] = n]

Close(j) == domain' = [domain EXCEPT ![j] = "closed"]

Submit(j) ==
  /\ phase[j] = "absent"
  /\ Move(j, "waiting", None, 0)
  /\ UNCHANGED domain

\* A waiting job is started by an attempt that runs no other job.
Start(j, a) ==
  /\ phase[j] = "waiting" /\ tries[j] < MaxAttempts
  /\ \A i \in Jobs : attempt[i] # a
  /\ Move(j, "active", a, tries[j] + 1)
  /\ UNCHANGED domain

\* The current attempt ends the job; what it drives may stay open for more.
End(j) ==
  /\ phase[j] = "active"
  /\ Move(j, "ended", None, tries[j])
  /\ Close(j) \/ UNCHANGED domain

\* The current attempt leaves the job to be run again: as normal progress
\* (the budget is renewed), uncharged, or charged while attempts remain.
Repeat(j, n) ==
  /\ phase[j] = "active"
  /\ n < MaxAttempts
  /\ n \in {0, tries[j] - 1, tries[j]}
  /\ Move(j, "waiting", None, n)
  /\ UNCHANGED domain

\* The last attempt is given up: the job and what it drives end together.
Exhaust(j) ==
  /\ phase[j] = "active" /\ tries[j] = MaxAttempts
  /\ Move(j, "ended", None, tries[j])
  /\ Close(j)

\* Somebody has more work for a job that is not being run.
Again(j) ==
  /\ phase[j] \in {"waiting", "ended"} /\ domain[j] = "open"
  /\ Move(j, "waiting", None, 0)
  /\ UNCHANGED domain

Cancel(j) ==
  /\ phase[j] # "absent" /\ domain[j] = "open"
  /\ Move(j, "ended", None, tries[j])
  /\ Close(j)

Next ==
  \E j \in Jobs :
    \/ Submit(j) \/ End(j) \/ Exhaust(j) \/ Again(j) \/ Cancel(j)
    \/ \E a \in Attempts : Start(j, a)
    \/ \E n \in 0..MaxAttempts : Repeat(j, n)

Spec == Init /\ [][Next]_lifecycle
=============================================================================
