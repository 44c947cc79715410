----------------------------- MODULE Statements -----------------------------
(* How one SQL statement of a handler can end.  The database driver is not *)
(* part of the repository; this is what its callers can meet.              *)
CONSTANT Faults   \* what may go wrong: some of FaultKinds

FaultKinds == {"failed", "unread", "lost", "crash"}

\* A statement succeeds, fails without effect ("failed"), or commits and is
\* reported as failed all the same ("lost": the connection broke after it).
Outcomes == {"ok"} \cup (Faults \cap {"failed", "lost"})
Applied(outcome) == outcome # "failed"
Reported(outcome) == outcome = "ok"

\* A lookup that fails, in whatever way, has returned an error.
Lookups == {"ok"} \cup (Faults \cap {"unread"})
=============================================================================
