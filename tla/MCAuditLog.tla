----------------------------- MODULE MCAuditLog -----------------------------
(* Instances of AuditLog for TLC: the keys of events are interchangeable,  *)
(* and so are the handlers.                                                *)
EXTENDS AuditLog, TLC

MCAskedSizes == {-1}

Symmetry == Permutations(Events) \cup Permutations(Handlers)
=============================================================================
