--------------------------- MODULE MCTaskReminders ---------------------------
(* Model checking instances of TaskReminders. *)
EXTENDS TaskReminders, TLC

PeerSymmetry ==
    Permutations(Session) \cup Permutations(Scheduler) \cup Permutations(Reminder)
=============================================================================
