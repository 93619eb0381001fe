------------------------ MODULE MCSnapshotSchedules ------------------------
(* Instances of SnapshotSchedules for TLC. *)
EXTENDS SnapshotSchedules

Policy(enabled, schedule, days) ==
    [enabled |-> enabled, schedule |-> schedule, timeout |-> 5, days |-> days]
Snapshot(image, schedule, timeout, policy) ==
    [image |-> image, schedule |-> schedule, keyspaces |-> "k1", timeout |-> timeout,
     policy |-> policy]
Resource(ok, snap) == [ok |-> ok, snap |-> snap]

Weekly == Policy(TRUE, "weekly", 7)
Plain == Snapshot("v1", "daily", 5, None)
Retained == Snapshot("v1", "daily", 5, Weekly)
Longer == [Retained EXCEPT !.policy.days = 30]
SwitchedOff == [Retained EXCEPT !.policy.enabled = FALSE]
NoSchedule == [Retained EXCEPT !.policy.schedule = Empty]
Moved == [Retained EXCEPT !.schedule = "hourly", !.image = Empty]
Unlimited == [Plain EXCEPT !.timeout = None]
NotCron == [Retained EXCEPT !.schedule = "tomorrow"]

(* No schedule; schedules with and without retention; changes of each      *)
(* part; definitions that the operator or the API server refuses.          *)
SomeSpecs ==
    {Resource(TRUE, s) : s \in {None, Plain, Retained, Longer, SwitchedOff, NoSchedule, Moved,
                                Unlimited, NotCron}}
      \cup {Resource(FALSE, Moved)}
=============================================================================
