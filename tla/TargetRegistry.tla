---------------------------- MODULE TargetRegistry ----------------------------
(***************************************************************************)
(* What the configuration file promises a reader who sees nothing else:    *)
(* it always holds a complete set of targets, and it changes by one add,   *)
(* remove, rename or setting at a time (DaemonConfig of config.rs and the  *)
(* candidates supervisor.rs builds of it).                                 *)
(***************************************************************************)
CONSTANTS
  Name,    \* target names
  Data     \* what a target's directory holds: its mpv.conf and scripts

VARIABLE targets   \* the configured targets, by name

\* A TargetConfig: its settings (disabled and channel, as one Boolean), and,
\* which is not in the file, the directory contents that belong to it.
Entry == [data : Data, setting : BOOLEAN]
Registry == UNION {[K -> Entry] : K \in SUBSET Name}

Owned(ts) == {ts[n].data : n \in DOMAIN ts}
OneOwner(ts) == \A n, m \in DOMAIN ts : ts[n].data = ts[m].data => n = m

Added(ts, n, e) == [m \in DOMAIN ts \cup {n} |-> IF m = n THEN e ELSE ts[m]]
Removed(ts, n) == [m \in DOMAIN ts \ {n} |-> ts[m]]
Renamed(ts, n, k) ==
  [m \in (DOMAIN ts \ {n}) \cup {k} |-> IF m = k THEN ts[n] ELSE ts[m]]
Changed(ts, n) == [ts EXCEPT ![n].setting = ~@]

Init == targets \in {ts \in Registry : OneOwner(ts)}

Add ==
  \E n \in Name \ DOMAIN targets, e \in Entry :
    e.data \notin Owned(targets) /\ targets' = Added(targets, n, e)
Remove == \E n \in DOMAIN targets : targets' = Removed(targets, n)
Rename ==
  \E n \in DOMAIN targets, k \in Name \ DOMAIN targets :
    targets' = Renamed(targets, n, k)
Change == \E n \in DOMAIN targets : targets' = Changed(targets, n)

Next == Add \/ Remove \/ Rename \/ Change

Spec == Init /\ [][Next]_targets
===============================================================================
