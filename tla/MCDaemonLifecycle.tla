------------------------- MODULE MCDaemonLifecycle -------------------------
(* Small instances of DaemonLifecycle for TLC. *)
EXTENDS DaemonLifecycle

CONSTANTS d1, d2, d3, s1, s2

Scenario(faults, daemons, shims, old, dead, calls) ==
  [faults |-> faults, daemons |-> daemons, shims |-> shims, old |-> old, dead |-> dead,
   calls |-> calls]

\* Two shims that find nothing, and nothing goes wrong.
Election == {Scenario({}, {d1, d2}, {s1, s2}, {}, {}, "any")}

\* One shim: crashes under demand, and everything at once, from an empty
\* directory, from one that a dead daemon left and from one that an old daemon
\* serves; in the first two, daemons that are stopped are explored on their own.
\* Two shims: they contend for an empty directory, or to replace an old daemon.
Lifecycles ==
  {Scenario({"crash"}, {d1, d2, d3}, {s1}, {}, dead, "always") : dead \in {{}, {d1}}}
  \cup {Scenario(AllFaults \ {"stop"}, {d1, d2}, {s1}, {}, dead, "any") : dead \in {{}, {d1}}}
  \cup {Scenario({"stop"}, {d1, d2}, {s1}, {}, dead, "any") : dead \in {{}, {d1}}}
  \cup {Scenario({"crash"}, {d1, d2, d3}, {s1}, {d1}, {}, "always"),
        Scenario(AllFaults, {d1, d2}, {s1}, {d1}, {}, "any"),
        Scenario({"die"}, {d1, d2}, {s1, s2}, {}, {}, "once"),
        Scenario({}, {d1, d2}, {s1, s2}, {d1}, {}, "once")}
=============================================================================
