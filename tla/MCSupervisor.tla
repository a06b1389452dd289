---------------------------- MODULE MCSupervisor ----------------------------
(* Instances of Supervisor for TLC: two task ids, two generations.          *)
EXTENDS Supervisor

T(id, gen, kind) == [id |-> id, gen |-> gen, kind |-> kind]

\* Tasks come, change their generation and go.
Churn ==
  { {T("ping", 1, "interval"), T("reflector", 1, "once")},
    {T("ping", 2, "interval"), T("reflector", 1, "once")},
    {T("reflector", 2, "once")},
    {T("ping", 1, "broken"), T("reflector", 2, "zero")} }

Unset == { {T("ping", 1, "zero")} }

Steady == { {T("ping", 1, "interval"), T("reflector", 1, "once")} }
=============================================================================
