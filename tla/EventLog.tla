------------------------------ MODULE EventLog ------------------------------
(***************************************************************************)
(* What the tables argus_findings and argus_events promise their readers   *)
(* (the dashboard's event list, the /alerts page), whatever fails on the   *)
(* way: an event starts open, with at least the finding that triggered it; *)
(* it is closed once and never reopened; a finding belongs only to events  *)
(* of its own series and, once it belongs to one, always belongs to one.   *)
(***************************************************************************)
CONSTANTS Series, Finding, None

VARIABLES owner,   \* the series of an inserted finding, None before
          status,  \* of the event a finding triggered: "none", "open" or "closed"
          event    \* the event a finding is attached to, or None

logVars == <<owner, status, event>>

Init ==
  /\ owner = [f \in Finding |-> None]
  /\ status = [e \in Finding |-> "none"]
  /\ event = [f \in Finding |-> None]

Insert(f, s) ==
  /\ owner[f] = None
  /\ owner' = [owner EXCEPT ![f] = s]
  /\ UNCHANGED <<status, event>>

Open(e, members) ==
  /\ status[e] = "none"
  /\ e \in members
  /\ \A f \in members : owner[f] = owner[e] /\ owner[f] # None
  /\ status' = [status EXCEPT ![e] = "open"]
  /\ event' = [f \in Finding |-> IF f \in members THEN e ELSE event[f]]
  /\ UNCHANGED owner

Attach(f, e) ==
  /\ status[e] # "none"
  /\ owner[f] = owner[e]
  /\ event' = [event EXCEPT ![f] = e]
  /\ UNCHANGED <<owner, status>>

Close(es) ==
  /\ \A e \in es : status[e] # "none"
  /\ status' = [e \in Finding |-> IF e \in es THEN "closed" ELSE status[e]]
  /\ UNCHANGED <<owner, event>>

Next ==
  \/ \E f \in Finding, s \in Series : Insert(f, s)
  \/ \E e \in Finding, members \in SUBSET Finding : Open(e, members)
  \/ \E f, e \in Finding : Attach(f, e)
  \/ \E es \in SUBSET Finding : Close(es)

Spec == Init /\ [][Next]_logVars
=============================================================================
