------------------------------- MODULE Stamp -------------------------------
(***************************************************************************)
(* One run of a stamp sender task against one stamp reflector task: the    *)
(* sender and its executor (libs/stamp/sender.go, executor_stamp_sender),  *)
(* the reflector and its executor (libs/stamp/reflector.go,                *)
(* executor_stamp_reflector), and the UDP network between them (external). *)
(*                                                                         *)
(* The hosts' clocks: the sender's shows now, the reflector's now + skew.  *)
(* A packet carries its sequence number and timestamps; n, at and held,    *)
(* which no field of a packet holds, are its place in the run, when it was *)
(* sent and how long the reflector kept it.                                *)
(***************************************************************************)
EXTENDS StampClock

CONSTANTS PacketCount,
          Late,       \* may a reply take longer than the sender's timeout?
          Steps,      \* may the reflector's clock be set while it holds a packet?
          Starts,     \* times at which the run may start
          End,        \* bound on the time
          Skews,      \* what the reflector's clock may be ahead by
          None

ASSUME StampAssumption ==
  /\ PacketCount \in Nat \ {0}
  /\ Late \in BOOLEAN /\ Steps \in BOOLEAN
  /\ End \in Nat
  /\ Skews \subseteq Int
  /\ Starts \subseteq 0..End
  /\ \A t \in Starts, k \in Skews : t + k >= 0

VARIABLES now, skew,
          spc,        \* the sender executor: "loop", "wait", "done", "cancelled"
          seq,        \* Sender.seq
          sctx,       \* TRUE once the sender task is cancelled
          probes,     \* what the executor recorded, one entry per packet
          requests,   \* sender packets in the network
          replies,    \* reflected packets in the network
          inbox,      \* replies in the sender's socket buffer
          rpc,        \* Serve: "listen", "check", "read", "reply", "done"
          kept,       \* the packet Serve has read and not answered
          server,     \* Reflector.Server: "nil", "open", "closed"
          rctx,       \* TRUE once the reflector task is cancelled
          rex         \* the reflector executor: "select", "join", "done"

clockVars == <<now, skew>>
senderVars == <<spc, seq, sctx, probes>>
netVars == <<requests, replies, inbox>>
reflectorVars == <<rpc, kept, server, rctx, rex>>
vars == <<clockVars, senderVars, netVars, reflectorVars>>

Time == 0..End

Request ==
  [seq : 0..PacketCount, t1 : Timestamp, n : 1..PacketCount, at : Time]

Reply ==
  [seq : 0..PacketCount, t1 : Timestamp, t2 : Timestamp, t3 : Timestamp,
   n : 1..PacketCount, at : Time, held : Time]

\* Mutant of Rtt: the time the reflector kept the packet counts.
RttOfRoundTrip(t1, t2, t3, t4) == t4 - t1

Rtt(t1, t2, t3, t4) == (t4 - t1) - (t3 - t2)

\* A recorded probe: what the executor writes, and beside it the sequence
\* numbers sent and echoed, whose reply it was and what time the two packets
\* really spent in the network.
Lost ==
  [isLost |-> TRUE, rtt |-> 0, fwd |-> 0, bwd |-> 0,
   sent |-> seq, echoed |-> None, of |-> None, net |-> None]

Received(reply) ==
  LET t1 == wireNTPTimestampToTime(reply.t1)
      t2 == wireNTPTimestampToTime(reply.t2)
      t3 == wireNTPTimestampToTime(reply.t3)
      t4 == now
  IN [isLost |-> FALSE,
      rtt |-> Rtt(t1, t2, t3, t4), fwd |-> t2 - t1, bwd |-> t4 - t3,
      sent |-> seq, echoed |-> reply.seq, of |-> reply.n,
      net |-> (now - reply.at) - reply.held]

Init ==
  /\ now \in Starts /\ skew \in Skews
  /\ spc = "loop" /\ seq = 0 /\ sctx = FALSE /\ probes = <<>>
  /\ requests = {} /\ replies = {} /\ inbox = <<>>
  /\ rpc = "listen" /\ kept = {} /\ server = "nil" /\ rctx = FALSE /\ rex = "select"

-----------------------------------------------------------------------------
(* The clocks *)

Tick ==
  /\ now < End
  /\ now' = now + 1
  /\ UNCHANGED <<skew, senderVars, netVars, reflectorVars>>

\* The reflector's clock is set, not while it is between the two readings it
\* takes for a packet unless Steps says so.
SetClock ==
  /\ Steps \/ kept = {}
  /\ skew' \in Skews
  /\ UNCHANGED <<now, senderVars, netVars, reflectorVars>>

-----------------------------------------------------------------------------
(* The sender's executor *)

\* All packets are sent: the run is reported, even if the task was cancelled.
SenderReturns ==
  /\ spc = "loop" /\ Len(probes) = PacketCount
  /\ spc' = "done"
  /\ UNCHANGED <<seq, sctx, probes, clockVars, netVars, reflectorVars>>

\* The context is looked at between packets only; nothing is reported then.
SenderCancelled ==
  /\ spc = "loop" /\ Len(probes) < PacketCount /\ sctx
  /\ spc' = "cancelled"
  /\ UNCHANGED <<seq, sctx, probes, clockVars, netVars, reflectorVars>>

Transmit ==
  /\ spc = "loop" /\ ~sctx /\ Len(probes) < PacketCount
  /\ requests' = requests \cup {[seq |-> seq, t1 |-> generateNtpTimestamp(now),
                                n |-> Len(probes) + 1, at |-> now]}
  /\ spc' = "wait"
  /\ UNCHANGED <<seq, sctx, probes, replies, inbox, clockVars, reflectorVars>>

\* The socket refuses the write: the executor counts the packet as lost.
TransmitFails ==
  /\ spc = "loop" /\ ~sctx /\ Len(probes) < PacketCount
  /\ probes' = Append(probes, Lost)
  /\ UNCHANGED <<spc, seq, sctx, clockVars, netVars, reflectorVars>>

\* Whatever the socket holds first is the reply; its fields are not compared
\* with the packet's.  The sequence number moves on.
Accept ==
  /\ spc = "wait" /\ inbox # <<>>
  /\ probes' = Append(probes, Received(Head(inbox)))
  /\ inbox' = Tail(inbox)
  /\ seq' = seq + 1
  /\ spc' = "loop"
  /\ UNCHANGED <<sctx, requests, replies, clockVars, reflectorVars>>

\* Mutant of TimesOut: the read deadline ends the read only if the task has
\* been cancelled.
TimesOutCancelled ==
  /\ spc = "wait" /\ inbox = <<>> /\ sctx
  /\ Late \/ requests \cup replies \cup kept = {}
  /\ probes' = Append(probes, Lost)
  /\ spc' = "loop"
  /\ UNCHANGED <<seq, sctx, clockVars, netVars, reflectorVars>>

\* Mutant of TimesOut: the deadline is set to the present moment.
TimesOutAtOnce ==
  /\ spc = "wait" /\ inbox = <<>>
  /\ probes' = Append(probes, Lost)
  /\ spc' = "loop"
  /\ UNCHANGED <<seq, sctx, clockVars, netVars, reflectorVars>>

\* The read deadline passes; the sequence number stays.
TimesOut ==
  /\ spc = "wait" /\ inbox = <<>>
  /\ Late \/ requests \cup replies \cup kept = {}
  /\ probes' = Append(probes, Lost)
  /\ spc' = "loop"
  /\ UNCHANGED <<seq, sctx, clockVars, netVars, reflectorVars>>

CancelSender ==
  /\ ~sctx
  /\ sctx' = TRUE
  /\ UNCHANGED <<spc, seq, probes, clockVars, netVars, reflectorVars>>

-----------------------------------------------------------------------------
(* The network loses, delays and reorders packets *)

Lose ==
  /\ \/ \E p \in requests : requests' = requests \ {p} /\ UNCHANGED replies
     \/ \E p \in replies : replies' = replies \ {p} /\ UNCHANGED requests
  /\ UNCHANGED <<inbox, clockVars, senderVars, reflectorVars>>

Arrive ==
  /\ \E p \in replies :
       /\ replies' = replies \ {p}
       /\ inbox' = IF spc \in {"loop", "wait"} THEN Append(inbox, p) ELSE inbox
  /\ UNCHANGED <<requests, clockVars, senderVars, reflectorVars>>

-----------------------------------------------------------------------------
(* The reflector *)

\* Listening fails when the address is taken, and may when the task is cancelled.
Listen ==
  /\ rpc = "listen"
  /\ \/ server' = "open" /\ rpc' = "check"
     \/ server' = server /\ rpc' = "done"
  /\ UNCHANGED <<kept, rctx, rex, clockVars, senderVars, netVars>>

\* Mutant of CheckContext: the loop reads without looking at the context.
CheckContextNot ==
  /\ rpc = "check"
  /\ rpc' = "read"
  /\ UNCHANGED <<kept, server, rctx, rex, clockVars, senderVars, netVars>>

\* Serve closes its socket when it returns.
CheckContext ==
  /\ rpc = "check"
  /\ rpc' = IF rctx THEN "done" ELSE "read"
  /\ server' = IF rctx THEN "closed" ELSE server
  /\ UNCHANGED <<kept, rctx, rex, clockVars, senderVars, netVars>>

\* A packet is read and the time of it noted.
ReadPacket ==
  /\ rpc = "read" /\ server = "open"
  /\ \E p \in requests :
       /\ requests' = requests \ {p}
       /\ kept' = {[seq |-> p.seq, t1 |-> p.t1, t2 |-> generateNtpTimestamp(now + skew),
                    n |-> p.n, at |-> p.at, read |-> now]}
  /\ rpc' = "reply"
  /\ UNCHANGED <<replies, inbox, server, rctx, rex, clockVars, senderVars>>

\* Mutant of Answer: the reply echoes the reflector's own count.
AnswerOwnSeq(k) ==
  [seq |-> 0, t1 |-> k.t1, t2 |-> k.t2, t3 |-> generateNtpTimestamp(now + skew),
   n |-> k.n, at |-> k.at, held |-> now - k.read]

\* The reply to the packet kept: the sender's fields and the reflector's times.
Answer(k) ==
  [seq |-> k.seq, t1 |-> k.t1, t2 |-> k.t2, t3 |-> generateNtpTimestamp(now + skew),
   n |-> k.n, at |-> k.at, held |-> now - k.read]

\* The write fails if the socket was closed meanwhile; the loop goes on.
Reflect ==
  /\ rpc = "reply"
  /\ \E k \in kept :
       replies' = IF server = "open" THEN replies \cup {Answer(k)} ELSE replies
  /\ kept' = {}
  /\ rpc' = "check"
  /\ UNCHANGED <<requests, inbox, server, rctx, rex, clockVars, senderVars>>

\* The socket was closed under the read.
ReadFails ==
  /\ rpc = "read" /\ server = "closed"
  /\ rpc' = "done"
  /\ UNCHANGED <<kept, server, rctx, rex, clockVars, senderVars, netVars>>

CancelReflector ==
  /\ ~rctx
  /\ rctx' = TRUE
  /\ UNCHANGED <<rpc, kept, server, rex, clockVars, senderVars, netVars>>

\* Execute sees the cancelled context and closes the socket, if there is one.
CloseReflector ==
  /\ rex = "select" /\ rctx
  /\ server' = IF server = "nil" THEN "nil" ELSE "closed"
  /\ rex' = "join"
  /\ UNCHANGED <<rpc, kept, rctx, clockVars, senderVars, netVars>>

\* Execute receives what Serve returned.
ReflectorReturns ==
  /\ rex \in {"select", "join"} /\ rpc = "done"
  /\ rex' = "done"
  /\ UNCHANGED <<rpc, kept, server, rctx, clockVars, senderVars, netVars>>

Sender == SenderReturns \/ SenderCancelled \/ Transmit \/ TransmitFails \/ Accept \/ TimesOut
Serve == Listen \/ CheckContext \/ ReadPacket \/ Reflect \/ ReadFails
ReflectorExecutor == CloseReflector \/ ReflectorReturns

Next ==
  \/ Tick \/ SetClock
  \/ Sender \/ CancelSender
  \/ Lose \/ Arrive
  \/ Serve \/ ReflectorExecutor \/ CancelReflector

Spec == Init /\ [][Next]_vars

\* Goroutines are scheduled, and a packet does not stay in the network for ever.
Fairness ==
  /\ WF_vars(Sender)
  /\ WF_vars(Lose \/ Arrive)
  /\ WF_vars(Listen \/ CheckContext \/ Reflect \/ ReadFails)
  /\ WF_vars(ReflectorExecutor)

FairSpec == Spec /\ Fairness

-----------------------------------------------------------------------------
(* Properties *)

TypeOK ==
  /\ now \in Time /\ skew \in Skews
  /\ spc \in {"loop", "wait", "done", "cancelled"}
  /\ seq \in 0..PacketCount
  /\ sctx \in BOOLEAN /\ rctx \in BOOLEAN
  /\ Len(probes) <= PacketCount
  /\ requests \subseteq Request /\ replies \subseteq Reply
  /\ inbox \in Seq(Reply)
  /\ rpc \in {"listen", "check", "read", "reply", "done"}
  /\ kept # {} <=> rpc = "reply"
  /\ server \in {"nil", "open", "closed"}
  /\ rex \in {"select", "join", "done"}

\* A reply the sender accepts carries the sequence number of the packet it was
\* waiting on ("matches reflected replies against outstanding sequence
\* numbers").  Send compares nothing: the match rests on every reply that is
\* not lost coming within the timeout.
RepliesMatch ==
  \A i \in DOMAIN probes :
    ~probes[i].isLost => probes[i].echoed = probes[i].sent

\* The delays are computed from the timestamps of the packet they are recorded
\* for, even though the packets after a lost one reuse its sequence number.
DelaysAreItsOwn ==
  \A i \in DOMAIN probes : ~probes[i].isLost => probes[i].of = i

\* The rtt recorded for a packet is the time it and its reply spent in the
\* network, to the nanoseconds that three truncated timestamps can cost: not
\* the time the reflector kept it, and not the difference of the two clocks,
\* even if the reflector's clock is set between packets or in mid-flight.
RttIsNetworkTime ==
  \A i \in DOMAIN probes : ~probes[i].isLost => probes[i].rtt - probes[i].net \in -1..2

\* Of the delays recorded, 95 in 100 are v or less and 5 in 100 are v or more
\* (an interpolated percentile has one rank less than there are delays).
IsP95(v, delay) ==
  LET ranks == Cardinality(DOMAIN delay) - 1
  IN  /\ 20 * Cardinality({i \in DOMAIN delay : delay[i] <= v}) > 19 * ranks
      /\ 20 * Cardinality({i \in DOMAIN delay : v <= delay[i]}) > ranks

\* What the processor publishes of a reported run: every packet counts as sent,
\* those with a reply as received, and each p95 is a 95th percentile of the
\* delays recorded, in whatever order they came, with lost packets left out.
MetricsAreMeasured ==
  spc = "done" =>
    LET metrics == buildStamp(probes)
        received == {i \in DOMAIN probes : ~probes[i].isLost}
    IN /\ metrics.sent = PacketCount /\ metrics.received = Cardinality(received)
       /\ IsP95(metrics.rttP95, [i \in received |-> probes[i].rtt])
       /\ IsP95(metrics.fwdP95, [i \in received |-> probes[i].fwd])
       /\ IsP95(metrics.bwdP95, [i \in received |-> probes[i].bwd])

\* A cancelled reflector task ends: wherever Serve is when the context is
\* cancelled (its socket not even open yet), Execute does not wait for ever
\* for it, and so the reconciler that waits for Execute does not either.
ReflectorStops == rctx ~> (rex = "done")

\* A sender task ends whatever the network loses and whether or not the
\* reflector runs: each packet is answered or times out.
SenderEnds == <>(spc \in {"done", "cancelled"})

=============================================================================
