--------------------------- MODULE ScamperClient ---------------------------
(***************************************************************************)
(* The client of the scamper daemon (libs/scamper-client/client.go) and    *)
(* the executors that use it.  Executors send commands over one socket;    *)
(* one reader matches the daemon's lines with the calls: an OK or ERR line *)
(* answers the oldest unanswered command, a DATA line names the id its OK  *)
(* line gave out.  Nothing in an OK line says which command it is for.     *)
(*                                                                         *)
(* The daemon is external.  A line carries, beside what the reader sees,   *)
(* the call it really answers; the client never looks at it.               *)
(***************************************************************************)
EXTENDS Subsequences

CONSTANTS Call,    \* executions of ping and trace tasks, and Attach
          Attach,  \* the attach command Start sends first
          DataId,  \* ids the daemon gives out, and gives out again
          None

ASSUME ScamperAssumption ==
  /\ Attach \in Call
  /\ None \notin Call \cup DataId

VARIABLES phase,     \* per call: "idle", "waiting", "answered", "cancelled", "error"
          socket,    \* commands written and not answered by the daemon yet
          probing,   \* per id, the call the daemon is probing for
          lines,     \* the daemon's output the reader has not read yet
          pendingQ,
          waiters,
          channel,   \* per call, the results put into its channel of capacity one
          daemon,    \* FALSE once the daemon has died
          reader     \* FALSE once StartRead has returned

vars == <<phase, socket, probing, lines, pendingQ, waiters, channel, daemon, reader>>

Line(kind, id, call) == [kind |-> kind, id |-> id, call |-> call]

Init ==
  /\ phase = [c \in Call |-> "idle"]
  /\ socket = <<>> /\ lines = <<>> /\ pendingQ = <<>>
  /\ probing = [i \in DataId |-> None]
  /\ waiters = [i \in DataId |-> None]
  /\ channel = [c \in Call |-> <<>>]
  /\ daemon = TRUE /\ reader = TRUE

-----------------------------------------------------------------------------
(* Callers *)

\* Send writes and queues under one lock; executors start when Start has seen
\* its attach acknowledged.
Send(c) ==
  /\ phase[c] = "idle"
  /\ c = Attach \/ phase[Attach] = "answered"
  /\ \/ /\ daemon
        /\ socket' = Append(socket, c)
        /\ pendingQ' = Append(pendingQ, c)
        /\ phase' = [phase EXCEPT ![c] = "waiting"]
     \/ /\ ~daemon
        /\ phase' = [phase EXCEPT ![c] = "error"]
        /\ UNCHANGED <<socket, pendingQ>>
  /\ UNCHANGED <<probing, lines, waiters, channel, daemon, reader>>

\* Execute's select: the result, or the cancelled context.
Receive(c) ==
  /\ phase[c] = "waiting" /\ channel[c] # <<>>
  /\ phase' = [phase EXCEPT ![c] = "answered"]
  /\ UNCHANGED <<socket, probing, lines, pendingQ, waiters, channel, daemon, reader>>

Cancel(c) ==
  /\ phase[c] = "waiting"
  /\ phase' = [phase EXCEPT ![c] = "cancelled"]
  /\ UNCHANGED <<socket, probing, lines, pendingQ, waiters, channel, daemon, reader>>

-----------------------------------------------------------------------------
(* The daemon: commands are answered in order, probes end in any order *)

Accept ==
  /\ daemon /\ socket # <<>>
  /\ \/ /\ Head(socket) = Attach
        /\ lines' = Append(lines, Line("OK", None, Attach))
        /\ UNCHANGED probing
     \/ /\ Head(socket) # Attach
        /\ \E i \in DataId :
             /\ probing[i] = None
             /\ probing' = [probing EXCEPT ![i] = Head(socket)]
             /\ lines' = Append(lines, Line("OK", i, Head(socket)))
  /\ socket' = Tail(socket)
  /\ UNCHANGED <<phase, pendingQ, waiters, channel, daemon, reader>>

Refuse ==
  /\ daemon /\ socket # <<>>
  /\ lines' = Append(lines, Line("ERR", None, Head(socket)))
  /\ socket' = Tail(socket)
  /\ UNCHANGED <<phase, probing, pendingQ, waiters, channel, daemon, reader>>

Probed(i) ==
  /\ daemon /\ probing[i] # None
  /\ lines' = Append(lines, Line("DATA", i, probing[i]))
  /\ probing' = [probing EXCEPT ![i] = None]
  /\ UNCHANGED <<phase, socket, pendingQ, waiters, channel, daemon, reader>>

Die ==
  /\ daemon
  /\ daemon' = FALSE
  /\ UNCHANGED <<phase, socket, probing, lines, pendingQ, waiters, channel, reader>>

-----------------------------------------------------------------------------
(* StartRead *)

Deliver(c, data) == channel' = [channel EXCEPT ![c] = Append(@, data)]

\* Mutant of ReadErr: an ERR line leaves the queue alone.
ReadErrKeeps(line) ==
  /\ line.kind = "ERR"
  /\ UNCHANGED <<pendingQ, waiters, channel>>

\* The call whose command was refused is dropped, and never told.
ReadErr(line) ==
  /\ line.kind = "ERR"
  /\ pendingQ' = IF pendingQ = <<>> THEN pendingQ ELSE Tail(pendingQ)
  /\ UNCHANGED <<waiters, channel>>

\* Mutant of ReadOk: the newest pending channel is registered.
ReadOkNewest(line) ==
  /\ line.kind = "OK" /\ pendingQ # <<>>
  /\ pendingQ' = Tail(pendingQ)
  /\ IF line.id = None
     THEN Deliver(Head(pendingQ), line.call) /\ UNCHANGED waiters
     ELSE waiters' = [waiters EXCEPT ![line.id] = pendingQ[Len(pendingQ)]] /\ UNCHANGED channel

\* Mutant of ReadOk: the empty result is sent for OK lines with an id too.
ReadOkAlways(line) ==
  /\ line.kind = "OK" /\ pendingQ # <<>>
  /\ pendingQ' = Tail(pendingQ)
  /\ Deliver(Head(pendingQ), line.call)
  /\ waiters' = [i \in DataId |-> IF i = line.id THEN Head(pendingQ) ELSE waiters[i]]

ReadOk(line) ==
  /\ line.kind = "OK"
  /\ IF pendingQ = <<>>
     THEN UNCHANGED <<pendingQ, waiters, channel>>
     ELSE /\ pendingQ' = Tail(pendingQ)
          /\ IF line.id = None
             THEN Deliver(Head(pendingQ), line.call) /\ UNCHANGED waiters
             ELSE /\ waiters' = [waiters EXCEPT ![line.id] = Head(pendingQ)]
                  /\ UNCHANGED channel

\* Mutant of ReadData: a result that comes while commands are unanswered is
\* dropped.
ReadDataPending(line) ==
  /\ line.kind = "DATA"
  /\ IF waiters[line.id] = None \/ pendingQ # <<>>
     THEN UNCHANGED <<channel, waiters>>
     ELSE /\ Deliver(waiters[line.id], line.call)
          /\ waiters' = [waiters EXCEPT ![line.id] = None]
  /\ UNCHANGED pendingQ

ReadData(line) ==
  /\ line.kind = "DATA"
  /\ IF waiters[line.id] = None
     THEN UNCHANGED <<channel, waiters>>
     ELSE /\ Deliver(waiters[line.id], line.call)
          /\ waiters' = [waiters EXCEPT ![line.id] = None]
  /\ UNCHANGED pendingQ

\* One line; sending into a full channel would block the reader for ever.
Read ==
  /\ reader /\ lines # <<>>
  /\ LET line == Head(lines) IN ReadErr(line) \/ ReadOk(line) \/ ReadData(line)
  /\ lines' = Tail(lines)
  /\ UNCHANGED <<phase, socket, probing, daemon, reader>>

\* The agent shuts down: a read deadline ends the reader, the daemon is killed.
Stop ==
  /\ reader
  /\ reader' = FALSE /\ daemon' = FALSE
  /\ UNCHANGED <<phase, socket, probing, lines, pendingQ, waiters, channel>>

\* EOF: the reader returns, and nobody tells the waiters.
ReaderReturns ==
  /\ reader /\ ~daemon /\ lines = <<>>
  /\ reader' = FALSE
  /\ UNCHANGED <<phase, socket, probing, lines, pendingQ, waiters, channel, daemon>>

Next ==
  \/ \E c \in Call : Send(c) \/ Receive(c) \/ Cancel(c)
  \/ Accept \/ Refuse \/ Die
  \/ \E i \in DataId : Probed(i)
  \/ Read \/ ReaderReturns \/ Stop

Spec == Init /\ [][Next]_vars

\* The daemon answers its commands and ends its probes, and the reader and the
\* executors are scheduled; nobody has to cancel a call.
Fairness ==
  /\ WF_vars(Accept \/ Refuse)
  /\ \A i \in DataId : WF_vars(Probed(i))
  /\ WF_vars(Read)
  /\ \A c \in Call : WF_vars(Receive(c))

FairSpec == Spec /\ Fairness

-----------------------------------------------------------------------------
(* Properties *)

TypeOK ==
  /\ phase \in [Call -> {"idle", "waiting", "answered", "cancelled", "error"}]
  /\ socket \in Seq(Call) /\ pendingQ \in Seq(Call)
  /\ probing \in [DataId -> Call \cup {None}]
  /\ waiters \in [DataId -> Call \cup {None}]
  /\ lines \in Seq([kind : {"OK", "ERR", "DATA"}, id : DataId \cup {None}, call : Call])
  /\ channel \in [Call -> Seq(Call)]
  /\ daemon \in BOOLEAN /\ reader \in BOOLEAN

\* The position in pendingQ is all that ties an OK line to its command, and
\* the id all that ties a DATA line to it.  Whatever calls are cancelled or
\* refused and however ids are reused, a call gets the data of its own probe.
OwnData ==
  \A c \in Call : \A n \in DOMAIN channel[c] : channel[c][n] = c

\* The channels hold one result: the reader puts at most one into each, so it
\* never blocks, not even on a call that was cancelled and listens no more.
ReaderNeverBlocks ==
  \A c \in Call : Len(channel[c]) <= 1

Answers == ElementsAt(lines, {n \in DOMAIN lines : lines[n].kind # "DATA"})

\* The queue is in step with the daemon: the calls in pendingQ are those whose
\* OK or ERR line is on its way, then those whose command is, in this order.
QueueInStep ==
  pendingQ = [n \in 1..Len(Answers) |-> Answers[n].call] \o socket

\* A call whose command the daemon has accepted does not wait for ever: its
\* result finds it by its id, though other calls are refused or cancelled and
\* though the id was another call's before.
AcceptedIsAnswered ==
  \A c \in Call :
    (\E i \in DataId : probing[i] = c) ~> (phase[c] # "waiting" \/ ~daemon \/ ~reader)

\* What a refused call lacks: the reader drops its channel and Execute waits
\* until the task's context ends, which for an interval task is for ever.
CallsEnd ==
  \A c \in Call : phase[c] = "waiting" ~> (phase[c] # "waiting" \/ ~daemon \/ ~reader)

=============================================================================
