---------------------------- MODULE StampProofs ----------------------------
(***************************************************************************)
(* Proofs about Stamp, for any number of packets, any widths of the        *)
(* timestamps, any clocks.                                                 *)
(*                                                                         *)
(* Three arguments that do not need each other.  The timestamps of a reply   *)
(* are conversions of four moments, three of them a nanosecond off at      *)
(* most; the reflector's clock cancels out if it is not set between its    *)
(* two readings: so is the rtt, whichever packet the reply belongs to.     *)
(* And if no reply is late, one packet is under way at a time: a reply the *)
(* sender accepts is the reply to the packet it waits on.                  *)
(*                                                                         *)
(* What the processor makes of a reported run is right for any list of     *)
(* probes: the values can be sorted, the interpolated value lies between   *)
(* two neighbours, and the order maps ranks to received packets one to one.*)
(***************************************************************************)
EXTENDS Stamp, SubsequencesProofs, FiniteSetTheorems

\* The times the clocks show during the run are in the era the sender assumes.
NoEraWrap ==
  /\ End < Nano * Seconds
  /\ \A k \in Skews : End + k < Nano * Seconds

\* The moments behind the reflector's timestamps, by its clock.
Clocked(p) ==
  \E k \in Skews, read, sent \in Time :
    /\ read + k >= 0 /\ sent + k >= 0
    /\ p.t2 = generateNtpTimestamp(read + k)
    /\ p.t3 = generateNtpTimestamp(sent + k)
    /\ p.held = sent - read

GoodRequest == {p \in Request : p.t1 = generateNtpTimestamp(p.at)}
GoodReply == {p \in Reply : p.t1 = generateNtpTimestamp(p.at) /\ (~Steps => Clocked(p))}

Keeping ==
  [seq : 0..PacketCount, t1 : Timestamp, t2 : Timestamp, n : 1..PacketCount,
   at : Time, read : Time]

ProbeRecord ==
  [isLost : BOOLEAN, rtt : Int, fwd : Int, bwd : Int, sent : 0..PacketCount,
   echoed : (0..PacketCount) \cup {None}, of : (1..PacketCount) \cup {None},
   net : Int \cup {None}]

Control ==
  /\ now \in Time /\ skew \in Skews
  /\ \A k \in Skews : now + k >= 0
  /\ spc \in {"loop", "wait", "done", "cancelled"}
  /\ seq \in Nat /\ seq <= Len(probes)
  /\ sctx \in BOOLEAN /\ rctx \in BOOLEAN
  /\ probes \in Seq(ProbeRecord)
  /\ Len(probes) <= PacketCount
  /\ spc = "wait" => Len(probes) < PacketCount
  /\ rpc \in {"listen", "check", "read", "reply", "done"}
  /\ kept # {} <=> rpc = "reply"
  /\ server \in {"nil", "open", "closed"}
  /\ rex \in {"select", "join", "done"}

Packets ==
  /\ requests \subseteq GoodRequest
  /\ replies \subseteq GoodReply
  /\ inbox \in Seq(GoodReply)
  /\ kept \subseteq Keeping
  /\ \A p \in kept :
       /\ p.read <= now
       /\ p.t1 = generateNtpTimestamp(p.at)
       /\ ~Steps => p.read + skew >= 0 /\ p.t2 = generateNtpTimestamp(p.read + skew)

\* p is the packet the sender waits for, or its reply.
Awaited(p) == spc = "wait" /\ p.n = Len(probes) + 1 /\ p.seq = seq

\* One packet at most is under way, and it is the one that is awaited.
OneUnderWay ==
  ~Late =>
    /\ \A p \in requests \cup kept \cup replies : Awaited(p)
    /\ \A p, q \in requests : p = q
    /\ \A p, q \in kept : p = q
    /\ \A p, q \in replies : p = q
    /\ Len(inbox) <= 1
    /\ inbox # <<>> => Awaited(Head(inbox))
    /\ requests # {} => kept = {} /\ replies = {} /\ inbox = <<>>
    /\ kept # {} => replies = {} /\ inbox = <<>>
    /\ replies # {} => inbox = <<>>

IInv ==
  /\ Control
  /\ Packets
  /\ OneUnderWay
  /\ ~Late => RepliesMatch /\ DelaysAreItsOwn
  /\ ~Steps /\ NoEraWrap => RttIsNetworkTime
  /\ spc = "done" => Len(probes) = PacketCount

-----------------------------------------------------------------------------
(* Arithmetic *)

LEMMA Cancel ==
  ASSUME NEW a \in Int, NEW b \in Int, NEW c \in Nat, c > 0, a * c <= b * c
  PROVE  a <= b
  <1> SUFFICES ASSUME a >= b + 1 PROVE FALSE
    OBVIOUS
  <1>1. (a - b - 1) * c >= 0
    OBVIOUS
  <1>2. (a - b - 1) * c = a * c - b * c - c
    OBVIOUS
  <1> QED
    BY <1>1, <1>2

LEMMA Division ==
  ASSUME NEW a \in Nat, NEW b \in Nat, b > 0
  PROVE  /\ a \div b \in Nat /\ a % b \in Nat /\ a % b < b
         /\ a % b = a - (a \div b) * b
  <1>1. a % b \in Nat /\ a % b < b
    OBVIOUS
  <1>2. a \div b \in Int
    OBVIOUS
  <1>3. a % b = a - (a \div b) * b
    OBVIOUS
  <1>4. a \div b >= 0
    OBVIOUS
  <1> QED
    BY <1>1, <1>2, <1>3, <1>4

\* The fraction of a second, to units of 1/Fraction and back: rounded down
\* twice, it loses a nanosecond at most because a unit is no longer than one.
LEMMA FractionRoundTrip ==
  ASSUME NEW x \in Nat, x < Nano
  PROVE  LET f == (x * Fraction) \div Nano
             y == (f * Nano) \div Fraction
         IN  /\ f \in Nat /\ f < Fraction
             /\ y \in Nat /\ x - 1 <= y /\ y <= x
  <1> DEFINE f == (x * Fraction) \div Nano
             y == (f * Nano) \div Fraction
  <1> HIDE DEF f, y
  <1>0. Nano \in Nat /\ Nano > 0 /\ Fraction \in Nat /\ Fraction > 0 /\ Nano <= Fraction
    BY ClockAssumption
  <1>1. f \in Nat /\ f * Nano <= x * Fraction /\ x * Fraction < f * Nano + Nano
    <2>1. x * Fraction \in Nat
      BY <1>0
    <2> QED
      BY <1>0, <2>1, Division DEF f
  <1>2. y \in Nat /\ y * Fraction <= f * Nano /\ f * Nano < y * Fraction + Fraction
    <2>1. f * Nano \in Nat
      BY <1>0, <1>1
    <2> QED
      BY <1>0, <2>1, Division DEF y
  <1>3. y <= x
    <2>1. y * Fraction <= x * Fraction
      BY <1>0, <1>1, <1>2
    <2> QED
      BY <1>0, <1>2, <2>1, Cancel
  <1>4. x - 1 <= y
    <2>1. x * Fraction <= y * Fraction + 2 * Fraction
      BY <1>0, <1>1, <1>2
    <2>2. (y + 2) * Fraction = y * Fraction + 2 * Fraction
      BY <1>0, <1>2
    <2>3. x * Fraction < (y + 2) * Fraction
      BY <1>0, <1>1, <1>2, <2>2
    <2>4. x # y + 2
      BY <2>3, <1>0, <1>2
    <2>5. x <= y + 2
      BY <1>0, <1>2, <2>3, Cancel
    <2> QED
      BY <2>4, <2>5, <1>2
  <1>5. f < Fraction
    <2>1. (x + 1) * Fraction <= Nano * Fraction
      BY <1>0
    <2>2. f * Nano < Fraction * Nano
      BY <2>1, <1>0, <1>1
    <2>3. f <= Fraction
      BY <2>2, <1>0, <1>1, Cancel
    <2> QED
      BY <2>2, <2>3, <1>0, <1>1
  <1> QED
    BY <1>1, <1>2, <1>3, <1>4, <1>5 DEF f, y

LEMMA ThreeTruncations ==
  ASSUME NEW t \in Int, NEW a \in Int, NEW x \in Int, NEW y \in Int,
         NEW w1 \in Int, a - 1 <= w1, w1 <= a,
         NEW w2 \in Int, x - 1 <= w2, w2 <= x,
         NEW w3 \in Int, y - 1 <= w3, w3 <= y
  PROVE  ((t - w1) - (w3 - w2)) - ((t - a) - (y - x)) \in -1..2
  OBVIOUS

LEMMA TimestampType ==
  ASSUME NEW t \in Nat
  PROVE  generateNtpTimestamp(t) \in Timestamp
  <1>0. Nano \in Nat /\ Nano > 0 /\ Seconds \in Nat /\ Seconds > 0 /\ Fraction \in Nat
    BY ClockAssumption
  <1>1. t \div Nano \in Nat /\ t % Nano \in Nat /\ t % Nano < Nano
    BY <1>0, Division
  <1>2. (t \div Nano) % Seconds \in 0..Seconds - 1
    BY <1>0, <1>1, Division
  <1> DEFINE x == t % Nano
             f == (x * Fraction) \div Nano
  <1>3. f \in Nat /\ f < Fraction
    <2>1. x \in Nat /\ x < Nano
      BY <1>1
    <2> HIDE DEF x
    <2> QED
      BY <2>1, FractionRoundTrip
  <1>4. f \in 0..Fraction - 1
    <2> HIDE DEF f
    <2> QED
      BY <1>0, <1>3
  <1> QED
    BY <1>2, <1>4 DEF generateNtpTimestamp, Timestamp

\* A time of the first era survives the wire, but for a nanosecond at most.
LEMMA WireRoundTrip ==
  ASSUME NEW t \in Nat, t < Nano * Seconds
  PROVE  /\ wireNTPTimestampToTime(generateNtpTimestamp(t)) \in Int
         /\ t - 1 <= wireNTPTimestampToTime(generateNtpTimestamp(t))
         /\ wireNTPTimestampToTime(generateNtpTimestamp(t)) <= t
  <1> DEFINE s == t \div Nano
             x == t % Nano
             f == (x * Fraction) \div Nano
             y == (f * Nano) \div Fraction
  <1>0. Nano \in Nat /\ Nano > 0 /\ Seconds \in Nat /\ Seconds > 0
    BY ClockAssumption
  <1>1. s \in Nat /\ x \in Nat /\ x < Nano /\ t = s * Nano + x
    BY <1>0, Division
  <1>2. y \in Nat /\ x - 1 <= y /\ y <= x
    BY <1>1, FractionRoundTrip
  <1> HIDE DEF s, x, y, f
  <1>3. s < Seconds
    <2>1. s * Nano < Seconds * Nano
      BY <1>0, <1>1
    <2>2. s <= Seconds
      BY <2>1, <1>0, <1>1, Cancel
    <2> QED
      BY <2>1, <2>2, <1>0, <1>1
  <1>4. s % Seconds = s
    BY <1>0, <1>1, <1>3
  <1>5. wireNTPTimestampToTime(generateNtpTimestamp(t)) = s * Nano + y
    BY <1>4 DEF wireNTPTimestampToTime, generateNtpTimestamp, s, x, f, y
  <1>6. s * Nano \in Nat
    BY <1>0, <1>1
  <1> QED
    BY <1>1, <1>2, <1>5, <1>6

LEMMA WireType ==
  ASSUME NEW w \in Timestamp
  PROVE  wireNTPTimestampToTime(w) \in Int
  <1>1. w.seconds \in Nat /\ w.fraction \in Nat /\ Nano \in Nat /\ Fraction \in Nat /\ Fraction > 0
    BY ClockAssumption DEF Timestamp
  <1>2. w.fraction * Nano \in Nat /\ w.seconds * Nano \in Nat
    BY <1>1
  <1>3. (w.fraction * Nano) \div Fraction \in Nat
    BY <1>1, <1>2, Division
  <1> QED
    BY <1>2, <1>3 DEF wireNTPTimestampToTime

-----------------------------------------------------------------------------
(* What one reply amounts to *)

LEMMA ReceivedType ==
  ASSUME NEW p \in Reply, now \in Time, seq \in 0..PacketCount
  PROVE  Received(p) \in ProbeRecord
  <1>1. /\ wireNTPTimestampToTime(p.t1) \in Int
        /\ wireNTPTimestampToTime(p.t2) \in Int
        /\ wireNTPTimestampToTime(p.t3) \in Int
    BY WireType DEF Reply
  <1>2. now \in Int /\ p.at \in Int /\ p.held \in Int
    BY StampAssumption DEF Time, Reply
  <1>3. p.seq \in 0..PacketCount /\ p.n \in 1..PacketCount
    BY DEF Reply
  <1> QED
    BY <1>1, <1>2, <1>3 DEF Received, ProbeRecord, Rtt

LEMMA LostType ==
  ASSUME seq \in 0..PacketCount
  PROVE  Lost \in ProbeRecord
  BY DEF Lost, ProbeRecord

\* Of a reply whose two reflector timestamps are of the same clock, the rtt is
\* the network time but for what the truncations cost: t1's and t3's lengthen
\* it, t2's shortens it.
LEMMA RttOfOneReply ==
  ASSUME NEW p \in GoodReply, now \in Time, ~Steps, NoEraWrap
  PROVE  Received(p).rtt - Received(p).net \in -1..2
  <1>1. p.at \in Time /\ p.t1 = generateNtpTimestamp(p.at) /\ Clocked(p)
    BY DEF GoodReply, Reply
  <1>2. PICK k \in Skews, read \in Time, sent \in Time :
          /\ read + k >= 0 /\ sent + k >= 0
          /\ p.t2 = generateNtpTimestamp(read + k)
          /\ p.t3 = generateNtpTimestamp(sent + k)
          /\ p.held = sent - read
    BY <1>1 DEF Clocked
  <1>3. /\ k \in Int /\ read \in Int /\ sent \in Int /\ now \in Int /\ End \in Nat
        /\ p.at \in Nat /\ p.at <= End /\ read <= End /\ sent <= End
        /\ Nano * Seconds \in Int
    BY <1>1, <1>2, StampAssumption, ClockAssumption DEF Time
  <1>4. /\ read + k \in Nat /\ read + k < Nano * Seconds
        /\ sent + k \in Nat /\ sent + k < Nano * Seconds
        /\ p.at < Nano * Seconds
    <2>1. End < Nano * Seconds /\ End + k < Nano * Seconds
      BY <1>2 DEF NoEraWrap
    <2> QED
      BY <2>1, <1>2, <1>3
  <1> DEFINE w1 == wireNTPTimestampToTime(p.t1)
             w2 == wireNTPTimestampToTime(p.t2)
             w3 == wireNTPTimestampToTime(p.t3)
  <1>5. w1 \in Int /\ p.at - 1 <= w1 /\ w1 <= p.at
    BY <1>1, <1>3, <1>4, WireRoundTrip
  <1> DEFINE x == read + k
             y == sent + k
  <1>6. w2 \in Int /\ x - 1 <= w2 /\ w2 <= x
    <2>1. p.t2 = generateNtpTimestamp(x) /\ x \in Nat /\ x < Nano * Seconds
      BY <1>2, <1>4
    <2> HIDE DEF x
    <2> QED
      BY <2>1, WireRoundTrip
  <1>7. w3 \in Int /\ y - 1 <= w3 /\ w3 <= y
    <2>1. p.t3 = generateNtpTimestamp(y) /\ y \in Nat /\ y < Nano * Seconds
      BY <1>2, <1>4
    <2> HIDE DEF y
    <2> QED
      BY <2>1, WireRoundTrip
  <1>8. /\ Received(p).rtt = (now - w1) - (w3 - w2)
        /\ Received(p).net = (now - p.at) - (sent - read)
    BY <1>2 DEF Received, Rtt
  <1> HIDE DEF w1, w2, w3
  <1> HIDE DEF x, y
  <1>9. y - x = sent - read /\ x \in Int /\ y \in Int
    BY <1>3 DEF x, y
  <1>10. ((now - w1) - (w3 - w2)) - ((now - p.at) - (y - x)) \in -1..2
    BY <1>3, <1>5, <1>6, <1>7, <1>9, ThreeTruncations
  <1> QED
    BY <1>8, <1>9, <1>10

-----------------------------------------------------------------------------
(* The invariant *)

LEMMA Initially == Init => IInv
  <1> SUFFICES ASSUME Init PROVE IInv
    OBVIOUS
  <1>1. Control
    <2>1. now \in Time /\ skew \in Skews /\ \A k \in Skews : now + k >= 0
      BY StampAssumption DEF Init, Time
    <2>2. probes = <<>> /\ probes \in Seq(ProbeRecord) /\ Len(probes) = 0
      BY DEF Init
    <2>3. sctx \in BOOLEAN /\ rctx \in BOOLEAN /\ (kept # {} <=> rpc = "reply")
      BY Zenon DEF Init
    <2> QED
      BY <2>1, <2>2, <2>3, StampAssumption DEF Init, Control
  <1>2. Packets
    BY DEF Init, Packets
  <1>3. OneUnderWay
    BY DEF Init, OneUnderWay
  <1>4. RepliesMatch /\ DelaysAreItsOwn /\ RttIsNetworkTime
    BY DEF Init, RepliesMatch, DelaysAreItsOwn, RttIsNetworkTime
  <1>5. spc # "done"
    BY DEF Init
  <1> QED
    BY <1>1, <1>2, <1>3, <1>4, <1>5 DEF IInv

LEMMA SeqInRange == Control => seq \in 0..PacketCount
  BY StampAssumption DEF Control

\* The probe a step records.
LEMMA Recorded ==
  ASSUME Control, Packets, NEW p \in ProbeRecord,
         Len(probes) < PacketCount, probes' = Append(probes, p)
  PROVE  /\ probes' \in Seq(ProbeRecord)
         /\ Len(probes') = Len(probes) + 1 /\ Len(probes') <= PacketCount
         /\ \A i \in DOMAIN probes' :
              \/ i \in DOMAIN probes /\ probes'[i] = probes[i]
              \/ i = Len(probes) + 1 /\ probes'[i] = p
  BY StampAssumption DEF Control

LEMMA ControlStep ==
  ASSUME Control, Packets, [Next]_vars
  PROVE  Control'
  <1>0. seq \in 0..PacketCount /\ Lost \in ProbeRecord /\ PacketCount \in Nat
    BY SeqInRange, LostType, StampAssumption
  <1>1. CASE Tick
    BY <1>1, StampAssumption DEF Tick, Control, senderVars, reflectorVars, Time
  <1>2. CASE SetClock
    BY <1>2 DEF SetClock, Control, senderVars, reflectorVars, Time
  <1>3. CASE SenderReturns \/ SenderCancelled
    BY <1>3 DEF SenderReturns, SenderCancelled, Control, clockVars, reflectorVars, Time
  <1>4. CASE Transmit
    BY <1>4 DEF Transmit, Control, clockVars, reflectorVars, Time
  <1>5. CASE TransmitFails
    <2>1. /\ probes' \in Seq(ProbeRecord)
          /\ Len(probes') = Len(probes) + 1 /\ Len(probes') <= PacketCount
      BY <1>0, <1>5, Recorded DEF TransmitFails
    <2> QED
      BY <1>5, <2>1 DEF TransmitFails, Control, clockVars, reflectorVars, Time
  <1>6. CASE TimesOut
    <2>1. /\ probes' \in Seq(ProbeRecord)
          /\ Len(probes') = Len(probes) + 1 /\ Len(probes') <= PacketCount
      BY <1>0, <1>6, Recorded DEF TimesOut, Control
    <2> QED
      BY <1>6, <2>1 DEF TimesOut, Control, clockVars, reflectorVars, Time
  <1>7. CASE Accept
    <2>1. Head(inbox) \in Reply
      BY <1>7 DEF Accept, Packets, GoodReply
    <2>2. Received(Head(inbox)) \in ProbeRecord
      BY <1>0, <2>1, ReceivedType DEF Control
    <2>3. /\ probes' \in Seq(ProbeRecord)
          /\ Len(probes') = Len(probes) + 1 /\ Len(probes') <= PacketCount
      BY <1>7, <2>2, Recorded DEF Accept, Control
    <2> QED
      BY <1>7, <2>3 DEF Accept, Control, clockVars, reflectorVars, Time
  <1>8. CASE CancelSender
    BY <1>8 DEF CancelSender, Control, clockVars, reflectorVars, Time
  <1>9. CASE Lose \/ Arrive
    BY <1>9 DEF Lose, Arrive, Control, clockVars, senderVars, reflectorVars, Time
  <1>10. CASE Listen \/ CheckContext \/ ReadFails
    BY <1>10 DEF Listen, CheckContext, ReadFails, Control, clockVars, senderVars, Time
  <1>11. CASE ReadPacket \/ Reflect
    BY <1>11, Zenon DEF ReadPacket, Reflect, Control, clockVars, senderVars, Time
  <1>12. CASE ReflectorExecutor \/ CancelReflector
    BY <1>12, Zenon DEF ReflectorExecutor, CloseReflector, ReflectorReturns, CancelReflector, Control,
                 clockVars, senderVars, Time
  <1>13. CASE UNCHANGED vars
    BY <1>13 DEF vars, Control, clockVars, senderVars, reflectorVars, Time
  <1> QED
    BY <1>1, <1>2, <1>3, <1>4, <1>5, <1>6, <1>7, <1>8, <1>9, <1>10, <1>11, <1>12, <1>13
       DEF Next, Sender, Serve

LEMMA PacketsStep ==
  ASSUME Control, Packets, [Next]_vars
  PROVE  Packets'
  <1>0. /\ seq \in 0..PacketCount /\ PacketCount \in Nat
        /\ now \in Nat /\ now \in Time /\ skew \in Int /\ now + skew \in Nat
        /\ Len(probes) \in Nat
    BY SeqInRange, StampAssumption DEF Control, Time
  <1>1. CASE Tick
    <2>1. now' = now + 1 /\ \A p \in kept : p.read \in Nat
      BY <1>1 DEF Tick, Packets, Keeping, Time
    <2> QED
      BY <1>0, <1>1, <2>1 DEF Tick, Packets, netVars, reflectorVars
  <1>2. CASE SetClock
    BY <1>2 DEF SetClock, Packets, netVars, reflectorVars
  <1>3. CASE SenderReturns \/ SenderCancelled \/ TransmitFails \/ TimesOut \/ CancelSender
    BY <1>3 DEF SenderReturns, SenderCancelled, TransmitFails, TimesOut, CancelSender, Packets,
                clockVars, netVars, reflectorVars
  <1>4. CASE Transmit
    <2> DEFINE p == [seq |-> seq, t1 |-> generateNtpTimestamp(now),
                     n |-> Len(probes) + 1, at |-> now]
    <2>1. Len(probes) + 1 \in 1..PacketCount
      BY <1>0, <1>4 DEF Transmit
    <2>2. generateNtpTimestamp(now) \in Timestamp
      BY <1>0, TimestampType
    <2>3. p \in GoodRequest
      BY <1>0, <2>1, <2>2 DEF GoodRequest, Request
    <2> QED
      BY <1>4, <2>3 DEF Transmit, Packets, clockVars, reflectorVars
  <1>5. CASE Accept
    <2>1. Tail(inbox) \in Seq(GoodReply)
      BY <1>5 DEF Accept, Packets
    <2> QED
      BY <1>5, <2>1 DEF Accept, Packets, clockVars, reflectorVars
  <1>6. CASE Lose
    BY <1>6 DEF Lose, Packets, clockVars, reflectorVars
  <1>7. CASE Arrive
    <2>1. inbox' \in Seq(GoodReply) /\ replies' \subseteq GoodReply
      BY <1>7 DEF Arrive, Packets
    <2> QED
      BY <1>7, <2>1 DEF Arrive, Packets, clockVars, reflectorVars
  <1>8. CASE Listen \/ CheckContext \/ ReadFails \/ ReflectorExecutor \/ CancelReflector
    BY <1>8 DEF Listen, CheckContext, ReadFails, ReflectorExecutor, CloseReflector,
                ReflectorReturns, CancelReflector, Packets, clockVars, netVars
  <1>9. CASE ReadPacket
    <2>1. PICK p \in requests :
            /\ requests' = requests \ {p}
            /\ kept' = {[seq |-> p.seq, t1 |-> p.t1, t2 |-> generateNtpTimestamp(now + skew),
                         n |-> p.n, at |-> p.at, read |-> now]}
      BY <1>9 DEF ReadPacket
    <2>2. generateNtpTimestamp(now + skew) \in Timestamp
      BY <1>0, TimestampType
    <2>3. /\ p.seq \in 0..PacketCount /\ p.t1 \in Timestamp /\ p.n \in 1..PacketCount
          /\ p.at \in Time /\ p.t1 = generateNtpTimestamp(p.at)
      BY <2>1 DEF Packets, GoodRequest, Request
    <2>4. kept' \subseteq Keeping
      BY <1>0, <2>1, <2>2, <2>3 DEF Keeping
    <2>5. now' = now /\ skew' = skew /\ replies' = replies /\ inbox' = inbox
      BY <1>9 DEF ReadPacket, clockVars
    <2>6. \A q \in kept' :
            /\ q.read <= now'
            /\ q.t1 = generateNtpTimestamp(q.at)
            /\ ~Steps => q.read + skew' >= 0 /\ q.t2 = generateNtpTimestamp(q.read + skew')
      BY <1>0, <2>1, <2>3, <2>5
    <2> QED
      BY <2>1, <2>4, <2>5, <2>6 DEF Packets
  <1>10. CASE Reflect
    <2>1. PICK k \in kept :
            replies' = IF server = "open" THEN replies \cup {Answer(k)} ELSE replies
      BY <1>10 DEF Reflect
    <2>2. generateNtpTimestamp(now + skew) \in Timestamp
      BY <1>0, TimestampType
    <2>3. /\ k.seq \in 0..PacketCount /\ k.t1 \in Timestamp /\ k.t2 \in Timestamp
          /\ k.n \in 1..PacketCount /\ k.at \in Time /\ k.read \in Time /\ k.read <= now
          /\ k.t1 = generateNtpTimestamp(k.at)
          /\ ~Steps => k.read + skew >= 0 /\ k.t2 = generateNtpTimestamp(k.read + skew)
      BY <2>1 DEF Packets, Keeping
    <2>4. now - k.read \in Time
      BY <1>0, <2>3, StampAssumption DEF Time
    <2>5. Answer(k) \in Reply /\ Answer(k).t1 = generateNtpTimestamp(Answer(k).at)
      BY <2>2, <2>3, <2>4 DEF Answer, Reply
    <2>6. ~Steps => Clocked(Answer(k))
      <3> SUFFICES ASSUME ~Steps PROVE Clocked(Answer(k))
        OBVIOUS
      <3>1. /\ skew \in Skews /\ k.read \in Time /\ now \in Time
            /\ k.read + skew >= 0 /\ now + skew >= 0
        BY <1>0, <2>3 DEF Control
      <3>2. /\ Answer(k).t2 = generateNtpTimestamp(k.read + skew)
            /\ Answer(k).t3 = generateNtpTimestamp(now + skew)
            /\ Answer(k).held = now - k.read
        BY <2>3 DEF Answer
      <3> QED
        BY <3>1, <3>2 DEF Clocked
    <2>7. Answer(k) \in GoodReply
      BY <2>5, <2>6 DEF GoodReply
    <2> QED
      BY <1>10, <2>1, <2>7 DEF Reflect, Packets, clockVars
  <1>11. CASE UNCHANGED vars
    BY <1>11 DEF vars, Packets, clockVars, netVars, reflectorVars
  <1> QED
    BY <1>1, <1>2, <1>3, <1>4, <1>5, <1>6, <1>7, <1>8, <1>9, <1>10, <1>11 DEF Next, Sender, Serve

\* The sender goes on only when the awaited packet is lost or in its hands.
LEMMA NoneUnderWay ==
  ASSUME Packets, OneUnderWay, ~Late, spc # "wait"
  PROVE  requests = {} /\ kept = {} /\ replies = {} /\ inbox = <<>>
  BY DEF OneUnderWay, Awaited

LEMMA OneUnderWayStep ==
  ASSUME Control, Packets, OneUnderWay, [Next]_vars
  PROVE  OneUnderWay'
  <1> SUFFICES ASSUME ~Late PROVE OneUnderWay'
    BY DEF OneUnderWay
  <1>1. CASE Tick \/ SetClock
    BY <1>1 DEF Tick, SetClock, OneUnderWay, Awaited, senderVars, netVars, reflectorVars
  <1>2. CASE SenderReturns \/ SenderCancelled
    <2>1. requests = {} /\ kept = {} /\ replies = {} /\ inbox = <<>>
      BY <1>2, NoneUnderWay DEF SenderReturns, SenderCancelled
    <2> QED
      BY <1>2, <2>1 DEF SenderReturns, SenderCancelled, OneUnderWay, netVars, reflectorVars
  <1>3. CASE Transmit
    <2>1. requests = {} /\ kept = {} /\ replies = {} /\ inbox = <<>>
      BY <1>3, NoneUnderWay DEF Transmit
    <2> QED
      BY <1>3, <2>1 DEF Transmit, OneUnderWay, Awaited, reflectorVars
  <1>4. CASE TransmitFails
    <2>1. requests = {} /\ kept = {} /\ replies = {} /\ inbox = <<>>
      BY <1>4, NoneUnderWay DEF TransmitFails
    <2> QED
      BY <1>4, <2>1 DEF TransmitFails, OneUnderWay, netVars, reflectorVars
  <1>5. CASE TimesOut
    BY <1>5 DEF TimesOut, OneUnderWay, netVars, reflectorVars
  <1>6. CASE Accept
    <2>0. inbox # <<>> /\ inbox \in Seq(GoodReply)
      BY <1>6 DEF Accept, Packets
    <2>1. requests = {} /\ kept = {} /\ replies = {} /\ Len(inbox) <= 1
      BY <2>0 DEF OneUnderWay
    <2>2. inbox' = <<>>
      BY <1>6, <2>0, <2>1 DEF Accept
    <2> QED
      BY <1>6, <2>1, <2>2 DEF Accept, OneUnderWay, reflectorVars
  <1>7. CASE CancelSender
    BY <1>7 DEF CancelSender, OneUnderWay, Awaited, netVars, reflectorVars
  <1>8. CASE Lose
    BY <1>8 DEF Lose, OneUnderWay, Awaited, senderVars, reflectorVars
  <1>9. CASE Arrive
    <2>1. PICK p \in replies :
            /\ replies' = replies \ {p}
            /\ inbox' = IF spc \in {"loop", "wait"} THEN Append(inbox, p) ELSE inbox
      BY <1>9 DEF Arrive
    <2>2. replies' = {} /\ requests = {} /\ kept = {} /\ inbox = <<>> /\ Awaited(p)
      BY <2>1 DEF OneUnderWay
    <2>3. inbox' = <<p>>
      BY <2>1, <2>2 DEF Awaited
    <2> QED
      BY <1>9, <2>2, <2>3 DEF Arrive, OneUnderWay, Awaited, senderVars, reflectorVars
  <1>10. CASE Listen \/ CheckContext \/ ReadFails \/ ReflectorExecutor \/ CancelReflector
    BY <1>10 DEF Listen, CheckContext, ReadFails, ReflectorExecutor, CloseReflector,
                 ReflectorReturns, CancelReflector, OneUnderWay, Awaited, senderVars, netVars
  <1>11. CASE ReadPacket
    <2>1. PICK p \in requests :
            /\ requests' = requests \ {p}
            /\ kept' = {[seq |-> p.seq, t1 |-> p.t1, t2 |-> generateNtpTimestamp(now + skew),
                         n |-> p.n, at |-> p.at, read |-> now]}
      BY <1>11 DEF ReadPacket
    <2>2. requests' = {} /\ replies = {} /\ inbox = <<>> /\ Awaited(p)
      BY <2>1 DEF OneUnderWay
    <2> QED
      BY <1>11, <2>1, <2>2 DEF ReadPacket, OneUnderWay, Awaited, senderVars
  <1>12. CASE Reflect
    <2>1. PICK k \in kept :
            replies' = IF server = "open" THEN replies \cup {Answer(k)} ELSE replies
      BY <1>12 DEF Reflect
    <2>2. requests = {} /\ replies = {} /\ inbox = <<>> /\ Awaited(k)
      BY <2>1 DEF OneUnderWay
    <2>3. Awaited(Answer(k))
      BY <2>2 DEF Awaited, Answer
    <2> QED
      BY <1>12, <2>1, <2>2, <2>3 DEF Reflect, OneUnderWay, Awaited, senderVars
  <1>13. CASE UNCHANGED vars
    BY <1>13 DEF vars, OneUnderWay, Awaited, senderVars, netVars, reflectorVars
  <1> QED
    BY <1>1, <1>2, <1>3, <1>4, <1>5, <1>6, <1>7, <1>8, <1>9, <1>10, <1>11, <1>12, <1>13
       DEF Next, Sender, Serve

\* The steps that leave the recorded probes alone.
LEMMA OthersRecordNothing ==
  ASSUME [Next]_vars, ~TransmitFails, ~TimesOut, ~Accept
  PROVE  probes' = probes
  BY DEF Next, Sender, Serve, ReflectorExecutor, Tick, SetClock, SenderReturns, SenderCancelled,
         Transmit, CancelSender, Lose, Arrive, Listen, CheckContext, ReadPacket, Reflect,
         ReadFails, CloseReflector, ReflectorReturns, CancelReflector, senderVars, vars

LEMMA OnlyReturnEnds ==
  ASSUME [Next]_vars, spc' = "done"
  PROVE  SenderReturns \/ spc = "done"
  BY DEF Next, Sender, Serve, ReflectorExecutor, Tick, SetClock, SenderCancelled, TransmitFails,
         TimesOut, Accept, Transmit, CancelSender, Lose, Arrive, Listen, CheckContext,
         ReadPacket, Reflect, ReadFails, CloseReflector, ReflectorReturns, CancelReflector,
         senderVars, vars

\* A recorded probe keeps its place; the one added is lost or what was received.
LEMMA Growth ==
  ASSUME Control, Packets, [Next]_vars, NEW i \in DOMAIN probes', ~probes'[i].isLost
  PROVE  \/ i \in DOMAIN probes /\ probes'[i] = probes[i]
         \/ Accept /\ i = Len(probes) + 1 /\ probes'[i] = Received(Head(inbox))
  <1>0. seq \in 0..PacketCount /\ Lost \in ProbeRecord /\ Lost.isLost
    BY SeqInRange, LostType DEF Lost
  <1>1. CASE TransmitFails
    BY <1>0, <1>1, Recorded DEF TransmitFails
  <1>2. CASE TimesOut
    BY <1>0, <1>2, Recorded DEF TimesOut, Control
  <1>3. CASE Accept
    <2>1. Head(inbox) \in Reply
      BY <1>3 DEF Accept, Packets, GoodReply
    <2>2. Received(Head(inbox)) \in ProbeRecord
      BY <1>0, <2>1, ReceivedType DEF Control
    <2> QED
      BY <1>3, <2>2, Recorded DEF Accept, Control
  <1> QED
    BY <1>1, <1>2, <1>3, OthersRecordNothing

LEMMA Stepwise == IInv /\ [Next]_vars => IInv'
  <1> SUFFICES ASSUME IInv, [Next]_vars PROVE IInv'
    OBVIOUS
  <1>0. Control /\ Packets /\ OneUnderWay
    BY DEF IInv
  <1>1. Control' /\ Packets' /\ OneUnderWay'
    BY <1>0, ControlStep, PacketsStep, OneUnderWayStep
  <1>2. ASSUME ~Late PROVE RepliesMatch' /\ DelaysAreItsOwn'
    <2> SUFFICES ASSUME NEW i \in DOMAIN probes', ~probes'[i].isLost
                 PROVE  probes'[i].echoed = probes'[i].sent /\ probes'[i].of = i
      BY DEF RepliesMatch, DelaysAreItsOwn
    <2>1. CASE i \in DOMAIN probes /\ probes'[i] = probes[i]
      BY <1>2, <2>1 DEF IInv, RepliesMatch, DelaysAreItsOwn
    <2>2. CASE Accept /\ i = Len(probes) + 1 /\ probes'[i] = Received(Head(inbox))
      <3>1. Awaited(Head(inbox))
        BY <1>0, <1>2, <2>2 DEF OneUnderWay, Accept
      <3> QED
        BY <2>2, <3>1 DEF Awaited, Received
    <2> QED
      BY <1>0, <2>1, <2>2, Growth
  <1>3. ASSUME ~Steps, NoEraWrap PROVE RttIsNetworkTime'
    <2> SUFFICES ASSUME NEW i \in DOMAIN probes', ~probes'[i].isLost
                 PROVE  probes'[i].rtt - probes'[i].net \in -1..2
      BY DEF RttIsNetworkTime
    <2>1. CASE i \in DOMAIN probes /\ probes'[i] = probes[i]
      BY <1>3, <2>1 DEF IInv, RttIsNetworkTime
    <2>2. CASE Accept /\ i = Len(probes) + 1 /\ probes'[i] = Received(Head(inbox))
      <3>1. Head(inbox) \in GoodReply /\ now \in Time
        BY <1>0, <2>2 DEF Accept, Packets, Control
      <3> QED
        BY <1>3, <2>2, <3>1, RttOfOneReply
    <2> QED
      BY <1>0, <2>1, <2>2, Growth
  <1>4. ASSUME spc' = "done" PROVE Len(probes') = PacketCount
    <2>1. probes' = probes
      BY <1>4, OthersRecordNothing DEF TransmitFails, TimesOut, Accept
    <2>2. SenderReturns \/ spc = "done"
      BY <1>4, OnlyReturnEnds
    <2> QED
      BY <2>1, <2>2 DEF IInv, SenderReturns
  <1> QED
    BY <1>1, <1>2, <1>3, <1>4 DEF IInv

-----------------------------------------------------------------------------
(* What the processor computes *)

\* An order of the values exists: another value is put in before the first that is larger.
LEMMA SortExists ==
  ASSUME NEW values \in Seq(Int)
  PROVE  \E order \in [DOMAIN values -> DOMAIN values] : Sorts(order, values)
<1> DEFINE T == {n \in Nat : \A v \in [1..n -> Int] : \E o : o \in [1..n -> 1..n] /\ Sorts(o, v)}
<1>1. T \in SUBSET Nat /\ 0 \in T
  <2>1. ASSUME NEW v \in [1..0 -> Int] PROVE \E o : o \in [1..0 -> 1..0] /\ Sorts(o, v)
    <3>1. v \in [1..0 -> 1..0] /\ Sorts(v, v)
      BY DEF Sorts
    <3> QED BY <3>1, Zenon
  <2> QED BY <2>1
<1>2. ASSUME NEW n \in T PROVE n + 1 \in T
  <2>0. n \in Nat /\ n + 1 \in Nat
    OBVIOUS
  <2>1. ASSUME NEW v \in [1..n + 1 -> Int] PROVE \E o : o \in [1..n + 1 -> 1..n + 1] /\ Sorts(o, v)
    <3> DEFINE u == [i \in 1..n |-> v[i]]
    <3>1. u \in [1..n -> Int]
      BY <2>0
    <3>2. PICK p : p \in [1..n -> 1..n] /\ Sorts(p, u)
      BY <3>1, Zenon
    <3>3. \A i \in 1..n : p[i] \in 1..n /\ u[p[i]] = v[p[i]] /\ v[p[i]] \in Int
      BY <3>2, <2>0
    <3>4. /\ DOMAIN u = 1..n
          /\ \A i, j \in 1..n : i < j => p[i] # p[j] /\ v[p[i]] <= v[p[j]]
      BY <3>2, <3>3 DEF Sorts
    <3> HIDE DEF u
    <3> DEFINE K == {i \in 1..n : v[p[i]] > v[n + 1]} \cup {n + 1}
    <3>5. PICK k \in K : \A m \in K : k <= m
      <4>1. K \in SUBSET Nat /\ K # {}
        BY <2>0
      <4> HIDE DEF K
      <4> QED BY <4>1, LeastElement, Zenon
    <3>6. k \in 1..n + 1 /\ \A i \in 1..n : i < k => v[p[i]] <= v[n + 1]
      BY <3>5, <3>3, <2>0
    <3>7. \A i \in 1..n : k <= i => v[n + 1] <= v[p[i]]
      <4> SUFFICES ASSUME NEW i \in 1..n, k <= i PROVE v[n + 1] <= v[p[i]]
        OBVIOUS
      <4>1. k \in 1..n /\ v[p[k]] > v[n + 1]
        BY <3>5, <2>0
      <4>2. v[p[k]] <= v[p[i]]
        BY <4>1, <3>4, <3>3
      <4> QED BY <4>1, <4>2, <3>3, v[n + 1] \in Int
    <3> HIDE DEF K
    <3> DEFINE q == [i \in 1..n + 1 |-> IF i < k THEN p[i] ELSE IF i = k THEN n + 1 ELSE p[i - 1]]
    <3>8. /\ \A i \in 1..n + 1 : i < k => i \in 1..n /\ q[i] = p[i]
          /\ q[k] = n + 1
          /\ \A i \in 1..n + 1 : k < i => i - 1 \in 1..n /\ q[i] = p[i - 1] /\ k <= i - 1
      BY <2>0, <3>6
    <3>9. q \in [1..n + 1 -> 1..n + 1]
      BY <2>0, <3>3, <3>6
    <3> HIDE DEF q
    <3>10. ASSUME NEW i \in 1..n + 1, NEW j \in 1..n + 1, i < j
           PROVE  q[i] # q[j] /\ v[q[i]] <= v[q[j]]
      <4>1. CASE j < k
        <5>1. i < k
          BY <4>1, <3>10, <3>6
        <5>2. i \in 1..n /\ j \in 1..n /\ q[i] = p[i] /\ q[j] = p[j]
          BY <4>1, <5>1, <3>8
        <5> QED BY <5>2, <3>10, <3>4
      <4>2. CASE j = k
        <5>1. i \in 1..n /\ q[i] = p[i] /\ q[j] = n + 1
          BY <4>2, <3>10, <3>8
        <5>2. v[p[i]] <= v[n + 1]
          BY <5>1, <4>2, <3>10, <3>6
        <5>3. p[i] \in 1..n
          BY <5>1, <3>3
        <5>4. p[i] # n + 1
          BY <5>3, <2>0
        <5> QED BY <5>1, <5>2, <5>4
      <4>3. CASE k < j /\ i < k
        <5>1. i \in 1..n /\ j - 1 \in 1..n /\ i < j - 1 /\ q[i] = p[i] /\ q[j] = p[j - 1]
          BY <4>3, <3>8, <3>6
        <5> QED BY <5>1, <3>4
      <4>4. CASE k < j /\ i = k
        <5>1. j - 1 \in 1..n /\ q[j] = p[j - 1] /\ q[i] = n + 1 /\ k <= j - 1
          BY <4>4, <3>8
        <5>2. v[n + 1] <= v[p[j - 1]]
          BY <5>1, <3>7
        <5>3. p[j - 1] \in 1..n
          BY <5>1, <3>3
        <5>4. p[j - 1] # n + 1
          BY <5>3, <2>0
        <5> QED BY <5>1, <5>2, <5>4
      <4>5. CASE k < j /\ k < i
        <5>1. i - 1 \in 1..n /\ j - 1 \in 1..n /\ i - 1 < j - 1 /\ q[i] = p[i - 1] /\ q[j] = p[j - 1]
          BY <4>5, <3>10, <3>8, <3>6
        <5> QED BY <5>1, <3>4
      <4> QED BY <4>1, <4>2, <4>3, <4>4, <4>5, <3>6
    <3>11. DOMAIN v = 1..n + 1
      OBVIOUS
    <3>12. Sorts(q, v)
      BY <3>9, <3>10, <3>11 DEF Sorts
    <3> QED BY <3>9, <3>12, Zenon
  <2> QED BY <2>0, <2>1, Zenon
<1> HIDE DEF T
<1>3. T = Nat
  BY <1>1, <1>2, SetInduction, Zenon
<1>4. Len(values) \in T /\ values \in [1..Len(values) -> Int] /\ DOMAIN values = 1..Len(values)
  BY <1>3
<1> USE DEF T
<1>5. \E o : o \in [1..Len(values) -> 1..Len(values)] /\ Sorts(o, values)
  BY <1>4, Zenon
<1> QED BY <1>4, <1>5, Zenon

\* Sorted returns the values in an order that sorts them.
LEMMA SortedFacts ==
  ASSUME NEW values \in Seq(Int)
  PROVE  \E order \in [DOMAIN values -> DOMAIN values] :
           /\ Sorts(order, values)
           /\ Sorted(values) = [i \in DOMAIN values |-> values[order[i]]]
<1> DEFINE order == CHOOSE o \in [DOMAIN values -> DOMAIN values] : Sorts(o, values)
<1>1. order \in [DOMAIN values -> DOMAIN values] /\ Sorts(order, values)
  BY SortExists, Zenon
<1>2. Sorted(values) = [i \in DOMAIN values |-> values[order[i]]]
  BY DEF Sorted
<1> QED BY <1>1, <1>2, Zenon

\* An interpolated value lies between the two it is interpolated from, although it is
\* truncated towards zero.
LEMMA Interpolated ==
  ASSUME NEW a \in Int, NEW b \in Int, a <= b, NEW frac \in 0..19
  PROVE  LET x == Truncated(a * (20 - frac) + b * frac, 20)
         IN  x \in Int /\ a <= x /\ x <= b
<1> DEFINE w == a * (20 - frac) + b * frac
<1>1. w = 20 * a + (b - a) * frac
  OBVIOUS
<1>2. (b - a) * frac \in Int /\ 0 <= (b - a) * frac /\ (b - a) * frac <= (b - a) * 20
  OBVIOUS
<1>3. w \in Int /\ 20 * a <= w /\ w <= 20 * b
  BY <1>1, <1>2
<1> HIDE DEF w
<1>4. Truncated(w, 20) \in Int /\ a <= Truncated(w, 20) /\ Truncated(w, 20) <= b
  BY <1>3 DEF Truncated
<1> QED BY <1>4 DEF w

\* What percentile(sorted, 0.95) returns lies between two neighbours of the sorted values,
\* with 19 in 20 ranks on one side and the last on the other.
LEMMA Ranked ==
  ASSUME NEW values \in Seq(Int), NEW order \in [DOMAIN values -> DOMAIN values],
         Sorts(order, values), values # <<>>,
         Sorted(values) = [i \in DOMAIN values |-> values[order[i]]]
  PROVE  \E below, above \in DOMAIN values :
           /\ 20 * below > 19 * (Len(values) - 1)
           /\ 20 * (Len(values) + 1 - above) > Len(values) - 1
           /\ \A i \in DOMAIN values : i <= below => values[order[i]] <= P95(values)
           /\ \A i \in DOMAIN values : above <= i => P95(values) <= values[order[i]]
<1> DEFINE n == Len(values)
           s == Sorted(values)
           lo == (19 * (n - 1)) \div 20
           frac == (19 * (n - 1)) % 20
<1>1. n \in Nat /\ n > 0 /\ DOMAIN values = 1..n
  OBVIOUS
<1>2. ASSUME NEW i \in 1..n PROVE s[i] = values[order[i]] /\ s[i] \in Int
  <2>1. s = [k \in DOMAIN values |-> values[order[k]]]
    OBVIOUS
  <2>0. i \in DOMAIN values /\ \A k \in DOMAIN values : values[k] \in Int
    BY <1>1
  <2>2. order[i] \in DOMAIN values /\ values[order[i]] \in Int
    BY <2>0, Zenon
  <2> HIDE DEF s
  <2> QED BY <2>1, <2>2, <1>1
<1> HIDE DEF s
<1>3. ASSUME NEW i \in 1..n, NEW j \in 1..n, i <= j PROVE s[i] <= s[j]
  <2>1. CASE i = j
    BY <2>1, <1>2
  <2>2. CASE i < j
    <3>1. values[order[i]] <= values[order[j]]
      BY <2>2, <1>1 DEF Sorts
    <3> QED BY <3>1, <1>2
  <2> QED BY <2>1, <2>2, <1>3
<1>4. lo \in Nat /\ frac \in 0..19 /\ 20 * lo + frac = 19 * (n - 1)
  <2> DEFINE r == 19 * (n - 1)
  <2>1. r \in Nat
    BY <1>1
  <2> HIDE DEF r
  <2>2. r \div 20 \in Nat /\ r % 20 \in 0..19 /\ 20 * (r \div 20) + (r % 20) = r
    BY <2>1
  <2> QED BY <2>2 DEF r
<1> HIDE DEF lo, frac
<1>5. CASE n = 1
  <2>1. P95(values) = s[1]
    BY <1>5 DEF P95, s
  <2>2. 1 \in DOMAIN values /\ \A i \in DOMAIN values : i = 1
    BY <1>1, <1>5
  <2> QED BY <2>1, <2>2, <1>2, <1>5, <1>1
<1>6. CASE n > 1
  <2>1. P95(values) = Truncated(s[lo + 1] * (20 - frac) + s[lo + 2] * frac, 20)
    BY <1>6 DEF P95, s, lo, frac
  <2>2. lo + 1 \in 1..n /\ lo + 2 \in 1..n
    BY <1>4, <1>6, <1>1
  <2>3. s[lo + 1] \in Int /\ s[lo + 2] \in Int /\ s[lo + 1] <= s[lo + 2]
    BY <1>2, <1>3, <2>2, <1>4
  <2>4. P95(values) \in Int /\ s[lo + 1] <= P95(values) /\ P95(values) <= s[lo + 2]
    BY <2>1, <2>3, <1>4, Interpolated
  <2>5. \A i \in DOMAIN values : i <= lo + 1 => values[order[i]] <= P95(values)
    BY <2>4, <2>2, <2>3, <1>1, <1>2, <1>3
  <2>6. CASE frac = 0
    <3>1. P95(values) = s[lo + 1]
      <4>1. P95(values) = Truncated(s[lo + 1] * 20 + s[lo + 2] * 0, 20)
        BY <2>1, <2>6
      <4>2. \A a, b \in Int : Truncated(a * 20 + b * 0, 20) = a
        BY DEF Truncated
      <4> QED BY <4>1, <4>2, <2>3
    <3>2. \A i \in DOMAIN values : lo + 1 <= i => P95(values) <= values[order[i]]
      BY <3>1, <2>2, <2>3, <1>1, <1>2, <1>3
    <3>3. 20 * (lo + 1) > 19 * (n - 1) /\ 20 * (n + 1 - (lo + 1)) > n - 1
      BY <1>4, <1>1
    <3> QED BY <3>2, <3>3, <2>5, <2>2, <1>1
  <2>7. CASE frac # 0
    <3>1. \A i \in DOMAIN values : lo + 2 <= i => P95(values) <= values[order[i]]
      BY <2>4, <2>2, <2>3, <1>1, <1>2, <1>3
    <3>2. 20 * (lo + 1) > 19 * (n - 1) /\ 20 * (n + 1 - (lo + 2)) > n - 1
      BY <1>4, <1>1, <2>7
    <3> QED BY <3>1, <3>2, <2>5, <2>2, <1>1
  <2> QED BY <2>6, <2>7
<1> QED BY <1>1, <1>5, <1>6

\* f maps the numbers from a to b into T without repetition.
Injects(f, a, b, T) ==
  /\ \A i \in a..b : f[i] \in T
  /\ \A i, j \in a..b : i < j => f[i] # f[j]

\* A set into which the numbers from a to b are mapped without repetition has that many
\* elements.
LEMMA AtLeast ==
  ASSUME NEW a \in Int, NEW b \in Int, a <= b, NEW f, NEW T, IsFiniteSet(T), Injects(f, a, b, T)
  PROVE  Cardinality(T) >= b - a + 1 /\ Cardinality(T) \in Nat
<1> DEFINE h == [i \in a..b |-> f[i]]
<1>1. h \in Injection(a..b, T)
  <2>1. h \in [a..b -> T]
    BY DEF Injects
  <2>2. ASSUME NEW i \in a..b, NEW j \in a..b, h[i] = h[j] PROVE i = j
    BY <2>2 DEF Injects
  <2> QED BY <2>1, <2>2, Zenon DEF Injection, IsInjective
<1>2. Cardinality(a..b) <= Cardinality(T)
  BY <1>1, FS_Injection
<1>3. Cardinality(a..b) = b - a + 1
  BY FS_Interval
<1>4. Cardinality(T) \in Nat
  BY FS_CardinalityType
<1> QED BY <1>2, <1>3, <1>4


\* The values are the delays, one of each place, in the order g gives the places.
Taken(values, delay, g, places) ==
  /\ g \in [DOMAIN values -> places]
  /\ DOMAIN delay = places
  /\ \A k \in DOMAIN values : values[k] = delay[g[k]]
  /\ \A k, l \in DOMAIN values : g[k] = g[l] => k = l

\* The p95 of the values is one of the delays they were taken from.
LEMMA Percentile ==
  ASSUME NEW values \in Seq(Int), NEW delay, NEW places, NEW g,
         Taken(values, delay, g, places), IsFiniteSet(places), Cardinality(places) = Len(values)
  PROVE  IsP95(P95(values), delay)
<1> DEFINE n == Len(values)
           under == {i \in places : delay[i] <= P95(values)}
           over == {i \in places : P95(values) <= delay[i]}
<1>0. IsFiniteSet(under) /\ IsFiniteSet(over)
  BY FS_Subset
<1>1. n \in Nat /\ DOMAIN values = 1..n
  OBVIOUS
<1>2. IsP95(P95(values), delay) <=>
        20 * Cardinality(under) > 19 * (n - 1) /\ 20 * Cardinality(over) > n - 1
  BY DEF IsP95, Taken
<1>3. under \subseteq places /\ over \subseteq places
  OBVIOUS
<1>4. CASE values = <<>>
  <2>1. Cardinality(under) \in Nat /\ Cardinality(over) \in Nat /\ n = 0
    BY <1>0, <1>4, FS_CardinalityType
  <2> HIDE DEF under, over, n
  <2> QED BY <2>1, <1>2
<1>5. CASE values # <<>>
  <2>1. PICK order \in [DOMAIN values -> DOMAIN values] :
          Sorts(order, values) /\ Sorted(values) = [i \in DOMAIN values |-> values[order[i]]]
    BY SortedFacts, Zenon
  <2>2. PICK below \in DOMAIN values, above \in DOMAIN values :
          /\ 20 * below > 19 * (n - 1)
          /\ 20 * (n + 1 - above) > n - 1
          /\ \A i \in DOMAIN values : i <= below => values[order[i]] <= P95(values)
          /\ \A i \in DOMAIN values : above <= i => P95(values) <= values[order[i]]
    BY <2>1, <1>5, Ranked
  <2> DEFINE f == [i \in DOMAIN values |-> g[order[i]]]
  <2>3. ASSUME NEW i \in DOMAIN values
        PROVE  f[i] \in places /\ delay[f[i]] = values[order[i]]
    BY Zenon DEF Taken
  <2>4. ASSUME NEW i \in DOMAIN values, NEW j \in DOMAIN values, i < j PROVE f[i] # f[j]
    <3>1. order[i] # order[j] /\ order[i] \in DOMAIN values /\ order[j] \in DOMAIN values
      BY <2>1, <2>4, Zenon DEF Sorts
    <3> QED BY <3>1, Zenon DEF Taken
  <2> HIDE DEF f
  <2>5. below \in 1..n /\ above \in 1..n
    BY <1>1
  <2>6. ASSUME NEW i \in 1..below PROVE i \in DOMAIN values /\ f[i] \in under
    <3>1. i \in DOMAIN values /\ i <= below
      BY <2>5, <1>1
    <3>2. f[i] \in places /\ delay[f[i]] <= P95(values)
      BY <3>1, <2>2, <2>3, Zenon
    <3> QED BY <3>1, <3>2
  <2>7. ASSUME NEW i \in above..n PROVE i \in DOMAIN values /\ f[i] \in over
    <3>1. i \in DOMAIN values /\ above <= i
      BY <2>5, <1>1
    <3>2. f[i] \in places /\ P95(values) <= delay[f[i]]
      BY <3>1, <2>2, <2>3, Zenon
    <3> QED BY <3>1, <3>2
  <2> HIDE DEF under, over, n
  <2>8. Cardinality(under) >= below - 1 + 1 /\ Cardinality(under) \in Nat
    <3>1. \A i, j \in 1..below : i < j => f[i] # f[j]
      BY <2>4, <2>6, Zenon
    <3>2. 1 \in Int /\ below \in Int /\ 1 <= below
      BY <2>5, <1>1
    <3>3. \A i \in 1..below : f[i] \in under
      BY <2>6, Zenon
    <3>4. Injects(f, 1, below, under)
      BY <3>1, <3>3, Zenon DEF Injects
    <3> QED BY <3>2, <3>4, <1>0, AtLeast, Zenon
  <2>9. Cardinality(over) >= n - above + 1 /\ Cardinality(over) \in Nat
    <3>1. \A i, j \in above..n : i < j => f[i] # f[j]
      BY <2>4, <2>7, Zenon
    <3>2. n \in Int /\ above \in Int /\ above <= n
      BY <2>5, <1>1
    <3>3. \A i \in above..n : f[i] \in over
      BY <2>7, Zenon
    <3>4. Injects(f, above, n, over)
      BY <3>1, <3>3, Zenon DEF Injects
    <3> QED BY <3>2, <3>4, <1>0, AtLeast, Zenon
  <2>10. \A c, d, e, m \in Int : /\ c >= e - 1 + 1 /\ 20 * e > m => 20 * c > m
                               /\ c >= d - e + 1 /\ 20 * (d + 1 - e) > m => 20 * c > m
    OBVIOUS
  <2>11. 20 * Cardinality(under) > 19 * (n - 1)
    BY <2>2, <2>5, <2>8, <2>10, <1>1
  <2>12. 20 * Cardinality(over) > n - 1
    BY <2>2, <2>5, <2>9, <2>10, <1>1
  <2> QED BY <2>11, <2>12, <1>2
<1> QED BY <1>4, <1>5

\* What buildStamp makes of a list of probes, whatever the probes say.
LEMMA MetricsOfProbes ==
  ASSUME NEW R, \A r \in R : r.rtt \in Int /\ r.fwd \in Int /\ r.bwd \in Int,
         NEW list \in Seq(R), NEW places, places = {i \in DOMAIN list : ~list[i].isLost}
  PROVE  /\ buildStamp(list).sent = Len(list)
         /\ buildStamp(list).received = Cardinality(places)
         /\ IsP95(buildStamp(list).rttP95, [i \in places |-> list[i].rtt])
         /\ IsP95(buildStamp(list).fwdP95, [i \in places |-> list[i].fwd])
         /\ IsP95(buildStamp(list).bwdP95, [i \in places |-> list[i].bwd])
<1> DEFINE got == ElementsAt(list, places)
<1>1. got \in Seq(R) /\ \E g : Placed(g, got, list, places)
  BY ElementsAtOrder
<1>2. PICK g : Placed(g, got, list, places)
  BY <1>1, Zenon
<1>3. /\ buildStamp(list).sent = Len(list) /\ buildStamp(list).received = Len(got)
      /\ buildStamp(list).rttP95 = P95([i \in DOMAIN got |-> got[i].rtt])
      /\ buildStamp(list).fwdP95 = P95([i \in DOMAIN got |-> got[i].fwd])
      /\ buildStamp(list).bwdP95 = P95([i \in DOMAIN got |-> got[i].bwd])
  BY DEF buildStamp
<1> HIDE DEF got
<1>4. places \subseteq DOMAIN list /\ DOMAIN list = 1..Len(list) /\ Len(list) \in Nat
  OBVIOUS
<1>5. IsFiniteSet(places)
  <2>1. IsFiniteSet(1..Len(list))
    BY <1>4, FS_Interval
  <2> QED BY <2>1, <1>4, FS_Subset
<1>6. DOMAIN got = 1..Len(got) /\ Len(got) \in Nat
  BY <1>1
<1>7. /\ g \in [DOMAIN got -> places]
      /\ \A k \in DOMAIN got : got[k] = list[g[k]]
      /\ \A n \in places : \E k \in DOMAIN got : g[k] = n
  BY <1>2, <1>4, Zenon DEF Placed
<1>8. \A k, l \in DOMAIN got : g[k] = g[l] => k = l
  <2>1. ASSUME NEW k \in DOMAIN got, NEW l \in DOMAIN got, k < l PROVE g[k] # g[l]
    <3>1. g[k] < g[l] /\ g[k] \in DOMAIN list /\ g[l] \in DOMAIN list
      BY <1>2, <2>1, Zenon DEF Placed
    <3> QED BY <3>1, <1>4
  <2> QED BY <2>1, <1>6
<1>9. Cardinality(places) = Len(got)
  <2>1. IsFiniteSet(DOMAIN got) /\ Cardinality(DOMAIN got) = Len(got)
    <3> DEFINE n == Len(got)
    <3>1. n \in Int /\ 1 \in Int
      BY <1>6
    <3> HIDE DEF n
    <3>2. IsFiniteSet(1..n) /\ Cardinality(1..n) = IF 1 > n THEN 0 ELSE n - 1 + 1
      BY <3>1, FS_Interval, Zenon
    <3>3. n >= 0 => Cardinality(1..n) = n
      BY <3>1, <3>2
    <3> QED BY <3>2, <3>3, <1>6 DEF n
  <2>2. g \in Bijection(DOMAIN got, places)
    BY <1>7, <1>8, Zenon DEF Bijection, Injection, Surjection, IsInjective
  <2>3. ExistsBijection(DOMAIN got, places)
    BY <2>2, Zenon DEF ExistsBijection
  <2> QED BY <2>1, <2>3, FS_Bijection, Zenon
<1>10. ASSUME NEW values, values \in [DOMAIN got -> Int], NEW delay, DOMAIN delay = places,
              \A k \in DOMAIN got : values[k] = delay[g[k]]
       PROVE  IsP95(P95(values), delay)
  <2>1. values \in Seq(Int) /\ DOMAIN values = DOMAIN got /\ Len(values) = Len(got)
    BY <1>6, <1>10
  <2>2. g \in [DOMAIN values -> places]
    BY <2>1, <1>7, Zenon
  <2>3. /\ \A k \in DOMAIN values : values[k] = delay[g[k]]
        /\ \A k, l \in DOMAIN values : g[k] = g[l] => k = l
    BY <2>1, <1>8, <1>10, Zenon
  <2>4. Taken(values, delay, g, places)
    BY <2>2, <2>3, <1>10, Zenon DEF Taken
  <2> QED BY <2>1, <2>2, <2>3, <2>4, <1>5, <1>9, Percentile, Zenon
<1>11. \A k \in DOMAIN got : got[k].rtt \in Int /\ got[k].fwd \in Int /\ got[k].bwd \in Int
  BY <1>1
<1>12. IsP95(P95([i \in DOMAIN got |-> got[i].rtt]), [i \in places |-> list[i].rtt])
  <2> DEFINE v == [i \in DOMAIN got |-> got[i].rtt]
             d == [i \in places |-> list[i].rtt]
  <2>1. v \in [DOMAIN got -> Int] /\ DOMAIN d = places
    BY <1>11
  <2>2. \A k \in DOMAIN got : v[k] = d[g[k]]
    BY <1>7
  <2> HIDE DEF v, d
  <2>3. IsP95(P95(v), d)
    BY <2>1, <2>2, <1>10
  <2> QED BY <2>3 DEF v, d
<1>13. IsP95(P95([i \in DOMAIN got |-> got[i].fwd]), [i \in places |-> list[i].fwd])
  <2> DEFINE v == [i \in DOMAIN got |-> got[i].fwd]
             d == [i \in places |-> list[i].fwd]
  <2>1. v \in [DOMAIN got -> Int] /\ DOMAIN d = places
    BY <1>11
  <2>2. \A k \in DOMAIN got : v[k] = d[g[k]]
    BY <1>7
  <2> HIDE DEF v, d
  <2>3. IsP95(P95(v), d)
    BY <2>1, <2>2, <1>10
  <2> QED BY <2>3 DEF v, d
<1>14. IsP95(P95([i \in DOMAIN got |-> got[i].bwd]), [i \in places |-> list[i].bwd])
  <2> DEFINE v == [i \in DOMAIN got |-> got[i].bwd]
             d == [i \in places |-> list[i].bwd]
  <2>1. v \in [DOMAIN got -> Int] /\ DOMAIN d = places
    BY <1>11
  <2>2. \A k \in DOMAIN got : v[k] = d[g[k]]
    BY <1>7
  <2> HIDE DEF v, d
  <2>3. IsP95(P95(v), d)
    BY <2>1, <2>2, <1>10
  <2> QED BY <2>3 DEF v, d
<1> QED BY <1>3, <1>9, <1>12, <1>13, <1>14, Zenon

-----------------------------------------------------------------------------
(* The theorems *)

\* In every run of a sender against a reflector the packets under way carry the
\* timestamps of the moments they were sent, read and answered at, and one
\* packet at most is under way if no reply is late (Sender.Send, Serve).
THEOREM Invariance == Spec => []IInv
  <1>1. IInv /\ UNCHANGED vars => IInv'
    BY Stepwise
  <1> QED
    BY Initially, Stepwise, PTL DEF Spec

\* Send and Serve only make packets of the shapes the wire format has, with
\* sequence numbers below the packet count, and Serve holds a packet exactly
\* between its read and its write.
THEOREM TypeCorrect == Spec => []TypeOK
  <1>1. IInv => TypeOK
    <2> SUFFICES ASSUME IInv PROVE TypeOK
      OBVIOUS
    <2>1. Control /\ Packets
      BY DEF IInv
    <2>2. GoodRequest \subseteq Request /\ GoodReply \subseteq Reply
      BY DEF GoodRequest, GoodReply
    <2>3. inbox \in Seq(Reply)
      BY <2>1, <2>2 DEF Packets
    <2> QED
      BY <2>1, <2>2, <2>3, SeqInRange DEF Control, Packets, TypeOK
  <1> QED
    BY <1>1, Invariance, PTL

\* If no reply is slower than Send's timeout, every reply Send accepts echoes
\* the sequence number of the packet it waits on, although Send compares nothing.
THEOREM RepliesAreMatched ==
  ASSUME ~Late
  PROVE  Spec => []RepliesMatch
  <1>1. IInv => RepliesMatch
    BY DEF IInv
  <1> QED
    BY <1>1, Invariance, PTL

\* If no reply is slower than Send's timeout, the delays the executor records
\* for a packet are computed from the timestamps of that packet, although the
\* packets after a lost one reuse its sequence number.
THEOREM DelaysAreOfTheirPacket ==
  ASSUME ~Late
  PROVE  Spec => []DelaysAreItsOwn
  <1>1. IInv => DelaysAreItsOwn
    BY DEF IInv
  <1> QED
    BY <1>1, Invariance, PTL

\* If the reflector's clock is not set between its two readings for a packet
\* and the run lies in the first era, every rtt the executor records is the
\* time the packet and its reply spent in the network, at most a nanosecond
\* short and two long: for any second and fraction widths with a fraction no
\* coarser than a nanosecond, whatever the clocks differ by, late replies or not.
THEOREM RttIsMeasured ==
  ASSUME ~Steps, NoEraWrap
  PROVE  Spec => []RttIsNetworkTime
  <1>1. IInv => RttIsNetworkTime
    BY DEF IInv
  <1> QED
    BY <1>1, Invariance, PTL

\* For runs of any length, with any packets lost and late replies or not: what
\* buildStamp publishes of a reported run counts every packet as sent and the
\* answered ones as received, and each p95 is a 95th percentile of the delays
\* the executor recorded.
THEOREM MetricsOfTheRun == Spec => []MetricsAreMeasured
  <1>1. IInv => MetricsAreMeasured
    <2> SUFFICES ASSUME IInv, spc = "done" PROVE MetricsAreMeasured
      BY DEF MetricsAreMeasured
    <2>1. probes \in Seq(ProbeRecord) /\ Len(probes) = PacketCount
      BY DEF IInv, Control
    <2>2. \A r \in ProbeRecord : r.rtt \in Int /\ r.fwd \in Int /\ r.bwd \in Int
      BY DEF ProbeRecord
    <2> DEFINE places == {i \in DOMAIN probes : ~probes[i].isLost}
    <2>3. places = {i \in DOMAIN probes : ~probes[i].isLost}
      OBVIOUS
    <2> HIDE DEF places
    <2>4. /\ buildStamp(probes).sent = PacketCount
          /\ buildStamp(probes).received = Cardinality(places)
          /\ IsP95(buildStamp(probes).rttP95, [i \in places |-> probes[i].rtt])
          /\ IsP95(buildStamp(probes).fwdP95, [i \in places |-> probes[i].fwd])
          /\ IsP95(buildStamp(probes).bwdP95, [i \in places |-> probes[i].bwd])
      BY <2>1, <2>2, <2>3, MetricsOfProbes
    <2> QED
      BY <2>4, Zenon DEF MetricsAreMeasured, places
  <1> QED
    BY <1>1, Invariance, PTL

=============================================================================
