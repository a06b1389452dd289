------------------------ MODULE ScamperClientProofs ------------------------
(***************************************************************************)
(* Proofs about ScamperClient: whatever calls there are and however few    *)
(* ids the daemon gives out again and again, a call gets the data of its   *)
(* own probe and the reader never blocks.                                  *)
(*                                                                         *)
(* Neither holds by induction alone.  That a DATA line finds its call      *)
(* rests on the order of the lines that carry its id: an OK line is        *)
(* followed by the DATA line of the same call and that one by the OK line  *)
(* of another, so the call registered for an id is that of the first DATA  *)
(* line with it, or of the probe still running.                            *)
(***************************************************************************)
EXTENDS ScamperClient, SubsequencesProofs

LineRec == [kind : {"OK", "ERR", "DATA"}, id : DataId \cup {None}, call : Call]

\* ERR lines carry no id and DATA lines do.
Identified ==
  \A p \in DOMAIN lines :
    /\ lines[p].kind = "ERR" => lines[p].id = None
    /\ lines[p].kind = "DATA" => lines[p].id # None

\* The lines with an id alternate between a command accepted and its data.
Alternate ==
  \A p, q \in DOMAIN lines :
    /\ p < q
    /\ lines[p].id = lines[q].id
    /\ lines[p].id # None
    /\ \A r \in (p + 1)..(q - 1) : lines[r].id # lines[p].id
    => IF lines[p].kind = "OK"
       THEN lines[q].kind = "DATA" /\ lines[q].call = lines[p].call
       ELSE lines[q].kind = "OK"

\* The last line with an id tells what the daemon does with it.
LastLine ==
  \A p \in DOMAIN lines :
    /\ lines[p].id # None
    /\ \A r \in DOMAIN lines : r > p => lines[r].id # lines[p].id
    => probing[lines[p].id] = IF lines[p].kind = "OK" THEN lines[p].call ELSE None

\* The first line with an id tells what the reader knows of it.
FirstLine ==
  \A p \in DOMAIN lines :
    /\ lines[p].id # None
    /\ \A r \in DOMAIN lines : r < p => lines[r].id # lines[p].id
    => waiters[lines[p].id] = IF lines[p].kind = "OK" THEN None ELSE lines[p].call

\* With no line on its way the two agree.
NoLine ==
  \A i \in DataId : (\A p \in DOMAIN lines : lines[p].id # i) => probing[i] = waiters[i]

\* A call is in one place at a time: not sent, queued, registered or answered.
Once ==
  /\ \A m, n \in DOMAIN pendingQ : pendingQ[m] = pendingQ[n] => m = n
  /\ \A n \in DOMAIN pendingQ :
       /\ Len(channel[pendingQ[n]]) = 0
       /\ phase[pendingQ[n]] # "idle"
       /\ \A i \in DataId : waiters[i] # pendingQ[n]
  /\ \A i \in DataId : waiters[i] # None =>
       /\ Len(channel[waiters[i]]) = 0
       /\ phase[waiters[i]] # "idle"
       /\ \A j \in DataId : waiters[j] = waiters[i] => i = j
  /\ \A c \in Call : phase[c] = "idle" => Len(channel[c]) = 0

\* The inductive invariant.
IInv ==
  /\ TypeOK /\ Identified /\ Alternate /\ LastLine /\ FirstLine /\ NoLine /\ Once
  /\ OwnData /\ ReaderNeverBlocks /\ QueueInStep

-----------------------------------------------------------------------------
(* The queue and the lines that answer it *)

\* Answers, of any sequence of lines.
AnswersOf(ls) == ElementsAt(ls, {n \in DOMAIN ls : ls[n].kind # "DATA"})

\* The queue q is the calls of the answers a, then the commands s.
InStep(q, a, s) ==
  /\ Len(q) = Len(a) + Len(s)
  /\ \A n \in 1..Len(a) : q[n] = a[n].call
  /\ \A n \in 1..Len(s) : q[Len(a) + n] = s[n]

LEMMA InStepIsEqual ==
  ASSUME NEW q \in Seq(Call), NEW a \in Seq(LineRec), NEW s \in Seq(Call)
  PROVE  (q = [n \in 1..Len(a) |-> a[n].call] \o s) <=> InStep(q, a, s)
<1>1. PICK c : c = [n \in 1..Len(a) |-> a[n].call]
  BY Zenon
<1>2. c \in Seq(Call) /\ Len(c) = Len(a) /\ \A n \in 1..Len(a) : c[n] = a[n].call
  <2>1. ASSUME NEW n \in 1..Len(a) PROVE a[n].call \in Call
    <3>1. a[n] \in LineRec
      OBVIOUS
    <3> QED BY <3>1 DEF LineRec
  <2> QED BY <1>1, <2>1
<1>3. PICK w : w = c \o s
  BY Zenon
<1>4. /\ w \in Seq(Call) /\ Len(w) = Len(a) + Len(s)
      /\ \A n \in 1..Len(a) : w[n] = c[n]
      /\ \A n \in 1..Len(s) : w[Len(a) + n] = s[n]
  <2>1. /\ w \in Seq(Call) /\ Len(w) = Len(c) + Len(s) /\ Len(a) \in Nat /\ Len(s) \in Nat
        /\ \A n \in 1..(Len(c) + Len(s)) : w[n] = IF n <= Len(c) THEN c[n] ELSE s[n - Len(c)]
    <3>1. c \in Seq(Call) /\ Len(a) \in Nat /\ Len(s) \in Nat
      BY <1>2
    <3> QED BY <1>3, <3>1, ConcatProperties
  <2>2. ASSUME NEW n \in 1..Len(s) PROVE w[Len(a) + n] = s[n]
    <3>1. Len(a) + n \in 1..(Len(a) + Len(s)) /\ ~(Len(a) + n <= Len(a)) /\ (Len(a) + n) - Len(a) = n
      BY <2>1
    <3> QED BY <1>2, <2>1, <3>1
  <2> QED BY <1>2, <2>1, <2>2
<1>5. ASSUME InStep(q, a, s) PROVE q = w
  <2>1. Len(q) = Len(w)
    BY <1>4, <1>5 DEF InStep
  <2>2. ASSUME NEW n \in 1..Len(q) PROVE q[n] = w[n]
    <3>1. CASE n <= Len(a)
      BY <1>2, <1>4, <1>5, <3>1 DEF InStep
    <3>2. CASE n > Len(a)
      <4>1. n - Len(a) \in 1..Len(s) /\ Len(a) + (n - Len(a)) = n
        BY <1>5, <3>2 DEF InStep
      <4> QED BY <1>4, <1>5, <4>1, Zenon DEF InStep
    <3> QED BY <3>1, <3>2
  <2> QED BY <1>4, <2>1, <2>2, SeqEqual
<1>6. ASSUME q = w PROVE InStep(q, a, s)
  BY <1>2, <1>4, <1>6 DEF InStep
<1> QED BY <1>1, <1>3, <1>5, <1>6, Zenon

LEMMA AnswersAppend ==
  ASSUME NEW ls \in Seq(LineRec), NEW line \in LineRec
  PROVE  /\ AnswersOf(ls) \in Seq(LineRec)
         /\ AnswersOf(Append(ls, line))
              = IF line.kind = "DATA" THEN AnswersOf(ls) ELSE Append(AnswersOf(ls), line)
<1>1. PICK t : t = Append(ls, line)
  BY Zenon
<1>2. /\ DOMAIN t = 1..(Len(ls) + 1) /\ Len(ls) \in Nat /\ t[Len(ls) + 1] = line
      /\ DOMAIN ls = 1..Len(ls) /\ \A n \in 1..Len(ls) : t[n] = ls[n]
  BY <1>1
<1>3. PICK places : places = {n \in DOMAIN t : t[n].kind # "DATA"}
  BY Zenon
<1>4. PICK others : others = {n \in DOMAIN ls : ls[n].kind # "DATA"}
  BY Zenon
<1>5. (\A n \in DOMAIN ls : n \in places <=> n \in others)
      /\ (Len(ls) + 1 \in places <=> line.kind # "DATA")
  BY <1>2, <1>3, <1>4
<1>6. ElementsAt(t, places)
        = IF Len(ls) + 1 \in places THEN Append(ElementsAt(ls, others), line) ELSE ElementsAt(ls, others)
  BY <1>1, <1>5, ElementsAtAppend
<1>7. ElementsAt(ls, others) \in Seq(LineRec)
  BY ElementsAtElements
<1>8. AnswersOf(t) = ElementsAt(t, places) /\ AnswersOf(ls) = ElementsAt(ls, others)
  BY <1>3, <1>4 DEF AnswersOf
<1> QED BY <1>1, <1>5, <1>6, <1>7, <1>8, Zenon

LEMMA AnswersTail ==
  ASSUME NEW ls \in Seq(LineRec), ls # <<>>
  PROVE  /\ AnswersOf(ls) \in Seq(LineRec) /\ AnswersOf(Tail(ls)) \in Seq(LineRec)
         /\ ls[1].kind = "DATA" => AnswersOf(ls) = AnswersOf(Tail(ls))
         /\ ls[1].kind # "DATA" => AnswersOf(ls) = <<ls[1]>> \o AnswersOf(Tail(ls))
<1>1. PICK t : t = Tail(ls)
  BY Zenon
<1>2. /\ DOMAIN t = 1..(Len(ls) - 1) /\ Len(ls) \in Nat /\ Len(ls) > 0 /\ t \in Seq(LineRec)
      /\ DOMAIN ls = 1..Len(ls) /\ \A n \in 1..(Len(ls) - 1) : t[n] = ls[n + 1]
  BY <1>1
<1>3. PICK places : places = {n \in DOMAIN ls : ls[n].kind # "DATA"}
  BY Zenon
<1>4. PICK others : others = {n \in DOMAIN t : t[n].kind # "DATA"}
  BY Zenon
<1>5. (\A n \in 1..(Len(ls) - 1) : n + 1 \in places <=> n \in others)
      /\ (1 \in places <=> ls[1].kind # "DATA")
  BY <1>2, <1>3, <1>4
<1>6. ElementsAt(ls, places)
        = IF 1 \in places THEN <<ls[1]>> \o ElementsAt(t, others) ELSE ElementsAt(t, others)
  BY <1>1, <1>5, ElementsAtTail
<1>7. ElementsAt(ls, places) \in Seq(LineRec) /\ ElementsAt(t, others) \in Seq(LineRec)
  BY <1>2, ElementsAtElements
<1>8. AnswersOf(ls) = ElementsAt(ls, places) /\ AnswersOf(t) = ElementsAt(t, others)
  BY <1>3, <1>4 DEF AnswersOf
<1> QED BY <1>1, <1>5, <1>6, <1>7, <1>8, Zenon

-----------------------------------------------------------------------------
(* What a step does to the sequences, element by element *)

Elements(ls) ==
  /\ ls \in Seq(LineRec)
  /\ Len(ls) \in Nat
  /\ DOMAIN ls = 1..Len(ls)
  /\ \A p \in DOMAIN ls :
       ls[p].kind \in {"OK", "ERR", "DATA"} /\ ls[p].id \in DataId \cup {None} /\ ls[p].call \in Call

LEMMA LineElements == ASSUME NEW ls \in Seq(LineRec) PROVE Elements(ls)
<1>1. ASSUME NEW p \in DOMAIN ls
      PROVE  ls[p].kind \in {"OK", "ERR", "DATA"} /\ ls[p].id \in DataId \cup {None} /\ ls[p].call \in Call
  <2>1. ls[p] \in LineRec
    OBVIOUS
  <2> QED BY <2>1 DEF LineRec
<1> QED BY <1>1 DEF Elements

\* ls with one line more.
Longer(new, ls, line) ==
  /\ new \in Seq(LineRec)
  /\ Len(new) = Len(ls) + 1
  /\ DOMAIN new = 1..(Len(ls) + 1)
  /\ \A p \in DOMAIN ls : p \in DOMAIN new /\ new[p] = ls[p]
  /\ new[Len(ls) + 1] = line

LEMMA AppendLonger ==
  ASSUME NEW ls \in Seq(LineRec), NEW line \in LineRec, NEW new, new = Append(ls, line)
  PROVE  Longer(new, ls, line)
BY DEF Longer

\* ls without its first line.
Shorter(new, ls) ==
  /\ new \in Seq(LineRec)
  /\ Len(new) = Len(ls) - 1
  /\ 1 \in DOMAIN ls
  /\ DOMAIN new = 1..(Len(ls) - 1)
  /\ \A p \in DOMAIN new : p + 1 \in DOMAIN ls /\ new[p] = ls[p + 1]

LEMMA TailShorter ==
  ASSUME NEW ls \in Seq(LineRec), ls # <<>>, NEW new, new = Tail(ls)
  PROVE  Shorter(new, ls)
BY DEF Shorter

\* The daemon answers a command: the queue stays in step.
LEMMA AnswerInStep ==
  ASSUME NEW ls \in Seq(LineRec), NEW line \in LineRec, NEW s \in Seq(Call), NEW q \in Seq(Call),
         s # <<>>, line.kind # "DATA", line.call = Head(s), InStep(q, AnswersOf(ls), s)
  PROVE  InStep(q, AnswersOf(Append(ls, line)), Tail(s))
<1>1. PICK a : a = AnswersOf(ls)
  OBVIOUS
<1>2. PICK b : b = AnswersOf(Append(ls, line))
  OBVIOUS
<1>3. a \in Seq(LineRec) /\ b = Append(a, line)
  BY <1>1, <1>2, AnswersAppend
<1>4. /\ Len(a) \in Nat /\ Len(b) = Len(a) + 1 /\ b[Len(a) + 1] = line
      /\ \A n \in 1..Len(a) : b[n] = a[n]
  BY <1>3
<1>5. PICK t : t = Tail(s)
  BY Zenon
<1>6. Len(s) \in Nat /\ Len(s) > 0 /\ Len(t) = Len(s) - 1 /\ Head(s) = s[1]
      /\ \A n \in 1..Len(t) : t[n] = s[n + 1]
  BY <1>5
<1>7. Len(q) = Len(b) + Len(t)
  BY <1>1, <1>4, <1>6 DEF InStep
<1>8. ASSUME NEW n \in 1..Len(b) PROVE q[n] = b[n].call
  <2>1. CASE n \in 1..Len(a)
    BY <1>1, <1>4, <2>1, Zenon DEF InStep
  <2>2. CASE n = Len(a) + 1
    BY <1>1, <1>4, <1>6, <2>2, 1 \in 1..Len(s) DEF InStep
  <2> QED BY <1>4, <2>1, <2>2
<1>9. ASSUME NEW n \in 1..Len(t) PROVE q[Len(b) + n] = t[n]
  <2>1. n + 1 \in 1..Len(s) /\ Len(b) + n = Len(a) + (n + 1) /\ t[n] = s[n + 1]
    BY <1>4, <1>6
  <2> QED BY <1>1, <2>1, Zenon DEF InStep
<1> QED BY <1>2, <1>5, <1>7, <1>8, <1>9, Zenon DEF InStep

\* The reader takes an answer off: it is the first command's, and the rest stays in step.
LEMMA ReadInStep ==
  ASSUME NEW ls \in Seq(LineRec), ls # <<>>, ls[1].kind # "DATA",
         NEW s \in Seq(Call), NEW q \in Seq(Call), InStep(q, AnswersOf(ls), s)
  PROVE  /\ Len(q) > 0 /\ q # <<>> /\ q[1] = ls[1].call
         /\ InStep(Tail(q), AnswersOf(Tail(ls)), s)
<1>1. PICK a : a = AnswersOf(ls)
  OBVIOUS
<1>2. PICK b : b = AnswersOf(Tail(ls))
  OBVIOUS
<1>3. a \in Seq(LineRec) /\ b \in Seq(LineRec) /\ a = <<ls[1]>> \o b
  BY <1>1, <1>2, AnswersTail
<1>4. PICK h : h = <<ls[1]>>
  BY Zenon
<1>5. h \in Seq(LineRec) /\ Len(h) = 1 /\ h[1] = ls[1]
  BY <1>4
<1>6. /\ Len(b) \in Nat /\ Len(a) = Len(b) + 1
      /\ \A n \in 1..(1 + Len(b)) : a[n] = IF n <= 1 THEN h[n] ELSE b[n - 1]
  BY <1>3, <1>4, <1>5, ConcatProperties
<1>7. a[1] = ls[1]
  BY <1>5, <1>6
<1>8. ASSUME NEW n \in 1..Len(b) PROVE a[n + 1] = b[n]
  <2>1. n + 1 \in 1..(1 + Len(b)) /\ ~(n + 1 <= 1) /\ (n + 1) - 1 = n
    BY <1>6
  <2> QED BY <1>6, <2>1
<1>9. Len(q) \in Nat /\ Len(s) \in Nat /\ Len(q) = Len(b) + 1 + Len(s) /\ Len(q) > 0 /\ q # <<>>
  BY <1>1, <1>6 DEF InStep
<1>10. q[1] = ls[1].call
  BY <1>1, <1>6, <1>7, 1 \in 1..Len(a) DEF InStep
<1>11. PICK t : t = Tail(q)
  BY Zenon
<1>12. Len(t) = Len(q) - 1 /\ \A n \in 1..(Len(q) - 1) : t[n] = q[n + 1]
  BY <1>9, <1>11
<1>13. ASSUME NEW n \in 1..Len(b) PROVE t[n] = b[n].call
  <2>1. n + 1 \in 1..Len(a) /\ n \in 1..(Len(q) - 1)
    BY <1>6, <1>9
  <2> QED BY <1>1, <1>8, <1>12, <2>1, Zenon DEF InStep
<1>14. ASSUME NEW n \in 1..Len(s) PROVE t[Len(b) + n] = s[n]
  <2>1. Len(b) + n \in 1..(Len(q) - 1) /\ (Len(b) + n) + 1 = Len(a) + n
    BY <1>6, <1>9
  <2> QED BY <1>1, <1>12, <2>1, Zenon DEF InStep
<1> QED BY <1>2, <1>9, <1>10, <1>11, <1>12, <1>13, <1>14 DEF InStep

-----------------------------------------------------------------------------
(* The lines of an id *)

LineInv == Identified /\ Alternate /\ LastLine /\ FirstLine /\ NoLine

\* The daemon writes a line: without an id, or the OK line of an id that is free, or the
\* DATA line of one it probes for.
Writes(line) ==
  /\ line \in LineRec /\ lines' = Append(lines, line)
  /\ waiters' = waiters
  /\ \/ line.id = None /\ line.kind # "DATA" /\ probing' = probing
     \/ /\ line.id \in DataId /\ line.kind = "OK" /\ probing[line.id] = None
        /\ probing' = [probing EXCEPT ![line.id] = line.call]
     \/ /\ line.id \in DataId /\ line.kind = "DATA" /\ probing[line.id] = line.call
        /\ probing' = [probing EXCEPT ![line.id] = None]

LEMMA WritesPreserves ==
  ASSUME TypeOK, LineInv, NEW line, Writes(line)
  PROVE  LineInv'
<1> USE ScamperAssumption
<1> DEFINE N == Len(lines) + 1
<1>1. lines \in Seq(LineRec) /\ line \in LineRec
  BY DEF TypeOK, LineRec, Writes
<1>2. Longer(lines', lines, line) /\ Elements(lines) /\ Elements(lines')
  <2>1. Longer(lines', lines, line)
    BY <1>1, AppendLonger, Zenon DEF Writes
  <2> QED BY <1>1, <2>1, LineElements DEF Longer
<1>3. /\ line.kind \in {"OK", "ERR", "DATA"} /\ line.call \in Call /\ line.call # None
      /\ line.id \in DataId \cup {None}
  BY <1>1 DEF LineRec
<1>4. /\ N \in DOMAIN lines' /\ lines'[N] = line /\ N \in Nat
      /\ \A p \in DOMAIN lines' : p = N \/ (p \in DOMAIN lines /\ lines'[p] = lines[p] /\ p < N)
      /\ \A p \in DOMAIN lines : p \in DOMAIN lines' /\ lines'[p] = lines[p] /\ p \in Nat /\ p < N
  BY <1>2 DEF Longer, Elements
<1>5. /\ line.id = None \/ probing'[line.id] = IF line.kind = "OK" THEN line.call ELSE None
      /\ line.id = None \/ probing[line.id] = IF line.kind = "OK" THEN None ELSE line.call
      /\ \A i \in DataId : i # line.id => probing'[i] = probing[i]
      /\ waiters' = waiters
      /\ line.kind = "ERR" => line.id = None
      /\ line.kind = "DATA" => line.id # None
  BY <1>3 DEF Writes, TypeOK
<1> HIDE DEF N
<1>6. Identified'
  BY <1>4, <1>5 DEF LineInv, Identified
<1>7. Alternate'
  <2> SUFFICES ASSUME NEW p \in DOMAIN lines', NEW q \in DOMAIN lines', p < q,
                      lines'[p].id = lines'[q].id, lines'[p].id # None,
                      \A r \in (p + 1)..(q - 1) : lines'[r].id # lines'[p].id
               PROVE  IF lines'[p].kind = "OK"
                      THEN lines'[q].kind = "DATA" /\ lines'[q].call = lines'[p].call
                      ELSE lines'[q].kind = "OK"
    BY DEF Alternate
  <2>1. p \in DOMAIN lines /\ lines'[p] = lines[p] /\ p \in Nat /\ q \in Nat
    BY <1>2, <1>4 DEF Longer, Elements
  <2>2. CASE q = N
    <3>1. ASSUME NEW r \in DOMAIN lines, r > p PROVE lines[r].id # lines[p].id
      <4>1. r \in (p + 1)..(q - 1)
        BY <1>4, <2>1, <2>2, <3>1
      <4> QED BY <1>4, <2>1, <4>1
    <3>2. probing[lines[p].id] = IF lines[p].kind = "OK" THEN lines[p].call ELSE None
      BY <2>1, <3>1 DEF LineInv, LastLine
    <3>3. lines[p].call \in Call /\ lines[p].call # None
      BY <1>2, <2>1 DEF Elements
    <3> QED BY <1>3, <1>4, <1>5, <2>1, <2>2, <3>2, <3>3
  <2>3. CASE q # N
    <3>1. q \in DOMAIN lines /\ lines'[q] = lines[q]
      BY <1>4, <2>3
    <3>2. ASSUME NEW r \in (p + 1)..(q - 1) PROVE lines[r].id # lines[p].id
      <4>1. r \in DOMAIN lines
        BY <1>2, <2>1, <3>1 DEF Elements
      <4> QED BY <1>4, <2>1, <4>1
    <3> QED BY <2>1, <3>1, <3>2 DEF LineInv, Alternate
  <2> QED BY <2>2, <2>3
<1>8. LastLine'
  <2> SUFFICES ASSUME NEW p \in DOMAIN lines', lines'[p].id # None,
                      \A r \in DOMAIN lines' : r > p => lines'[r].id # lines'[p].id
               PROVE  probing'[lines'[p].id] = IF lines'[p].kind = "OK" THEN lines'[p].call ELSE None
    BY DEF LastLine
  <2>1. CASE p = N
    BY <1>4, <1>5, <2>1
  <2>2. CASE p # N
    <3>1. p \in DOMAIN lines /\ lines'[p] = lines[p] /\ N > p
      BY <1>4, <2>2
    <3>2. lines[p].id \in DataId /\ lines[p].id # line.id
      BY <1>2, <1>4, <3>1 DEF Elements
    <3>3. \A r \in DOMAIN lines : r > p => lines[r].id # lines[p].id
      BY <1>4, <3>1
    <3>4. probing[lines[p].id] = IF lines[p].kind = "OK" THEN lines[p].call ELSE None
      BY <3>1, <3>2, <3>3 DEF LineInv, LastLine
    <3> QED BY <1>5, <3>1, <3>2, <3>4
  <2> QED BY <2>1, <2>2
<1>9. FirstLine'
  <2> SUFFICES ASSUME NEW p \in DOMAIN lines', lines'[p].id # None,
                      \A r \in DOMAIN lines' : r < p => lines'[r].id # lines'[p].id
               PROVE  waiters'[lines'[p].id] = IF lines'[p].kind = "OK" THEN None ELSE lines'[p].call
    BY DEF FirstLine
  <2>1. CASE p = N
    <3>1. line.id \in DataId /\ \A r \in DOMAIN lines : lines[r].id # line.id
      BY <1>3, <1>4, <2>1
    <3>2. probing[line.id] = waiters[line.id]
      BY <3>1 DEF LineInv, NoLine
    <3> QED BY <1>4, <1>5, <2>1, <3>1, <3>2
  <2>2. CASE p # N
    <3>1. p \in DOMAIN lines /\ lines'[p] = lines[p]
      BY <1>4, <2>2
    <3>2. \A r \in DOMAIN lines : r < p => lines[r].id # lines[p].id
      BY <1>4, <3>1
    <3> QED BY <1>5, <3>1, <3>2 DEF LineInv, FirstLine
  <2> QED BY <2>1, <2>2
<1>10. NoLine'
  <2> SUFFICES ASSUME NEW i \in DataId, \A p \in DOMAIN lines' : lines'[p].id # i
               PROVE  probing'[i] = waiters'[i]
    BY DEF NoLine
  <2>1. i # line.id /\ \A p \in DOMAIN lines : lines[p].id # i
    BY <1>4
  <2> QED BY <1>5, <2>1 DEF LineInv, NoLine
<1> QED BY <1>6, <1>7, <1>8, <1>9, <1>10 DEF LineInv

\* The reader takes the first line off and registers or clears its id.
Takes(line) ==
  /\ lines # <<>> /\ lines' = Tail(lines) /\ line = lines[1]
  /\ probing' = probing
  /\ \/ line.id = None /\ waiters' = waiters
     \/ /\ line.id \in DataId
        /\ waiters' = [waiters EXCEPT ![line.id] = IF line.kind = "OK" THEN line.call ELSE None]

LEMMA TakesPreserves ==
  ASSUME TypeOK, LineInv, NEW line, Takes(line)
  PROVE  LineInv'
<1> USE ScamperAssumption
<1>1. lines \in Seq(LineRec) /\ lines # <<>> /\ lines' = Tail(lines) /\ line = lines[1]
  BY DEF TypeOK, LineRec, Takes
<1>2. Shorter(lines', lines) /\ Elements(lines) /\ Elements(lines')
  <2>1. Shorter(lines', lines)
    BY <1>1, TailShorter, Zenon
  <2> QED BY <1>1, <2>1, LineElements, Zenon DEF Shorter
<1>3. /\ 1 \in DOMAIN lines /\ lines[1] = line
      /\ \A p \in DOMAIN lines' : p \in Nat /\ p >= 1 /\ p + 1 \in DOMAIN lines /\ lines'[p] = lines[p + 1]
      /\ \A p \in DOMAIN lines : p \in Nat /\
           (p = 1 \/ (p - 1 \in DOMAIN lines' /\ lines[p] = lines'[p - 1] /\ p > 1))
  <2>1. ASSUME NEW p \in DOMAIN lines, p # 1
        PROVE  p \in Nat /\ p > 1 /\ p - 1 \in DOMAIN lines' /\ (p - 1) + 1 = p
    BY <1>2, <2>1 DEF Shorter, Elements
  <2>2. ASSUME NEW p \in DOMAIN lines, p # 1
        PROVE  lines[p] = lines'[p - 1]
    BY <1>2, <2>1, <2>2 DEF Shorter
  <2> QED BY <1>1, <1>2, <2>1, <2>2 DEF Shorter, Elements
<1>4. /\ line.kind \in {"OK", "ERR", "DATA"} /\ line.call \in Call /\ line.id \in DataId \cup {None}
      /\ line.kind = "ERR" => line.id = None
      /\ line.kind = "DATA" => line.id # None
  BY <1>2, <1>3 DEF Elements, LineInv, Identified
<1>5. /\ line.id # None => waiters'[line.id] = IF line.kind = "OK" THEN line.call ELSE None
      /\ \A i \in DataId : i # line.id => waiters'[i] = waiters[i]
      /\ probing' = probing
  BY DEF Takes, TypeOK
<1>6. Identified'
  BY <1>3 DEF LineInv, Identified
<1>7. Alternate'
  <2> SUFFICES ASSUME NEW p \in DOMAIN lines', NEW q \in DOMAIN lines', p < q,
                      lines'[p].id = lines'[q].id, lines'[p].id # None,
                      \A r \in (p + 1)..(q - 1) : lines'[r].id # lines'[p].id
               PROVE  IF lines'[p].kind = "OK"
                      THEN lines'[q].kind = "DATA" /\ lines'[q].call = lines'[p].call
                      ELSE lines'[q].kind = "OK"
    BY DEF Alternate
  <2>1. /\ p \in Nat /\ p + 1 \in DOMAIN lines /\ lines'[p] = lines[p + 1]
        /\ q \in Nat /\ q + 1 \in DOMAIN lines /\ lines'[q] = lines[q + 1] /\ p + 1 < q + 1
    BY <1>3
  <2>2. ASSUME NEW r \in ((p + 1) + 1)..((q + 1) - 1) PROVE lines[r].id # lines[p + 1].id
    <3>1. r - 1 \in (p + 1)..(q - 1) /\ r \in DOMAIN lines /\ r # 1
      BY <1>2, <2>1 DEF Elements
    <3>2. lines[r] = lines'[r - 1]
      BY <1>3, <3>1
    <3> QED BY <2>1, <3>1, <3>2
  <2> QED BY <2>1, <2>2 DEF LineInv, Alternate
<1>8. LastLine'
  <2> SUFFICES ASSUME NEW p \in DOMAIN lines', lines'[p].id # None,
                      \A r \in DOMAIN lines' : r > p => lines'[r].id # lines'[p].id
               PROVE  probing'[lines'[p].id] = IF lines'[p].kind = "OK" THEN lines'[p].call ELSE None
    BY DEF LastLine
  <2>1. p \in Nat /\ p >= 1 /\ p + 1 \in DOMAIN lines /\ lines'[p] = lines[p + 1]
    BY <1>3
  <2>2. ASSUME NEW r \in DOMAIN lines, r > p + 1 PROVE lines[r].id # lines[p + 1].id
    <3>1. r - 1 \in DOMAIN lines' /\ lines[r] = lines'[r - 1] /\ r - 1 > p
      BY <1>3, <2>1, <2>2
    <3> QED BY <2>1, <3>1
  <2> QED BY <1>5, <2>1, <2>2 DEF LineInv, LastLine
<1>9. FirstLine'
  <2> SUFFICES ASSUME NEW p \in DOMAIN lines', lines'[p].id # None,
                      \A r \in DOMAIN lines' : r < p => lines'[r].id # lines'[p].id
               PROVE  waiters'[lines'[p].id] = IF lines'[p].kind = "OK" THEN None ELSE lines'[p].call
    BY DEF FirstLine
  <2>1. /\ p \in Nat /\ p >= 1 /\ p + 1 \in DOMAIN lines /\ lines'[p] = lines[p + 1]
        /\ lines'[p].id \in DataId /\ lines'[p].kind \in {"OK", "ERR", "DATA"}
    BY <1>2, <1>3 DEF Elements
  <2>2. ASSUME NEW r \in DOMAIN lines, r # 1, r < p + 1 PROVE lines[r].id # lines[p + 1].id
    <3>1. r - 1 \in DOMAIN lines' /\ lines[r] = lines'[r - 1] /\ r - 1 < p
      BY <1>3, <2>1, <2>2
    <3> QED BY <2>1, <3>1
  <2>3. CASE line.id = lines'[p].id
    <3>1. ASSUME NEW r \in (1 + 1)..((p + 1) - 1) PROVE lines[r].id # lines[1].id
      <4>1. r \in DOMAIN lines /\ r # 1 /\ r < p + 1
        BY <1>2, <2>1 DEF Elements
      <4> QED BY <1>3, <2>1, <2>2, <2>3, <4>1
    <3>2. 1 < p + 1 /\ lines[1].id = lines[p + 1].id /\ lines[1].id # None
      BY <1>3, <2>1, <2>3
    <3>3. IF lines[1].kind = "OK"
          THEN lines[p + 1].kind = "DATA" /\ lines[p + 1].call = lines[1].call
          ELSE lines[p + 1].kind = "OK"
      BY <1>3, <2>1, <3>1, <3>2 DEF LineInv, Alternate
    <3> QED BY <1>3, <1>5, <2>1, <2>3, <3>3
  <2>4. CASE line.id # lines'[p].id
    <3>1. \A r \in DOMAIN lines : r < p + 1 => lines[r].id # lines[p + 1].id
      BY <1>3, <2>1, <2>2, <2>4
    <3>2. waiters[lines[p + 1].id] = IF lines[p + 1].kind = "OK" THEN None ELSE lines[p + 1].call
      BY <2>1, <3>1 DEF LineInv, FirstLine
    <3> QED BY <1>5, <2>1, <2>4, <3>2
  <2> QED BY <2>3, <2>4
<1>10. NoLine'
  <2> SUFFICES ASSUME NEW i \in DataId, \A p \in DOMAIN lines' : lines'[p].id # i
               PROVE  probing'[i] = waiters'[i]
    BY DEF NoLine
  <2>1. \A p \in DOMAIN lines : p # 1 => lines[p].id # i
    BY <1>3
  <2>2. CASE line.id = i
    <3>1. \A r \in DOMAIN lines : r > 1 => lines[r].id # lines[1].id
      BY <1>3, <2>1, <2>2
    <3>2. probing[lines[1].id] = IF lines[1].kind = "OK" THEN lines[1].call ELSE None
      BY <1>3, <2>2, <3>1 DEF LineInv, LastLine
    <3> QED BY <1>3, <1>5, <2>2, <3>2
  <2>3. CASE line.id # i
    BY <1>3, <1>5, <2>1, <2>3 DEF LineInv, NoLine
  <2> QED BY <2>2, <2>3
<1> QED BY <1>6, <1>7, <1>8, <1>9, <1>10 DEF LineInv

-----------------------------------------------------------------------------
(* The steps *)

QueueOK == InStep(pendingQ, AnswersOf(lines), socket)

LEMMA QueueIsInStep == ASSUME TypeOK PROVE QueueInStep <=> QueueOK
<1>1. lines \in Seq(LineRec) /\ pendingQ \in Seq(Call) /\ socket \in Seq(Call)
  BY DEF TypeOK, LineRec
<1>2. PICK a : a = AnswersOf(lines)
  OBVIOUS
<1>3. a \in Seq(LineRec)
  BY <1>1, <1>2, ElementsAtElements DEF AnswersOf
<1>4. Answers = a
  BY <1>2 DEF Answers, AnswersOf
<1>5. (pendingQ = [n \in 1..Len(a) |-> a[n].call] \o socket) <=> InStep(pendingQ, a, socket)
  BY <1>1, <1>3, InStepIsEqual, Zenon
<1>6. QueueOK <=> InStep(pendingQ, a, socket)
  BY <1>2 DEF QueueOK
<1>7. QueueInStep <=> (pendingQ = [n \in 1..Len(a) |-> a[n].call] \o socket)
  BY <1>4, Zenon DEF QueueInStep
<1> QED BY <1>5, <1>6, <1>7, Zenon

Inv == TypeOK /\ LineInv /\ Once /\ OwnData /\ ReaderNeverBlocks /\ QueueOK

LEMMA InvIsIInv == Inv <=> IInv
BY QueueIsInStep DEF Inv, IInv, LineInv

\* Nothing but phases of calls that are no longer idle, or the two flags, changes.
LEMMA PhasePreserves ==
  ASSUME Inv, UNCHANGED <<socket, probing, lines, pendingQ, waiters, channel>>,
         phase' \in [Call -> {"idle", "waiting", "answered", "cancelled", "error"}],
         \A c \in Call : phase'[c] = phase[c] \/ phase'[c] # "idle",
         daemon' \in BOOLEAN, reader' \in BOOLEAN
  PROVE  Inv'
<1>1. TypeOK'
  BY DEF Inv, TypeOK
<1>2. LineInv'
  BY DEF Inv, LineInv, Identified, Alternate, LastLine, FirstLine, NoLine
<1>3. Once'
  <2>1. \A n \in DOMAIN pendingQ : pendingQ[n] \in Call
    BY DEF Inv, TypeOK
  <2>2. \A i \in DataId : waiters[i] # None => waiters[i] \in Call
    BY DEF Inv, TypeOK
  <2> QED BY <2>1, <2>2 DEF Inv, Once
<1>4. OwnData' /\ ReaderNeverBlocks' /\ QueueOK'
  BY DEF Inv, OwnData, ReaderNeverBlocks, QueueOK
<1> QED BY <1>1, <1>2, <1>3, <1>4 DEF Inv

LEMMA SendPreserves == ASSUME Inv, NEW c \in Call, Send(c) PROVE Inv'
<1>1. CASE ~daemon
  <2>1. /\ phase' = [phase EXCEPT ![c] = "error"] /\ daemon' = daemon /\ reader' = reader
        /\ UNCHANGED <<socket, probing, lines, pendingQ, waiters, channel>>
    BY <1>1 DEF Send
  <2>2. /\ phase' \in [Call -> {"idle", "waiting", "answered", "cancelled", "error"}]
        /\ \A d \in Call : phase'[d] = phase[d] \/ phase'[d] # "idle"
        /\ daemon' \in BOOLEAN /\ reader' \in BOOLEAN
    BY <2>1 DEF Inv, TypeOK
  <2> QED BY <2>1, <2>2, PhasePreserves
<1>2. CASE daemon
  <2>1. /\ phase[c] = "idle"
        /\ socket' = Append(socket, c) /\ pendingQ' = Append(pendingQ, c)
        /\ phase' = [phase EXCEPT ![c] = "waiting"]
        /\ UNCHANGED <<probing, lines, waiters, channel, daemon, reader>>
    BY <1>2 DEF Send
  <2>2. TypeOK'
    BY <2>1 DEF Inv, TypeOK
  <2>3. LineInv'
    BY <2>1 DEF Inv, LineInv, Identified, Alternate, LastLine, FirstLine, NoLine
  <2>4. /\ DOMAIN pendingQ' = 1..(Len(pendingQ) + 1) /\ DOMAIN pendingQ = 1..Len(pendingQ)
        /\ Len(pendingQ) \in Nat /\ pendingQ'[Len(pendingQ) + 1] = c
        /\ Len(pendingQ') = Len(pendingQ) + 1
        /\ \A n \in 1..Len(pendingQ) : pendingQ'[n] = pendingQ[n] /\ pendingQ[n] \in Call
    BY <2>1 DEF Inv, TypeOK
  <2>5. \A d \in Call : phase'[d] = IF d = c THEN "waiting" ELSE phase[d]
    BY <2>1 DEF Inv, TypeOK
  <2>6. /\ \A n \in 1..Len(pendingQ) : pendingQ[n] # c
        /\ \A i \in DataId : waiters[i] # c
        /\ Len(channel[c]) = 0
    <3>1. c # None /\ Len(channel[c]) = 0
      BY <2>1, ScamperAssumption DEF Inv, Once
    <3>2. \A n \in 1..Len(pendingQ) : phase[pendingQ[n]] # "idle"
      BY <2>4 DEF Inv, Once
    <3>3. \A i \in DataId : waiters[i] # None => phase[waiters[i]] # "idle"
      BY DEF Inv, Once
    <3> QED BY <2>1, <3>1, <3>2, <3>3
  <2>7. Once'
    <3>1. \A m, n \in DOMAIN pendingQ' : pendingQ'[m] = pendingQ'[n] => m = n
      <4>1. \A m, n \in 1..Len(pendingQ) : pendingQ[m] = pendingQ[n] => m = n
        BY <2>4 DEF Inv, Once
      <4> QED BY <2>4, <2>6, <4>1
    <3>2. ASSUME NEW n \in DOMAIN pendingQ'
          PROVE  /\ Len(channel[pendingQ'[n]]) = 0 /\ phase'[pendingQ'[n]] # "idle"
                 /\ \A i \in DataId : waiters[i] # pendingQ'[n]
      <4>1. CASE n = Len(pendingQ) + 1
        BY <2>4, <2>5, <2>6, <4>1
      <4>2. CASE n \in 1..Len(pendingQ)
        BY <2>4, <2>5, <4>2 DEF Inv, Once
      <4> QED BY <2>4, <4>1, <4>2
    <3>3. \A i \in DataId : waiters[i] # None =>
            /\ Len(channel[waiters[i]]) = 0 /\ phase'[waiters[i]] # "idle"
            /\ \A j \in DataId : waiters[j] = waiters[i] => i = j
      BY <2>5 DEF Inv, Once, TypeOK
    <3>4. \A d \in Call : phase'[d] = "idle" => Len(channel[d]) = 0
      BY <2>5 DEF Inv, Once
    <3> QED BY <2>1, <3>1, <3>2, <3>3, <3>4 DEF Once
  <2>8. OwnData' /\ ReaderNeverBlocks'
    BY <2>1 DEF Inv, OwnData, ReaderNeverBlocks
  <2>9. QueueOK'
    <3>1. PICK a : a = AnswersOf(lines)
      OBVIOUS
    <3>2. a \in Seq(LineRec)
      BY <3>1, ElementsAtElements DEF AnswersOf, Inv, TypeOK, LineRec
    <3>3. InStep(pendingQ, a, socket)
      BY <3>1 DEF Inv, QueueOK
    <3>4. /\ Len(socket) \in Nat /\ Len(socket') = Len(socket) + 1 /\ socket'[Len(socket) + 1] = c
          /\ \A n \in 1..Len(socket) : socket'[n] = socket[n]
      BY <2>1 DEF Inv, TypeOK
    <3>5. Len(a) \in Nat
      BY <3>2
    <3>6. Len(pendingQ') = Len(a) + Len(socket')
      BY <2>4, <3>3, <3>4, <3>5 DEF InStep
    <3>7. ASSUME NEW n \in 1..Len(a) PROVE pendingQ'[n] = a[n].call
      BY <2>4, <3>3, <3>4, <3>5 DEF InStep
    <3>8. ASSUME NEW n \in 1..Len(socket') PROVE pendingQ'[Len(a) + n] = socket'[n]
      <4>1. CASE n \in 1..Len(socket)
        <5>1. Len(a) + n \in 1..Len(pendingQ)
          BY <2>4, <3>3, <3>4, <3>5, <4>1 DEF InStep
        <5> QED BY <2>4, <3>3, <3>4, <4>1, <5>1 DEF InStep
      <4>2. CASE n = Len(socket) + 1
        <5>1. Len(a) + n = Len(pendingQ) + 1
          BY <2>4, <3>3, <3>4, <3>5, <4>2 DEF InStep
        <5> QED BY <2>4, <3>4, <4>2, <5>1
      <4> QED BY <3>4, <4>1, <4>2
    <3>9. InStep(pendingQ', a, socket')
      BY <3>6, <3>7, <3>8 DEF InStep
    <3>10. AnswersOf(lines') = a
      BY <2>1, <3>1
    <3> QED BY <3>9, <3>10 DEF QueueOK
  <2> QED BY <2>2, <2>3, <2>7, <2>8, <2>9 DEF Inv
<1> QED BY <1>1, <1>2

\* The daemon answers a command, and nobody else moves.
LEMMA AnswerPreserves ==
  ASSUME Inv, NEW line, Writes(line), socket # <<>>, line.kind # "DATA", line.call = Head(socket),
         socket' = Tail(socket), UNCHANGED <<phase, pendingQ, waiters, channel, daemon, reader>>,
         probing' \in [DataId -> Call \cup {None}]
  PROVE  Inv'
<1>1. TypeOK'
  <2>1. lines' \in Seq(LineRec)
    BY AppendLonger DEF Inv, TypeOK, Writes, LineRec, Longer
  <2> QED BY <2>1 DEF Inv, TypeOK, LineRec
<1>2. LineInv'
  BY WritesPreserves DEF Inv
<1>3. Once' /\ OwnData' /\ ReaderNeverBlocks'
  BY DEF Inv, Once, OwnData, ReaderNeverBlocks
<1>4. QueueOK'
  <2>1. lines \in Seq(LineRec) /\ line \in LineRec /\ socket \in Seq(Call) /\ pendingQ \in Seq(Call)
    BY DEF Inv, TypeOK, Writes, LineRec
  <2>2. InStep(pendingQ, AnswersOf(Append(lines, line)), Tail(socket))
    BY <2>1, AnswerInStep DEF Inv, QueueOK
  <2> QED BY <2>2 DEF QueueOK, Writes
<1> QED BY <1>1, <1>2, <1>3, <1>4 DEF Inv

LEMMA AcceptPreserves == ASSUME Inv, Accept PROVE Inv'
<1> USE ScamperAssumption
<1>1. socket # <<>> /\ Head(socket) \in Call
  BY DEF Accept, Inv, TypeOK
<1>2. CASE Head(socket) = Attach
  <2>1. PICK line : line = Line("OK", None, Attach)
    OBVIOUS
  <2>2. line \in LineRec /\ line.kind = "OK" /\ line.id = None /\ line.call = Attach
    BY <2>1 DEF Line, LineRec
  <2>3. lines' = Append(lines, line) /\ probing' = probing
    BY <1>2, <2>1 DEF Accept
  <2>4. Writes(line)
    BY <2>2, <2>3 DEF Writes, Accept
  <2> QED BY <1>1, <1>2, <2>2, <2>3, <2>4, AnswerPreserves DEF Accept, Inv, TypeOK
<1>3. CASE Head(socket) # Attach
  <2>1. PICK i \in DataId : /\ probing[i] = None
                            /\ probing' = [probing EXCEPT ![i] = Head(socket)]
                            /\ lines' = Append(lines, Line("OK", i, Head(socket)))
    BY <1>3 DEF Accept
  <2>2. PICK line : line = Line("OK", i, Head(socket))
    OBVIOUS
  <2>3. line \in LineRec /\ line.kind = "OK" /\ line.id = i /\ line.call = Head(socket)
    BY <1>1, <2>2 DEF Line, LineRec
  <2>4. Writes(line)
    BY <2>1, <2>2, <2>3, Zenon DEF Writes, Accept
  <2>5. probing' \in [DataId -> Call \cup {None}]
    BY <1>1, <2>1 DEF Inv, TypeOK
  <2> QED BY <1>1, <2>3, <2>4, <2>5, AnswerPreserves DEF Accept
<1> QED BY <1>2, <1>3

LEMMA RefusePreserves == ASSUME Inv, Refuse PROVE Inv'
<1>1. socket # <<>> /\ Head(socket) \in Call
  BY DEF Refuse, Inv, TypeOK
<1>2. PICK line : line = Line("ERR", None, Head(socket))
  OBVIOUS
<1>3. line \in LineRec /\ line.kind = "ERR" /\ line.id = None /\ line.call = Head(socket)
  BY <1>1, <1>2 DEF Line, LineRec
<1>4. Writes(line)
  BY <1>2, <1>3 DEF Writes, Refuse
<1> QED BY <1>1, <1>3, <1>4, AnswerPreserves, Zenon DEF Refuse, Inv, TypeOK

LEMMA ProbedPreserves == ASSUME Inv, NEW i \in DataId, Probed(i) PROVE Inv'
<1> USE ScamperAssumption
<1>1. probing[i] \in Call /\ UNCHANGED <<phase, socket, pendingQ, waiters, channel, daemon, reader>>
  BY DEF Probed, Inv, TypeOK
<1>2. PICK line : line = Line("DATA", i, probing[i])
  OBVIOUS
<1>3. line \in LineRec /\ line.kind = "DATA" /\ line.id = i /\ line.call = probing[i]
  BY <1>1, <1>2 DEF Line, LineRec
<1>4. Writes(line)
  BY <1>2, <1>3, Zenon DEF Writes, Probed
<1>5. TypeOK'
  <2>1. lines' \in Seq(LineRec)
    BY <1>4, AppendLonger DEF Inv, TypeOK, Writes, LineRec, Longer
  <2>2. probing' \in [DataId -> Call \cup {None}]
    BY DEF Inv, TypeOK, Probed
  <2> QED BY <1>1, <2>1, <2>2 DEF Inv, TypeOK, LineRec
<1>6. LineInv'
  BY <1>4, WritesPreserves DEF Inv
<1>7. Once' /\ OwnData' /\ ReaderNeverBlocks'
  BY <1>1 DEF Inv, Once, OwnData, ReaderNeverBlocks
<1>8. QueueOK'
  <2>1. lines \in Seq(LineRec)
    BY DEF Inv, TypeOK, LineRec
  <2>2. AnswersOf(Append(lines, line)) = AnswersOf(lines)
    BY <1>3, <2>1, AnswersAppend
  <2> QED BY <1>1, <1>4, <2>2 DEF Inv, QueueOK, Writes
<1> QED BY <1>5, <1>6, <1>7, <1>8 DEF Inv

\* An ERR or OK line: the reader takes the call off the queue that the line answers.
LEMMA ReadAnswer ==
  ASSUME Inv, lines # <<>>, lines[1].kind # "DATA"
  PROVE  /\ pendingQ # <<>> /\ pendingQ[1] = lines[1].call /\ Head(pendingQ) = lines[1].call
         /\ Tail(pendingQ) \in Seq(Call)
         /\ InStep(Tail(pendingQ), AnswersOf(Tail(lines)), socket)
         /\ DOMAIN Tail(pendingQ) = 1..(Len(pendingQ) - 1)
         /\ Len(pendingQ) \in Nat /\ Len(pendingQ) > 0 /\ DOMAIN pendingQ = 1..Len(pendingQ)
         /\ \A n \in 1..(Len(pendingQ) - 1) : Tail(pendingQ)[n] = pendingQ[n + 1]
<1>1. lines \in Seq(LineRec) /\ socket \in Seq(Call) /\ pendingQ \in Seq(Call)
  BY DEF Inv, TypeOK, LineRec
<1>2. /\ Len(pendingQ) > 0 /\ pendingQ # <<>> /\ pendingQ[1] = lines[1].call
      /\ InStep(Tail(pendingQ), AnswersOf(Tail(lines)), socket)
  BY <1>1, ReadInStep DEF Inv, QueueOK
<1> QED BY <1>1, <1>2

\* What is left of the queue, of the calls registered and of the channels when the first call
\* of the queue is dropped, registered or answered, or a registered call is answered.
Moves(line) ==
  \/ /\ line.kind = "ERR" /\ line.id = None
     /\ pendingQ' = Tail(pendingQ) /\ waiters' = waiters /\ channel' = channel
  \/ /\ line.kind = "OK" /\ line.id = None
     /\ pendingQ' = Tail(pendingQ) /\ waiters' = waiters
     /\ channel' = [channel EXCEPT ![line.call] = Append(@, line.call)]
  \/ /\ line.kind = "OK" /\ line.id \in DataId
     /\ pendingQ' = Tail(pendingQ) /\ channel' = channel
     /\ waiters' = [waiters EXCEPT ![line.id] = line.call]
  \/ /\ line.kind = "DATA" /\ line.id \in DataId /\ waiters[line.id] = line.call
     /\ pendingQ' = pendingQ
     /\ channel' = [channel EXCEPT ![line.call] = Append(@, line.call)]
     /\ waiters' = [waiters EXCEPT ![line.id] = None]

LEMMA ReadMoves ==
  ASSUME Inv, Read
  PROVE  /\ lines # <<>> /\ lines' = Tail(lines)
         /\ lines[1].call \in Call /\ lines[1].call # None
         /\ UNCHANGED <<phase, socket, probing, daemon, reader>>
         /\ Moves(lines[1])
         /\ Takes(lines[1])
<1> USE ScamperAssumption
<1>1. PICK line : line = lines[1]
  OBVIOUS
<1>2. /\ lines # <<>> /\ lines' = Tail(lines) /\ Head(lines) = line
      /\ UNCHANGED <<phase, socket, probing, daemon, reader>>
      /\ ReadErr(line) \/ ReadOk(line) \/ ReadData(line)
  BY <1>1 DEF Read, Inv, TypeOK
<1>3. lines \in Seq(LineRec) /\ 1 \in DOMAIN lines
  BY <1>2 DEF Inv, TypeOK, LineRec
<1>4. /\ line.kind \in {"OK", "ERR", "DATA"} /\ line.call \in Call /\ line.call # None
      /\ line.id \in DataId \cup {None}
      /\ line.kind = "ERR" => line.id = None
      /\ line.kind = "DATA" => line.id # None
      /\ line.id # None => waiters[line.id] = IF line.kind = "OK" THEN None ELSE line.call
  <2>1. Elements(lines)
    BY <1>3, LineElements
  <2>2. \A r \in DOMAIN lines : ~(r < 1)
    BY <2>1 DEF Elements
  <2> QED BY <1>1, <1>3, <2>1, <2>2 DEF Elements, Inv, LineInv, Identified, FirstLine
<1>5. Moves(line)
  <2>1. CASE line.kind = "DATA"
    <3>1. ReadData(line)
      BY <1>2, <2>1 DEF ReadErr, ReadOk
    <3>2. line.id \in DataId /\ waiters[line.id] = line.call
      BY <1>4, <2>1
    <3> QED BY <1>4, <2>1, <3>1, <3>2 DEF ReadData, Deliver, Moves
  <2>2. CASE line.kind = "ERR"
    <3>1. ReadErr(line)
      BY <1>2, <2>2 DEF ReadData, ReadOk
    <3>2. pendingQ # <<>>
      BY <1>1, <1>2, <2>2, ReadAnswer
    <3> QED BY <1>4, <2>2, <3>1, <3>2 DEF ReadErr, Moves
  <2>3. CASE line.kind = "OK"
    <3>1. ReadOk(line)
      BY <1>2, <2>3 DEF ReadData, ReadErr
    <3>2. pendingQ # <<>> /\ Head(pendingQ) = line.call
      BY <1>1, <1>2, <2>3, ReadAnswer
    <3>3. CASE line.id = None
      BY <2>3, <3>1, <3>2, <3>3 DEF ReadOk, Deliver, Moves
    <3>4. CASE line.id # None
      BY <1>4, <2>3, <3>1, <3>2, <3>4, Zenon DEF ReadOk, Deliver, Moves
    <3> QED BY <3>3, <3>4
  <2> QED BY <1>4, <2>1, <2>2, <2>3
<1>6. Takes(line)
  BY <1>1, <1>2, <1>4, <1>5 DEF Moves, Takes
<1> QED BY <1>1, <1>2, <1>4, <1>5, <1>6

LEMMA ReadPreserves == ASSUME Inv, Read PROVE Inv'
<1> USE ScamperAssumption
<1>1. PICK line : line = lines[1]
  OBVIOUS
<1>2. /\ lines # <<>> /\ lines' = Tail(lines) /\ line.call \in Call /\ line.call # None
      /\ UNCHANGED <<phase, socket, probing, daemon, reader>>
      /\ Moves(line) /\ Takes(line)
  BY <1>1, ReadMoves
<1>3. lines \in Seq(LineRec)
  BY DEF Inv, TypeOK, LineRec
<1>4. LineInv'
  BY <1>2, TakesPreserves DEF Inv
<1>5. lines' \in Seq(LineRec)
  BY <1>2, <1>3
<1>6. /\ Len(channel[line.call]) = 0
      /\ channel[line.call] \in Seq(Call)
      /\ phase[line.call] # "idle"
  <2>1. CASE line.kind = "DATA"
    BY <1>2, <2>1 DEF Moves, Inv, Once, TypeOK
  <2>2. CASE line.kind # "DATA"
    <3>1. pendingQ[1] = line.call /\ 1 \in DOMAIN pendingQ
      BY <1>1, <1>2, <2>2, ReadAnswer
    <3> QED BY <1>2, <3>1 DEF Inv, Once, TypeOK
  <2> QED BY <2>1, <2>2
<1>7. PICK result : result = Append(channel[line.call], line.call)
  BY Zenon
<1>8. result \in Seq(Call) /\ Len(result) = 1 /\ result[1] = line.call /\ DOMAIN result = 1..1
  BY <1>2, <1>6, <1>7
<1>9. \/ channel' = channel
      \/ channel' = [channel EXCEPT ![line.call] = result]
  BY <1>2, <1>7 DEF Moves
<1>10. channel' \in [Call -> Seq(Call)] /\
       \A c \in Call : channel'[c] = channel[c] \/ (c = line.call /\ channel'[c] = result)
  BY <1>2, <1>8, <1>9, ZenonT(60) DEF Inv, TypeOK
<1>11. OwnData' /\ ReaderNeverBlocks'
  <2>1. ASSUME NEW c \in Call
        PROVE  Len(channel'[c]) <= 1 /\ \A n \in DOMAIN channel'[c] : channel'[c][n] = c
    <3>1. CASE channel'[c] = channel[c]
      BY <3>1 DEF Inv, OwnData, ReaderNeverBlocks
    <3>2. CASE c = line.call /\ channel'[c] = result
      <4>1. \A n \in 1..1 : n = 1
        OBVIOUS
      <4>2. Len(result) <= 1 /\ \A n \in DOMAIN result : result[n] = line.call
        BY <1>8, <4>1
      <4> QED BY <3>2, <4>2
    <3> QED BY <1>10, <3>1, <3>2
  <2> QED BY <2>1 DEF OwnData, ReaderNeverBlocks
<1>0. ASSUME NEW c \in Call, phase'[c] = "idle" PROVE Len(channel'[c]) = 0
  <2>1. phase[c] = "idle" /\ c # line.call
    BY <1>2, <1>6, <1>0
  <2>2. channel'[c] = channel[c]
    BY <1>10, <2>1
  <2> QED BY <2>1, <2>2 DEF Inv, Once
<1>12. CASE line.kind # "DATA"
  <2>1. /\ pendingQ[1] = line.call
        /\ Tail(pendingQ) \in Seq(Call)
        /\ InStep(Tail(pendingQ), AnswersOf(Tail(lines)), socket)
        /\ DOMAIN Tail(pendingQ) = 1..(Len(pendingQ) - 1)
        /\ Len(pendingQ) \in Nat /\ Len(pendingQ) > 0 /\ DOMAIN pendingQ = 1..Len(pendingQ)
        /\ \A n \in 1..(Len(pendingQ) - 1) : Tail(pendingQ)[n] = pendingQ[n + 1]
    BY <1>1, <1>2, <1>12, ReadAnswer
  <2>2. pendingQ' = Tail(pendingQ)
    BY <1>2, <1>12 DEF Moves
  <2>3. /\ DOMAIN pendingQ' = 1..(Len(pendingQ) - 1)
        /\ \A n \in DOMAIN pendingQ' : /\ n + 1 \in DOMAIN pendingQ /\ pendingQ'[n] = pendingQ[n + 1]
                                       /\ pendingQ'[n] \in Call
                                       /\ pendingQ'[n] # line.call
    <3>1. DOMAIN pendingQ' = 1..(Len(pendingQ) - 1)
          /\ \A n \in DOMAIN pendingQ' : n \in Nat /\ n + 1 \in DOMAIN pendingQ /\ n + 1 # 1
                                        /\ pendingQ'[n] = pendingQ[n + 1]
      BY <2>1, <2>2
    <3>2. \A m \in DOMAIN pendingQ : m # 1 => pendingQ[m] # line.call
      BY <2>1 DEF Inv, Once
    <3>3. \A m \in DOMAIN pendingQ : pendingQ[m] \in Call
      BY DEF Inv, TypeOK
    <3> QED BY <3>1, <3>2, <3>3
  <2>4. TypeOK'
    BY <1>2, <1>5, <1>10, <2>1, <2>2, Zenon DEF Inv, TypeOK, Moves, LineRec
  <2>5. QueueOK'
    BY <1>2, <2>1, <2>2 DEF QueueOK
  <2>6. \A i \in DataId : waiters[i] # line.call
    BY <2>1, 1 \in DOMAIN pendingQ DEF Inv, Once
  <2>7. Once'
    <3>1. \A m, n \in DOMAIN pendingQ' : pendingQ'[m] = pendingQ'[n] => m = n
      <4>1. \A m, n \in DOMAIN pendingQ : pendingQ[m] = pendingQ[n] => m = n
        BY DEF Inv, Once
      <4>2. \A m \in DOMAIN pendingQ' : m \in Nat
        BY <2>3
      <4> QED BY <2>3, <4>1, <4>2
    <3>2. \A i \in DataId : waiters'[i] = waiters[i] \/ (i = line.id /\ waiters'[i] = line.call /\ channel' = channel)
      BY <1>2, <1>12 DEF Moves, Inv, TypeOK
    <3>3. ASSUME NEW n \in DOMAIN pendingQ'
          PROVE  /\ Len(channel'[pendingQ'[n]]) = 0 /\ phase'[pendingQ'[n]] # "idle"
                 /\ \A i \in DataId : waiters'[i] # pendingQ'[n]
      <4>1. /\ Len(channel[pendingQ'[n]]) = 0 /\ phase[pendingQ'[n]] # "idle"
            /\ \A i \in DataId : waiters[i] # pendingQ'[n]
        BY <2>3 DEF Inv, Once
      <4> QED BY <1>2, <1>10, <2>3, <3>2, <4>1, Zenon
    <3>4. ASSUME NEW i \in DataId, waiters'[i] # None
          PROVE  /\ Len(channel'[waiters'[i]]) = 0 /\ phase'[waiters'[i]] # "idle"
                 /\ \A j \in DataId : waiters'[j] = waiters'[i] => i = j
      <4>1. CASE waiters'[i] = waiters[i]
        <5>1. /\ Len(channel[waiters[i]]) = 0 /\ phase[waiters[i]] # "idle" /\ waiters[i] \in Call
              /\ \A j \in DataId : waiters[j] = waiters[i] => i = j
          BY <3>4, <4>1 DEF Inv, Once, TypeOK
        <5> QED BY <1>2, <1>10, <2>6, <3>2, <4>1, <5>1
      <4>2. CASE i = line.id /\ waiters'[i] = line.call /\ channel' = channel
        BY <1>2, <1>6, <2>6, <3>2, <4>2
      <4> QED BY <3>2, <4>1, <4>2
    <3> QED BY <1>0, <3>1, <3>3, <3>4 DEF Once
  <2> QED BY <1>4, <1>11, <2>4, <2>5, <2>7 DEF Inv
<1>13. CASE line.kind = "DATA"
  <2>1. /\ line.id \in DataId /\ waiters[line.id] = line.call /\ pendingQ' = pendingQ
        /\ waiters' = [waiters EXCEPT ![line.id] = None]
    BY <1>2, <1>13 DEF Moves
  <2>2. TypeOK'
    BY <1>2, <1>5, <1>10, <2>1 DEF Inv, TypeOK, LineRec
  <2>3. QueueOK'
    <3>1. AnswersOf(lines) = AnswersOf(Tail(lines))
      BY <1>1, <1>2, <1>3, <1>13, AnswersTail, Zenon
    <3> QED BY <1>2, <2>1, <3>1 DEF Inv, QueueOK
  <2>4. /\ \A i \in DataId : waiters'[i] = IF i = line.id THEN None ELSE waiters[i]
        /\ \A i \in DataId : waiters[i] = line.call => i = line.id
        /\ \A n \in DOMAIN pendingQ : pendingQ[n] \in Call /\ pendingQ[n] # line.call
    BY <1>2, <2>1 DEF Inv, Once, TypeOK
  <2>5. Once'
    <3>1. \A m, n \in DOMAIN pendingQ' : pendingQ'[m] = pendingQ'[n] => m = n
      BY <2>1 DEF Inv, Once
    <3>2. ASSUME NEW n \in DOMAIN pendingQ'
          PROVE  /\ Len(channel'[pendingQ'[n]]) = 0 /\ phase'[pendingQ'[n]] # "idle"
                 /\ \A i \in DataId : waiters'[i] # pendingQ'[n]
      <4>1. /\ Len(channel[pendingQ[n]]) = 0 /\ phase[pendingQ[n]] # "idle" /\ n \in DOMAIN pendingQ
            /\ \A i \in DataId : waiters[i] # pendingQ[n]
        BY <2>1 DEF Inv, Once
      <4> QED BY <1>2, <1>10, <2>1, <2>4, <4>1
    <3>3. ASSUME NEW i \in DataId, waiters'[i] # None
          PROVE  /\ Len(channel'[waiters'[i]]) = 0 /\ phase'[waiters'[i]] # "idle"
                 /\ \A j \in DataId : waiters'[j] = waiters'[i] => i = j
      <4>1. waiters'[i] = waiters[i] /\ i # line.id /\ waiters[i] # line.call
        BY <2>4, <3>3
      <4>2. /\ Len(channel[waiters[i]]) = 0 /\ phase[waiters[i]] # "idle" /\ waiters[i] \in Call
            /\ \A j \in DataId : waiters[j] = waiters[i] => i = j
        BY <3>3, <4>1 DEF Inv, Once, TypeOK
      <4> QED BY <1>2, <1>10, <2>4, <3>3, <4>1, <4>2
    <3> QED BY <1>0, <3>1, <3>2, <3>3 DEF Once
  <2> QED BY <1>4, <1>11, <2>2, <2>3, <2>5 DEF Inv
<1> QED BY <1>12, <1>13

-----------------------------------------------------------------------------

LEMMA InitInv == Init => Inv
<1> SUFFICES ASSUME Init PROVE Inv
  OBVIOUS
<1> USE DEF Init
<1>0. DOMAIN lines = {} /\ DOMAIN pendingQ = {} /\ Len(socket) = 0 /\ Len(pendingQ) = 0
  OBVIOUS
<1>1. TypeOK
  <2>1. \A S : <<>> \in Seq(S)
    OBVIOUS
  <2> QED BY <2>1, Zenon DEF TypeOK
<1>2. LineInv
  BY <1>0 DEF LineInv, Identified, Alternate, LastLine, FirstLine, NoLine
<1>3. Once
  BY <1>0 DEF Once
<1>4. OwnData /\ ReaderNeverBlocks
  BY DEF OwnData, ReaderNeverBlocks
<1>5. QueueOK
  <2>1. lines \in Seq(LineRec)
    BY <1>1 DEF TypeOK, LineRec
  <2> HIDE DEF Init
  <2>2. PICK a : a = AnswersOf(lines)
    OBVIOUS
  <2>3. PICK places : a = ElementsAt(lines, places)
    BY <2>2 DEF AnswersOf
  <2>4. a \in Seq(LineRec) /\ \A k \in DOMAIN a : \E n \in DOMAIN lines : lines[n] = a[k]
    BY <2>1, <2>3, ElementsAtElements
  <2>5. Len(a) = 0
    <3>1. Len(a) \in Nat /\ DOMAIN a = 1..Len(a) /\ DOMAIN a = {}
      BY <1>0, <2>4
    <3> QED BY <3>1
  <2> QED BY <1>0, <2>2, <2>5 DEF QueueOK, InStep
<1> QED BY <1>1, <1>2, <1>3, <1>4, <1>5 DEF Inv

LEMMA NextPreserves == Inv /\ [Next]_vars => Inv'
<1> SUFFICES ASSUME Inv, [Next]_vars PROVE Inv'
  OBVIOUS
<1>1. ASSUME NEW c \in Call, Receive(c) \/ Cancel(c) PROVE Inv'
  <2>1. /\ UNCHANGED <<socket, probing, lines, pendingQ, waiters, channel>>
        /\ phase' \in [Call -> {"idle", "waiting", "answered", "cancelled", "error"}]
        /\ \A d \in Call : phase'[d] = phase[d] \/ phase'[d] # "idle"
        /\ daemon' \in BOOLEAN /\ reader' \in BOOLEAN
    BY <1>1, Zenon DEF Receive, Cancel, Inv, TypeOK
  <2> QED BY <2>1, PhasePreserves
<1>2. ASSUME Die \/ ReaderReturns \/ Stop \/ UNCHANGED vars PROVE Inv'
  <2>1. /\ UNCHANGED <<phase, socket, probing, lines, pendingQ, waiters, channel>>
        /\ daemon' \in BOOLEAN /\ reader' \in BOOLEAN
    BY <1>2, Zenon DEF Die, ReaderReturns, Stop, vars, Inv, TypeOK
  <2>2. /\ phase' \in [Call -> {"idle", "waiting", "answered", "cancelled", "error"}]
        /\ \A d \in Call : phase'[d] = phase[d] \/ phase'[d] # "idle"
    BY <2>1 DEF Inv, TypeOK
  <2> QED BY <2>1, <2>2, PhasePreserves
<1> QED BY <1>1, <1>2, SendPreserves, AcceptPreserves, RefusePreserves, ProbedPreserves,
           ReadPreserves DEF Next

\* What the reader and the daemon have of each call stays consistent in every reachable state.
THEOREM Invariance == Spec => []IInv
<1>1. Spec => []Inv
  BY InitInv, NextPreserves, PTL DEF Spec
<1>2. Inv => IInv
  BY InvIsIInv
<1> QED BY <1>1, <1>2, PTL

\* StartRead hands a call the data of its own probe, for any calls and any ids the daemon
\* gives out and gives out again.
THEOREM DataIsOwn == Spec => []OwnData
<1>1. IInv => OwnData
  BY DEF IInv
<1> QED BY <1>1, Invariance, PTL

\* No channel of capacity one is ever sent two results, so StartRead does not block.
THEOREM NeverBlocked == Spec => []ReaderNeverBlocks
<1>1. IInv => ReaderNeverBlocks
  BY DEF IInv
<1> QED BY <1>1, Invariance, PTL

\* pendingQ lists the unanswered commands in the order the daemon answers them.
THEOREM QueueStaysInStep == Spec => []QueueInStep
<1>1. IInv => QueueInStep
  BY DEF IInv
<1> QED BY <1>1, Invariance, PTL
=============================================================================
