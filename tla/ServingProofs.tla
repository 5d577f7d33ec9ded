---------------------------- MODULE ServingProofs ----------------------------
(***************************************************************************)
(* Proofs about the chat stream of MCServing, for any set of requests and  *)
(* any number of events: what a client is sent is what its turn put out.   *)
(***************************************************************************)
EXTENDS MCServing, SequenceTheorems, TLAPS

Kind == {"event", "resolved", "worker", "cancel", "error", "done"}
Line == Kind \X Nat

\* These lines are the first k events of a turn, in their order, among other lines.
Carries(lines, k) ==
    /\ Streams!InOrder(lines)
    /\ Streams!EventLines(lines) = {<<"event", i>> : i \in 1..k}

LEMMA LinesOf ==
    ASSUME NEW s \in Seq(Line), NEW k
    PROVE  /\ Streams!Kinds(s) = {s[i][1] : i \in 1..Len(s)}
           /\ Streams!EventLines(s) = {s[i] : i \in {j \in 1..Len(s) : s[j][1] = "event"}}
           /\ DOMAIN s = 1..Len(s) /\ Len(s) \in Nat
           /\ \A i \in 1..Len(s) : s[i] \in Line
BY DEF Streams!Kinds, Streams!EventLines, Streams!Range

\* Lines that are no events follow.
LEMMA CarriesOthers ==
    ASSUME NEW s \in Seq(Line), NEW e \in Seq(Line), NEW k \in Nat, Carries(s, k),
           "event" \notin Streams!Kinds(e)
    PROVE  Carries(s \o e, k)
<1>1. /\ Len(s) \in Nat /\ Len(e) \in Nat /\ DOMAIN s = 1..Len(s)
      /\ s \o e \in Seq(Line) /\ Len(s \o e) = Len(s) + Len(e)
      /\ \A i \in 1..Len(s) : (s \o e)[i] = s[i]
      /\ \A i \in (Len(s) + 1)..(Len(s) + Len(e)) :
            (s \o e)[i] = e[i - Len(s)] /\ i - Len(s) \in 1..Len(e)
  OBVIOUS
<1>2. \A i \in 1..Len(e) : e[i][1] # "event"
  BY LinesOf
<1>3. \A i \in DOMAIN (s \o e) : (s \o e)[i][1] = "event" => i \in 1..Len(s)
  BY <1>1, <1>2
<1>4. Streams!InOrder(s \o e)
  BY <1>1, <1>3 DEF Carries, Streams!InOrder
<1>5. Streams!EventLines(s \o e) = Streams!EventLines(s)
  BY <1>1, <1>3 DEF Streams!EventLines, Streams!Range
<1> QED  BY <1>4, <1>5 DEF Carries

\* The next event follows.
LEMMA CarriesNext ==
    ASSUME NEW s \in Seq(Line), NEW k \in Nat, Carries(s, k)
    PROVE  Carries(Append(s, <<"event", k + 1>>), k + 1)
<1> DEFINE x == <<"event", k + 1>>  t == Append(s, x)
<1>1. /\ Len(s) \in Nat /\ DOMAIN s = 1..Len(s) /\ DOMAIN t = 1..(Len(s) + 1)
      /\ \A i \in 1..Len(s) : t[i] = s[i]
      /\ t[Len(s) + 1] = x
  BY LenProperties
<1>2. \A i \in DOMAIN s : s[i][1] = "event" => s[i][2] \in 1..k
  <2>1. ASSUME NEW i \in DOMAIN s, s[i][1] = "event" PROVE s[i] \in {<<"event", n>> : n \in 1..k}
    BY <2>1 DEF Carries, Streams!EventLines, Streams!Range
  <2> QED  BY <2>1
<1>3. Streams!InOrder(t)
  BY <1>1, <1>2 DEF Carries, Streams!InOrder
<1>4. Streams!EventLines(t) = Streams!EventLines(s) \cup {x}
  BY <1>1 DEF Streams!EventLines, Streams!Range
<1>5. {<<"event", i>> : i \in 1..(k + 1)} = {<<"event", i>> : i \in 1..k} \cup {x}
  OBVIOUS
<1> QED  BY <1>3, <1>4, <1>5 DEF Carries

\* A line moves from the queue to what was sent; a line is added to the queue.
LEMMA MoveOf ==
    ASSUME NEW S, NEW s \in Seq(S), NEW q \in Seq(S)
    PROVE  /\ s \o << >> = s
           /\ q # << >> => Append(s, Head(q)) \o Tail(q) = s \o q
           /\ \A x \in S : s \o Append(q, x) = Append(s \o q, x)
<1>1. s \o << >> = s
  BY ConcatEmptySeq
<1>2. ASSUME q # << >> PROVE Append(s, Head(q)) \o Tail(q) = s \o q
  <2> DEFINE h == Head(q)  t == Tail(q)
  <2>1. h \in S /\ t \in Seq(S) /\ <<h>> \in Seq(S)
    BY <1>2, HeadTailProperties
  <2>2. q = <<h>> \o t
    <3>1. /\ Len(q) \in Nat /\ Len(t) = Len(q) - 1 /\ Len(<<h>>) = 1 /\ <<h>>[1] = q[1]
          /\ \A i \in 1..Len(t) : t[i] = q[i + 1]
      BY <1>2, HeadTailProperties
    <3>2. /\ <<h>> \o t \in Seq(S) /\ Len(<<h>> \o t) = 1 + Len(t)
          /\ \A i \in 1..(1 + Len(t)) : (<<h>> \o t)[i] = IF i <= 1 THEN <<h>>[1] ELSE t[i - 1]
      <4> HIDE DEF h, t
      <4>1. <<h>> \o t \in Seq(S)
        BY <2>1, ConcatProperties
      <4>2. Len(<<h>> \o t) = Len(<<h>>) + Len(t)
        BY <2>1, ConcatProperties
      <4>3. \A i \in 1..(Len(<<h>>) + Len(t)) : (<<h>> \o t)[i] = IF i <= Len(<<h>>) THEN <<h>>[i] ELSE t[i - Len(<<h>>)]
        BY <2>1, ConcatProperties
      <4> QED  BY <3>1, <4>1, <4>2, <4>3
    <3> HIDE DEF h, t
    <3>3. Len(q) = Len(<<h>> \o t)
      BY <3>1, <3>2
    <3>4. \A i \in 1..Len(q) : q[i] = (<<h>> \o t)[i]
      BY <3>1, <3>2
    <3> QED  BY <3>2, <3>3, <3>4, SeqEqual
  <2>3. Append(s, h) = s \o <<h>>
    BY <2>1, AppendIsConcat
  <2>4. (s \o <<h>>) \o t = s \o (<<h>> \o t)
    BY <2>1, ConcatAssociative
  <2> QED  BY <2>2, <2>3, <2>4
<1>3. ASSUME NEW x \in S PROVE s \o Append(q, x) = Append(s \o q, x)
  <2>1. s \o q \in Seq(S) /\ <<x>> \in Seq(S)
    BY ConcatProperties
  <2>2. Append(q, x) = q \o <<x>> /\ Append(s \o q, x) = (s \o q) \o <<x>>
    BY <2>1, AppendIsConcat
  <2>3. (s \o q) \o <<x>> = s \o (q \o <<x>>)
    BY <2>1, ConcatAssociative
  <2> QED  BY <2>2, <2>3
<1> QED  BY <1>1, <1>2, <1>3

-----------------------------------------------------------------------------
StreamType ==
    /\ chat_stream \in [Requests -> {"none", "new", "open", "gone", "ended"}]
    /\ chat_turn \in [Requests -> {"none", "running", "asking", "answered", "failed", "cancelled"}]
    /\ chat_events \in [Requests -> Nat]
    /\ chat_queue \in [Requests -> Seq(Line)]
    /\ chat_sent \in [Requests -> Seq(Line)]
    /\ chat_emitter \in Requests \cup {Streams!NoOne}

\* What a queue holds is what a turn or a worker put there.
Reports == {"event", "resolved", "worker"}
Waiting(q) == Streams!Kinds(q) \subseteq Reports

\* Until the stream has ended, what was sent and what waits are together the k events of the
\* turn, and nothing says that it is done.
Running(s, q, k) == Carries(s \o q, k) /\ Streams!Kinds(s) \subseteq Reports

\* From then on what was sent is, and the turn is over.
Closed(s, k, t) ==
    /\ t \in {"answered", "failed", "cancelled"}
    /\ Carries(s, k)
    /\ Len(s) > 0 /\ s[Len(s)][1] = "done"
    /\ t = "cancelled" => "cancel" \in Streams!Kinds(s)

\* A stream that is p, with s sent, q waiting, and k events of a turn that is t.
Sound(p, t, k, q, s) ==
    /\ Waiting(q)
    /\ p \in {"none", "new"} => t = "none"
    /\ IF p = "ended" THEN Closed(s, k, t) ELSE Running(s, q, k)

Whole(r) == Sound(chat_stream[r], chat_turn[r], chat_events[r], chat_queue[r], chat_sent[r])

StreamInv == \A r \in Requests : Whole(r)

\* What the lines of the chat are: of a longer queue, of a shorter one, at the end.
LEMMA Queued ==
    ASSUME NEW s \in Seq(Line), NEW q \in Seq(Line), NEW k \in Nat, Carries(s \o q, k)
    PROVE  /\ \A x \in Line : x[1] # "event" => Carries(s \o Append(q, x), k)
           /\ Carries(s \o Append(q, <<"event", k + 1>>), k + 1)
<1>1. s \o q \in Seq(Line)
  BY ConcatProperties
<1>2. ASSUME NEW x \in Line, x[1] # "event" PROVE Carries(s \o Append(q, x), k)
  <2>1. s \o Append(q, x) = (s \o q) \o <<x>>
    BY <1>1, MoveOf, AppendIsConcat
  <2>2. <<x>> \in Seq(Line) /\ "event" \notin Streams!Kinds(<<x>>)
    BY <1>2 DEF Streams!Kinds, Streams!Range
  <2> QED  BY <1>1, <2>1, <2>2, CarriesOthers
<1>3. <<"event", k + 1>> \in Line
  BY DEF Line, Kind
<1>4. s \o Append(q, <<"event", k + 1>>) = Append(s \o q, <<"event", k + 1>>)
  BY <1>3, MoveOf
<1> QED  BY <1>1, <1>2, <1>4, CarriesNext

LEMMA KindsOf ==
    ASSUME NEW s \in Seq(Line)
    PROVE  /\ \A x \in Line : Streams!Kinds(Append(s, x)) = Streams!Kinds(s) \cup {x[1]}
           /\ s # << >> => /\ Head(s) \in Line /\ Head(s)[1] \in Streams!Kinds(s)
                          /\ Streams!Kinds(Tail(s)) \subseteq Streams!Kinds(s)
           /\ Streams!Kinds(s) \subseteq Kind
<1>1. ASSUME NEW x \in Line PROVE Streams!Kinds(Append(s, x)) = Streams!Kinds(s) \cup {x[1]}
  <2>1. /\ Append(s, x) \in Seq(Line) /\ Len(Append(s, x)) = Len(s) + 1
        /\ \A i \in 1..Len(s) : Append(s, x)[i] = s[i]
        /\ Append(s, x)[Len(s) + 1] = x
    BY AppendProperties
  <2>2. /\ Streams!Kinds(Append(s, x)) = {Append(s, x)[i][1] : i \in 1..Len(Append(s, x))}
        /\ Streams!Kinds(s) = {s[i][1] : i \in 1..Len(s)} /\ Len(s) \in Nat
    BY <2>1, LinesOf
  <2> QED  BY <2>1, <2>2
<1>2. ASSUME s # << >>
      PROVE  /\ Head(s) \in Line /\ Head(s)[1] \in Streams!Kinds(s)
             /\ Streams!Kinds(Tail(s)) \subseteq Streams!Kinds(s)
  <2>1. /\ Head(s) = s[1] /\ Head(s) \in Line /\ Tail(s) \in Seq(Line)
        /\ Len(Tail(s)) = Len(s) - 1
        /\ \A i \in 1..Len(Tail(s)) : Tail(s)[i] = s[i + 1]
    BY <1>2, HeadTailProperties
  <2>2. 1 \in 1..Len(s)
    BY <1>2, EmptySeq, LenProperties
  <2>3. /\ Streams!Kinds(Tail(s)) = {Tail(s)[i][1] : i \in 1..Len(Tail(s))}
        /\ Streams!Kinds(s) = {s[i][1] : i \in 1..Len(s)} /\ Len(s) \in Nat
    BY <2>1, LinesOf
  <2> HIDE DEF Line
  <2> QED  BY <2>1, <2>2, <2>3
<1>3. Streams!Kinds(s) \subseteq Kind
  BY LinesOf DEF Line
<1> QED  BY <1>1, <1>2, <1>3

LEMMA EndingOf ==
    ASSUME NEW r
    PROVE  LET e == Streams!Ending(r)
           IN  /\ e \in Seq(Line) /\ Len(e) \in 1..2 /\ e[Len(e)][1] = "done"
               /\ "event" \notin Streams!Kinds(e)
               /\ chat_turn[r] = "cancelled" => e[1][1] = "cancel"
<1> DEFINE done == <<"done", 0>>
<1>1. \A x \in {"cancel", "error"} : <<x, 0>> \in Line
  BY DEF Line, Kind
<1>2. done \in Line
  BY DEF Line, Kind
<1>3. ASSUME NEW x \in {"cancel", "error"}
      PROVE  /\ <<<<x, 0>>, done>> \in Seq(Line) /\ Len(<<<<x, 0>>, done>>) = 2
             /\ "event" \notin Streams!Kinds(<<<<x, 0>>, done>>)
  BY <1>1, <1>2 DEF Streams!Kinds, Streams!Range
<1>4. <<done>> \in Seq(Line) /\ Len(<<done>>) = 1 /\ "event" \notin Streams!Kinds(<<done>>)
  BY <1>2 DEF Streams!Kinds, Streams!Range
<1> QED  BY <1>3, <1>4 DEF Streams!Ending

\* Every action of the component keeps the type.
LEMMA TypeStep == ASSUME StreamType, Streams!Next PROVE StreamType'
<1> USE DEF StreamType
<1>0. /\ \A k \in Kind, n \in Nat : <<k, n>> \in Line
      /\ \A r \in Requests : /\ chat_queue[r] \in Seq(Line) /\ chat_sent[r] \in Seq(Line)
                             /\ chat_events[r] \in Nat
  BY DEF Line
<1>1. ASSUME NEW r \in Requests, Streams!Request(r) PROVE StreamType'
  BY <1>1 DEF Streams!Request, Streams!talk
<1>2. ASSUME NEW r \in Requests, Streams!Begin(r) PROVE StreamType'
  BY <1>2 DEF Streams!Begin, Streams!talk
<1>3. ASSUME NEW r \in Requests, NEW k \in Kind, NEW n \in Nat, Streams!Put(r, k, n)
      PROVE  chat_queue' \in [Requests -> Seq(Line)]
  <2>1. Append(chat_queue[r], <<k, n>>) \in Seq(Line)
    BY <1>0, AppendProperties
  <2> QED  BY <1>3, <2>1 DEF Streams!Put
<1>4. ASSUME NEW r \in Requests, Streams!Emit(r) PROVE StreamType'
  <2>1. CASE r \in chat_flagged
    BY <1>4, <2>1 DEF Streams!Emit
  <2>2. CASE r \notin chat_flagged
    <3>1. chat_events[r] + 1 \in Nat /\ chat_events'[r] = chat_events[r] + 1
      BY <1>0, <1>4, <2>2 DEF Streams!Emit
    <3>2. chat_queue' \in [Requests -> Seq(Line)]
      BY <1>3, <1>4, <2>2, <3>1 DEF Streams!Emit, Kind
    <3> QED  BY <1>4, <2>2, <3>1, <3>2 DEF Streams!Emit
  <2> QED  BY <2>1, <2>2
<1>5. ASSUME NEW r \in Requests, Streams!Ask(r) PROVE StreamType'
  <2>1. chat_events[r] + 1 \in Nat /\ chat_events'[r] = chat_events[r] + 1
    BY <1>0, <1>5 DEF Streams!Ask
  <2>2. chat_queue' \in [Requests -> Seq(Line)]
    BY <1>3, <1>5, <2>1 DEF Streams!Ask, Kind
  <2> QED  BY <1>5, <2>1, <2>2 DEF Streams!Ask
<1>6. ASSUME NEW r \in Requests, Streams!Answer(r) PROVE StreamType'
  <2>1. chat_queue' \in [Requests -> Seq(Line)]
    BY <1>3, <1>6 DEF Streams!Answer, Kind
  <2> QED  BY <1>6, <2>1 DEF Streams!Answer
<1>7. ASSUME NEW r \in Requests, Streams!Cancel(r) PROVE StreamType'
  BY <1>7 DEF Streams!Cancel, Streams!talk
<1>8. ASSUME NEW r \in Requests, NEW how, Streams!TurnEnds(r, how) PROVE StreamType'
  BY <1>8 DEF Streams!TurnEnds, Streams!talk
<1>9. ASSUME NEW r \in Requests, Streams!Send(r) PROVE StreamType'
  <2>1. /\ Append(chat_sent[r], Head(chat_queue[r])) \in Seq(Line)
        /\ Tail(chat_queue[r]) \in Seq(Line)
    BY <1>0, <1>9, AppendProperties, HeadTailProperties DEF Streams!Send
  <2> QED  BY <1>9, <2>1 DEF Streams!Send
<1>10. ASSUME NEW r \in Requests, Streams!Finish(r) PROVE StreamType'
  <2>1. chat_sent[r] \o Streams!Ending(r) \in Seq(Line)
    BY <1>0, EndingOf, ConcatProperties
  <2> QED  BY <1>10, <2>1 DEF Streams!Finish
<1>11. ASSUME NEW r \in Requests, Streams!Disconnect(r) PROVE StreamType'
  BY <1>11 DEF Streams!Disconnect, Streams!talk
<1>12. ASSUME NEW r \in Requests, Streams!Spawn(r) PROVE StreamType'
  BY <1>12 DEF Streams!Spawn, Streams!talk
<1>13. ASSUME NEW r \in Requests, Streams!Report(r) PROVE StreamType'
  <2>1. CASE chat_queue' = chat_queue
    BY <1>13, <2>1 DEF Streams!Report
  <2>2. CASE Streams!Put(chat_emitter, "worker", 0)
    <3>1. CASE chat_emitter \in Requests
      <4>1. chat_queue' \in [Requests -> Seq(Line)]
        BY <1>3, <2>2, <3>1 DEF Kind
      <4> QED  BY <1>13, <4>1 DEF Streams!Report
    <3>2. CASE chat_emitter \notin Requests
      BY <1>13, <2>2, <3>2 DEF Streams!Report, Streams!Put
    <3> QED  BY <3>1, <3>2
  <2> QED  BY <1>13, <2>1, <2>2 DEF Streams!Report
<1>14. ASSUME NEW r \in Requests, Streams!TearDown(r) PROVE StreamType'
  BY <1>14 DEF Streams!TearDown, Streams!talk
<1> QED
  BY <1>1, <1>2, <1>4, <1>5, <1>6, <1>7, <1>8, <1>9, <1>10, <1>11, <1>12, <1>13, <1>14
  DEF Streams!Next

\* A step keeps what is known of the streams it leaves alone.
LEMMA Untouched ==
    ASSUME NEW r, Whole(r),
           UNCHANGED <<chat_stream[r], chat_turn[r], chat_events[r], chat_queue[r], chat_sent[r]>>
    PROVE  Whole(r)'
BY DEF Whole

\* What one stream may become.
LEMMA LinesStay ==
    ASSUME NEW p, NEW t, NEW k, NEW q, NEW s, Sound(p, t, k, q, s)
    PROVE  \A p1, t1 : /\ p1 = "ended" <=> p = "ended"
                       /\ p = "ended" => t1 = t
                       /\ p1 \in {"none", "new"} => t1 = "none"
                       => Sound(p1, t1, k, q, s)
BY DEF Sound, Closed

LEMMA LineWaits ==
    ASSUME NEW p, NEW t, NEW k \in Nat, NEW q \in Seq(Line), NEW s \in Seq(Line),
           Sound(p, t, k, q, s)
    PROVE  /\ \A x \in Line : x[1] \in {"resolved", "worker"} => Sound(p, t, k, Append(q, x), s)
           /\ p # "ended" => Sound(p, t, k + 1, Append(q, <<"event", k + 1>>), s)
<1> DEFINE e == <<"event", k + 1>>
<1>1. e \in Line /\ e[1] = "event"
  BY DEF Line, Kind
<1>2. \A x \in Line : Streams!Kinds(Append(q, x)) = Streams!Kinds(q) \cup {x[1]}
  BY KindsOf
<1>3. ASSUME p # "ended"
      PROVE  /\ \A x \in Line : x[1] # "event" => Carries(s \o Append(q, x), k)
             /\ Carries(s \o Append(q, e), k + 1)
  BY <1>3, Queued DEF Sound, Running
<1> HIDE DEF e
<1>4. /\ \A x \in Line : x[1] \in {"resolved", "worker"} => Waiting(Append(q, x))
      /\ Waiting(Append(q, e))
  BY <1>1, <1>2 DEF Sound, Waiting, Reports
<1>5. p # "ended" => Sound(p, t, k + 1, Append(q, e), s)
  BY <1>3, <1>4 DEF Sound, Running
<1>6. \A x \in Line : x[1] \in {"resolved", "worker"} => Sound(p, t, k, Append(q, x), s)
  BY <1>3, <1>4 DEF Sound, Running
<1> QED  BY <1>5, <1>6 DEF e

LEMMA LineIsSent ==
    ASSUME NEW p, NEW t, NEW k \in Nat, NEW q \in Seq(Line), NEW s \in Seq(Line),
           Sound(p, t, k, q, s), p # "ended", q # << >>
    PROVE  Sound(p, t, k, Tail(q), Append(s, Head(q)))
<1>1. Append(s, Head(q)) \o Tail(q) = s \o q
  BY MoveOf
<1>2. /\ Streams!Kinds(Tail(q)) \subseteq Streams!Kinds(q)
      /\ Streams!Kinds(Append(s, Head(q))) = Streams!Kinds(s) \cup {Head(q)[1]}
      /\ Head(q)[1] \in Streams!Kinds(q)
  BY KindsOf
<1> QED  BY <1>1, <1>2 DEF Sound, Running, Waiting

LEMMA StreamCloses ==
    ASSUME NEW r, NEW p, NEW k \in Nat, NEW s \in Seq(Line), Streams!Over(r), p # "ended",
           Sound(p, chat_turn[r], k, << >>, s)
    PROVE  Sound("ended", chat_turn[r], k, << >>, s \o Streams!Ending(r))
<1> DEFINE e == Streams!Ending(r)
<1>1. /\ e \in Seq(Line) /\ Len(e) \in 1..2 /\ e[Len(e)][1] = "done"
      /\ "event" \notin Streams!Kinds(e)
      /\ chat_turn[r] = "cancelled" => e[1][1] = "cancel"
  BY EndingOf
<1> HIDE DEF e
<1>2. s \o << >> = s
  BY ConcatEmptySeq
<1>3. Carries(s \o e, k)
  BY <1>1, <1>2, CarriesOthers DEF Sound, Running
<1>4. /\ s \o e \in Seq(Line) /\ Len(s \o e) = Len(s) + Len(e) /\ Len(s) \in Nat
      /\ \A i \in 1..(Len(s) + Len(e)) : (s \o e)[i] = IF i <= Len(s) THEN s[i] ELSE e[i - Len(s)]
  BY <1>1, ConcatProperties, LenProperties
<1>5. /\ Len(s) + 1 \in 1..Len(s \o e) /\ Len(s \o e) \in 1..Len(s \o e)
      /\ Len(s) + 1 > Len(s) /\ Len(s \o e) > Len(s) /\ Len(s \o e) > 0
      /\ Len(s) + 1 - Len(s) = 1 /\ Len(s \o e) - Len(s) = Len(e)
  BY <1>1, <1>4
<1>6. (s \o e)[Len(s \o e)] = e[Len(e)] /\ (s \o e)[Len(s) + 1] = e[1]
  BY <1>4, <1>5
<1>7. Streams!Kinds(s \o e) = {(s \o e)[i][1] : i \in 1..Len(s \o e)}
  BY <1>4, LinesOf
<1>8. e[1][1] \in Streams!Kinds(s \o e)
  BY <1>5, <1>6, <1>7
<1>9. Sound("ended", chat_turn[r], k, << >>, s \o e)
  BY <1>1, <1>3, <1>5, <1>6, <1>8 DEF Sound, Closed, Streams!Over
<1> QED  BY <1>9 DEF e

\* Every action of the component keeps the invariant.
LEMMA WholeStep == ASSUME StreamType, StreamInv, Streams!Next PROVE StreamInv'
<1>0. ASSUME NEW r \in Requests
      PROVE  /\ Whole(r)
             /\ chat_queue[r] \in Seq(Line) /\ chat_sent[r] \in Seq(Line) /\ chat_events[r] \in Nat
  BY <1>0 DEF StreamInv, StreamType
\* A step of one stream touches no other.
<1> USE DEF StreamType
<1>a. ASSUME NEW r \in Requests, Whole(r)',
             \A s \in Requests \ {r} :
                UNCHANGED <<chat_stream[s], chat_turn[s], chat_events[s], chat_queue[s], chat_sent[s]>>
      PROVE  StreamInv'
  <2>1. \A s \in Requests \ {r} : Whole(s)'
    BY <1>0, <1>a, Untouched
  <2> QED  BY <1>a, <2>1 DEF StreamInv
<1>b. ASSUME NEW r \in Requests, UNCHANGED <<chat_events[r], chat_queue[r], chat_sent[r]>>,
             chat_stream'[r] = "ended" <=> chat_stream[r] = "ended",
             chat_stream[r] = "ended" => chat_turn'[r] = chat_turn[r],
             chat_stream'[r] \in {"none", "new"} => chat_turn'[r] = "none"
      PROVE  Whole(r)'
  BY <1>0, <1>b, LinesStay DEF Whole
<1>t. ASSUME NEW r \in Requests, chat_turn[r] \in {"running", "asking"}
      PROVE  chat_stream[r] \in {"open", "gone"}
  BY <1>0, <1>t DEF Whole, Sound, Closed
<1>1. ASSUME NEW r \in Requests, Streams!Request(r) PROVE StreamInv'
  <2>1. Whole(r)'
    BY <1>0, <1>1, <1>b DEF Streams!Request, Streams!talk, Whole, Sound
  <2> QED  BY <1>1, <1>a, <2>1 DEF Streams!Request, Streams!talk
<1>2. ASSUME NEW r \in Requests, Streams!Begin(r) PROVE StreamInv'
  <2>1. Whole(r)'
    BY <1>2, <1>b DEF Streams!Begin, Streams!talk
  <2> QED  BY <1>2, <1>a, <2>1 DEF Streams!Begin, Streams!talk
<1>4. ASSUME NEW r \in Requests, Streams!Emit(r) PROVE StreamInv'
  <2>1. CASE r \in chat_flagged
    <3>1. Whole(r)'
      BY <1>4, <2>1, <1>b, <1>t DEF Streams!Emit
    <3> QED  BY <1>4, <1>a, <2>1, <3>1 DEF Streams!Emit
  <2>2. CASE r \notin chat_flagged
    <3>1. /\ chat_events'[r] = chat_events[r] + 1
          /\ chat_queue'[r] = Append(chat_queue[r], <<"event", chat_events[r] + 1>>)
          /\ UNCHANGED <<chat_stream, chat_turn, chat_sent>>
      BY <1>4, <2>2 DEF Streams!Emit, Streams!Put
    <3>2. chat_stream[r] \in {"open", "gone"}
      BY <1>4, <1>t DEF Streams!Emit
    <3>3. Sound(chat_stream[r], chat_turn[r], chat_events[r] + 1,
                Append(chat_queue[r], <<"event", chat_events[r] + 1>>), chat_sent[r])
      BY <1>0, <3>2, LineWaits DEF Whole
    <3>4. Whole(r)'
      BY <3>1, <3>3 DEF Whole
    <3> QED  BY <1>4, <1>a, <2>2, <3>4 DEF Streams!Emit, Streams!Put
  <2> QED  BY <2>1, <2>2
<1>5. ASSUME NEW r \in Requests, Streams!Ask(r) PROVE StreamInv'
  <2>1. /\ chat_events'[r] = chat_events[r] + 1
        /\ chat_queue'[r] = Append(chat_queue[r], <<"event", chat_events[r] + 1>>)
        /\ UNCHANGED <<chat_stream, chat_sent>>
        /\ chat_turn[r] = "running" /\ chat_turn'[r] = "asking"
    BY <1>5 DEF Streams!Ask, Streams!Put
  <2>2. chat_stream[r] \in {"open", "gone"}
    BY <2>1, <1>t
  <2>3. Sound(chat_stream[r], chat_turn[r], chat_events'[r], chat_queue'[r], chat_sent[r])
    BY <1>0, <2>1, <2>2, LineWaits DEF Whole
  <2>4. Sound(chat_stream[r], "asking", chat_events'[r], chat_queue'[r], chat_sent[r])
    BY <2>2, <2>3 DEF Sound, Closed
  <2>5. Whole(r)'
    BY <2>1, <2>4 DEF Whole
  <2> QED  BY <1>5, <1>a, <2>5 DEF Streams!Ask, Streams!Put
<1>6. ASSUME NEW r \in Requests, Streams!Answer(r) PROVE StreamInv'
  <2>1. /\ chat_queue'[r] = Append(chat_queue[r], <<"resolved", 0>>)
        /\ UNCHANGED <<chat_stream, chat_events, chat_sent>>
        /\ chat_turn[r] = "asking" /\ chat_turn'[r] = "running"
    BY <1>6 DEF Streams!Answer, Streams!Put
  <2>2. chat_stream[r] \in {"open", "gone"} /\ <<"resolved", 0>> \in Line
    BY <2>1, <1>t DEF Line, Kind
  <2>3. Sound(chat_stream[r], chat_turn[r], chat_events[r], chat_queue'[r], chat_sent[r])
    BY <1>0, <2>1, <2>2, LineWaits DEF Whole
  <2>4. Sound(chat_stream[r], "running", chat_events[r], chat_queue'[r], chat_sent[r])
    BY <2>2, <2>3 DEF Sound, Closed
  <2>5. Whole(r)'
    BY <2>1, <2>4 DEF Whole
  <2> QED  BY <1>6, <1>a, <2>5 DEF Streams!Answer, Streams!Put
<1>7. ASSUME NEW r \in Requests, Streams!Cancel(r) PROVE StreamInv'
  BY <1>0, <1>7, Untouched DEF Streams!Cancel, Streams!talk, StreamInv
<1>8. ASSUME NEW r \in Requests, NEW how, Streams!TurnEnds(r, how) PROVE StreamInv'
  <2>1. Whole(r)'
    BY <1>8, <1>b, <1>t DEF Streams!TurnEnds, Streams!talk
  <2> QED  BY <1>8, <1>a, <2>1 DEF Streams!TurnEnds, Streams!talk
<1>9. ASSUME NEW r \in Requests, Streams!Send(r) PROVE StreamInv'
  <2>1. /\ chat_queue[r] # << >> /\ chat_stream[r] = "open"
        /\ chat_queue'[r] = Tail(chat_queue[r])
        /\ chat_sent'[r] = Append(chat_sent[r], Head(chat_queue[r]))
        /\ UNCHANGED <<chat_stream, chat_turn, chat_events>>
    BY <1>9 DEF Streams!Send
  <2>2. Whole(r)'
    BY <1>0, <2>1, LineIsSent DEF Whole
  <2> QED  BY <1>9, <1>a, <2>2 DEF Streams!Send
<1>10. ASSUME NEW r \in Requests, Streams!Finish(r) PROVE StreamInv'
  <2>1. /\ chat_queue[r] = << >> /\ chat_stream[r] = "open" /\ chat_stream'[r] = "ended"
        /\ Streams!Over(r)
        /\ chat_sent'[r] = chat_sent[r] \o Streams!Ending(r)
        /\ UNCHANGED <<chat_queue, chat_turn, chat_events>>
    BY <1>10 DEF Streams!Finish
  <2>2. Whole(r)'
    BY <1>0, <2>1, StreamCloses DEF Whole
  <2> QED  BY <1>10, <1>a, <2>2 DEF Streams!Finish
<1>11. ASSUME NEW r \in Requests, Streams!Disconnect(r) PROVE StreamInv'
  <2>1. Whole(r)'
    BY <1>11, <1>b DEF Streams!Disconnect, Streams!talk
  <2> QED  BY <1>11, <1>a, <2>1 DEF Streams!Disconnect, Streams!talk
<1>12. ASSUME NEW r \in Requests, Streams!Spawn(r) PROVE StreamInv'
  BY <1>0, <1>12, Untouched DEF Streams!Spawn, Streams!talk, StreamInv
<1>13. ASSUME NEW r \in Requests, Streams!Report(r) PROVE StreamInv'
  <2>1. UNCHANGED <<chat_stream, chat_turn, chat_events, chat_sent>>
    BY <1>13 DEF Streams!Report
  <2>2. CASE chat_queue' = chat_queue
    BY <1>0, <2>1, <2>2, Untouched DEF StreamInv
  <2>3. ASSUME Streams!Put(chat_emitter, "worker", 0), NEW s \in Requests PROVE Whole(s)'
    <3>1. CASE s # chat_emitter
      BY <1>0, <2>1, <2>3, <3>1, Untouched DEF Streams!Put
    <3>2. CASE s = chat_emitter
      <4>1. /\ chat_queue'[s] = Append(chat_queue[s], <<"worker", 0>>)
            /\ <<"worker", 0>> \in Line
        BY <2>3, <3>2 DEF Streams!Put, Line, Kind
      <4>2. Sound(chat_stream[s], chat_turn[s], chat_events[s],
                  Append(chat_queue[s], <<"worker", 0>>), chat_sent[s])
        BY <1>0, <4>1, LineWaits DEF Whole
      <4> QED  BY <2>1, <4>1, <4>2 DEF Whole
    <3> QED  BY <3>1, <3>2
  <2> QED  BY <1>13, <2>2, <2>3 DEF Streams!Report, StreamInv
<1>14. ASSUME NEW r \in Requests, Streams!TearDown(r) PROVE StreamInv'
  BY <1>0, <1>14, Untouched DEF Streams!TearDown, Streams!talk, StreamInv
<1> QED
  BY <1>1, <1>2, <1>4, <1>5, <1>6, <1>7, <1>8, <1>9, <1>10, <1>11, <1>12, <1>13, <1>14
  DEF Streams!Next

LEMMA WholeInit == ASSUME Streams!Init PROVE StreamType /\ StreamInv
<1>1. << >> \in Seq(Line) /\ << >> \o << >> = << >> /\ Len(<< >>) = 0
  BY EmptySeq, ConcatEmptySeq
<1>2. Carries(<< >>, 0) /\ Streams!Kinds(<< >>) = {}
  BY DEF Carries, Streams!InOrder, Streams!EventLines, Streams!Kinds, Streams!Range
<1>3. StreamType
  BY <1>1 DEF StreamType, Streams!Init
<1> QED
  BY <1>1, <1>2, <1>3 DEF Streams!Init, StreamInv, Whole, Sound, Running, Waiting

LEMMA WholeFollows == ASSUME StreamType, StreamInv PROVE StreamIsWhole
<1>1. ASSUME NEW r \in Requests, Streams!Ended(r)
      PROVE  /\ Carries(chat_sent[r], chat_events[r])
             /\ Streams!Last(chat_sent[r])[1] = "done"
             /\ chat_turn[r] = "cancelled" => "cancel" \in Streams!Kinds(chat_sent[r])
  BY <1>1 DEF StreamInv, Whole, Sound, Closed, Streams!Ended, Streams!Last
<1>2. ASSUME NEW r \in Requests, ~Streams!Ended(r)
      PROVE  "done" \notin Streams!Kinds(chat_sent[r])
  BY <1>2 DEF StreamInv, Whole, Sound, Running, Streams!Ended, Reports
<1> QED  BY <1>1, <1>2 DEF StreamIsWhole, Streams!StreamIsWhole, Carries, Streams!Last

\* The lines of a stream are those of its turn, in their order and once, and "done" comes
\* last, whatever the other streams do, whatever a worker reports to this one, and whenever
\* a cancellation or a disconnect arrives (server.py:233-263).
THEOREM StreamsAreWhole == Spec => []StreamIsWhole
<1>1. Init => StreamType /\ StreamInv
  BY WholeInit DEF Init
<1>2. StreamType /\ StreamInv /\ [Next]_vars => (StreamType /\ StreamInv)'
  <2> SUFFICES ASSUME StreamType, StreamInv, [Next]_vars PROVE StreamType' /\ StreamInv'
    OBVIOUS
  <2>1. CASE UNCHANGED chatVars
    BY <2>1, Untouched DEF chatVars, StreamType, StreamInv
  <2>2. CASE StreamsSteps
    BY <2>2, TypeStep, WholeStep DEF StreamsSteps
  <2> QED
    BY <2>1, <2>2 DEF Next, WorkersSteps, CallsSteps, Only, vars
<1>3. StreamType /\ StreamInv => StreamIsWhole
  BY WholeFollows
<1> QED  BY <1>1, <1>2, <1>3, PTL DEF Spec
=============================================================================
