------------------------- MODULE ConversationProofs --------------------------
(***************************************************************************)
(* Proofs about the components of MCConversation, for every value of the   *)
(* constants that they name.                                               *)
(***************************************************************************)
EXTENDS MCConversation, SequenceTheorems, FiniteSetTheorems, WellFoundedInduction,
        TLAPS

-----------------------------------------------------------------------------
(* The history of a session. *)

Rows == [num : Nat, of : SUBSET Nat, said : SUBSET Nat, tagged : BOOLEAN, virtual : BOOLEAN]

PastType ==
    /\ past_rows \subseteq Rows
    /\ past_saved \in Nat /\ past_count \in Nat /\ past_saved <= past_count
    /\ past_recent \in Seq(Rows)

\* The session's count is the number of the turn that was recorded last.
CountIsNewest ==
    /\ past_told \subseteq 1..past_saved
    /\ past_saved > 0 => past_saved \in past_told

\* Each row bears a number of its own, that of a recorded turn, and is that turn unless it is
\* a virtual one; the last turn is there as itself.
RowsTell ==
    /\ \A r \in past_rows : r.num \in past_told /\ (~r.virtual => r = Past!Turn(r.num, r.tagged))
    /\ \A r, q \in past_rows : r.num = q.num => r = q
    /\ past_saved > 0 => \E r \in past_rows : r.num = past_saved /\ ~r.virtual

\* These turns, if any was recorded, end with the last one.
EndsWithNewest(turns) ==
    past_saved > 0 =>
        Len(turns) > 0 /\ turns[Len(turns)] \in {Past!Turn(past_saved, tagged) : tagged \in BOOLEAN}

\* What is being prepared ends with the turn before it, until it is recorded.
Prepared ==
    /\ past_pc \in {"read", "fit", "built"} => EndsWithNewest(past_recent)
    /\ past_pc = "read" =>
        /\ \A i \in 1..Len(past_recent) : past_recent[i] \in past_rows
        /\ \A i, j \in 1..Len(past_recent) : past_recent[i] = past_recent[j] => i = j

PastInv ==
    /\ PastType /\ CountIsNewest /\ RowsTell /\ Prepared
    /\ Past!NothingForgotten /\ Past!LockedIsKept

LEMMA SetOf ==
    ASSUME NEW S, NEW s \in Seq(S)
    PROVE  /\ Past!ToSet(s) = {s[i] : i \in 1..Len(s)} /\ DOMAIN s = 1..Len(s) /\ Len(s) \in Nat
           /\ \A i \in 1..Len(s) : s[i] \in S
BY DEF Past!ToSet

\* Lists of the functions that SequencesExt takes for sequences.
LEMMA SeqOfSet ==
    ASSUME NEW S, NEW n \in Nat, NEW s \in Past!SeqOf(S, n)
    PROVE  s \in Seq(S)
BY DEF Past!SeqOf

LEMMA NewestIsRead ==
    ASSUME PastType, CountIsNewest, RowsTell, Window \in Nat \ {0},
           NEW turns \in Past!RecentTurns
    PROVE  /\ turns \in Seq(past_rows)
           /\ \A i, j \in 1..Len(turns) : turns[i] = turns[j] => i = j
           /\ EndsWithNewest(turns)
<1>1. turns \in Seq(past_rows)
  BY SeqOfSet DEF Past!RecentTurns
<1>2. /\ Past!ToSet(turns) = {turns[i] : i \in 1..Len(turns)}
      /\ DOMAIN turns = 1..Len(turns) /\ Len(turns) \in Nat
      /\ \A i \in 1..Len(turns) : turns[i] \in past_rows
  BY <1>1, SetOf
<1>3. /\ \A i, j \in 1..Len(turns) : turns[i] = turns[j] => i = j
      /\ \A i, j \in 1..Len(turns) : i < j => turns[i].num <= turns[j].num
      /\ \A r \in past_rows \ Past!ToSet(turns) :
            Len(turns) = Window /\ \A i \in 1..Len(turns) : r.num <= turns[i].num
  BY <1>2 DEF Past!RecentTurns, Past!InOrder, Past!IsInjective
<1>4. ASSUME past_saved > 0 PROVE Len(turns) > 0 /\ turns[Len(turns)].num = past_saved
  <2>1. PICK r \in past_rows : r.num = past_saved
    BY <1>4 DEF RowsTell
  <2>2. \A i \in 1..Len(turns) : turns[i].num \in 1..past_saved
    BY <1>2 DEF RowsTell, CountIsNewest
  <2>3. CASE r \in Past!ToSet(turns)
    <3>1. PICK i \in 1..Len(turns) : turns[i] = r
      BY <1>2, <2>3
    <3>2. Len(turns) > 0 /\ Len(turns) \in 1..Len(turns) /\ i <= Len(turns)
      BY <1>2, <3>1
    <3>3. turns[i].num = past_saved /\ turns[Len(turns)].num \in 1..past_saved
      BY <2>1, <2>2, <3>1, <3>2
    <3>4. i < Len(turns) => turns[i].num <= turns[Len(turns)].num
      BY <1>3, <3>1, <3>2
    <3>5. i = Len(turns) => turns[Len(turns)].num = past_saved
      BY <3>3
    <3>6. turns[Len(turns)].num = past_saved
      <4>1. past_saved \in Nat /\ i \in Nat /\ Len(turns) \in Nat
        BY <1>2, <3>1 DEF PastType
      <4>2. i < Len(turns) => past_saved <= turns[Len(turns)].num
        BY <3>3, <3>4
      <4>3. i < Len(turns) \/ i = Len(turns)
        BY <3>2, <4>1
      <4>4. i < Len(turns) => turns[Len(turns)].num = past_saved
        BY <3>3, <4>1, <4>2
      <4> QED  BY <3>5, <4>3, <4>4
    <3> QED  BY <3>2, <3>6
  <2>4. CASE r \notin Past!ToSet(turns)
    <3>1. Len(turns) = Window /\ \A i \in 1..Len(turns) : past_saved <= turns[i].num
      BY <1>3, <2>1, <2>4
    <3>2. Len(turns) > 0 /\ Len(turns) \in 1..Len(turns)
      BY <3>1
    <3>3. past_saved <= turns[Len(turns)].num /\ turns[Len(turns)].num \in 1..past_saved
      BY <2>2, <3>1, <3>2
    <3>4. past_saved \in Nat
      BY DEF PastType
    <3> QED  BY <3>2, <3>3, <3>4
  <2> QED  BY <2>3, <2>4
<1>5. EndsWithNewest(turns)
  <2> SUFFICES ASSUME past_saved > 0
               PROVE  Len(turns) > 0 /\ turns[Len(turns)] \in {Past!Turn(past_saved, t) : t \in BOOLEAN}
    BY DEF EndsWithNewest
  <2>1. PICK r \in past_rows : r.num = past_saved /\ ~r.virtual
    BY DEF RowsTell
  <2>2. Len(turns) \in 1..Len(turns) /\ turns[Len(turns)] \in past_rows
    BY <1>2, <1>4
  <2>3. turns[Len(turns)] = r /\ r = Past!Turn(past_saved, r.tagged) /\ r.tagged \in BOOLEAN
    BY <1>4, <2>1, <2>2 DEF RowsTell, PastType, Rows
  <2> QED  BY <1>4, <2>3
<1> QED  BY <1>1, <1>3, <1>5

\* What is compressed is in the older half, and what takes its place tells of it.
LEMMA HalvesOf ==
    ASSUME PastType, PastInv, past_pc = "read", Len(past_recent) >= 4,
           NEW kept \in Past!Chronological(Past!Preserved),
           NEW gone \in Past!Chronological(Past!Aggregatable)
    PROVE  /\ kept \in Seq(Rows) /\ gone \in Seq(Rows)
           /\ Past!ToSet(gone) \subseteq past_rows
           /\ \A r \in Past!ToSet(gone) : ~r.tagged /\ r # past_recent[Len(past_recent)]
           /\ Past!Newer \in Seq(Rows) /\ Len(Past!Newer) > 0
           /\ Past!Newer[Len(Past!Newer)] = past_recent[Len(past_recent)]
<1> DEFINE n == Len(past_recent)  h == n \div 2
<1>1. n \in Nat /\ h \in 1..(n - 1) /\ h + 1 \in 2..n
      /\ \A i \in 1..n : past_recent[i] \in Rows
  BY DEF PastType
<1> HIDE DEF h, n
<1>2. /\ Past!Newer \in Seq(Rows) /\ Len(Past!Newer) = n - h
      /\ \A i \in 1..(n - h) : Past!Newer[i] = past_recent[h + i]
  <2>1. \A i \in (h + 1)..n : past_recent[i] \in Rows
    BY <1>1
  <2>2. Past!Newer = SubSeq(past_recent, h + 1, n)
    BY DEF Past!Newer, h, n
  <2>3. /\ SubSeq(past_recent, h + 1, n) \in Seq(Rows)
        /\ Len(SubSeq(past_recent, h + 1, n)) = IF h + 1 <= n THEN n - (h + 1) + 1 ELSE 0
        /\ \A i \in 1..(n - (h + 1) + 1) : SubSeq(past_recent, h + 1, n)[i] = past_recent[h + 1 + i - 1]
    BY <1>1, <2>1, SubSeqProperties
  <2> QED  BY <1>1, <2>2, <2>3
<1>3. /\ Past!Older \in Seq(Rows) /\ Len(Past!Older) = h
      /\ \A i \in 1..h : Past!Older[i] = past_recent[i]
  <2>1. \A i \in 1..h : past_recent[i] \in Rows
    BY <1>1
  <2>2. Past!Older = SubSeq(past_recent, 1, h)
    BY DEF Past!Older, h, n
  <2>3. /\ SubSeq(past_recent, 1, h) \in Seq(Rows)
        /\ Len(SubSeq(past_recent, 1, h)) = IF 1 <= h THEN h - 1 + 1 ELSE 0
        /\ \A i \in 1..(h - 1 + 1) : SubSeq(past_recent, 1, h)[i] = past_recent[1 + i - 1]
    BY <1>1, <2>1, SubSeqProperties
  <2> QED  BY <1>1, <2>2, <2>3
<1>4. Past!ToSet(Past!Older) = {past_recent[i] : i \in 1..h}
  BY <1>3, SetOf
<1>5. /\ Past!ToSet(gone) = Past!Aggregatable
      /\ gone \in Past!SeqOf(Past!Aggregatable, Window)
      /\ kept \in Past!SeqOf(Past!Preserved, Window)
  BY DEF Past!Chronological
<1>6. /\ Past!Aggregatable \subseteq Rows /\ Past!Preserved \subseteq Rows
      /\ Past!Aggregatable \subseteq past_rows
      /\ \A r \in Past!Aggregatable : ~r.tagged /\ \E i \in 1..h : r = past_recent[i]
  BY <1>1, <1>4 DEF Past!Aggregatable, Past!Preserved, PastInv, Prepared, n
<1>7. \A r \in Past!Aggregatable : r # past_recent[n]
  BY <1>1, <1>6 DEF PastInv, Prepared, n
<1>8. gone \in Seq(Rows) /\ kept \in Seq(Rows)
  BY <1>5, <1>6, SeqOfSet, ConversationAssumption DEF Past!HistoryAssumption
<1>9. Len(Past!Newer) > 0 /\ Past!Newer[Len(Past!Newer)] = past_recent[n]
  BY <1>1, <1>2
<1> QED  BY <1>2, <1>5, <1>6, <1>7, <1>8, <1>9 DEF n

\* A virtual turn tells of the turns that it replaces, and is no turn itself.
LEMMA VirtualOf ==
    ASSUME NEW gone \in Seq(Rows), gone # << >>,
           NEW v \in {Past!Digest(gone)} \cup
                     {Past!Summary(gone, read) : read \in SUBSET Past!Told(gone, TRUE)}
    PROVE  /\ gone[1] \in Past!ToSet(gone)
           /\ v.num = gone[1].num /\ v.tagged = FALSE /\ v.virtual = TRUE
           /\ \A r \in Past!ToSet(gone) : \/ ~r.virtual /\ r.of \subseteq v.of
                                          \/ r.virtual /\ r.of \subseteq Past!Told(gone, TRUE)
           /\ v \in Rows
<1>1. Past!ToSet(gone) = {gone[i] : i \in 1..Len(gone)} /\ 1 \in 1..Len(gone)
      /\ \A i \in 1..Len(gone) : gone[i] \in Rows
  BY SetOf, EmptySeq
<1>2. /\ gone[1] \in Rows /\ gone[1] \in Past!ToSet(gone)
      /\ \A r \in Past!ToSet(gone) : r.of \in SUBSET Nat /\ r.said \in SUBSET Nat /\ r.virtual \in BOOLEAN
  BY <1>1 DEF Rows
<1>3. /\ \A r \in Past!ToSet(gone) : r.of \subseteq Past!Told(gone, r.virtual)
      /\ \A b \in BOOLEAN : Past!Told(gone, b) \subseteq Nat
  <2>1. ASSUME NEW r \in Past!ToSet(gone), NEW n \in r.of PROVE n \in Past!Told(gone, r.virtual)
    <3> DEFINE alike == {q \in Past!ToSet(gone) : q.virtual = r.virtual}
    <3>1. r \in alike
      OBVIOUS
    <3> HIDE DEF alike
    <3>2. n \in UNION {q.of : q \in alike}
      BY <2>1, <3>1
    <3> QED  BY <3>2 DEF Past!Told, alike
  <2>2. ASSUME NEW b \in BOOLEAN PROVE Past!Told(gone, b) \subseteq Nat
    <3>1. ASSUME NEW n \in Past!Told(gone, b) PROVE n \in Nat
      <4>1. PICK r \in Past!ToSet(gone) : n \in r.of
        BY <3>1 DEF Past!Told
      <4> QED  BY <1>2, <4>1
    <3> QED  BY <3>1
  <2> QED  BY <2>1, <2>2
<1>4. PICK inputs \in SUBSET Nat, answers \in SUBSET Nat :
        v = Past!Virtual(gone, inputs, answers) /\ Past!Told(gone, FALSE) \subseteq inputs
  <2>1. CASE v = Past!Digest(gone)
    <3>1. Past!Told(gone, FALSE) \in SUBSET Nat /\ {} \in SUBSET Nat
      BY <1>3
    <3>2. v = Past!Virtual(gone, Past!Told(gone, FALSE), {})
      BY <2>1 DEF Past!Digest
    <3> QED  BY <3>1, <3>2, Zenon
  <2>2. ASSUME NEW read \in SUBSET Past!Told(gone, TRUE), v = Past!Summary(gone, read)
        PROVE  \E inputs \in SUBSET Nat, answers \in SUBSET Nat :
                  v = Past!Virtual(gone, inputs, answers) /\ Past!Told(gone, FALSE) \subseteq inputs
    <3> DEFINE inputs == Past!Told(gone, FALSE) \cup read
               answers == inputs \cap UNION {r.said : r \in Past!ToSet(gone)}
    <3>1. v = Past!Virtual(gone, inputs, answers)
      BY <2>2 DEF Past!Summary
    <3>2. inputs \in SUBSET Nat /\ answers \in SUBSET Nat
      BY <1>3
    <3> HIDE DEF inputs, answers
    <3>3. Past!Told(gone, FALSE) \subseteq inputs
      BY DEF inputs
    <3> QED  BY <3>1, <3>2, <3>3
  <2> QED  BY <2>1, <2>2
<1>5. /\ v.num = gone[1].num /\ v.tagged = FALSE /\ v.virtual = TRUE /\ v.of = inputs
      /\ v \in Rows
  BY <1>2, <1>4 DEF Past!Virtual, Rows
<1>6. \A r \in Past!ToSet(gone) : \/ ~r.virtual /\ r.of \subseteq v.of
                                  \/ r.virtual /\ r.of \subseteq Past!Told(gone, TRUE)
  <2> SUFFICES ASSUME NEW r \in Past!ToSet(gone)
               PROVE  \/ ~r.virtual /\ r.of \subseteq v.of
                      \/ r.virtual /\ r.of \subseteq Past!Told(gone, TRUE)
    OBVIOUS
  <2>1. r.virtual \in BOOLEAN /\ r.of \subseteq Past!Told(gone, r.virtual)
    BY <1>2, <1>3
  <2> QED  BY <1>4, <1>5, <2>1
<1> QED  BY <1>2, <1>5, <1>6

LEMMA JoinEnds ==
    ASSUME NEW S, NEW a \in Seq(S), NEW b \in Seq(S), Len(b) > 0
    PROVE  /\ a \o b \in Seq(S) /\ Len(a \o b) > 0 /\ (a \o b)[Len(a \o b)] = b[Len(b)]
<1>1. /\ a \o b \in Seq(S) /\ Len(a \o b) = Len(a) + Len(b)
      /\ \A i \in 1..(Len(a) + Len(b)) : (a \o b)[i] = IF i <= Len(a) THEN a[i] ELSE b[i - Len(a)]
      /\ Len(a) \in Nat /\ Len(b) \in Nat
  BY ConcatProperties, LenProperties
<1>2. Len(a \o b) \in 1..(Len(a) + Len(b)) /\ Len(a \o b) > Len(a) /\ Len(a \o b) - Len(a) = Len(b)
  BY <1>1
<1> QED  BY <1>1, <1>2

LEMMA PastInit == ASSUME Past!Init PROVE PastInv
<1>1. << >> \in Seq(Rows)
  OBVIOUS
<1> QED
  BY <1>1 DEF Past!Init, PastInv, PastType, CountIsNewest, RowsTell, Prepared,
     Past!NothingForgotten, Past!LockedIsKept

LEMMA PastStep == ASSUME PastInv, Past!Next PROVE PastInv'
<1> DEFINE Same == UNCHANGED <<past_rows, past_saved, past_told, past_locked, past_again, past_bare>>
\* What the table says lasts as long as the table does.
<1>0. PastType /\ CountIsNewest /\ RowsTell /\ Prepared /\ Past!NothingForgotten /\ Past!LockedIsKept
  BY DEF PastInv
<1>a. ASSUME Same, past_count' \in Nat, past_saved <= past_count', past_recent' \in Seq(Rows), Prepared'
      PROVE  PastInv'
  BY <1>0, <1>a DEF PastInv, PastType, CountIsNewest, RowsTell, Past!NothingForgotten,
                    Past!LockedIsKept, Past!Turn
<1>e. << >> \in Seq(Rows)
  OBVIOUS
<1>1. ASSUME Past!Read PROVE PastInv'
  <2>1. /\ Same /\ past_pc' = "read" /\ past_count' = past_count /\ past_recent' \in Past!RecentTurns
    BY <1>1 DEF Past!Read, Past!table
  <2>2. /\ past_recent' \in Seq(past_rows)
        /\ \A i, j \in 1..Len(past_recent') : past_recent'[i] = past_recent'[j] => i = j
        /\ EndsWithNewest(past_recent')
    BY <1>0, <2>1, NewestIsRead, ConversationAssumption DEF Past!HistoryAssumption
  <2>3. /\ Len(past_recent') \in Nat
        /\ \A i \in 1..Len(past_recent') : past_recent'[i] \in past_rows
    BY <2>2
  <2>4. EndsWithNewest(past_recent)'
    BY <2>1, <2>2 DEF EndsWithNewest, Past!Turn
  <2>5. past_recent' \in Seq(Rows)
    BY <1>0, <2>2 DEF PastType
  <2> QED  BY <1>0, <1>a, <2>1, <2>2, <2>3, <2>4, <2>5 DEF Prepared, PastType
<1>2. ASSUME Past!Fits PROVE PastInv'
  BY <1>0, <1>2, <1>a DEF Past!Fits, Past!table, Prepared, EndsWithNewest, Past!Turn, PastType
<1>3. ASSUME Past!Compress PROVE PastInv'
  <2> DEFINE l == past_recent[Len(past_recent)]  w == Past!Newer
  <2>1. /\ past_pc = "read" /\ Len(past_recent) >= 4 /\ past_pc' = "fit"
        /\ UNCHANGED <<past_saved, past_told, past_locked, past_count>>
    BY <1>3 DEF Past!Compress
  <2>2. PICK kept \in Past!Chronological(Past!Preserved), gone \in Past!Chronological(Past!Aggregatable) :
          IF gone = << >>
          THEN past_recent' = kept \o w /\ UNCHANGED <<past_rows, past_again, past_bare>>
          ELSE \E v \in {Past!Digest(gone)} \cup
                        {Past!Summary(gone, read) : read \in SUBSET Past!Told(gone, TRUE)} :
                  /\ past_rows' = (past_rows \ Past!ToSet(gone)) \cup {v}
                  /\ past_recent' = kept \o <<v>> \o w
                  /\ past_again' = past_again \cup Past!Told(gone, TRUE)
                  /\ past_bare' = past_bare \cup (v.of \ v.said)
    BY <1>3 DEF Past!Compress
  <2>3. /\ kept \in Seq(Rows) /\ gone \in Seq(Rows)
        /\ Past!ToSet(gone) \subseteq past_rows
        /\ \A r \in Past!ToSet(gone) : ~r.tagged /\ r # l
        /\ w \in Seq(Rows) /\ Len(w) > 0 /\ w[Len(w)] = l
    BY <1>0, <2>1, HalvesOf
  <2>4. past_saved > 0 => /\ l \in {Past!Turn(past_saved, t) : t \in BOOLEAN} /\ l \in past_rows
                          /\ l.num = past_saved /\ ~l.virtual
    <3>1. Len(past_recent) \in 1..Len(past_recent)
      BY <1>0, <2>1 DEF PastType
    <3> QED  BY <1>0, <2>1, <3>1 DEF Prepared, EndsWithNewest, Past!Turn
  <2> HIDE DEF l, w
  <2>5. ASSUME gone = << >> PROVE PastInv'
    <3>1. past_recent' \in Seq(Rows) /\ Len(past_recent') > 0 /\ past_recent'[Len(past_recent')] = l
      <4>1. kept \o w \in Seq(Rows) /\ Len(kept \o w) > 0 /\ (kept \o w)[Len(kept \o w)] = w[Len(w)]
        BY <2>3, JoinEnds
      <4> QED  BY <2>2, <2>3, <2>5, <4>1
    <3>2. Prepared'
      BY <2>1, <2>4, <3>1 DEF Prepared, EndsWithNewest, Past!Turn
    <3> QED  BY <1>0, <1>a, <2>1, <2>2, <2>5, <3>1, <3>2 DEF PastType
  <2>6. ASSUME gone # << >> PROVE PastInv'
    <3> DEFINE old == Past!ToSet(gone)
    <3>2. PICK v \in {Past!Digest(gone)} \cup
                     {Past!Summary(gone, read) : read \in SUBSET Past!Told(gone, TRUE)} :
            /\ past_rows' = (past_rows \ old) \cup {v} /\ past_recent' = kept \o <<v>> \o w
            /\ past_again' = past_again \cup Past!Told(gone, TRUE)
            /\ past_bare' = past_bare \cup (v.of \ v.said)
      BY <2>2, <2>6
    <3>1. /\ v \in Rows /\ gone[1] \in old /\ v.num = gone[1].num /\ v.tagged = FALSE
          /\ v.virtual = TRUE
          /\ \A r \in old : \/ ~r.virtual /\ r.of \subseteq v.of
                            \/ r.virtual /\ r.of \subseteq Past!Told(gone, TRUE)
      BY <2>3, <2>6, VirtualOf
    <3> HIDE DEF old
    <3>3. old \subseteq past_rows /\ \A r \in old : ~r.tagged /\ r # l
      BY <2>3 DEF old
    <3>4. past_recent' \in Seq(Rows) /\ Len(past_recent') > 0 /\ past_recent'[Len(past_recent')] = l
      <4>1. <<v>> \in Seq(Rows)
        BY <3>1
      <4>2. kept \o <<v>> \in Seq(Rows)
        BY <2>3, <4>1, ConcatProperties
      <4>3. /\ (kept \o <<v>>) \o w \in Seq(Rows) /\ Len((kept \o <<v>>) \o w) > 0
            /\ ((kept \o <<v>>) \o w)[Len((kept \o <<v>>) \o w)] = w[Len(w)]
        BY <2>3, <4>2, JoinEnds
      <4> QED  BY <2>3, <3>2, <4>3
    <3>5. Prepared'
      BY <2>1, <2>4, <3>4 DEF Prepared, EndsWithNewest, Past!Turn
    <3>6. PastType'
      BY <1>0, <2>1, <3>1, <3>2, <3>4 DEF PastType
    <3>7. RowsTell'
      <4>1. v.num \in past_told /\ \A r \in past_rows \ old : r.num # v.num
        BY <1>0, <3>1, <3>3 DEF RowsTell
      <4>2. past_saved > 0 => l \in past_rows' /\ l.num = past_saved /\ ~l.virtual
        BY <2>4, <3>2, <3>3
      <4>3. \A r \in past_rows' : r.num \in past_told /\ (~r.virtual => r = Past!Turn(r.num, r.tagged))
        BY <1>0, <3>1, <3>2, <4>1 DEF RowsTell
      <4>4. \A r, q \in past_rows' : r.num = q.num => r = q
        BY <1>0, <3>2, <4>1 DEF RowsTell
      <4> QED  BY <2>1, <4>2, <4>3, <4>4 DEF RowsTell, Past!Turn
    <3>8. Past!NothingForgotten'
      <4> SUFFICES ASSUME NEW n \in past_told, n \notin past_again, n \notin Past!Told(gone, TRUE)
                   PROVE  \E r \in past_rows' : n \in r.of /\ (n \in r.said \/ n \in past_bare')
        BY <2>1, <3>2 DEF Past!NothingForgotten
      <4>1. PICK r \in past_rows : n \in r.of /\ (n \in r.said \/ n \in past_bare)
        BY <1>0 DEF Past!NothingForgotten
      <4>2. CASE r \in old
        BY <3>1, <3>2, <4>1, <4>2
      <4>3. CASE r \notin old
        BY <3>2, <4>1, <4>3
      <4> QED  BY <4>2, <4>3
    <3>9. Past!LockedIsKept'
      <4> SUFFICES ASSUME NEW n \in past_locked PROVE Past!Turn(n, TRUE) \in past_rows'
        BY <2>1 DEF Past!LockedIsKept, Past!Turn
      <4>1. Past!Turn(n, TRUE) \in past_rows /\ Past!Turn(n, TRUE).tagged
        BY <1>0 DEF Past!LockedIsKept, Past!Turn
      <4> QED  BY <3>2, <3>3, <4>1
    <3>10. CountIsNewest'
      BY <1>0, <2>1 DEF CountIsNewest
    <3> QED  BY <3>5, <3>6, <3>7, <3>8, <3>9, <3>10 DEF PastInv
  <2> QED  BY <2>5, <2>6
<1>4. ASSUME Past!CompressFails PROVE PastInv'
  BY <1>0, <1>4, <1>a, <1>e DEF Past!CompressFails, Past!table, Prepared, PastType
<1>5. ASSUME Past!Drop PROVE PastInv'
  <2> DEFINE t == Tail(past_recent)
  <2>1. past_pc = "fit" /\ past_pc' = "fit" /\ Len(past_recent) > 1 /\ past_recent' = t
        /\ Same /\ past_count' = past_count
    BY <1>5 DEF Past!Drop, Past!table
  <2>2. past_recent # << >> /\ past_recent \in Seq(Rows)
    BY <1>0, <2>1 DEF PastType
  <2>3. /\ t \in Seq(Rows) /\ Len(t) = Len(past_recent) - 1
        /\ \A i \in 1..Len(t) : t[i] = past_recent[i + 1]
    BY <2>2, HeadTailProperties
  <2> HIDE DEF t
  <2>4. /\ Len(past_recent) \in Nat /\ Len(t) > 0 /\ Len(t) \in 1..Len(t)
        /\ Len(t) + 1 = Len(past_recent)
    BY <2>1, <2>2, <2>3
  <2>5. t[Len(t)] = past_recent[Len(past_recent)]
    BY <2>3, <2>4
  <2>6. Prepared'
    BY <1>0, <2>1, <2>4, <2>5 DEF Prepared, EndsWithNewest
  <2> QED  BY <1>0, <1>a, <2>1, <2>3, <2>6 DEF PastType
<1>6. ASSUME Past!Built PROVE PastInv'
  BY <1>0, <1>6, <1>a DEF Past!Built, Past!table, Prepared, EndsWithNewest, Past!Turn, PastType
<1>7. ASSUME NEW tagged \in BOOLEAN, Past!Record(tagged) PROVE PastInv'
  <2> DEFINE n == past_count + 1
  <2>1. /\ n \in Nat /\ past_saved < n /\ past_count' = n /\ past_saved' = n /\ n > 0
        /\ past_rows' = past_rows \cup {Past!Turn(n, tagged)} /\ past_told' = past_told \cup {n}
        /\ past_locked' = (IF tagged THEN past_locked \cup {n} ELSE past_locked)
        /\ past_pc' = "idle" /\ past_recent' = << >>
        /\ past_again' = past_again /\ past_bare' = past_bare
    BY <1>0, <1>7 DEF Past!Record, PastType
  <2>2. /\ Past!Turn(n, tagged) \in Rows /\ Past!Turn(n, tagged).num = n
        /\ n \in Past!Turn(n, tagged).of /\ n \in Past!Turn(n, tagged).said
        /\ ~Past!Turn(n, tagged).virtual /\ Past!Turn(n, tagged).tagged = tagged
    BY <2>1 DEF Past!Turn, Rows
  <2>3. PastType'
    BY <1>0, <1>e, <2>1, <2>2 DEF PastType
  <2>4. CountIsNewest'
    BY <1>0, <2>1 DEF CountIsNewest, PastType
  <2>5. RowsTell'
    <3>1. \A r \in past_rows : r.num \in past_told /\ r.num # n
      BY <1>0, <2>1 DEF RowsTell, CountIsNewest, PastType
    <3>2. \A r \in past_rows' : r.num \in past_told' /\ (~r.virtual => r = Past!Turn(r.num, r.tagged))
      BY <1>0, <2>1, <2>2 DEF RowsTell
    <3>3. \A r, q \in past_rows' : r.num = q.num => r = q
      BY <1>0, <2>1, <2>2, <3>1 DEF RowsTell
    <3>4. \E r \in past_rows' : r.num = past_saved' /\ ~r.virtual
      BY <2>1, <2>2
    <3> QED  BY <3>2, <3>3, <3>4 DEF RowsTell, Past!Turn
  <2>6. Past!NothingForgotten'
    BY <1>0, <2>1, <2>2 DEF Past!NothingForgotten
  <2>7. Past!LockedIsKept'
    BY <1>0, <2>1 DEF Past!LockedIsKept, Past!Turn
  <2> QED  BY <2>1, <2>3, <2>4, <2>5, <2>6, <2>7 DEF PastInv, Prepared
<1>8. ASSUME Past!RecordFails PROVE PastInv'
  BY <1>0, <1>8, <1>a, <1>e DEF Past!RecordFails, Past!table, Prepared, PastType
<1>9. ASSUME Past!Crash PROVE PastInv'
  BY <1>0, <1>9, <1>a, <1>e DEF Past!Crash, Past!table, Prepared, PastType
<1> QED  BY <1>1, <1>2, <1>3, <1>4, <1>5, <1>6, <1>7, <1>8, <1>9 DEF Past!Next

LEMMA PastFollows == ASSUME PastInv PROVE HistoryIsKept
<1>1. Past!NewestIsShown
  <2> DEFINE newest == CHOOSE n \in past_told : \A k \in past_told : k <= n
  <2> SUFFICES ASSUME past_pc = "built", past_told # {}
               PROVE  past_recent[Len(past_recent)] \in {Past!Turn(newest, tagged) : tagged \in BOOLEAN}
    BY DEF Past!NewestIsShown
  <2>1. past_saved > 0 /\ past_saved \in past_told /\ \A k \in past_told : k \in 1..past_saved
    <3>1. /\ past_saved \in Nat /\ past_told \subseteq 1..past_saved
          /\ past_saved > 0 => past_saved \in past_told
      BY DEF PastInv, PastType, CountIsNewest
    <3>2. PICK k \in past_told : k \in 1..past_saved
      BY <3>1
    <3> QED  BY <3>1, <3>2
  <2>2. newest = past_saved
    <3>1. \A k \in past_told : k <= past_saved
      BY <2>1
    <3>2. \A n \in past_told : (\A k \in past_told : k <= n) => n = past_saved
      BY <2>1
    <3> QED  BY <2>1, <3>1, <3>2
  <2> HIDE DEF newest
  <2> QED  BY <2>1, <2>2 DEF PastInv, Prepared, EndsWithNewest
<1> QED  BY <1>1 DEF PastInv, HistoryIsKept

\* However often the history is compressed, cut, rolled back and resumed: a recorded turn is in
\* the table, as itself or in a summary, until a summary of it is compressed again, its answer
\* unless a digest left it out; none that is locked is compressed, and a prompt ends with the
\* turn before it as that was recorded (context_builder.py:341).
THEOREM NothingIsForgotten == Spec => []HistoryIsKept
<1>1. Init => PastInv
  BY PastInit DEF Init
<1>2. PastInv /\ [Next]_vars => PastInv'
  <2> SUFFICES ASSUME PastInv, [Next]_vars PROVE PastInv'
    OBVIOUS
  <2>1. CASE UNCHANGED pastVars
    BY <2>1 DEF pastVars, PastInv, PastType, CountIsNewest, RowsTell, Prepared, EndsWithNewest,
       Past!NothingForgotten, Past!LockedIsKept, Past!Turn
  <2>2. CASE PastSteps
    BY <2>2, PastStep DEF PastSteps
  <2> QED
    BY <2>1, <2>2 DEF Next, TurnsSteps, SearchSteps, EditsSteps, PromptSteps, WorkersSteps, Only, vars
<1>3. PastInv => HistoryIsKept
  BY PastFollows
<1> QED  BY <1>1, <1>2, <1>3, PTL DEF Spec

-----------------------------------------------------------------------------
(* The prompt of the terminal. *)

UiKinds == {"progress", "error", "approval", "answer", "cancel"}
UiEvents == [kind : UiKinds, n : Nat]

PromptType ==
    /\ ui_wire \in Seq(UiEvents) /\ ui_inputs \in Seq(Nat)
    /\ ui_turn \in Nat /\ ui_submitted \in Nat

\* While the loop waits for an input and none comes, the last event on the wire opens the prompt,
\* or it is open; unless the bridge dropped the socket or an approval came late.
Opens ==
    ui_connected /\ ~ui_late /\ ui_py = "read" /\ ui_inputs = << >> =>
        IF ui_wire = << >> THEN ui_mode # "thinking" ELSE ui_wire[Len(ui_wire)].kind = "answer"

PromptInv == PromptType /\ Opens /\ ui_mode \in {"prompt", "thinking", "done"}

LEMMA EmitOf ==
    ASSUME PromptType, NEW kinds \in Seq(UiKinds), Prompt!Emit(kinds)
    PROVE  /\ ui_wire' \in Seq(UiEvents)
           /\ kinds = << >> => ui_wire' = ui_wire
           /\ ui_connected /\ kinds # << >> =>
                Len(ui_wire') > 0 /\ ui_wire'[Len(ui_wire')].kind = kinds[Len(kinds)]
<1> DEFINE e == [i \in DOMAIN kinds |-> Prompt!Event(kinds[i], ui_turn)]
<1>1. CASE ~ui_connected
  BY <1>1 DEF Prompt!Emit, PromptType
<1>2. ASSUME ui_connected PROVE ui_wire' = ui_wire \o e
  BY <1>2 DEF Prompt!Emit
<1>3. /\ Len(kinds) \in Nat /\ DOMAIN kinds = 1..Len(kinds)
      /\ \A i \in 1..Len(kinds) : kinds[i] \in UiKinds
      /\ kinds # << >> => Len(kinds) \in 1..Len(kinds)
      /\ kinds = << >> => Len(kinds) = 0
  BY EmptySeq, LenProperties
<1>4. \A i \in 1..Len(kinds) : Prompt!Event(kinds[i], ui_turn) \in UiEvents
  BY <1>3 DEF Prompt!Event, UiEvents, PromptType
<1>5. /\ e \in Seq(UiEvents) /\ Len(e) = Len(kinds)
      /\ \A i \in 1..Len(kinds) : e[i] = Prompt!Event(kinds[i], ui_turn)
  BY <1>3, <1>4
<1>6. ui_wire \in Seq(UiEvents)
  BY DEF PromptType
<1> HIDE DEF e
<1>7. ASSUME ui_connected, kinds = << >> PROVE ui_wire' = ui_wire
  <2>1. e = << >>
    BY <1>3, <1>5, <1>7, EmptySeq
  <2> QED  BY <1>2, <1>6, <1>7, <2>1, ConcatEmptySeq
<1>8. ASSUME ui_connected, kinds # << >>
      PROVE  /\ ui_wire \o e \in Seq(UiEvents) /\ Len(ui_wire \o e) > 0
             /\ (ui_wire \o e)[Len(ui_wire \o e)].kind = kinds[Len(kinds)]
  <2>1. Len(e) > 0 /\ e[Len(e)].kind = kinds[Len(kinds)]
    <3>1. Len(kinds) \in 1..Len(kinds) /\ Len(e) = Len(kinds) /\ Len(e) > 0
      BY <1>3, <1>5, <1>8
    <3>2. e[Len(kinds)] = Prompt!Event(kinds[Len(kinds)], ui_turn)
      BY <1>5, <3>1
    <3>3. Prompt!Event(kinds[Len(kinds)], ui_turn).kind = kinds[Len(kinds)]
      BY DEF Prompt!Event
    <3> QED  BY <3>1, <3>2, <3>3
  <2> QED  BY <1>5, <1>6, <2>1, JoinEnds
<1> QED  BY <1>1, <1>2, <1>6, <1>7, <1>8

LEMMA AppendOf ==
    ASSUME NEW S, NEW s \in Seq(S), NEW x \in S
    PROVE  /\ Append(s, x) \in Seq(S) /\ Append(s, x) # << >>
           /\ Append(s, x)[Len(Append(s, x))] = x
BY AppendProperties

LEMMA TailOf ==
    ASSUME NEW S, NEW s \in Seq(S), s # << >>
    PROVE  /\ Tail(s) \in Seq(S) /\ Head(s) \in S /\ Head(s) = s[1]
           /\ Tail(s) # << >> => Tail(s)[Len(Tail(s))] = s[Len(s)]
           /\ Tail(s) = << >> => Head(s) = s[Len(s)]
<1>1. /\ Tail(s) \in Seq(S) /\ Head(s) \in S /\ Head(s) = s[1]
      /\ Len(Tail(s)) = Len(s) - 1
      /\ \A i \in 1..Len(Tail(s)) : Tail(s)[i] = s[i + 1]
  BY HeadTailProperties
<1> DEFINE t == Tail(s)
<1>2. Len(s) \in Nat \ {0} /\ (t # << >> => Len(t) \in Nat \ {0}) /\ (t = << >> => Len(t) = 0)
  BY <1>1, EmptySeq
<1> HIDE DEF t
<1>3. t # << >> => Len(t) \in 1..Len(t) /\ Len(t) + 1 = Len(s)
  BY <1>1, <1>2 DEF t
<1>4. t = << >> => Len(s) = 1
  BY <1>1, <1>2 DEF t
<1> QED  BY <1>1, <1>3, <1>4 DEF t

LEMMA PromptStep == ASSUME PromptInv, Prompt!Next, MaxInputs \in Nat PROVE PromptInv'
<1> USE DEF PromptInv
<1>0. /\ PromptType /\ ui_wire \in Seq(UiEvents) /\ ui_inputs \in Seq(Nat) /\ ui_turn \in Nat
      /\ ui_submitted \in Nat
  BY DEF PromptType
<1>k. /\ \A k \in UiKinds : <<k>> \in Seq(UiKinds) /\ <<k>>[Len(<<k>>)] = k /\ <<k>> # << >>
      /\ \A k \in UiKinds : LET s == <<k, "answer">>
                            IN  s \in Seq(UiKinds) /\ s[Len(s)] = "answer" /\ s # << >>
      /\ << >> \in Seq(UiKinds)
      /\ UiKinds = {"progress", "error", "approval", "answer", "cancel"}
  <2>1. ASSUME NEW k \in UiKinds
        PROVE  <<k>> \in Seq(UiKinds) /\ <<k>>[Len(<<k>>)] = k /\ <<k>> # << >>
    OBVIOUS
  <2>2. ASSUME NEW k \in UiKinds
        PROVE  LET s == <<k, "answer">>
               IN  s \in Seq(UiKinds) /\ s[Len(s)] = "answer" /\ s # << >>
    <3>1. <<k, "answer">> \in Seq(UiKinds)
      BY DEF UiKinds
    <3>2. Len(<<k, "answer">>) = 2 /\ <<k, "answer">>[2] = "answer"
      OBVIOUS
    <3>3. <<k, "answer">> # << >>
      BY <3>2, EmptySeq
    <3> QED  BY <3>1, <3>2, <3>3
  <2>3. << >> \in Seq(UiKinds)
    OBVIOUS
  <2> QED  BY <2>1, <2>2, <2>3 DEF UiKinds
\* A step that ends away from the read says nothing of the prompt.
<1>a. ASSUME ui_py' # "read", PromptType', ui_mode' \in {"prompt", "thinking", "done"} PROVE PromptInv'
  BY <1>a DEF Opens
<1>1. ASSUME Prompt!Submit PROVE PromptInv'
  <2>1. ui_inputs' = Append(ui_inputs, ui_submitted + 1) /\ ui_submitted' = ui_submitted + 1
        /\ ui_mode' = "thinking" /\ UNCHANGED <<ui_wire, ui_turn>>
    BY <1>1 DEF Prompt!Submit, Prompt!pyVars
  <2>2. ui_inputs' \in Seq(Nat) /\ ui_inputs' # << >>
    BY <1>0, <2>1, AppendOf
  <2> QED  BY <1>0, <2>1, <2>2 DEF Opens, PromptType
<1>2. ASSUME Prompt!Escape PROVE PromptInv'
  BY <1>2 DEF Prompt!Escape, Prompt!pyVars, Opens, PromptType
<1>3. ASSUME NEW n, Prompt!Answer(n) PROVE PromptInv'
  BY <1>3 DEF Prompt!Answer, Prompt!pyVars, Opens, PromptType
<1>4. ASSUME Prompt!Receive PROVE PromptInv'
  <2>1. /\ ui_wire # << >> /\ ui_wire' = Tail(ui_wire)
        /\ ui_mode' = Prompt!ModeAfter(Head(ui_wire).kind)
        /\ UNCHANGED <<ui_py, ui_turn, ui_late, ui_inputs, ui_connected, ui_submitted>>
    BY <1>4 DEF Prompt!Receive, Prompt!pyVars
  <2>2. /\ ui_wire' \in Seq(UiEvents)
        /\ ui_wire' # << >> => ui_wire'[Len(ui_wire')] = ui_wire[Len(ui_wire)]
        /\ ui_wire' = << >> => Head(ui_wire) = ui_wire[Len(ui_wire)]
    <3>1. /\ Tail(ui_wire) \in Seq(UiEvents)
          /\ Tail(ui_wire) # << >> => Tail(ui_wire)[Len(Tail(ui_wire))] = ui_wire[Len(ui_wire)]
          /\ Tail(ui_wire) = << >> => Head(ui_wire) = ui_wire[Len(ui_wire)]
      BY <1>0, <2>1, TailOf
    <3> QED  BY <2>1, <3>1
  <2>3. Prompt!ModeAfter("answer") = "prompt"
    BY DEF Prompt!ModeAfter
  <2>4. ui_mode' \in {"prompt", "thinking", "done"}
    BY <2>1 DEF Prompt!ModeAfter
  <2>5. Opens'
    BY <2>1, <2>2, <2>3 DEF Opens
  <2> QED  BY <1>0, <2>1, <2>2, <2>4, <2>5 DEF PromptType
<1>5. ASSUME Prompt!Quit PROVE PromptInv'
  BY <1>5 DEF Prompt!Quit, Prompt!pyVars, Prompt!pipeVars, Opens, PromptType
<1>6. ASSUME Prompt!ReadEof PROVE PromptInv'
  <2>1. ui_inputs' = Append(ui_inputs, 0) /\ UNCHANGED <<ui_wire, ui_turn, ui_mode, ui_submitted>>
    BY <1>6 DEF Prompt!ReadEof, Prompt!uiVars, Prompt!pyVars
  <2>2. ui_inputs' \in Seq(Nat) /\ ui_inputs' # << >>
    BY <1>0, <2>1, AppendOf
  <2> QED  BY <1>0, <2>1, <2>2 DEF Opens, PromptType
<1>7. ASSUME Prompt!Take PROVE PromptInv'
  <2> DEFINE n == Head(ui_inputs)
  <2>1. ui_inputs # << >> /\ ui_inputs' = Tail(ui_inputs) /\ UNCHANGED <<ui_mode, ui_submitted, ui_connected>>
    BY <1>7 DEF Prompt!Take, Prompt!uiVars
  <2>2. n \in Nat /\ ui_inputs' \in Seq(Nat)
    BY <1>0, <2>1, TailOf
  <2>3. \A k \in UiKinds : /\ Prompt!Event(k, n) \in UiEvents /\ Prompt!Event(k, n).kind = k
    BY <2>2 DEF Prompt!Event, UiEvents
  <2> HIDE DEF n
  <2> DEFINE a == Append(ui_wire, Prompt!Event("answer", n))
              p == Append(ui_wire, Prompt!Event("progress", n))
  <2>4. a \in Seq(UiEvents) /\ a # << >> /\ a[Len(a)].kind = "answer" /\ p \in Seq(UiEvents)
    BY <1>0, <1>k, <2>3, AppendOf
  <2> HIDE DEF a, p
  <2>5. \/ ui_py' = "stop" /\ UNCHANGED <<ui_turn, ui_wire>>
        \/ /\ ui_turn' = n /\ UNCHANGED ui_py
           /\ ui_wire' = IF ui_connected THEN a ELSE ui_wire
        \/ ui_turn' = n /\ ui_py' = "race" /\ ui_wire' = IF ui_connected THEN p ELSE ui_wire
    BY <1>7 DEF Prompt!Take, n, a, p
  <2>6. PromptType'
    BY <1>0, <2>1, <2>2, <2>4, <2>5 DEF PromptType
  <2>7. Opens'
    BY <2>1, <2>4, <2>5 DEF Opens
  <2> QED  BY <2>1, <2>6, <2>7
<1>8. ASSUME Prompt!Report PROVE PromptInv'
  <2>1. /\ ui_py' = "race" /\ UNCHANGED <<ui_mode, ui_inputs, ui_turn, ui_submitted>>
        /\ \E k \in UiKinds : Prompt!Emit(<<k>>)
    BY <1>8, <1>k DEF Prompt!Report, Prompt!uiVars
  <2>2. ui_wire' \in Seq(UiEvents)
    BY <1>0, <1>k, <2>1, EmitOf
  <2> QED  BY <1>0, <1>a, <2>1, <2>2 DEF PromptType
<1>9. ASSUME Prompt!Finish PROVE PromptInv'
  BY <1>9, <1>a DEF Prompt!Finish, Prompt!uiVars, PromptType
<1>10. ASSUME Prompt!SeeCancel PROVE PromptInv'
  BY <1>10, <1>a DEF Prompt!SeeCancel, Prompt!uiVars, PromptType
<1>11. ASSUME Prompt!Swallow PROVE PromptInv'
  BY <1>11, <1>a DEF Prompt!Swallow, Prompt!uiVars, Prompt!pyVars, PromptType
\* A turn that ends has an answer emitted last.
<1>b. ASSUME NEW kinds \in Seq(UiKinds), kinds # << >>, kinds[Len(kinds)] = "answer",
             Prompt!Emit(kinds), UNCHANGED <<ui_mode, ui_inputs, ui_turn, ui_submitted, ui_connected>>
      PROVE  PromptInv'
  <2>1. /\ ui_wire' \in Seq(UiEvents)
        /\ ui_connected => Len(ui_wire') > 0 /\ ui_wire'[Len(ui_wire')].kind = "answer"
    BY <1>0, <1>b, EmitOf
  <2>2. Len(ui_wire') > 0 => ui_wire' # << >>
    BY <2>1, EmptySeq
  <2> QED  BY <1>0, <1>b, <2>1, <2>2 DEF PromptType, Opens
<1>12. ASSUME Prompt!Unwind PROVE PromptInv'
  <2>1. UNCHANGED <<ui_mode, ui_inputs, ui_turn, ui_submitted, ui_connected>>
    BY <1>12 DEF Prompt!Unwind, Prompt!uiVars
  <2>2. CASE Prompt!Emit(<<"cancel", "answer">>)
    BY <1>k, <1>b, <2>1, <2>2
  <2>3. CASE ui_py' = "fail" /\ UNCHANGED ui_wire
    BY <1>a, <2>1, <2>3 DEF PromptType
  <2> QED  BY <1>12, <2>2, <2>3 DEF Prompt!Unwind
<1>13. ASSUME Prompt!Show PROVE PromptInv'
  <2>1. UNCHANGED <<ui_mode, ui_inputs, ui_turn, ui_submitted, ui_connected>>
    BY <1>13 DEF Prompt!Show, Prompt!uiVars
  <2>2. CASE Prompt!Emit(<<"answer">>)
    BY <1>k, <1>b, <2>1, <2>2
  <2>3. CASE ui_py' = "fail" /\ UNCHANGED ui_wire
    BY <1>a, <2>1, <2>3 DEF PromptType
  <2> QED  BY <1>13, <2>2, <2>3 DEF Prompt!Show
<1>14. ASSUME Prompt!Fail PROVE PromptInv'
  <2>1. /\ UNCHANGED <<ui_mode, ui_inputs, ui_turn, ui_submitted, ui_connected>>
        /\ Prompt!Emit(<<"error", "answer">>)
    BY <1>14 DEF Prompt!Fail, Prompt!uiVars
  <2> QED  BY <1>k, <1>b, <2>1
<1>15. ASSUME Prompt!Listen PROVE PromptInv'
  <2>1. UNCHANGED <<ui_mode, ui_py, ui_inputs, ui_turn, ui_submitted, ui_connected>>
    BY <1>15 DEF Prompt!Listen, Prompt!uiVars
  <2>2. CASE UNCHANGED <<ui_wire, ui_late>>
    BY <2>1, <2>2 DEF PromptType, Opens
  <2>3. ASSUME ui_holder # 0, Prompt!Emit(<<"progress">>),
               ui_late' = (ui_late \/ (ui_holder # 0 /\ ui_py # "race"))
        PROVE  PromptInv'
    <3>1. ui_wire' \in Seq(UiEvents)
      BY <1>0, <1>k, <2>3, EmitOf
    <3>2. Opens'
      BY <2>1, <2>3 DEF Opens
    <3> QED  BY <1>0, <2>1, <3>1, <3>2 DEF PromptType
  <2>4. ASSUME Prompt!Emit(<< >>), ui_late' = (ui_late \/ (ui_holder # 0 /\ ui_py # "race"))
        PROVE  PromptInv'
    <3>1. ui_wire' = ui_wire
      BY <1>0, <1>k, <2>4, EmitOf
    <3> QED  BY <2>1, <2>4, <3>1 DEF PromptType, Opens
  <2> QED  BY <1>15, <2>2, <2>3, <2>4 DEF Prompt!Listen
<1>16. ASSUME Prompt!Stop PROVE PromptInv'
  BY <1>16, <1>a DEF Prompt!Stop, Prompt!pipeVars, PromptType
<1> QED
  BY <1>1, <1>2, <1>3, <1>4, <1>5, <1>6, <1>7, <1>8, <1>9, <1>10, <1>11, <1>12, <1>13, <1>14,
     <1>15, <1>16 DEF Prompt!Next

\* Whatever turns, cancels, errors and approvals cross on the way, the prompt is there when
\* nothing is under way any more, as long as the bridge has kept its socket and no approval
\* was answered after its turn (run.py:1369).
THEOREM ThePromptReturns == Spec => []PromptReturns
<1>1. Init => PromptInv
  BY DEF Init, Prompt!Init, PromptInv, PromptType, Opens
<1>2. PromptInv /\ [Next]_vars => PromptInv'
  <2> SUFFICES ASSUME PromptInv, [Next]_vars PROVE PromptInv'
    OBVIOUS
  <2>1. CASE UNCHANGED uiVars
    BY <2>1 DEF uiVars, PromptInv, PromptType, Opens
  <2>2. CASE PromptSteps
    BY <2>2, PromptStep, ConversationAssumption DEF PromptSteps, Prompt!ConsoleAssumption
  <2> QED
    BY <2>1, <2>2 DEF Next, TurnsSteps, SearchSteps, EditsSteps, PastSteps, WorkersSteps, Only, vars
<1>3. PromptInv => PromptReturns
  BY DEF PromptInv, Opens, PromptReturns, Prompt!PromptReturns, Prompt!Settled
<1> QED  BY <1>1, <1>2, <1>3, PTL DEF Spec

-----------------------------------------------------------------------------
(* The workers. *)

Downs == [at : {"up", "killing", "draining", "down"}, todo : SUBSET Workers!All,
          cur : Containers \cup {"nobody"}]

WorkType ==
    /\ work_at \in [Workers!All ->
                      {"idle", "spawn", "queued", "starting", "running", "closing", "tearing",
                       "ended", "refused"}]
    /\ work_status \in [Workers!All -> {"none", "pending", "running", "done", "failed", "killed"}]
    /\ work_box \in [Workers!All -> Containers \cup {"nobody"}]
    /\ work_cancel \subseteq Workers!All
    /\ work_cont \in [Containers -> {"none", "starting", "up", "dead"}]
    /\ work_pool \subseteq Containers /\ work_killing \subseteq Containers
    /\ work_fresh \in Containers \cup {"nobody"}
    /\ work_filler = "waits" => work_fresh \in Containers
    /\ work_handles \subseteq Workers!All
    /\ work_down \in Downs

\* What is known of a job by where its task is.
Placed(j) ==
    /\ work_at[j] = "idle" =>
          work_status[j] = "none" /\ work_box[j] = "nobody" /\ j \notin work_killed \cup work_served
    /\ j \in Jobs /\ work_at[j] \notin {"idle", "refused"} => work_box[j] # "nobody"
    /\ j \in work_served => work_at[j] \in {"running", "closing", "tearing", "ended"}
    /\ j \in work_handles \cup work_down.todo => work_at[j] # "idle"

\* A kill is heard before the output is read, so that no success outlives it.
KillIsHeard(j) ==
    /\ j \in work_killed /\ work_at[j] \in {"spawn", "queued", "starting", "running"} => j \in work_cancel
    /\ j \in Jobs /\ work_status[j] = "done" => j \in work_zero \ work_killed

Gone(j) == work_cont[work_box[j]] = "dead" \/ work_box[j] \in work_killing

\* A job whose command was started, and that has told of its end, leaves nothing behind;
\* what any accepted job leaves is in the handles as long as there are any.
TornDown(j) ==
    /\ j \in Jobs /\ work_at[j] = "tearing" => Gone(j)
    /\ j \in (Jobs \cap work_served) \ work_untold /\ work_at[j] = "ended" => Gone(j)
    /\ j \in Jobs /\ work_at[j] \notin {"idle", "spawn", "refused"} =>
          Gone(j) \/ j \in work_handles \/ work_down.at \in {"draining", "down"}

\* A container that has an owner has been started, and has no other.
Owned ==
    /\ Workers!OwnContainer
    /\ \A j \in Workers!All : work_box[j] # "nobody" => work_cont[work_box[j]] # "none"
    /\ \A c \in work_pool : work_cont[c] # "none"
    /\ work_fresh # "nobody" => work_cont[work_fresh] # "none"
    /\ work_fresh \notin work_pool

WorkInv ==
    /\ WorkType /\ Owned
    /\ \A j \in Workers!All : Placed(j) /\ KillIsHeard(j) /\ TornDown(j)

LEMMA ShutDownKills ==
    ASSUME NEW j \in Workers!All, Workers!ShutDownKill(j), WorkType
    PROVE  /\ work_down' \in Downs /\ work_down'.todo \subseteq work_down.todo
           /\ work_status[j] = "running" => Workers!KillHandle(j)
           /\ work_status[j] # "running" => UNCHANGED <<work_at, work_status, work_box, work_cancel,
                   work_cont, work_pool, work_fresh, work_filler, work_killing, work_killed, work_served>>
           /\ UNCHANGED work_handles
<1> DEFINE d == [work_down EXCEPT !.todo = @ \ {j}]
<1>1. d \in Downs /\ d.todo \subseteq work_down.todo
  BY DEF WorkType, Downs
<1>2. work_box[j] \in Containers \cup {"nobody"}
  BY DEF WorkType
<1>3. work_status[j] = "running" => work_down' = [d EXCEPT !.cur = work_box[j]]
  BY DEF Workers!ShutDownKill
<1>4. work_status[j] # "running" => work_down' = d
  BY DEF Workers!ShutDownKill
<1> HIDE DEF d
<1>5. [d EXCEPT !.cur = work_box[j]] \in Downs /\ [d EXCEPT !.cur = work_box[j]].todo = d.todo
  BY <1>1, <1>2 DEF Downs
<1>6. work_down' \in Downs /\ work_down'.todo \subseteq work_down.todo
  BY <1>1, <1>3, <1>4, <1>5
<1> QED
  BY <1>6 DEF Workers!ShutDownKill, Workers!jobVars, Workers!poolVars, Workers!history

LEMMA WorkTypeStep ==
    ASSUME WorkInv, Workers!WorkerAssumption, Workers!Next
    PROVE  WorkType'
<1> USE DEF WorkInv, Workers!WorkerAssumption, Workers!All, WorkType, Downs, Workers!Goto,
       Workers!SetStatus, Workers!KillBox, Workers!Start, Workers!KillHandle, Workers!jobVars,
       Workers!poolVars, Workers!history, Workers!Ended
<1>1. ASSUME NEW j \in Workers!All, Workers!Refuse(j) PROVE WorkType'
  BY <1>1 DEF Workers!Refuse
<1>2. ASSUME NEW j \in Workers!All, Workers!ClaimWarm(j) PROVE WorkType'
  BY <1>2 DEF Workers!ClaimWarm
<1>3. ASSUME NEW j \in Workers!All, Workers!SpawnCognitive(j) PROVE WorkType'
  BY <1>3 DEF Workers!SpawnCognitive
<1>4. ASSUME NEW j \in Workers!All, NEW c \in Containers, Workers!StartCold(j, c) PROVE WorkType'
  BY <1>4 DEF Workers!StartCold
<1>5. ASSUME NEW j \in Workers!All, Workers!Acquire(j) PROVE WorkType'
  BY <1>5 DEF Workers!Acquire
<1>6. ASSUME NEW j \in Workers!All, Workers!CommandExits(j) PROVE WorkType'
  BY <1>6 DEF Workers!CommandExits
<1>7. ASSUME NEW j \in Workers!All, Workers!ReadOutput(j) PROVE WorkType'
  BY <1>7 DEF Workers!ReadOutput
<1>8. ASSUME NEW j \in Workers!All, Workers!NoOutput(j) PROVE WorkType'
  BY <1>8 DEF Workers!NoOutput
<1>9. ASSUME NEW j \in Workers!All, Workers!WaitTimeout(j) PROVE WorkType'
  BY <1>9 DEF Workers!WaitTimeout
<1>10. ASSUME NEW j \in Workers!All, Workers!ChildEnds(j) PROVE WorkType'
  BY <1>10 DEF Workers!ChildEnds
<1>11. ASSUME NEW j \in Workers!All, Workers!WallClock(j) PROVE WorkType'
  BY <1>11 DEF Workers!WallClock
<1>12. ASSUME NEW j \in Workers!All, Workers!Heartbeat(j) PROVE WorkType'
  BY <1>12 DEF Workers!Heartbeat
<1>13. ASSUME NEW j \in Workers!All, Workers!Accept(j) PROVE WorkType'
  BY <1>13 DEF Workers!Accept
<1>14. ASSUME NEW j \in Workers!All, Workers!Tell(j) PROVE WorkType'
  BY <1>14 DEF Workers!Tell
<1>15. ASSUME NEW j \in Workers!All, Workers!End(j) PROVE WorkType'
  BY <1>15 DEF Workers!End
<1>16. ASSUME NEW j \in Workers!All, Workers!Cancelled(j) PROVE WorkType'
  BY <1>16 DEF Workers!Cancelled
<1>17. ASSUME NEW j \in Workers!All, Workers!CallerCancelled(j) PROVE WorkType'
  BY <1>17 DEF Workers!CallerCancelled
<1>18. ASSUME NEW j \in Workers!All, Workers!Kill(j) PROVE WorkType'
  BY <1>18 DEF Workers!Kill
<1>19. ASSUME NEW c \in Containers, Workers!Replenish(c) PROVE WorkType'
  BY <1>19 DEF Workers!Replenish
<1>20. ASSUME NEW c \in Containers, Workers!Started(c) PROVE WorkType'
  BY <1>20 DEF Workers!Started
<1>21. ASSUME NEW c \in Containers, Workers!Removed(c) PROVE WorkType'
  BY <1>21 DEF Workers!Removed
<1>22. ASSUME Workers!Refill PROVE WorkType'
  BY <1>22 DEF Workers!Refill
<1>23. ASSUME Workers!ShutDown PROVE WorkType'
  BY <1>23 DEF Workers!ShutDown
<1>24. ASSUME Workers!ShutDownForget PROVE WorkType'
  BY <1>24 DEF Workers!ShutDownForget
<1>25. ASSUME Workers!ShutDownDrain PROVE WorkType'
  BY <1>25 DEF Workers!ShutDownDrain
<1>26. ASSUME NEW j \in Workers!All, Workers!ShutDownKill(j) PROVE WorkType'
  BY <1>26, ShutDownKills
<1>27. ASSUME NEW j \in Workers!All, Workers!Launch(j) PROVE WorkType'
  BY <1>27 DEF Workers!Launch
<1>28. ASSUME NEW j \in Workers!All, Workers!StartFails(j) PROVE WorkType'
  BY <1>28 DEF Workers!StartFails
<1>29. ASSUME NEW j \in Workers!All, Workers!TellFails(j) PROVE WorkType'
  BY <1>29 DEF Workers!TellFails
<1> QED
  BY <1>1, <1>2, <1>3, <1>4, <1>5, <1>6, <1>7, <1>8, <1>9, <1>10, <1>11, <1>12, <1>13, <1>14, <1>15,
         <1>16, <1>17, <1>18, <1>19, <1>20, <1>21, <1>22, <1>23, <1>24, <1>25, <1>26, <1>27, <1>28, <1>29
     DEF Workers!Next, Workers!Works, Workers!Settles, Workers!ShutsDown

LEMMA PlacedStep ==
    ASSUME WorkInv, Workers!WorkerAssumption, Workers!Next
    PROVE  \A i \in Workers!All : Placed(i)'
<1> USE DEF WorkInv, Workers!WorkerAssumption, Workers!All, WorkType, Downs, Placed, Workers!Goto,
       Workers!SetStatus, Workers!KillBox, Workers!Start, Workers!KillHandle, Workers!jobVars,
       Workers!poolVars, Workers!history, Workers!Ended
<1>1. ASSUME NEW j \in Workers!All, Workers!Refuse(j) PROVE \A i \in Workers!All : Placed(i)'
  BY <1>1 DEF Workers!Refuse
<1>2. ASSUME NEW j \in Workers!All, Workers!ClaimWarm(j) PROVE \A i \in Workers!All : Placed(i)'
  BY <1>2 DEF Workers!ClaimWarm
<1>3. ASSUME NEW j \in Workers!All, Workers!SpawnCognitive(j) PROVE \A i \in Workers!All : Placed(i)'
  BY <1>3 DEF Workers!SpawnCognitive
<1>4. ASSUME NEW j \in Workers!All, NEW c \in Containers, Workers!StartCold(j, c) PROVE \A i \in Workers!All : Placed(i)'
  BY <1>4 DEF Workers!StartCold
<1>5. ASSUME NEW j \in Workers!All, Workers!Acquire(j) PROVE \A i \in Workers!All : Placed(i)'
  BY <1>5 DEF Workers!Acquire
<1>6. ASSUME NEW j \in Workers!All, Workers!CommandExits(j) PROVE \A i \in Workers!All : Placed(i)'
  BY <1>6 DEF Workers!CommandExits
<1>7. ASSUME NEW j \in Workers!All, Workers!ReadOutput(j) PROVE \A i \in Workers!All : Placed(i)'
  BY <1>7 DEF Workers!ReadOutput
<1>8. ASSUME NEW j \in Workers!All, Workers!NoOutput(j) PROVE \A i \in Workers!All : Placed(i)'
  BY <1>8 DEF Workers!NoOutput
<1>9. ASSUME NEW j \in Workers!All, Workers!WaitTimeout(j) PROVE \A i \in Workers!All : Placed(i)'
  BY <1>9 DEF Workers!WaitTimeout
<1>10. ASSUME NEW j \in Workers!All, Workers!ChildEnds(j) PROVE \A i \in Workers!All : Placed(i)'
  BY <1>10 DEF Workers!ChildEnds
<1>11. ASSUME NEW j \in Workers!All, Workers!WallClock(j) PROVE \A i \in Workers!All : Placed(i)'
  BY <1>11 DEF Workers!WallClock
<1>12. ASSUME NEW j \in Workers!All, Workers!Heartbeat(j) PROVE \A i \in Workers!All : Placed(i)'
  BY <1>12 DEF Workers!Heartbeat
<1>13. ASSUME NEW j \in Workers!All, Workers!Accept(j) PROVE \A i \in Workers!All : Placed(i)'
  BY <1>13 DEF Workers!Accept
<1>14. ASSUME NEW j \in Workers!All, Workers!Tell(j) PROVE \A i \in Workers!All : Placed(i)'
  BY <1>14 DEF Workers!Tell
<1>15. ASSUME NEW j \in Workers!All, Workers!End(j) PROVE \A i \in Workers!All : Placed(i)'
  BY <1>15 DEF Workers!End
<1>16. ASSUME NEW j \in Workers!All, Workers!Cancelled(j) PROVE \A i \in Workers!All : Placed(i)'
  BY <1>16 DEF Workers!Cancelled
<1>17. ASSUME NEW j \in Workers!All, Workers!CallerCancelled(j) PROVE \A i \in Workers!All : Placed(i)'
  BY <1>17 DEF Workers!CallerCancelled
<1>18. ASSUME NEW j \in Workers!All, Workers!Kill(j) PROVE \A i \in Workers!All : Placed(i)'
  BY <1>18 DEF Workers!Kill
<1>19. ASSUME NEW c \in Containers, Workers!Replenish(c) PROVE \A i \in Workers!All : Placed(i)'
  BY <1>19 DEF Workers!Replenish
<1>20. ASSUME NEW c \in Containers, Workers!Started(c) PROVE \A i \in Workers!All : Placed(i)'
  BY <1>20 DEF Workers!Started
<1>21. ASSUME NEW c \in Containers, Workers!Removed(c) PROVE \A i \in Workers!All : Placed(i)'
  BY <1>21 DEF Workers!Removed
<1>22. ASSUME Workers!Refill PROVE \A i \in Workers!All : Placed(i)'
  BY <1>22 DEF Workers!Refill
<1>23. ASSUME Workers!ShutDown PROVE \A i \in Workers!All : Placed(i)'
  BY <1>23 DEF Workers!ShutDown
<1>24. ASSUME Workers!ShutDownForget PROVE \A i \in Workers!All : Placed(i)'
  BY <1>24 DEF Workers!ShutDownForget
<1>25. ASSUME Workers!ShutDownDrain PROVE \A i \in Workers!All : Placed(i)'
  BY <1>25 DEF Workers!ShutDownDrain
<1>26. ASSUME NEW j \in Workers!All, Workers!ShutDownKill(j) PROVE \A i \in Workers!All : Placed(i)'
  BY <1>26, ShutDownKills
<1>27. ASSUME NEW j \in Workers!All, Workers!Launch(j) PROVE \A i \in Workers!All : Placed(i)'
  BY <1>27 DEF Workers!Launch
<1>28. ASSUME NEW j \in Workers!All, Workers!StartFails(j) PROVE \A i \in Workers!All : Placed(i)'
  BY <1>28 DEF Workers!StartFails
<1>29. ASSUME NEW j \in Workers!All, Workers!TellFails(j) PROVE \A i \in Workers!All : Placed(i)'
  BY <1>29 DEF Workers!TellFails
<1> QED
  BY <1>1, <1>2, <1>3, <1>4, <1>5, <1>6, <1>7, <1>8, <1>9, <1>10, <1>11, <1>12, <1>13, <1>14, <1>15,
         <1>16, <1>17, <1>18, <1>19, <1>20, <1>21, <1>22, <1>23, <1>24, <1>25, <1>26, <1>27, <1>28, <1>29
     DEF Workers!Next, Workers!Works, Workers!Settles, Workers!ShutsDown

LEMMA KillIsHeardStep ==
    ASSUME WorkInv, Workers!WorkerAssumption, Echoes = {}, ~OldWaitFor, Workers!Next
    PROVE  \A i \in Workers!All : KillIsHeard(i)'
<1> USE DEF WorkInv, Workers!WorkerAssumption, Workers!All, WorkType, Downs, Placed, KillIsHeard,
       Workers!Goto, Workers!SetStatus, Workers!KillBox, Workers!Start, Workers!KillHandle,
       Workers!jobVars, Workers!poolVars, Workers!history, Workers!Ended
<1>1. ASSUME NEW j \in Workers!All, Workers!Refuse(j) PROVE \A i \in Workers!All : KillIsHeard(i)'
  BY <1>1 DEF Workers!Refuse
<1>2. ASSUME NEW j \in Workers!All, Workers!ClaimWarm(j) PROVE \A i \in Workers!All : KillIsHeard(i)'
  BY <1>2 DEF Workers!ClaimWarm
<1>3. ASSUME NEW j \in Workers!All, Workers!SpawnCognitive(j) PROVE \A i \in Workers!All : KillIsHeard(i)'
  BY <1>3 DEF Workers!SpawnCognitive
<1>4. ASSUME NEW j \in Workers!All, NEW c \in Containers, Workers!StartCold(j, c) PROVE \A i \in Workers!All : KillIsHeard(i)'
  BY <1>4 DEF Workers!StartCold
<1>5. ASSUME NEW j \in Workers!All, Workers!Acquire(j) PROVE \A i \in Workers!All : KillIsHeard(i)'
  BY <1>5 DEF Workers!Acquire
<1>6. ASSUME NEW j \in Workers!All, Workers!CommandExits(j) PROVE \A i \in Workers!All : KillIsHeard(i)'
  BY <1>6 DEF Workers!CommandExits
<1>7. ASSUME NEW j \in Workers!All, Workers!ReadOutput(j) PROVE \A i \in Workers!All : KillIsHeard(i)'
  BY <1>7 DEF Workers!ReadOutput
<1>8. ASSUME NEW j \in Workers!All, Workers!NoOutput(j) PROVE \A i \in Workers!All : KillIsHeard(i)'
  BY <1>8 DEF Workers!NoOutput
<1>9. ASSUME NEW j \in Workers!All, Workers!WaitTimeout(j) PROVE \A i \in Workers!All : KillIsHeard(i)'
  BY <1>9 DEF Workers!WaitTimeout
<1>10. ASSUME NEW j \in Workers!All, Workers!ChildEnds(j) PROVE \A i \in Workers!All : KillIsHeard(i)'
  BY <1>10 DEF Workers!ChildEnds
<1>11. ASSUME NEW j \in Workers!All, Workers!WallClock(j) PROVE \A i \in Workers!All : KillIsHeard(i)'
  BY <1>11 DEF Workers!WallClock
<1>12. ASSUME NEW j \in Workers!All, Workers!Heartbeat(j) PROVE \A i \in Workers!All : KillIsHeard(i)'
  BY <1>12 DEF Workers!Heartbeat
<1>13. ASSUME NEW j \in Workers!All, Workers!Accept(j) PROVE \A i \in Workers!All : KillIsHeard(i)'
  BY <1>13 DEF Workers!Accept
<1>14. ASSUME NEW j \in Workers!All, Workers!Tell(j) PROVE \A i \in Workers!All : KillIsHeard(i)'
  BY <1>14 DEF Workers!Tell
<1>15. ASSUME NEW j \in Workers!All, Workers!End(j) PROVE \A i \in Workers!All : KillIsHeard(i)'
  BY <1>15 DEF Workers!End
<1>16. ASSUME NEW j \in Workers!All, Workers!Cancelled(j) PROVE \A i \in Workers!All : KillIsHeard(i)'
  BY <1>16 DEF Workers!Cancelled
<1>17. ASSUME NEW j \in Workers!All, Workers!CallerCancelled(j) PROVE \A i \in Workers!All : KillIsHeard(i)'
  BY <1>17 DEF Workers!CallerCancelled
<1>18. ASSUME NEW j \in Workers!All, Workers!Kill(j) PROVE \A i \in Workers!All : KillIsHeard(i)'
  BY <1>18 DEF Workers!Kill
<1>19. ASSUME NEW c \in Containers, Workers!Replenish(c) PROVE \A i \in Workers!All : KillIsHeard(i)'
  BY <1>19 DEF Workers!Replenish
<1>20. ASSUME NEW c \in Containers, Workers!Started(c) PROVE \A i \in Workers!All : KillIsHeard(i)'
  BY <1>20 DEF Workers!Started
<1>21. ASSUME NEW c \in Containers, Workers!Removed(c) PROVE \A i \in Workers!All : KillIsHeard(i)'
  BY <1>21 DEF Workers!Removed
<1>22. ASSUME Workers!Refill PROVE \A i \in Workers!All : KillIsHeard(i)'
  BY <1>22 DEF Workers!Refill
<1>23. ASSUME Workers!ShutDown PROVE \A i \in Workers!All : KillIsHeard(i)'
  BY <1>23 DEF Workers!ShutDown
<1>24. ASSUME Workers!ShutDownForget PROVE \A i \in Workers!All : KillIsHeard(i)'
  BY <1>24 DEF Workers!ShutDownForget
<1>25. ASSUME Workers!ShutDownDrain PROVE \A i \in Workers!All : KillIsHeard(i)'
  BY <1>25 DEF Workers!ShutDownDrain
<1>26. ASSUME NEW j \in Workers!All, Workers!ShutDownKill(j) PROVE \A i \in Workers!All : KillIsHeard(i)'
  BY <1>26 DEF Workers!ShutDownKill
<1>27. ASSUME NEW j \in Workers!All, Workers!Launch(j) PROVE \A i \in Workers!All : KillIsHeard(i)'
  BY <1>27 DEF Workers!Launch
<1>28. ASSUME NEW j \in Workers!All, Workers!StartFails(j) PROVE \A i \in Workers!All : KillIsHeard(i)'
  BY <1>28 DEF Workers!StartFails
<1>29. ASSUME NEW j \in Workers!All, Workers!TellFails(j) PROVE \A i \in Workers!All : KillIsHeard(i)'
  BY <1>29 DEF Workers!TellFails
<1> QED
  BY <1>1, <1>2, <1>3, <1>4, <1>5, <1>6, <1>7, <1>8, <1>9, <1>10, <1>11, <1>12, <1>13, <1>14, <1>15,
         <1>16, <1>17, <1>18, <1>19, <1>20, <1>21, <1>22, <1>23, <1>24, <1>25, <1>26, <1>27, <1>28, <1>29
     DEF Workers!Next, Workers!Works, Workers!Settles, Workers!ShutsDown

LEMMA TornDownStep ==
    ASSUME WorkInv, Workers!WorkerAssumption, Workers!Next
    PROVE  \A i \in Workers!All : TornDown(i)'
<1> USE DEF WorkInv, Workers!WorkerAssumption, Workers!All, WorkType, Downs, Placed, Owned,
       TornDown, Gone, Workers!Goto, Workers!SetStatus, Workers!KillBox, Workers!Start,
       Workers!KillHandle, Workers!jobVars, Workers!poolVars, Workers!history, Workers!Ended
<1>1. ASSUME NEW j \in Workers!All, Workers!Refuse(j) PROVE \A i \in Workers!All : TornDown(i)'
  BY <1>1 DEF Workers!Refuse
<1>2. ASSUME NEW j \in Workers!All, Workers!ClaimWarm(j) PROVE \A i \in Workers!All : TornDown(i)'
  BY <1>2 DEF Workers!ClaimWarm
<1>3. ASSUME NEW j \in Workers!All, Workers!SpawnCognitive(j) PROVE \A i \in Workers!All : TornDown(i)'
  BY <1>3 DEF Workers!SpawnCognitive
<1>4. ASSUME NEW j \in Workers!All, NEW c \in Containers, Workers!StartCold(j, c) PROVE \A i \in Workers!All : TornDown(i)'
  BY <1>4 DEF Workers!StartCold
<1>5. ASSUME NEW j \in Workers!All, Workers!Acquire(j) PROVE \A i \in Workers!All : TornDown(i)'
  BY <1>5 DEF Workers!Acquire
<1>6. ASSUME NEW j \in Workers!All, Workers!CommandExits(j) PROVE \A i \in Workers!All : TornDown(i)'
  BY <1>6 DEF Workers!CommandExits
<1>7. ASSUME NEW j \in Workers!All, Workers!ReadOutput(j) PROVE \A i \in Workers!All : TornDown(i)'
  BY <1>7 DEF Workers!ReadOutput
<1>8. ASSUME NEW j \in Workers!All, Workers!NoOutput(j) PROVE \A i \in Workers!All : TornDown(i)'
  BY <1>8 DEF Workers!NoOutput
<1>9. ASSUME NEW j \in Workers!All, Workers!WaitTimeout(j) PROVE \A i \in Workers!All : TornDown(i)'
  BY <1>9 DEF Workers!WaitTimeout
<1>10. ASSUME NEW j \in Workers!All, Workers!ChildEnds(j) PROVE \A i \in Workers!All : TornDown(i)'
  BY <1>10 DEF Workers!ChildEnds
<1>11. ASSUME NEW j \in Workers!All, Workers!WallClock(j) PROVE \A i \in Workers!All : TornDown(i)'
  BY <1>11 DEF Workers!WallClock
<1>12. ASSUME NEW j \in Workers!All, Workers!Heartbeat(j) PROVE \A i \in Workers!All : TornDown(i)'
  BY <1>12 DEF Workers!Heartbeat
<1>13. ASSUME NEW j \in Workers!All, Workers!Accept(j) PROVE \A i \in Workers!All : TornDown(i)'
  BY <1>13 DEF Workers!Accept
<1>14. ASSUME NEW j \in Workers!All, Workers!Tell(j) PROVE \A i \in Workers!All : TornDown(i)'
  BY <1>14 DEF Workers!Tell
<1>15. ASSUME NEW j \in Workers!All, Workers!End(j) PROVE \A i \in Workers!All : TornDown(i)'
  BY <1>15 DEF Workers!End
<1>16. ASSUME NEW j \in Workers!All, Workers!Cancelled(j) PROVE \A i \in Workers!All : TornDown(i)'
  BY <1>16 DEF Workers!Cancelled
<1>17. ASSUME NEW j \in Workers!All, Workers!CallerCancelled(j) PROVE \A i \in Workers!All : TornDown(i)'
  BY <1>17 DEF Workers!CallerCancelled
<1>18. ASSUME NEW j \in Workers!All, Workers!Kill(j) PROVE \A i \in Workers!All : TornDown(i)'
  BY <1>18 DEF Workers!Kill
<1>19. ASSUME NEW c \in Containers, Workers!Replenish(c) PROVE \A i \in Workers!All : TornDown(i)'
  BY <1>19 DEF Workers!Replenish
<1>20. ASSUME NEW c \in Containers, Workers!Started(c) PROVE \A i \in Workers!All : TornDown(i)'
  BY <1>20 DEF Workers!Started
<1>21. ASSUME NEW c \in Containers, Workers!Removed(c) PROVE \A i \in Workers!All : TornDown(i)'
  BY <1>21 DEF Workers!Removed
<1>22. ASSUME Workers!Refill PROVE \A i \in Workers!All : TornDown(i)'
  BY <1>22 DEF Workers!Refill
<1>23. ASSUME Workers!ShutDown PROVE \A i \in Workers!All : TornDown(i)'
  BY <1>23 DEF Workers!ShutDown
<1>24. ASSUME Workers!ShutDownForget PROVE \A i \in Workers!All : TornDown(i)'
  BY <1>24 DEF Workers!ShutDownForget
<1>25. ASSUME Workers!ShutDownDrain PROVE \A i \in Workers!All : TornDown(i)'
  BY <1>25 DEF Workers!ShutDownDrain
<1>26. ASSUME NEW j \in Workers!All, Workers!ShutDownKill(j) PROVE \A i \in Workers!All : TornDown(i)'
  BY <1>26 DEF Workers!ShutDownKill
<1>27. ASSUME NEW j \in Workers!All, Workers!Launch(j) PROVE \A i \in Workers!All : TornDown(i)'
  BY <1>27 DEF Workers!Launch
<1>28. ASSUME NEW j \in Workers!All, Workers!StartFails(j) PROVE \A i \in Workers!All : TornDown(i)'
  BY <1>28 DEF Workers!StartFails
<1>29. ASSUME NEW j \in Workers!All, Workers!TellFails(j) PROVE \A i \in Workers!All : TornDown(i)'
  BY <1>29 DEF Workers!TellFails
<1> QED
  BY <1>1, <1>2, <1>3, <1>4, <1>5, <1>6, <1>7, <1>8, <1>9, <1>10, <1>11, <1>12, <1>13, <1>14, <1>15,
         <1>16, <1>17, <1>18, <1>19, <1>20, <1>21, <1>22, <1>23, <1>24, <1>25, <1>26, <1>27, <1>28, <1>29
     DEF Workers!Next, Workers!Works, Workers!Settles, Workers!ShutsDown

LEMMA OwnedStep ==
    ASSUME WorkInv, Workers!WorkerAssumption, Workers!Next
    PROVE  Owned'
<1> USE DEF WorkInv, Workers!WorkerAssumption, Workers!All, WorkType, Downs, Placed, Owned,
       Workers!OwnContainer, Workers!Goto, Workers!SetStatus, Workers!KillBox, Workers!Start,
       Workers!KillHandle, Workers!jobVars, Workers!poolVars, Workers!history, Workers!Ended
<1>1. ASSUME NEW j \in Workers!All, Workers!Refuse(j) PROVE Owned'
  BY <1>1 DEF Workers!Refuse
<1>2. ASSUME NEW j \in Workers!All, Workers!ClaimWarm(j) PROVE Owned'
  BY <1>2 DEF Workers!ClaimWarm
<1>3. ASSUME NEW j \in Workers!All, Workers!SpawnCognitive(j) PROVE Owned'
  BY <1>3 DEF Workers!SpawnCognitive
<1>4. ASSUME NEW j \in Workers!All, NEW c \in Containers, Workers!StartCold(j, c) PROVE Owned'
  BY <1>4 DEF Workers!StartCold
<1>5. ASSUME NEW j \in Workers!All, Workers!Acquire(j) PROVE Owned'
  BY <1>5 DEF Workers!Acquire
<1>6. ASSUME NEW j \in Workers!All, Workers!CommandExits(j) PROVE Owned'
  BY <1>6 DEF Workers!CommandExits
<1>7. ASSUME NEW j \in Workers!All, Workers!ReadOutput(j) PROVE Owned'
  BY <1>7 DEF Workers!ReadOutput
<1>8. ASSUME NEW j \in Workers!All, Workers!NoOutput(j) PROVE Owned'
  BY <1>8 DEF Workers!NoOutput
<1>9. ASSUME NEW j \in Workers!All, Workers!WaitTimeout(j) PROVE Owned'
  BY <1>9 DEF Workers!WaitTimeout
<1>10. ASSUME NEW j \in Workers!All, Workers!ChildEnds(j) PROVE Owned'
  BY <1>10 DEF Workers!ChildEnds
<1>11. ASSUME NEW j \in Workers!All, Workers!WallClock(j) PROVE Owned'
  BY <1>11 DEF Workers!WallClock
<1>12. ASSUME NEW j \in Workers!All, Workers!Heartbeat(j) PROVE Owned'
  BY <1>12 DEF Workers!Heartbeat
<1>13. ASSUME NEW j \in Workers!All, Workers!Accept(j) PROVE Owned'
  BY <1>13 DEF Workers!Accept
<1>14. ASSUME NEW j \in Workers!All, Workers!Tell(j) PROVE Owned'
  BY <1>14 DEF Workers!Tell
<1>15. ASSUME NEW j \in Workers!All, Workers!End(j) PROVE Owned'
  BY <1>15 DEF Workers!End
<1>16. ASSUME NEW j \in Workers!All, Workers!Cancelled(j) PROVE Owned'
  BY <1>16 DEF Workers!Cancelled
<1>17. ASSUME NEW j \in Workers!All, Workers!CallerCancelled(j) PROVE Owned'
  BY <1>17 DEF Workers!CallerCancelled
<1>18. ASSUME NEW j \in Workers!All, Workers!Kill(j) PROVE Owned'
  BY <1>18 DEF Workers!Kill
<1>19. ASSUME NEW c \in Containers, Workers!Replenish(c) PROVE Owned'
  BY <1>19 DEF Workers!Replenish
<1>20. ASSUME NEW c \in Containers, Workers!Started(c) PROVE Owned'
  BY <1>20 DEF Workers!Started
<1>21. ASSUME NEW c \in Containers, Workers!Removed(c) PROVE Owned'
  BY <1>21 DEF Workers!Removed
<1>22. ASSUME Workers!Refill PROVE Owned'
  BY <1>22 DEF Workers!Refill
<1>23. ASSUME Workers!ShutDown PROVE Owned'
  BY <1>23 DEF Workers!ShutDown
<1>24. ASSUME Workers!ShutDownForget PROVE Owned'
  BY <1>24 DEF Workers!ShutDownForget
<1>25. ASSUME Workers!ShutDownDrain PROVE Owned'
  BY <1>25 DEF Workers!ShutDownDrain
<1>26. ASSUME NEW j \in Workers!All, Workers!ShutDownKill(j) PROVE Owned'
  BY <1>26 DEF Workers!ShutDownKill
<1>27. ASSUME NEW j \in Workers!All, Workers!Launch(j) PROVE Owned'
  BY <1>27 DEF Workers!Launch
<1>28. ASSUME NEW j \in Workers!All, Workers!StartFails(j) PROVE Owned'
  BY <1>28 DEF Workers!StartFails
<1>29. ASSUME NEW j \in Workers!All, Workers!TellFails(j) PROVE Owned'
  BY <1>29 DEF Workers!TellFails
<1> QED
  BY <1>1, <1>2, <1>3, <1>4, <1>5, <1>6, <1>7, <1>8, <1>9, <1>10, <1>11, <1>12, <1>13, <1>14, <1>15,
         <1>16, <1>17, <1>18, <1>19, <1>20, <1>21, <1>22, <1>23, <1>24, <1>25, <1>26, <1>27, <1>28, <1>29
     DEF Workers!Next, Workers!Works, Workers!Settles, Workers!ShutsDown

\* A job that is told as a success was one, no container has two owners, a job whose command
\* was started and that could report its end leaves none behind, and what an accepted job leaves
\* is in the handles until the shutdown, for all jobs, slots and pools, whatever kills, times out,
\* raises, is cancelled or shut down: where no command prints an exit code of its own and
\* wait_for() is that of Python 3.12 (orchestrator.py:62, :506, warm_pool.py:4).
THEOREM WorkersAreSound ==
    ASSUME Echoes = {}, ~OldWaitFor
    PROVE  Spec => []JobsAreSound
<1>1. Init => WorkInv
  BY ConversationAssumption
     DEF Init, Workers!Init, WorkInv, WorkType, Downs, Owned, Placed, KillIsHeard, TornDown, Gone,
         Workers!OwnContainer, Workers!WorkerAssumption, Workers!All
<1>2. WorkInv /\ [Next]_vars => WorkInv'
  <2> SUFFICES ASSUME WorkInv, [Next]_vars PROVE WorkInv'
    OBVIOUS
  <2>1. CASE UNCHANGED workVars
    BY <2>1
       DEF workVars, WorkInv, WorkType, Downs, Owned, Placed, KillIsHeard, TornDown, Gone,
           Workers!OwnContainer
  <2>2. CASE WorkersSteps
    <3>1. Workers!Next /\ Workers!WorkerAssumption
      BY <2>2, ConversationAssumption DEF WorkersSteps
    <3> QED
      BY <3>1, WorkTypeStep, PlacedStep, KillIsHeardStep, TornDownStep, OwnedStep DEF WorkInv
  <2> QED
    BY <2>1, <2>2 DEF Next, TurnsSteps, SearchSteps, EditsSteps, PromptSteps, PastSteps, Only, vars
<1>3. WorkInv => JobsAreSound
  BY DEF WorkInv, Owned, KillIsHeard, TornDown, Gone, Workers!All, JobsAreSound, Workers!SuccessIsReal,
         Workers!OwnContainer, Workers!ServedLeavesNothing, Workers!LeftIsKnown
<1> QED  BY <1>1, <1>2, <1>3, PTL DEF Spec

-----------------------------------------------------------------------------
(* Turns. *)

TurnPlaces ==
    {"idle", "route", "chat", "chatting", "chatted", "gate", "search", "save", "saving",
     "flushed", "written", "flush", "done"}
Hearings == {"none", "answer", "unsaved", "friction", "raised", "cancelled", "dead"}
Leased == {"chatting", "chatted", "saving", "flushed", "written"}
Numbered == {"chat", "chatting", "chatted", "written"}

TurnType ==
    /\ turn_pc \in [Calls -> TurnPlaces] /\ turn_own \subseteq Calls /\ turn_ran \subseteq Calls
    /\ turn_heard \in [Calls -> Hearings]
    /\ turn_home \in [Calls -> Procs \cup {"nobody"}] /\ turn_up \subseteq Procs
    /\ turn_num \in [Calls -> Nat] /\ turn_batch \in [Calls -> [logs : SUBSET Calls, row : Nat]]
    /\ turn_sess \in [Procs -> [sid : Nat, count : Nat]]
    /\ turn_audit \in [Procs \cup Calls -> SUBSET Calls]
    /\ turn_lease \in Calls \cup {"nobody"}
    /\ turn_rows \in [1..MaxStarts -> [count : Nat, open : BOOLEAN]]
    /\ turn_turns \subseteq [sid : Nat, num : Nat, call : Calls]
    /\ turn_starts \in Nat

\* A call under way is in a process that is up, and no other has its context; none that is
\* up looks for the lock.
Homes ==
    /\ turn_opening \cap turn_up = {}
    /\ \A c \in Turns!InFlight : turn_home[c] \in turn_up
    /\ \A c, d \in Turns!InFlight : Turns!Context(c) = Turns!Context(d) => c = d
    /\ \A c \in turn_own : turn_pc[c] # "idle"

\* The lease is held by the call whose body runs.
LeaseIsHeld == \A c \in Calls : turn_pc[c] \in Leased <=> turn_lease = c

\* What waits to be logged, or is about to be, is the call's own, and complete.
Noted(c) ==
    /\ c \in Turns!InFlight => turn_audit[Turns!Context(c)] \subseteq {c} \cap turn_ran
    /\ c \in turn_ran =>
        /\ turn_pc[c] \notin {"idle", "route", "chat", "chatting", "chatted", "gate"}
        /\ turn_pc[c] \in {"search", "save", "saving"} => c \in turn_audit[Turns!Context(c)]
        /\ turn_pc[c] \in {"flushed", "written"} => c \in turn_batch[c].logs
    /\ turn_pc[c] \in {"chatted", "flushed", "written"} =>
        turn_batch[c].logs \subseteq {c} \cap turn_ran

\* A call is recorded once, when its transaction commits, and its tools with it.
Recorded(c) ==
    /\ Turns!Of(c) # {} => turn_pc[c] \in {"flush", "done"}
    /\ \A t, u \in Turns!Of(c) : t = u
    /\ turn_pc[c] = "flush" \/ turn_heard[c] = "answer" => Turns!Of(c) # {}
    /\ c \in turn_logged <=> c \in turn_ran /\ Turns!Of(c) # {}

RecordInv ==
    /\ TurnType /\ Homes /\ LeaseIsHeld
    /\ \A c \in Calls : Noted(c) /\ Recorded(c)

\* A session that was not resumed beside a loop that has it is one loop's alone.
SessionsAreSingle ==
    \A p, q \in turn_up :
        p # q /\ turn_sess[p].sid = turn_sess[q].sid => turn_sess[p].sid \in turn_shared

\* Sessions are numbered by startups; a row counts at least the turns of its session, and a
\* Session object at least what its row does.
SessionsCount ==
    /\ \A s \in 1..MaxStarts : s > turn_starts => turn_rows[s].count = 0 /\ ~turn_rows[s].open
    /\ \A t \in turn_turns :
        /\ t.sid \in 1..MaxStarts /\ t.sid <= turn_starts
        /\ t.sid \notin turn_shared => t.num <= turn_rows[t.sid].count
    /\ \A p \in turn_up : LET s == turn_sess[p]
                          IN  /\ s.sid \in 1..MaxStarts /\ s.sid <= turn_starts
                              /\ s.sid \notin turn_shared => turn_rows[s.sid].count <= s.count

\* The number of a call that is not yet recorded was counted, and is nobody else's.
NumberIsFree(c) ==
    turn_pc[c] \in Numbered =>
        LET s == turn_sess[turn_home[c]]
        IN  /\ c \notin Bare
            /\ s.sid \notin turn_shared =>
                /\ turn_num[c] <= s.count
                /\ \A t \in turn_turns : t.sid = s.sid => t.num # turn_num[c]
                /\ \A d \in Calls \ {c} :
                    turn_pc[d] \in Numbered /\ turn_home[d] = turn_home[c] => turn_num[d] # turn_num[c]

\* The row that a transaction is about to commit counts its own turn and all before it.
RowIsCurrent(c) ==
    turn_pc[c] \in {"chatted", "written"} =>
        LET s == turn_sess[turn_home[c]]
        IN  s.sid \notin turn_shared =>
                /\ turn_num[c] <= turn_batch[c].row /\ turn_batch[c].row <= s.count
                /\ turn_rows[s.sid].count <= turn_batch[c].row

NumberInv ==
    /\ SessionsAreSingle /\ SessionsCount /\ Turns!NumbersAreUnique
    /\ \A c \in Calls : NumberIsFree(c) /\ RowIsCurrent(c)

\* What a call does, but for its beginning.
CallSteps(c) ==
    Turns!Route(c) \/ Turns!Friction(c) \/ Turns!Prepare(c) \/ Turns!RunTool(c) \/
    Turns!Searched(c) \/ Turns!ChildRefused(c) \/ Turns!Lease(c) \/ Turns!WriteChat(c) \/
    Turns!FlushAudit(c) \/ Turns!WriteTurn(c) \/ Turns!CommitChat(c) \/ Turns!CommitTurn(c) \/
    Turns!FlushMemory(c) \/ Turns!Cancel(c)

LEMMA CallMoves ==
    ASSUME TurnType, NEW c \in Calls, CallSteps(c)
    PROVE  /\ UNCHANGED <<turn_home, turn_own, turn_opening, turn_up, turn_starts>> /\ c \in Turns!InFlight
           /\ \E there \in TurnPlaces \ {"idle"} : turn_pc' = [turn_pc EXCEPT ![c] = there]
<1> USE DEF Turns!Goto, Turns!Hear, Turns!Gone, Turns!place, Turns!callVars, Turns!procVars,
       Turns!dbVars, Turns!InFlight, Turns!Context, Turns!Session, Turns!TakesPlace, TurnType,
       TurnPlaces
<1>1. CASE Turns!Route(c)
  BY <1>1 DEF Turns!Route
<1>2. CASE Turns!Friction(c)
  BY <1>2 DEF Turns!Friction
<1>3. CASE Turns!Prepare(c)
  BY <1>3 DEF Turns!Prepare
<1>4. CASE Turns!RunTool(c)
  BY <1>4 DEF Turns!RunTool
<1>5. CASE Turns!Searched(c)
  BY <1>5 DEF Turns!Searched
<1>6. CASE Turns!ChildRefused(c)
  BY <1>6 DEF Turns!ChildRefused
<1>7. CASE Turns!Lease(c)
  BY <1>7 DEF Turns!Lease
<1>8. CASE Turns!WriteChat(c)
  BY <1>8 DEF Turns!WriteChat
<1>9. CASE Turns!FlushAudit(c)
  BY <1>9 DEF Turns!FlushAudit
<1>10. CASE Turns!WriteTurn(c)
  BY <1>10 DEF Turns!WriteTurn
<1>11. CASE Turns!CommitChat(c)
  BY <1>11 DEF Turns!CommitChat
<1>12. CASE Turns!CommitTurn(c)
  BY <1>12 DEF Turns!CommitTurn
<1>13. CASE Turns!FlushMemory(c)
  BY <1>13 DEF Turns!FlushMemory
<1>14. CASE Turns!Cancel(c)
  BY <1>14 DEF Turns!Cancel
<1> QED  BY <1>1, <1>2, <1>3, <1>4, <1>5, <1>6, <1>7, <1>8, <1>9, <1>10, <1>11, <1>12, <1>13, <1>14
   DEF CallSteps

\* record_turn() counts in memory.
LEMMA Counted ==
    ASSUME TurnType, NEW p \in Procs, turn_sess' = [turn_sess EXCEPT ![p].count = @ + 1]
    PROVE  /\ turn_sess' \in [Procs -> [sid : Nat, count : Nat]]
           /\ \A q \in Procs : /\ turn_sess'[q].sid = turn_sess[q].sid
                               /\ turn_sess'[q].count = turn_sess[q].count + (IF q = p THEN 1 ELSE 0)
BY DEF TurnType

LEMMA Opened ==
    ASSUME TurnType, NEW s \in Nat, NEW b \in BOOLEAN, turn_rows' = [turn_rows EXCEPT ![s].open = b]
    PROVE  /\ turn_rows' \in [1..MaxStarts -> [count : Nat, open : BOOLEAN]]
           /\ \A o \in 1..MaxStarts : /\ turn_rows'[o].count = turn_rows[o].count
                                      /\ turn_rows'[o].open = IF o = s THEN b ELSE turn_rows[o].open
BY DEF TurnType

LEMMA Persisted ==
    ASSUME TurnType, NEW c \in Calls, Turns!Session(c).sid \in Nat, Turns!Persist(c)
    PROVE  /\ turn_rows' \in [1..MaxStarts -> [count : Nat, open : BOOLEAN]]
           /\ \A s \in 1..MaxStarts :
                /\ turn_rows'[s].open = turn_rows[s].open
                /\ turn_rows'[s].count = IF s = Turns!Session(c).sid THEN turn_batch[c].row
                                                                     ELSE turn_rows[s].count
           /\ \E t \in [sid : Nat, num : Nat, call : Calls] :
                /\ t.sid = Turns!Session(c).sid /\ t.num = turn_num[c] /\ t.call = c
                /\ turn_turns' = turn_turns \cup {t}
                /\ Turns!Of(c)' = Turns!Of(c) \cup {t}
           /\ \A d \in Calls \ {c} : Turns!Of(d)' = Turns!Of(d)
           /\ turn_turns' \subseteq [sid : Nat, num : Nat, call : Calls]
           /\ turn_logged' = turn_logged \cup turn_batch[c].logs
<1> DEFINE t == [sid |-> Turns!Session(c).sid, num |-> turn_num[c], call |-> c]
<1>1. t \in [sid : Nat, num : Nat, call : Calls] /\ turn_turns' = turn_turns \cup {t}
  BY DEF Turns!Persist, TurnType
<1>2. t.sid = Turns!Session(c).sid /\ t.num = turn_num[c] /\ t.call = c
  OBVIOUS
<1> HIDE DEF t
<1>3. Turns!Of(c)' = Turns!Of(c) \cup {t} /\ \A d \in Calls \ {c} : Turns!Of(d)' = Turns!Of(d)
  BY <1>1, <1>2 DEF Turns!Of
<1>4. turn_turns' \subseteq [sid : Nat, num : Nat, call : Calls]
  BY <1>1 DEF TurnType
<1>5. /\ turn_rows' \in [1..MaxStarts -> [count : Nat, open : BOOLEAN]]
      /\ \A s \in 1..MaxStarts :
            /\ turn_rows'[s].open = turn_rows[s].open
            /\ turn_rows'[s].count = IF s = Turns!Session(c).sid THEN turn_batch[c].row
                                                                 ELSE turn_rows[s].count
  <2> DEFINE s0 == Turns!Session(c).sid
             n  == turn_batch[c].row
  <2>1. n \in Nat /\ turn_rows' = [turn_rows EXCEPT ![s0].count = n]
    BY DEF Turns!Persist, TurnType
  <2> HIDE DEF s0, n
  <2>2. /\ turn_rows' \in [1..MaxStarts -> [count : Nat, open : BOOLEAN]]
        /\ \A s \in 1..MaxStarts : /\ turn_rows'[s].open = turn_rows[s].open
                                   /\ turn_rows'[s].count = IF s = s0 THEN n ELSE turn_rows[s].count
    BY <2>1 DEF TurnType
  <2> QED  BY <2>2 DEF s0, n
<1>6. turn_logged' = turn_logged \cup turn_batch[c].logs
  BY DEF Turns!Persist
<1> QED  BY <1>1, <1>2, <1>3, <1>4, <1>5, <1>6

\* The two ways in which a transaction ends without error, or with one.
LEMMA Commits ==
    ASSUME ~LateCommit, NEW c \in Calls, Turns!CommitChat(c) \/ Turns!CommitTurn(c)
    PROVE  /\ turn_lease = c /\ turn_lease' = "nobody" /\ turn_pc[c] \in {"chatted", "written"}
           /\ UNCHANGED <<turn_home, turn_own, turn_num, turn_batch, turn_unbound, turn_ran, turn_up,
                          turn_sess, turn_audit, turn_lock, turn_starts, turn_shared>>
           /\ \/ /\ Turns!Persist(c)
                 /\ \/ turn_pc' = [turn_pc EXCEPT ![c] = "done"]
                       /\ turn_heard' = [turn_heard EXCEPT ![c] = "answer"]
                    \/ turn_pc' = [turn_pc EXCEPT ![c] = "flush"] /\ UNCHANGED turn_heard
              \/ /\ UNCHANGED <<turn_rows, turn_turns, turn_logged>>
                 /\ \/ turn_pc' = [turn_pc EXCEPT ![c] = "gate"] /\ turn_pc[c] = "chatted"
                       /\ UNCHANGED turn_heard
                    \/ turn_pc' = [turn_pc EXCEPT ![c] = "done"]
                       /\ turn_heard' = [turn_heard EXCEPT ![c] = "unsaved"]
BY
   DEF Turns!CommitChat, Turns!CommitTurn, Turns!Goto, Turns!Hear, Turns!place, Turns!procVars,
       Turns!dbVars

\* A number is the count of the Session object and one.
Counts(c) ==
    /\ c \notin Bare
    /\ turn_sess' = [turn_sess EXCEPT ![turn_home[c]].count = @ + 1]
    /\ turn_num' = [turn_num EXCEPT ![c] = turn_sess[turn_home[c]].count + 1]

LEMMA RouteOf ==
    ASSUME NEW c \in Calls, Turns!Route(c)
    PROVE  /\ turn_pc[c] = "route"
           /\ UNCHANGED <<turn_heard, turn_home, turn_own, turn_batch, turn_unbound, turn_ran, turn_up,
                          turn_audit, turn_lock, turn_starts, turn_shared, turn_lease, turn_rows,
                          turn_turns, turn_logged>>
           /\ \/ turn_pc' = [turn_pc EXCEPT ![c] = "chat"] /\ Counts(c)
              \/ turn_pc' = [turn_pc EXCEPT ![c] = "gate"] /\ UNCHANGED <<turn_sess, turn_num>>
BY DEF Turns!Route, Turns!Goto, Turns!place, Turns!dbVars, Turns!Session, Counts

LEMMA WriteOf ==
    ASSUME NEW c \in Calls, Turns!WriteTurn(c)
    PROVE  /\ turn_pc[c] = "flushed" /\ turn_lease = c
           /\ UNCHANGED <<turn_home, turn_own, turn_unbound, turn_ran, turn_up, turn_audit, turn_lock,
                          turn_starts, turn_shared, turn_rows, turn_turns, turn_logged>>
           /\ \/ /\ turn_pc' = [turn_pc EXCEPT ![c] = "written"] /\ Counts(c)
                 /\ turn_batch' = [turn_batch EXCEPT ![c].row = turn_sess[turn_home[c]].count + 1]
                 /\ UNCHANGED <<turn_heard, turn_lease>>
              \/ /\ turn_pc' = [turn_pc EXCEPT ![c] = "done"] /\ turn_lease' = "nobody"
                 /\ turn_heard' = [turn_heard EXCEPT ![c] = "unsaved"]
                 /\ UNCHANGED <<turn_sess, turn_num, turn_batch>>
BY DEF Turns!WriteTurn, Turns!Goto, Turns!Hear, Turns!place, Turns!dbVars, Turns!Session, Counts

LEMMA Numbering ==
    ASSUME TurnType, NEW c \in Calls, turn_home[c] \in Procs, Counts(c)
    PROVE  /\ turn_sess' \in [Procs -> [sid : Nat, count : Nat]]
           /\ \A p \in Procs :
                /\ turn_sess'[p].sid = turn_sess[p].sid
                /\ turn_sess'[p].count = turn_sess[p].count + (IF p = turn_home[c] THEN 1 ELSE 0)
           /\ turn_num' \in [Calls -> Nat] /\ turn_num'[c] = turn_sess[turn_home[c]].count + 1
           /\ \A d \in Calls \ {c} : turn_num'[d] = turn_num[d]
<1>1. turn_sess[turn_home[c]].count \in Nat /\ turn_num \in [Calls -> Nat]
  BY DEF TurnType
<1>2. /\ turn_sess' = [turn_sess EXCEPT ![turn_home[c]].count = @ + 1]
      /\ turn_num' = [turn_num EXCEPT ![c] = turn_sess[turn_home[c]].count + 1]
  BY DEF Counts
<1>3. /\ turn_num' \in [Calls -> Nat] /\ turn_num'[c] = turn_sess[turn_home[c]].count + 1
      /\ \A d \in Calls \ {c} : turn_num'[d] = turn_num[d]
  BY <1>1, <1>2
<1> QED  BY <1>2, <1>3, Counted

LEMMA CallsAreHome ==
    ASSUME TurnType, Homes, NEW c \in Calls, CallSteps(c)
    PROVE  turn_home[c] \in Procs
<1>1. c \in Turns!InFlight
  BY CallMoves
<1> QED  BY <1>1 DEF Homes, TurnType

LEMMA RowWritten ==
    ASSUME TurnType, NEW c \in Calls, NEW n \in Nat, turn_batch' = [turn_batch EXCEPT ![c].row = n]
    PROVE  /\ turn_batch' \in [Calls -> [logs : SUBSET Calls, row : Nat]]
           /\ turn_batch'[c].row = n /\ turn_batch'[c].logs = turn_batch[c].logs
           /\ \A d \in Calls \ {c} : turn_batch'[d] = turn_batch[d]
<1> DEFINE b == [turn_batch[c] EXCEPT !.row = n]
<1>1. /\ turn_batch[c] \in [logs : SUBSET Calls, row : Nat]
      /\ turn_batch \in [Calls -> [logs : SUBSET Calls, row : Nat]]
      /\ turn_batch' = [turn_batch EXCEPT ![c] = b]
  BY DEF TurnType
<1>2. b \in [logs : SUBSET Calls, row : Nat] /\ b.row = n /\ b.logs = turn_batch[c].logs
  BY <1>1
<1> HIDE DEF b
<1> QED  BY <1>1, <1>2

\* A commit.
LEMMA PersistOf ==
    ASSUME TurnType, NEW c \in Calls, turn_home[c] \in Procs, Turns!Persist(c)
    PROVE  Turns!Session(c).sid \in Nat
BY DEF Turns!Session, TurnType

\* A startup resumes the last open session, or opens a new one.
LEMMA StartupOf ==
    ASSUME TurnType, Homes, NEW p \in Procs, Turns!Startup(p)
    PROVE  /\ p \notin turn_up
           /\ turn_up' = turn_up \cup {p} /\ turn_starts < MaxStarts /\ turn_starts' = turn_starts + 1
           /\ turn_sess' \in [Procs -> [sid : Nat, count : Nat]]
           /\ \A q \in Procs \ {p} : turn_sess'[q] = turn_sess[q]
           /\ turn_rows' \in [1..MaxStarts -> [count : Nat, open : BOOLEAN]]
           /\ \A s \in 1..MaxStarts : turn_rows'[s].count = turn_rows[s].count
           /\ \/ /\ turn_sess'[p].sid \in 1..MaxStarts /\ turn_rows[turn_sess'[p].sid].open
                 /\ turn_sess'[p].count = turn_rows[turn_sess'[p].sid].count
                 /\ UNCHANGED turn_rows /\ turn_shared \subseteq turn_shared'
                 /\ \A q \in turn_up :
                     turn_sess[q].sid = turn_sess'[p].sid => turn_sess[q].sid \in turn_shared'
              \/ /\ turn_sess'[p].sid = turn_starts + 1 /\ turn_sess'[p].count = 0
                 /\ UNCHANGED turn_shared
                 /\ \A s \in 1..MaxStarts \ {turn_starts + 1} : turn_rows'[s].open = turn_rows[s].open
<1>0. turn_starts + 1 \in Nat /\ turn_rows \in [1..MaxStarts -> [count : Nat, open : BOOLEAN]]
  BY DEF TurnType
<1>1. /\ p \notin turn_up
      /\ turn_up' = turn_up \cup {p} /\ turn_starts < MaxStarts /\ turn_starts' = turn_starts + 1
  BY DEF Turns!Startup, Homes
<1>2. ASSUME NEW s \in Turns!OpenSids, UNCHANGED turn_rows,
             turn_shared' = IF \E q \in turn_up : turn_sess[q].sid = s THEN turn_shared \cup {s} ELSE turn_shared,
             turn_sess' = [turn_sess EXCEPT ![p] = [sid |-> s, count |-> turn_rows[s].count]]
      PROVE  /\ turn_sess' \in [Procs -> [sid : Nat, count : Nat]]
             /\ \A q \in Procs \ {p} : turn_sess'[q] = turn_sess[q]
             /\ turn_sess'[p].sid \in 1..MaxStarts /\ turn_rows[turn_sess'[p].sid].open
             /\ turn_sess'[p].count = turn_rows[turn_sess'[p].sid].count
             /\ turn_shared \subseteq turn_shared'
             /\ \A q \in turn_up : turn_sess[q].sid = turn_sess'[p].sid => turn_sess[q].sid \in turn_shared'
  <2>0. turn_sess \in [Procs -> [sid : Nat, count : Nat]]
    BY DEF TurnType
  <2>1. s \in 1..MaxStarts /\ turn_rows[s].open /\ turn_rows[s].count \in Nat /\ s \in Nat
    BY <1>0 DEF Turns!OpenSids, Turns!Sids
  <2>2. turn_sess'[p] = [sid |-> s, count |-> turn_rows[s].count]
    BY <1>2, <2>0
  <2>3. turn_sess'[p].sid = s
    BY <2>2
  <2>4. /\ turn_shared \subseteq turn_shared'
        /\ \A q \in turn_up : turn_sess[q].sid = s => turn_sess[q].sid \in turn_shared'
    BY <1>2
  <2> QED  BY <1>2, <2>0, <2>1, <2>2, <2>3, <2>4
<1>3. ASSUME turn_sess' = [turn_sess EXCEPT ![p] = [sid |-> turn_starts + 1, count |-> 0]],
             turn_rows' = [turn_rows EXCEPT ![turn_starts + 1].open = TRUE]
      PROVE  /\ turn_sess' \in [Procs -> [sid : Nat, count : Nat]]
             /\ \A q \in Procs \ {p} : turn_sess'[q] = turn_sess[q]
             /\ turn_sess'[p].sid = turn_starts + 1 /\ turn_sess'[p].count = 0
             /\ turn_rows' \in [1..MaxStarts -> [count : Nat, open : BOOLEAN]]
             /\ \A s \in 1..MaxStarts : turn_rows'[s].count = turn_rows[s].count
             /\ \A s \in 1..MaxStarts \ {turn_starts + 1} : turn_rows'[s].open = turn_rows[s].open
  <2>1. /\ turn_rows' \in [1..MaxStarts -> [count : Nat, open : BOOLEAN]]
        /\ \A s \in 1..MaxStarts : turn_rows'[s].count = turn_rows[s].count
        /\ \A s \in 1..MaxStarts \ {turn_starts + 1} : turn_rows'[s].open = turn_rows[s].open
    BY <1>0, <1>3, Opened
  <2>2. /\ turn_sess' \in [Procs -> [sid : Nat, count : Nat]]
        /\ \A q \in Procs \ {p} : turn_sess'[q] = turn_sess[q]
        /\ turn_sess'[p].sid = turn_starts + 1 /\ turn_sess'[p].count = 0
    BY <1>0, <1>3 DEF TurnType
  <2> QED  BY <2>1, <2>2
<1>4. \/ \E s \in Turns!OpenSids :
             /\ turn_sess' = [turn_sess EXCEPT ![p] = [sid |-> s, count |-> turn_rows[s].count]]
             /\ turn_shared' = IF \E q \in turn_up : turn_sess[q].sid = s THEN turn_shared \cup {s} ELSE turn_shared
             /\ UNCHANGED turn_rows
      \/ /\ turn_sess' = [turn_sess EXCEPT ![p] = [sid |-> turn_starts + 1, count |-> 0]]
         /\ turn_rows' = [turn_rows EXCEPT ![turn_starts + 1].open = TRUE] /\ UNCHANGED turn_shared
  BY DEF Turns!Startup
<1>5. CASE \E s \in Turns!OpenSids :
             /\ turn_sess' = [turn_sess EXCEPT ![p] = [sid |-> s, count |-> turn_rows[s].count]]
             /\ turn_shared' = IF \E q \in turn_up : turn_sess[q].sid = s THEN turn_shared \cup {s} ELSE turn_shared
             /\ UNCHANGED turn_rows
  BY <1>0, <1>1, <1>2, <1>5
<1>6. CASE /\ turn_sess' = [turn_sess EXCEPT ![p] = [sid |-> turn_starts + 1, count |-> 0]]
           /\ turn_rows' = [turn_rows EXCEPT ![turn_starts + 1].open = TRUE] /\ UNCHANGED turn_shared
  BY <1>1, <1>3, <1>6
<1> QED  BY <1>4, <1>5, <1>6

LEMMA TurnTypeStep ==
    ASSUME ~LateCommit, RecordInv, Turns!TurnAssumption, Turns!Next
    PROVE  TurnType'
<1>1. ASSUME NEW p \in Procs, Turns!Startup(p) PROVE TurnType'
  <2>1. TurnType /\ Homes
    BY DEF RecordInv
  <2>2. turn_rows' \in [1..MaxStarts -> [count : Nat, open : BOOLEAN]] /\ turn_sess' \in [Procs -> [sid : Nat, count : Nat]]
    BY <1>1, <2>1, StartupOf
  <2>3. /\ turn_up' = turn_up \cup {p} /\ turn_starts' = turn_starts + 1
        /\ turn_audit' = [turn_audit EXCEPT ![p] = {}]
        /\ UNCHANGED <<turn_pc, turn_own, turn_ran, turn_heard, turn_home, turn_num, turn_batch, turn_lease,
                       turn_turns>>
    BY <1>1 DEF Turns!Startup, Turns!callVars, Turns!place
  <2> QED  BY <2>1, <2>2, <2>3 DEF TurnType
<1>2. ASSUME NEW p \in Procs, Turns!Crash(p) PROVE TurnType'
  BY <1>2
     DEF Turns!Crash, RecordInv, Turns!TurnAssumption, Homes, Turns!OpenSids, TurnType, TurnPlaces,
         Hearings, Leased, Turns!Goto, Turns!Hear, Turns!Gone, Turns!place, Turns!callVars,
         Turns!procVars, Turns!dbVars, Turns!InFlight, Turns!Context, Turns!Session,
         Turns!TakesPlace
<1>3. ASSUME NEW p \in Procs, Turns!Shutdown(p) PROVE TurnType'
  <2>1. turn_sess[p].sid \in Nat /\ TurnType
    BY DEF RecordInv, TurnType
  <2>2. turn_rows' \in [1..MaxStarts -> [count : Nat, open : BOOLEAN]]
    BY <1>3, <2>1, Opened DEF Turns!Shutdown
  <2> QED
    BY <1>3, <2>1, <2>2 DEF Turns!Shutdown, Turns!Gone, Turns!place, TurnType, TurnPlaces, Hearings
<1>4. ASSUME NEW c \in Calls, NEW p \in Procs, Turns!Start(c, p) PROVE TurnType'
  BY <1>4
     DEF Turns!Start, RecordInv, Turns!TurnAssumption, Homes, Turns!OpenSids, TurnType, TurnPlaces,
         Hearings, Leased, Turns!Goto, Turns!Hear, Turns!Gone, Turns!place, Turns!callVars,
         Turns!procVars, Turns!dbVars, Turns!InFlight, Turns!Context, Turns!Session,
         Turns!TakesPlace
<1>5. ASSUME NEW c \in Calls, Turns!Route(c) PROVE TurnType'
  <2>1. turn_home[c] \in Procs /\ TurnType
    BY <1>5, CallsAreHome DEF CallSteps, RecordInv
  <2>2. /\ turn_pc' = [turn_pc EXCEPT ![c] = "chat"] \/ turn_pc' = [turn_pc EXCEPT ![c] = "gate"]
        /\ Counts(c) \/ UNCHANGED <<turn_sess, turn_num>>
        /\ UNCHANGED <<turn_home, turn_own, turn_batch, turn_ran, turn_up, turn_audit, turn_starts,
                       turn_lease, turn_rows, turn_turns, turn_heard>>
    BY <1>5, RouteOf
  <2>3. turn_sess' \in [Procs -> [sid : Nat, count : Nat]] /\ turn_num' \in [Calls -> Nat]
    <3>1. Counts(c) => turn_sess' \in [Procs -> [sid : Nat, count : Nat]] /\ turn_num' \in [Calls -> Nat]
      BY <2>1, Numbering
    <3>2. turn_sess \in [Procs -> [sid : Nat, count : Nat]] /\ turn_num \in [Calls -> Nat]
      BY <2>1 DEF TurnType
    <3> QED  BY <2>2, <3>1, <3>2
  <2> QED  BY <2>1, <2>2, <2>3 DEF TurnType, TurnPlaces, Hearings
<1>6. ASSUME NEW c \in Calls, Turns!Friction(c) PROVE TurnType'
  BY <1>6
     DEF Turns!Friction, RecordInv, Turns!TurnAssumption, Homes, Turns!OpenSids, TurnType,
         TurnPlaces, Hearings, Leased, Turns!Goto, Turns!Hear, Turns!Gone, Turns!place,
         Turns!callVars, Turns!procVars, Turns!dbVars, Turns!InFlight, Turns!Context, Turns!Session,
         Turns!TakesPlace
<1>7. ASSUME NEW c \in Calls, Turns!Prepare(c) PROVE TurnType'
  <2>1. CallSteps(c) /\ TurnType
    BY <1>7 DEF CallSteps, RecordInv
  <2>2. turn_pc' \in [Calls -> TurnPlaces]
    BY <2>1, CallMoves DEF TurnType
  <2> QED  BY <1>7, <2>1, <2>2
     DEF Turns!Prepare, Turns!Hear, Turns!procVars, Turns!dbVars, Turns!place, TurnType, Hearings
<1>8. ASSUME NEW c \in Calls, Turns!RunTool(c) PROVE TurnType'
  <2>1. /\ turn_audit' = [turn_audit EXCEPT ![Turns!Context(c)] = @ \cup {c}] /\ turn_ran' = turn_ran \cup {c}
        /\ UNCHANGED <<turn_pc, turn_own, turn_heard, turn_home, turn_num, turn_batch, turn_up, turn_sess,
                       turn_lease, turn_rows, turn_turns, turn_starts>>
    BY <1>8 DEF Turns!RunTool, Turns!place, Turns!dbVars
  <2>2. TurnType
    BY DEF RecordInv
  <2>3. turn_audit' \in [Procs \cup Calls -> SUBSET Calls]
    BY <2>1, <2>2 DEF TurnType
  <2> QED  BY <2>1, <2>2, <2>3 DEF TurnType
<1>9. ASSUME NEW c \in Calls, Turns!Searched(c) PROVE TurnType'
  BY <1>9
     DEF Turns!Searched, RecordInv, Turns!TurnAssumption, Homes, Turns!OpenSids, TurnType,
         TurnPlaces, Hearings, Leased, Turns!Goto, Turns!Hear, Turns!Gone, Turns!place,
         Turns!callVars, Turns!procVars, Turns!dbVars, Turns!InFlight, Turns!Context, Turns!Session,
         Turns!TakesPlace
<1>10. ASSUME NEW c \in Calls, Turns!ChildRefused(c) PROVE TurnType'
  <2>1. turn_home[c] \in Procs /\ TurnType
    BY <1>10, CallsAreHome DEF CallSteps, RecordInv
  <2>2. Turns!Session(c).sid \in Nat
    BY <2>1 DEF Turns!Session, TurnType
  <2>3. turn_rows' \in [1..MaxStarts -> [count : Nat, open : BOOLEAN]]
    BY <1>10, <2>1, <2>2, Opened DEF Turns!ChildRefused
  <2> QED  BY <1>10, <2>1, <2>3 DEF Turns!ChildRefused, Turns!callVars, Turns!place, TurnType
<1>11. ASSUME NEW c \in Calls, Turns!Lease(c) PROVE TurnType'
  BY <1>11
     DEF Turns!Lease, RecordInv, Turns!TurnAssumption, Homes, Turns!OpenSids, TurnType, TurnPlaces,
         Hearings, Leased, Turns!Goto, Turns!Hear, Turns!Gone, Turns!place, Turns!callVars,
         Turns!procVars, Turns!dbVars, Turns!InFlight, Turns!Context, Turns!Session,
         Turns!TakesPlace
<1>12. ASSUME NEW c \in Calls, Turns!WriteChat(c) PROVE TurnType'
  BY <1>12
     DEF Turns!WriteChat, RecordInv, Turns!TurnAssumption, Homes, Turns!OpenSids, TurnType,
         TurnPlaces, Hearings, Leased, Turns!Goto, Turns!Hear, Turns!Gone, Turns!place,
         Turns!callVars, Turns!procVars, Turns!dbVars, Turns!InFlight, Turns!Context, Turns!Session,
         Turns!TakesPlace
<1>13. ASSUME NEW c \in Calls, Turns!FlushAudit(c) PROVE TurnType'
  BY <1>13
     DEF Turns!FlushAudit, RecordInv, Turns!TurnAssumption, Homes, Turns!OpenSids, TurnType,
         TurnPlaces, Hearings, Leased, Turns!Goto, Turns!Hear, Turns!Gone, Turns!place,
         Turns!callVars, Turns!procVars, Turns!dbVars, Turns!InFlight, Turns!Context, Turns!Session,
         Turns!TakesPlace
<1>14. ASSUME NEW c \in Calls, Turns!WriteTurn(c) PROVE TurnType'
  <2>1. turn_home[c] \in Procs /\ TurnType
    BY <1>14, CallsAreHome DEF CallSteps, RecordInv
  <2>2. turn_sess[turn_home[c]].count + 1 \in Nat
    BY <2>1 DEF TurnType
  <2>3. /\ UNCHANGED <<turn_home, turn_own, turn_ran, turn_up, turn_audit, turn_starts, turn_rows, turn_turns>>
        /\ turn_lease' \in {"nobody", turn_lease}
        /\ \/ turn_pc' = [turn_pc EXCEPT ![c] = "written"] /\ Counts(c)
              /\ turn_batch' = [turn_batch EXCEPT ![c].row = turn_sess[turn_home[c]].count + 1]
           \/ turn_pc' = [turn_pc EXCEPT ![c] = "done"] /\ UNCHANGED <<turn_sess, turn_num, turn_batch>>
        /\ UNCHANGED turn_heard \/ turn_heard' = [turn_heard EXCEPT ![c] = "unsaved"]
    BY <1>14, WriteOf
  <2>4. /\ turn_sess' \in [Procs -> [sid : Nat, count : Nat]] /\ turn_num' \in [Calls -> Nat]
        /\ turn_batch' \in [Calls -> [logs : SUBSET Calls, row : Nat]]
    <3>1. ASSUME Counts(c), turn_batch' = [turn_batch EXCEPT ![c].row = turn_sess[turn_home[c]].count + 1]
          PROVE  /\ turn_sess' \in [Procs -> [sid : Nat, count : Nat]] /\ turn_num' \in [Calls -> Nat]
                 /\ turn_batch' \in [Calls -> [logs : SUBSET Calls, row : Nat]]
      BY <2>1, <2>2, <3>1, Numbering, RowWritten
    <3>2. /\ turn_sess \in [Procs -> [sid : Nat, count : Nat]] /\ turn_num \in [Calls -> Nat]
          /\ turn_batch \in [Calls -> [logs : SUBSET Calls, row : Nat]]
      BY <2>1 DEF TurnType
    <3> QED  BY <2>3, <3>1, <3>2
  <2> QED  BY <2>1, <2>3, <2>4 DEF TurnType, TurnPlaces, Hearings
<1>15. ASSUME NEW c \in Calls, Turns!CommitChat(c) PROVE TurnType'
  <2>1. turn_home[c] \in Procs /\ TurnType
    BY <1>15, CallsAreHome DEF CallSteps, RecordInv
  <2>2. /\ \E there \in {"done", "flush", "gate"} : turn_pc' = [turn_pc EXCEPT ![c] = there]
        /\ UNCHANGED <<turn_home, turn_own, turn_num, turn_batch, turn_ran, turn_up, turn_sess,
                       turn_audit, turn_starts>>
        /\ turn_lease' = "nobody"
        /\ Turns!Persist(c) \/ UNCHANGED <<turn_rows, turn_turns>>
        /\ UNCHANGED turn_heard \/ \E what \in {"answer", "unsaved"} : turn_heard' = [turn_heard EXCEPT ![c] = what]
    BY <1>15, Commits
  <2>3. /\ turn_rows' \in [1..MaxStarts -> [count : Nat, open : BOOLEAN]]
        /\ turn_turns' \subseteq [sid : Nat, num : Nat, call : Calls]
    <3>1. Turns!Persist(c) => /\ turn_rows' \in [1..MaxStarts -> [count : Nat, open : BOOLEAN]]
                              /\ turn_turns' \subseteq [sid : Nat, num : Nat, call : Calls]
      BY <2>1, PersistOf, Persisted
    <3>2. /\ turn_rows \in [1..MaxStarts -> [count : Nat, open : BOOLEAN]]
          /\ turn_turns \subseteq [sid : Nat, num : Nat, call : Calls]
      BY <2>1 DEF TurnType
    <3> QED  BY <2>2, <3>1, <3>2
  <2>4. turn_pc' \in [Calls -> TurnPlaces] /\ turn_heard' \in [Calls -> Hearings]
    <3>1. turn_pc \in [Calls -> TurnPlaces] /\ turn_heard \in [Calls -> Hearings]
      BY <2>1 DEF TurnType
    <3> QED  BY <2>2, <3>1 DEF TurnPlaces, Hearings
  <2>5. UNCHANGED <<turn_home, turn_own, turn_num, turn_batch, turn_ran, turn_up, turn_sess,
                    turn_audit, turn_starts>> /\ turn_lease' = "nobody"
    BY <2>2
  <2> QED  BY <2>1, <2>3, <2>4, <2>5 DEF TurnType
<1>16. ASSUME NEW c \in Calls, Turns!CommitTurn(c) PROVE TurnType'
  <2>1. turn_home[c] \in Procs /\ TurnType
    BY <1>16, CallsAreHome DEF CallSteps, RecordInv
  <2>2. /\ \E there \in {"done", "flush", "gate"} : turn_pc' = [turn_pc EXCEPT ![c] = there]
        /\ UNCHANGED <<turn_home, turn_own, turn_num, turn_batch, turn_ran, turn_up, turn_sess,
                       turn_audit, turn_starts>>
        /\ turn_lease' = "nobody"
        /\ Turns!Persist(c) \/ UNCHANGED <<turn_rows, turn_turns>>
        /\ UNCHANGED turn_heard \/ \E what \in {"answer", "unsaved"} : turn_heard' = [turn_heard EXCEPT ![c] = what]
    BY <1>16, Commits
  <2>3. /\ turn_rows' \in [1..MaxStarts -> [count : Nat, open : BOOLEAN]]
        /\ turn_turns' \subseteq [sid : Nat, num : Nat, call : Calls]
    <3>1. Turns!Persist(c) => /\ turn_rows' \in [1..MaxStarts -> [count : Nat, open : BOOLEAN]]
                              /\ turn_turns' \subseteq [sid : Nat, num : Nat, call : Calls]
      BY <2>1, PersistOf, Persisted
    <3>2. /\ turn_rows \in [1..MaxStarts -> [count : Nat, open : BOOLEAN]]
          /\ turn_turns \subseteq [sid : Nat, num : Nat, call : Calls]
      BY <2>1 DEF TurnType
    <3> QED  BY <2>2, <3>1, <3>2
  <2>4. turn_pc' \in [Calls -> TurnPlaces] /\ turn_heard' \in [Calls -> Hearings]
    <3>1. turn_pc \in [Calls -> TurnPlaces] /\ turn_heard \in [Calls -> Hearings]
      BY <2>1 DEF TurnType
    <3> QED  BY <2>2, <3>1 DEF TurnPlaces, Hearings
  <2>5. UNCHANGED <<turn_home, turn_own, turn_num, turn_batch, turn_ran, turn_up, turn_sess,
                    turn_audit, turn_starts>> /\ turn_lease' = "nobody"
    BY <2>2
  <2> QED  BY <2>1, <2>3, <2>4, <2>5 DEF TurnType
<1>17. ASSUME NEW c \in Calls, Turns!FlushMemory(c) PROVE TurnType'
  BY <1>17
     DEF Turns!FlushMemory, RecordInv, Turns!TurnAssumption, Homes, Turns!OpenSids, TurnType,
         TurnPlaces, Hearings, Leased, Turns!Goto, Turns!Hear, Turns!Gone, Turns!place,
         Turns!callVars, Turns!procVars, Turns!dbVars, Turns!InFlight, Turns!Context, Turns!Session,
         Turns!TakesPlace
<1>18. ASSUME NEW c \in Calls, Turns!Cancel(c) PROVE TurnType'
  BY <1>18
     DEF Turns!Cancel, RecordInv, Turns!TurnAssumption, Homes, Turns!OpenSids, TurnType, TurnPlaces,
         Hearings, Leased, Turns!Goto, Turns!Hear, Turns!Gone, Turns!place, Turns!callVars,
         Turns!procVars, Turns!dbVars, Turns!InFlight, Turns!Context, Turns!Session,
         Turns!TakesPlace
<1>19. ASSUME NEW p \in Procs, Turns!FindLock(p) PROVE TurnType'
  BY <1>19
     DEF Turns!FindLock, Turns!callVars, Turns!place, Turns!dbVars, RecordInv, TurnType
<1> QED
  BY <1>1, <1>2, <1>3, <1>4, <1>5, <1>6, <1>7, <1>8, <1>9, <1>10, <1>11, <1>12, <1>13, <1>14, <1>15,
         <1>16, <1>17, <1>18, <1>19 DEF Turns!Next

LEMMA HomesStep ==
    ASSUME RecordInv, Turns!TurnAssumption, Turns!Next
    PROVE  Homes'
<1>1. ASSUME NEW p \in Procs, Turns!Startup(p) PROVE Homes'
  BY <1>1
     DEF Turns!Startup, RecordInv, Turns!TurnAssumption, Homes, TurnType, TurnPlaces, Hearings,
         Leased, Turns!Goto, Turns!Hear, Turns!Gone, Turns!place, Turns!callVars, Turns!procVars,
         Turns!dbVars, Turns!InFlight, Turns!Context, Turns!Session, Turns!TakesPlace
<1>2. ASSUME NEW p \in Procs, Turns!Crash(p) PROVE Homes'
  BY <1>2
     DEF Turns!Crash, RecordInv, Turns!TurnAssumption, Homes, TurnType, TurnPlaces, Hearings,
         Leased, Turns!Goto, Turns!Hear, Turns!Gone, Turns!place, Turns!callVars, Turns!procVars,
         Turns!dbVars, Turns!InFlight, Turns!Context, Turns!Session, Turns!TakesPlace
<1>3. ASSUME NEW p \in Procs, Turns!Shutdown(p) PROVE Homes'
  BY <1>3
     DEF Turns!Shutdown, RecordInv, Turns!TurnAssumption, Homes, TurnType, TurnPlaces, Hearings,
         Leased, Turns!Goto, Turns!Hear, Turns!Gone, Turns!place, Turns!callVars, Turns!procVars,
         Turns!dbVars, Turns!InFlight, Turns!Context, Turns!Session, Turns!TakesPlace
<1>4. ASSUME NEW c \in Calls, NEW p \in Procs, Turns!Start(c, p) PROVE Homes'
  BY <1>4
     DEF Turns!Start, RecordInv, Turns!TurnAssumption, Homes, TurnType, TurnPlaces, Hearings,
         Leased, Turns!Goto, Turns!Hear, Turns!Gone, Turns!place, Turns!callVars, Turns!procVars,
         Turns!dbVars, Turns!InFlight, Turns!Context, Turns!Session, Turns!TakesPlace
<1>5. ASSUME NEW c \in Calls, CallSteps(c) PROVE Homes'
  <2>1. /\ UNCHANGED <<turn_home, turn_own, turn_opening, turn_up>> /\ c \in Turns!InFlight
        /\ \A d \in Calls : d # c => turn_pc'[d] = turn_pc[d]
        /\ turn_pc'[c] # "idle"
    BY <1>5, CallMoves DEF RecordInv, TurnType
  <2> QED  BY <2>1 DEF RecordInv, TurnType, Homes, Turns!InFlight, Turns!Context
<1>6. ASSUME NEW p \in Procs, Turns!FindLock(p) PROVE Homes'
  BY <1>6
     DEF Turns!FindLock, Turns!callVars, Turns!place, RecordInv, Homes, Turns!InFlight,
         Turns!Context
<1> QED
  BY <1>1, <1>2, <1>3, <1>4, <1>5, <1>6 DEF Turns!Next, CallSteps

LEMMA LeaseStep ==
    ASSUME ~LateCommit, RecordInv, Turns!TurnAssumption, Turns!Next
    PROVE  LeaseIsHeld'
<1>1. ASSUME NEW p \in Procs, Turns!Startup(p) PROVE LeaseIsHeld'
  BY <1>1
     DEF Turns!Startup, RecordInv, Turns!TurnAssumption, Homes, LeaseIsHeld, TurnType, TurnPlaces,
         Hearings, Leased, Turns!Goto, Turns!Hear, Turns!Gone, Turns!place, Turns!callVars,
         Turns!procVars, Turns!dbVars, Turns!InFlight, Turns!Context, Turns!Session,
         Turns!TakesPlace
<1>2. ASSUME NEW p \in Procs, Turns!Crash(p) PROVE LeaseIsHeld'
  BY <1>2
     DEF Turns!Crash, RecordInv, Turns!TurnAssumption, Homes, LeaseIsHeld, TurnType, TurnPlaces,
         Hearings, Leased, Turns!Goto, Turns!Hear, Turns!Gone, Turns!place, Turns!callVars,
         Turns!procVars, Turns!dbVars, Turns!InFlight, Turns!Context, Turns!Session,
         Turns!TakesPlace
<1>3. ASSUME NEW p \in Procs, Turns!Shutdown(p) PROVE LeaseIsHeld'
  BY <1>3
     DEF Turns!Shutdown, RecordInv, Turns!TurnAssumption, Homes, LeaseIsHeld, TurnType, TurnPlaces,
         Hearings, Leased, Turns!Goto, Turns!Hear, Turns!Gone, Turns!place, Turns!callVars,
         Turns!procVars, Turns!dbVars, Turns!InFlight, Turns!Context, Turns!Session,
         Turns!TakesPlace
<1>4. ASSUME NEW c \in Calls, NEW p \in Procs, Turns!Start(c, p) PROVE LeaseIsHeld'
  BY <1>4
     DEF Turns!Start, RecordInv, Turns!TurnAssumption, Homes, LeaseIsHeld, TurnType, TurnPlaces,
         Hearings, Leased, Turns!Goto, Turns!Hear, Turns!Gone, Turns!place, Turns!callVars,
         Turns!procVars, Turns!dbVars, Turns!InFlight, Turns!Context, Turns!Session,
         Turns!TakesPlace
<1>5. ASSUME NEW c \in Calls, Turns!Route(c) PROVE LeaseIsHeld'
  <2>1. TurnType /\ LeaseIsHeld
    BY DEF RecordInv
  <2>2. /\ turn_pc[c] = "route" /\ UNCHANGED turn_lease
        /\ \E there \in {"chat", "gate"} : turn_pc' = [turn_pc EXCEPT ![c] = there]
    BY <1>5, RouteOf
  <2> QED  BY <2>1, <2>2 DEF TurnType, LeaseIsHeld, Leased, Turns!TurnAssumption
<1>6. ASSUME NEW c \in Calls, Turns!Friction(c) PROVE LeaseIsHeld'
  BY <1>6
     DEF Turns!Friction, RecordInv, Turns!TurnAssumption, Homes, LeaseIsHeld, TurnType, TurnPlaces,
         Hearings, Leased, Turns!Goto, Turns!Hear, Turns!Gone, Turns!place, Turns!callVars,
         Turns!procVars, Turns!dbVars, Turns!InFlight, Turns!Context, Turns!Session,
         Turns!TakesPlace
<1>7. ASSUME NEW c \in Calls, Turns!Prepare(c) PROVE LeaseIsHeld'
  BY <1>7
     DEF Turns!Prepare, RecordInv, Turns!TurnAssumption, Homes, LeaseIsHeld, TurnType, TurnPlaces,
         Hearings, Leased, Turns!Goto, Turns!Hear, Turns!Gone, Turns!place, Turns!callVars,
         Turns!procVars, Turns!dbVars, Turns!InFlight, Turns!Context, Turns!Session,
         Turns!TakesPlace
<1>8. ASSUME NEW c \in Calls, Turns!RunTool(c) PROVE LeaseIsHeld'
  BY <1>8
     DEF Turns!RunTool, RecordInv, Turns!TurnAssumption, Homes, LeaseIsHeld, TurnType, TurnPlaces,
         Hearings, Leased, Turns!Goto, Turns!Hear, Turns!Gone, Turns!place, Turns!callVars,
         Turns!procVars, Turns!dbVars, Turns!InFlight, Turns!Context, Turns!Session,
         Turns!TakesPlace
<1>9. ASSUME NEW c \in Calls, Turns!Searched(c) PROVE LeaseIsHeld'
  BY <1>9
     DEF Turns!Searched, RecordInv, Turns!TurnAssumption, Homes, LeaseIsHeld, TurnType, TurnPlaces,
         Hearings, Leased, Turns!Goto, Turns!Hear, Turns!Gone, Turns!place, Turns!callVars,
         Turns!procVars, Turns!dbVars, Turns!InFlight, Turns!Context, Turns!Session,
         Turns!TakesPlace
<1>10. ASSUME NEW c \in Calls, Turns!ChildRefused(c) PROVE LeaseIsHeld'
  BY <1>10
     DEF Turns!ChildRefused, RecordInv, Turns!TurnAssumption, Homes, LeaseIsHeld, TurnType,
         TurnPlaces, Hearings, Leased, Turns!Goto, Turns!Hear, Turns!Gone, Turns!place,
         Turns!callVars, Turns!procVars, Turns!dbVars, Turns!InFlight, Turns!Context, Turns!Session,
         Turns!TakesPlace
<1>11. ASSUME NEW c \in Calls, Turns!Lease(c) PROVE LeaseIsHeld'
  BY <1>11
     DEF Turns!Lease, RecordInv, Turns!TurnAssumption, Homes, LeaseIsHeld, TurnType, TurnPlaces,
         Hearings, Leased, Turns!Goto, Turns!Hear, Turns!Gone, Turns!place, Turns!callVars,
         Turns!procVars, Turns!dbVars, Turns!InFlight, Turns!Context, Turns!Session,
         Turns!TakesPlace
<1>12. ASSUME NEW c \in Calls, Turns!WriteChat(c) PROVE LeaseIsHeld'
  BY <1>12
     DEF Turns!WriteChat, RecordInv, Turns!TurnAssumption, Homes, LeaseIsHeld, TurnType, TurnPlaces,
         Hearings, Leased, Turns!Goto, Turns!Hear, Turns!Gone, Turns!place, Turns!callVars,
         Turns!procVars, Turns!dbVars, Turns!InFlight, Turns!Context, Turns!Session,
         Turns!TakesPlace
<1>13. ASSUME NEW c \in Calls, Turns!FlushAudit(c) PROVE LeaseIsHeld'
  BY <1>13
     DEF Turns!FlushAudit, RecordInv, Turns!TurnAssumption, Homes, LeaseIsHeld, TurnType,
         TurnPlaces, Hearings, Leased, Turns!Goto, Turns!Hear, Turns!Gone, Turns!place,
         Turns!callVars, Turns!procVars, Turns!dbVars, Turns!InFlight, Turns!Context, Turns!Session,
         Turns!TakesPlace
<1>14. ASSUME NEW c \in Calls, Turns!WriteTurn(c) PROVE LeaseIsHeld'
  <2>1. TurnType /\ LeaseIsHeld
    BY DEF RecordInv
  <2>2. /\ turn_pc[c] = "flushed" /\ turn_lease = c
        /\ \/ turn_pc' = [turn_pc EXCEPT ![c] = "written"] /\ UNCHANGED turn_lease
           \/ turn_pc' = [turn_pc EXCEPT ![c] = "done"] /\ turn_lease' = "nobody"
    BY <1>14, WriteOf
  <2> QED  BY <2>1, <2>2 DEF TurnType, LeaseIsHeld, Leased, Turns!TurnAssumption
<1>15. ASSUME NEW c \in Calls, Turns!CommitChat(c) PROVE LeaseIsHeld'
  <2>1. TurnType /\ LeaseIsHeld
    BY DEF RecordInv
  <2>2. /\ turn_pc[c] \in {"chatted", "written"} /\ turn_lease' = "nobody"
        /\ \E there \in {"gate", "flush", "done"} : turn_pc' = [turn_pc EXCEPT ![c] = there]
    BY <1>15, Commits
  <2> QED  BY <2>1, <2>2 DEF TurnType, LeaseIsHeld, Leased, Turns!TurnAssumption
<1>16. ASSUME NEW c \in Calls, Turns!CommitTurn(c) PROVE LeaseIsHeld'
  <2>1. TurnType /\ LeaseIsHeld
    BY DEF RecordInv
  <2>2. /\ turn_pc[c] \in {"chatted", "written"} /\ turn_lease' = "nobody"
        /\ \E there \in {"gate", "flush", "done"} : turn_pc' = [turn_pc EXCEPT ![c] = there]
    BY <1>16, Commits
  <2> QED  BY <2>1, <2>2 DEF TurnType, LeaseIsHeld, Leased, Turns!TurnAssumption
<1>17. ASSUME NEW c \in Calls, Turns!FlushMemory(c) PROVE LeaseIsHeld'
  BY <1>17
     DEF Turns!FlushMemory, RecordInv, Turns!TurnAssumption, Homes, LeaseIsHeld, TurnType,
         TurnPlaces, Hearings, Leased, Turns!Goto, Turns!Hear, Turns!Gone, Turns!place,
         Turns!callVars, Turns!procVars, Turns!dbVars, Turns!InFlight, Turns!Context, Turns!Session,
         Turns!TakesPlace
<1>18. ASSUME NEW c \in Calls, Turns!Cancel(c) PROVE LeaseIsHeld'
  BY <1>18
     DEF Turns!Cancel, RecordInv, Turns!TurnAssumption, Homes, LeaseIsHeld, TurnType, TurnPlaces,
         Hearings, Leased, Turns!Goto, Turns!Hear, Turns!Gone, Turns!place, Turns!callVars,
         Turns!procVars, Turns!dbVars, Turns!InFlight, Turns!Context, Turns!Session,
         Turns!TakesPlace
<1>19. ASSUME NEW p \in Procs, Turns!FindLock(p) PROVE LeaseIsHeld'
  BY <1>19
     DEF Turns!FindLock, Turns!callVars, Turns!place, RecordInv, LeaseIsHeld
<1> QED
  BY <1>1, <1>2, <1>3, <1>4, <1>5, <1>6, <1>7, <1>8, <1>9, <1>10, <1>11, <1>12, <1>13, <1>14, <1>15,
         <1>16, <1>17, <1>18, <1>19 DEF Turns!Next

\* Where a call stays as it is and no other has touched what waits to be logged, its notes hold.
NotedFrame(e) ==
    /\ UNCHANGED <<turn_home, turn_own>> /\ turn_pc'[e] = turn_pc[e]
    /\ turn_batch'[e] = turn_batch[e] /\ turn_audit'[Turns!Context(e)] = turn_audit[Turns!Context(e)]
    /\ UNCHANGED turn_ran

LEMMA NotesStay == ASSUME NEW e \in Calls, NotedFrame(e), Noted(e) PROVE Noted(e)'
BY DEF NotedFrame, Noted, Turns!InFlight, Turns!Context

LEMMA NotedStep ==
    ASSUME ~LateCommit, RecordInv, Turns!TurnAssumption, Turns!Next
    PROVE  \A e \in Calls : Noted(e)'
<1>1. ASSUME NEW p \in Procs, Turns!Startup(p) PROVE \A e \in Calls : Noted(e)'
  BY <1>1
     DEF Turns!Startup, RecordInv, Turns!TurnAssumption, Homes, Noted, TurnType, TurnPlaces,
         Hearings, Leased, Turns!Goto, Turns!Hear, Turns!Gone, Turns!place, Turns!callVars,
         Turns!procVars, Turns!dbVars, Turns!InFlight, Turns!Context, Turns!Session,
         Turns!TakesPlace
<1>2. ASSUME NEW p \in Procs, Turns!Crash(p) PROVE \A e \in Calls : Noted(e)'
  BY <1>2
     DEF Turns!Crash, RecordInv, Turns!TurnAssumption, Homes, Noted, TurnType, TurnPlaces, Hearings,
         Leased, Turns!Goto, Turns!Hear, Turns!Gone, Turns!place, Turns!callVars, Turns!procVars,
         Turns!dbVars, Turns!InFlight, Turns!Context, Turns!Session, Turns!TakesPlace
<1>3. ASSUME NEW p \in Procs, Turns!Shutdown(p) PROVE \A e \in Calls : Noted(e)'
  BY <1>3
     DEF Turns!Shutdown, RecordInv, Turns!TurnAssumption, Homes, Noted, TurnType, TurnPlaces,
         Hearings, Leased, Turns!Goto, Turns!Hear, Turns!Gone, Turns!place, Turns!callVars,
         Turns!procVars, Turns!dbVars, Turns!InFlight, Turns!Context, Turns!Session,
         Turns!TakesPlace
<1>4. ASSUME NEW c \in Calls, NEW p \in Procs, Turns!Start(c, p) PROVE \A e \in Calls : Noted(e)'
  BY <1>4
     DEF Turns!Start, RecordInv, Turns!TurnAssumption, Homes, Noted, TurnType, TurnPlaces, Hearings,
         Leased, Turns!Goto, Turns!Hear, Turns!Gone, Turns!place, Turns!callVars, Turns!procVars,
         Turns!dbVars, Turns!InFlight, Turns!Context, Turns!Session, Turns!TakesPlace
<1>5. ASSUME NEW c \in Calls, Turns!Route(c) PROVE \A e \in Calls : Noted(e)'
  <2>1. TurnType /\ Homes /\ LeaseIsHeld /\ \A e \in Calls : Noted(e) /\ Recorded(e)
    BY DEF RecordInv
  <2>2. /\ turn_pc[c] = "route" /\ UNCHANGED <<turn_home, turn_own, turn_ran, turn_audit, turn_batch>>
        /\ \E there \in {"chat", "gate"} : turn_pc' = [turn_pc EXCEPT ![c] = there]
    BY <1>5, RouteOf
  <2>3. \A e \in Calls \ {c} : NotedFrame(e)
    BY <2>1, <2>2 DEF NotedFrame, TurnType
  <2>4. turn_pc'[c] \in {"chat", "gate"}
    BY <2>1, <2>2 DEF TurnType
  <2>5. Noted(c)'
    BY <2>1, <2>2, <2>4 DEF Noted, Turns!InFlight, Turns!Context
  <2> QED  BY <2>1, <2>3, <2>5, NotesStay
<1>6. ASSUME NEW c \in Calls, Turns!Friction(c) PROVE \A e \in Calls : Noted(e)'
  BY <1>6
     DEF Turns!Friction, RecordInv, Turns!TurnAssumption, Homes, Noted, TurnType, TurnPlaces,
         Hearings, Leased, Turns!Goto, Turns!Hear, Turns!Gone, Turns!place, Turns!callVars,
         Turns!procVars, Turns!dbVars, Turns!InFlight, Turns!Context, Turns!Session,
         Turns!TakesPlace
<1>7. ASSUME NEW c \in Calls, Turns!Prepare(c) PROVE \A e \in Calls : Noted(e)'
  BY <1>7
     DEF Turns!Prepare, RecordInv, Turns!TurnAssumption, Homes, Noted, TurnType, TurnPlaces,
         Hearings, Leased, Turns!Goto, Turns!Hear, Turns!Gone, Turns!place, Turns!callVars,
         Turns!procVars, Turns!dbVars, Turns!InFlight, Turns!Context, Turns!Session,
         Turns!TakesPlace
<1>8. ASSUME NEW c \in Calls, Turns!RunTool(c) PROVE \A e \in Calls : Noted(e)'
  BY <1>8
     DEF Turns!RunTool, RecordInv, Turns!TurnAssumption, Homes, Noted, TurnType, TurnPlaces,
         Hearings, Leased, Turns!Goto, Turns!Hear, Turns!Gone, Turns!place, Turns!callVars,
         Turns!procVars, Turns!dbVars, Turns!InFlight, Turns!Context, Turns!Session,
         Turns!TakesPlace
<1>9. ASSUME NEW c \in Calls, Turns!Searched(c) PROVE \A e \in Calls : Noted(e)'
  BY <1>9
     DEF Turns!Searched, RecordInv, Turns!TurnAssumption, Homes, Noted, TurnType, TurnPlaces,
         Hearings, Leased, Turns!Goto, Turns!Hear, Turns!Gone, Turns!place, Turns!callVars,
         Turns!procVars, Turns!dbVars, Turns!InFlight, Turns!Context, Turns!Session,
         Turns!TakesPlace
<1>10. ASSUME NEW c \in Calls, Turns!ChildRefused(c) PROVE \A e \in Calls : Noted(e)'
  BY <1>10
     DEF Turns!ChildRefused, RecordInv, Turns!TurnAssumption, Homes, Noted, TurnType, TurnPlaces,
         Hearings, Leased, Turns!Goto, Turns!Hear, Turns!Gone, Turns!place, Turns!callVars,
         Turns!procVars, Turns!dbVars, Turns!InFlight, Turns!Context, Turns!Session,
         Turns!TakesPlace
<1>11. ASSUME NEW c \in Calls, Turns!Lease(c) PROVE \A e \in Calls : Noted(e)'
  BY <1>11
     DEF Turns!Lease, RecordInv, Turns!TurnAssumption, Homes, Noted, TurnType, TurnPlaces, Hearings,
         Leased, Turns!Goto, Turns!Hear, Turns!Gone, Turns!place, Turns!callVars, Turns!procVars,
         Turns!dbVars, Turns!InFlight, Turns!Context, Turns!Session, Turns!TakesPlace
<1>12. ASSUME NEW c \in Calls, Turns!WriteChat(c) PROVE \A e \in Calls : Noted(e)'
  BY <1>12
     DEF Turns!WriteChat, RecordInv, Turns!TurnAssumption, Homes, Noted, TurnType, TurnPlaces,
         Hearings, Leased, Turns!Goto, Turns!Hear, Turns!Gone, Turns!place, Turns!callVars,
         Turns!procVars, Turns!dbVars, Turns!InFlight, Turns!Context, Turns!Session,
         Turns!TakesPlace
<1>13. ASSUME NEW c \in Calls, Turns!FlushAudit(c) PROVE \A e \in Calls : Noted(e)'
  <2>1. TurnType /\ Homes /\ LeaseIsHeld /\ \A e \in Calls : Noted(e) /\ Recorded(e)
    BY DEF RecordInv
  <2>2. turn_home[c] \in Procs /\ c \in Turns!InFlight
    BY <1>13, <2>1, CallsAreHome, CallMoves DEF CallSteps
  <2>3. /\ turn_pc[c] = "saving" /\ turn_pc' = [turn_pc EXCEPT ![c] = "flushed"]
        /\ turn_batch' = [turn_batch EXCEPT ![c] = [logs |-> turn_audit[Turns!Context(c)], row |-> 0]]
        /\ turn_audit' = [turn_audit EXCEPT ![Turns!Context(c)] = {}]
        /\ UNCHANGED <<turn_home, turn_own, turn_ran>>
    BY <1>13 DEF Turns!FlushAudit, Turns!Goto, Turns!place
  <2>4. Turns!Context(c) \in Procs \cup Calls
    BY <2>2 DEF Turns!Context
  <2>5. turn_pc'[c] = "flushed" /\ turn_batch'[c].logs = turn_audit[Turns!Context(c)]
        /\ turn_audit'[Turns!Context(c)] = {}
    BY <2>1, <2>3, <2>4 DEF TurnType
  <2>6. Noted(c)'
    BY <2>1, <2>2, <2>3, <2>5 DEF Noted, Turns!InFlight, Turns!Context
  <2>7. ASSUME NEW e \in Calls \ {c} PROVE Noted(e)'
    <3>1. turn_pc'[e] = turn_pc[e] /\ turn_batch'[e] = turn_batch[e]
      BY <2>1, <2>3, <2>7 DEF TurnType
    <3>2. CASE e \in Turns!InFlight
      <4>1. Turns!Context(e) # Turns!Context(c)
        BY <2>1, <2>2, <2>7, <3>2 DEF Homes
      <4>2. turn_audit'[Turns!Context(e)] = turn_audit[Turns!Context(e)]
        BY <2>1, <2>3, <4>1 DEF TurnType
      <4> QED  BY <2>1, <2>3, <3>1, <4>2, NotesStay DEF NotedFrame
    <3>3. CASE e \notin Turns!InFlight
      BY <2>1, <2>3, <3>1, <3>3 DEF Noted, Turns!InFlight
    <3> QED  BY <3>2, <3>3
  <2> QED  BY <2>6, <2>7
<1>14. ASSUME NEW c \in Calls, Turns!WriteTurn(c) PROVE \A e \in Calls : Noted(e)'
  <2>1. TurnType /\ Homes /\ LeaseIsHeld /\ \A e \in Calls : Noted(e) /\ Recorded(e)
    BY DEF RecordInv
  <2>2. turn_home[c] \in Procs
    BY <1>14, <2>1, CallsAreHome DEF CallSteps
  <2>3. /\ turn_pc[c] = "flushed" /\ UNCHANGED <<turn_home, turn_own, turn_ran, turn_audit>>
        /\ \E there \in {"written", "done"} : turn_pc' = [turn_pc EXCEPT ![c] = there]
        /\ UNCHANGED turn_batch \/ turn_batch' = [turn_batch EXCEPT ![c].row = turn_sess[turn_home[c]].count + 1]
    BY <1>14, WriteOf
  <2>4. turn_sess[turn_home[c]].count + 1 \in Nat
    BY <2>1, <2>2 DEF TurnType
  <2>5. turn_batch'[c].logs = turn_batch[c].logs /\ \A e \in Calls \ {c} : turn_batch'[e] = turn_batch[e]
    BY <2>1, <2>3, <2>4, RowWritten
  <2>6. \A e \in Calls \ {c} : turn_pc'[e] = turn_pc[e]
    BY <2>1, <2>3 DEF TurnType
  <2>7. Noted(c)'
    BY <2>1, <2>3, <2>5 DEF TurnType, Noted, Turns!InFlight, Turns!Context
  <2>8. \A e \in Calls \ {c} : NotedFrame(e)
    BY <2>3, <2>5, <2>6 DEF NotedFrame
  <2> QED  BY <2>1, <2>7, <2>8, NotesStay
<1>15. ASSUME NEW c \in Calls, Turns!CommitChat(c) PROVE \A e \in Calls : Noted(e)'
  <2>1. TurnType /\ Homes /\ LeaseIsHeld /\ \A e \in Calls : Noted(e) /\ Recorded(e)
    BY DEF RecordInv
  <2>2. /\ turn_pc[c] \in {"chatted", "written"}
        /\ UNCHANGED <<turn_home, turn_own, turn_ran, turn_audit, turn_batch>>
        /\ \/ turn_pc[c] = "chatted" /\ turn_pc' = [turn_pc EXCEPT ![c] = "gate"]
           \/ \E there \in {"done", "flush"} : turn_pc' = [turn_pc EXCEPT ![c] = there]
    BY <1>15, Commits
  <2>3. \A e \in Calls \ {c} : NotedFrame(e)
    BY <2>1, <2>2 DEF NotedFrame, TurnType
  <2>4. \/ turn_pc'[c] \in {"done", "flush"}
        \/ turn_pc[c] = "chatted" /\ turn_pc'[c] = "gate"
    BY <2>1, <2>2 DEF TurnType
  <2>5. Noted(c)'
    BY <2>1, <2>2, <2>4 DEF Noted, Turns!InFlight, Turns!Context
  <2> QED  BY <2>1, <2>3, <2>5, NotesStay
<1>16. ASSUME NEW c \in Calls, Turns!CommitTurn(c) PROVE \A e \in Calls : Noted(e)'
  <2>1. TurnType /\ Homes /\ LeaseIsHeld /\ \A e \in Calls : Noted(e) /\ Recorded(e)
    BY DEF RecordInv
  <2>2. /\ turn_pc[c] \in {"chatted", "written"}
        /\ UNCHANGED <<turn_home, turn_own, turn_ran, turn_audit, turn_batch>>
        /\ \/ turn_pc[c] = "chatted" /\ turn_pc' = [turn_pc EXCEPT ![c] = "gate"]
           \/ \E there \in {"done", "flush"} : turn_pc' = [turn_pc EXCEPT ![c] = there]
    BY <1>16, Commits
  <2>3. \A e \in Calls \ {c} : NotedFrame(e)
    BY <2>1, <2>2 DEF NotedFrame, TurnType
  <2>4. \/ turn_pc'[c] \in {"done", "flush"}
        \/ turn_pc[c] = "chatted" /\ turn_pc'[c] = "gate"
    BY <2>1, <2>2 DEF TurnType
  <2>5. Noted(c)'
    BY <2>1, <2>2, <2>4 DEF Noted, Turns!InFlight, Turns!Context
  <2> QED  BY <2>1, <2>3, <2>5, NotesStay
<1>17. ASSUME NEW c \in Calls, Turns!FlushMemory(c) PROVE \A e \in Calls : Noted(e)'
  BY <1>17
     DEF Turns!FlushMemory, RecordInv, Turns!TurnAssumption, Homes, Noted, TurnType, TurnPlaces,
         Hearings, Leased, Turns!Goto, Turns!Hear, Turns!Gone, Turns!place, Turns!callVars,
         Turns!procVars, Turns!dbVars, Turns!InFlight, Turns!Context, Turns!Session,
         Turns!TakesPlace
<1>18. ASSUME NEW c \in Calls, Turns!Cancel(c) PROVE \A e \in Calls : Noted(e)'
  BY <1>18
     DEF Turns!Cancel, RecordInv, Turns!TurnAssumption, Homes, Noted, TurnType, TurnPlaces,
         Hearings, Leased, Turns!Goto, Turns!Hear, Turns!Gone, Turns!place, Turns!callVars,
         Turns!procVars, Turns!dbVars, Turns!InFlight, Turns!Context, Turns!Session,
         Turns!TakesPlace
<1>19. ASSUME NEW p \in Procs, Turns!FindLock(p) PROVE \A e \in Calls : Noted(e)'
  <2>1. \A e \in Calls : NotedFrame(e)
    BY <1>19 DEF Turns!FindLock, Turns!callVars, Turns!place, NotedFrame
  <2> QED  BY <2>1, NotesStay DEF RecordInv
<1> QED
  BY <1>1, <1>2, <1>3, <1>4, <1>5, <1>6, <1>7, <1>8, <1>9, <1>10, <1>11, <1>12, <1>13, <1>14, <1>15,
         <1>16, <1>17, <1>18, <1>19 DEF Turns!Next

LEMMA RecordsStay ==
    ASSUME NEW e \in Calls, Recorded(e), turn_pc'[e] = turn_pc[e], turn_heard'[e] = turn_heard[e],
           Turns!Of(e)' = Turns!Of(e), e \in turn_ran' <=> e \in turn_ran,
           e \in turn_logged' <=> e \in turn_logged
    PROVE  Recorded(e)'
BY DEF Recorded

\* A step that records nothing only ends what was recorded before, if anything was.
LEMMA NothingRecorded ==
    ASSUME NEW c \in Calls, \A e \in Calls : Recorded(e),
           UNCHANGED <<turn_turns, turn_logged, turn_ran>>,
           \A e \in Calls \ {c} : turn_pc'[e] = turn_pc[e] /\ turn_heard'[e] = turn_heard[e],
           turn_pc'[c] # "flush", turn_pc[c] \in {"flush", "done"} => turn_pc'[c] = "done",
           turn_heard'[c] = "answer" => turn_heard[c] = "answer" \/ turn_pc[c] = "flush"
    PROVE  \A e \in Calls : Recorded(e)'
<1>1. \A e \in Calls : Turns!Of(e)' = Turns!Of(e)
  BY DEF Turns!Of
<1>2. \A e \in Calls \ {c} : Recorded(e)'
  BY <1>1, RecordsStay
<1>3. Recorded(c)'
  BY <1>1 DEF Recorded
<1> QED  BY <1>2, <1>3

LEMMA RecordedStep ==
    ASSUME ~LateCommit, RecordInv, Turns!TurnAssumption, Turns!Next
    PROVE  \A e \in Calls : Recorded(e)'
<1>1. ASSUME NEW p \in Procs, Turns!Startup(p) PROVE \A e \in Calls : Recorded(e)'
  BY <1>1
     DEF Turns!Startup, RecordInv, Turns!TurnAssumption, Homes, Noted, Recorded, Turns!Of, TurnType,
         TurnPlaces, Hearings, Leased, Turns!Goto, Turns!Hear, Turns!Gone, Turns!place,
         Turns!callVars, Turns!procVars, Turns!dbVars, Turns!InFlight, Turns!Context, Turns!Session,
         Turns!TakesPlace
<1>2. ASSUME NEW p \in Procs, Turns!Crash(p) PROVE \A e \in Calls : Recorded(e)'
  BY <1>2
     DEF Turns!Crash, RecordInv, Turns!TurnAssumption, Homes, Noted, Recorded, Turns!Of, TurnType,
         TurnPlaces, Hearings, Leased, Turns!Goto, Turns!Hear, Turns!Gone, Turns!place,
         Turns!callVars, Turns!procVars, Turns!dbVars, Turns!InFlight, Turns!Context, Turns!Session,
         Turns!TakesPlace
<1>3. ASSUME NEW p \in Procs, Turns!Shutdown(p) PROVE \A e \in Calls : Recorded(e)'
  BY <1>3
     DEF Turns!Shutdown, RecordInv, Turns!TurnAssumption, Homes, Noted, Recorded, Turns!Of,
         TurnType, TurnPlaces, Hearings, Leased, Turns!Goto, Turns!Hear, Turns!Gone, Turns!place,
         Turns!callVars, Turns!procVars, Turns!dbVars, Turns!InFlight, Turns!Context, Turns!Session,
         Turns!TakesPlace
<1>4. ASSUME NEW c \in Calls, NEW p \in Procs, Turns!Start(c, p) PROVE \A e \in Calls : Recorded(e)'
  BY <1>4
     DEF Turns!Start, RecordInv, Turns!TurnAssumption, Homes, Noted, Recorded, Turns!Of, TurnType,
         TurnPlaces, Hearings, Leased, Turns!Goto, Turns!Hear, Turns!Gone, Turns!place,
         Turns!callVars, Turns!procVars, Turns!dbVars, Turns!InFlight, Turns!Context, Turns!Session,
         Turns!TakesPlace
<1>5. ASSUME NEW c \in Calls, Turns!Route(c) PROVE \A e \in Calls : Recorded(e)'
  <2>1. TurnType /\ Homes /\ LeaseIsHeld /\ \A e \in Calls : Noted(e) /\ Recorded(e)
    BY DEF RecordInv
  <2>2. /\ turn_pc[c] = "route" /\ turn_pc'[c] \in {"chat", "gate"} /\ turn_heard'[c] = turn_heard[c]
        /\ UNCHANGED <<turn_turns, turn_logged, turn_ran>>
        /\ \A e \in Calls \ {c} : turn_pc'[e] = turn_pc[e] /\ turn_heard'[e] = turn_heard[e]
    BY <1>5, <2>1, RouteOf DEF TurnType, TurnPlaces, Hearings
  <2> QED  BY <2>1, <2>2, NothingRecorded
<1>6. ASSUME NEW c \in Calls, Turns!Friction(c) PROVE \A e \in Calls : Recorded(e)'
  BY <1>6
     DEF Turns!Friction, RecordInv, Turns!TurnAssumption, Homes, Noted, Recorded, Turns!Of,
         TurnType, TurnPlaces, Hearings, Leased, Turns!Goto, Turns!Hear, Turns!Gone, Turns!place,
         Turns!callVars, Turns!procVars, Turns!dbVars, Turns!InFlight, Turns!Context, Turns!Session,
         Turns!TakesPlace
<1>7. ASSUME NEW c \in Calls, Turns!Prepare(c) PROVE \A e \in Calls : Recorded(e)'
  <2>1. TurnType /\ Homes /\ LeaseIsHeld /\ \A e \in Calls : Noted(e) /\ Recorded(e)
    BY DEF RecordInv
  <2>2. /\ turn_pc[c] = "gate" /\ turn_pc'[c] \in {"search", "done", "save"}
        /\ turn_heard'[c] \in {turn_heard[c], "raised"}
        /\ UNCHANGED <<turn_turns, turn_logged, turn_ran>>
        /\ \A e \in Calls \ {c} : turn_pc'[e] = turn_pc[e] /\ turn_heard'[e] = turn_heard[e]
    BY <1>7, <2>1
       DEF Turns!Prepare, Turns!Goto, Turns!Hear, Turns!procVars, Turns!dbVars, TurnType,
           TurnPlaces, Hearings
  <2> QED  BY <2>1, <2>2, NothingRecorded
<1>8. ASSUME NEW c \in Calls, Turns!RunTool(c) PROVE \A e \in Calls : Recorded(e)'
  BY <1>8
     DEF Turns!RunTool, RecordInv, Turns!TurnAssumption, Homes, Noted, Recorded, Turns!Of, TurnType,
         TurnPlaces, Hearings, Leased, Turns!Goto, Turns!Hear, Turns!Gone, Turns!place,
         Turns!callVars, Turns!procVars, Turns!dbVars, Turns!InFlight, Turns!Context, Turns!Session,
         Turns!TakesPlace
<1>9. ASSUME NEW c \in Calls, Turns!Searched(c) PROVE \A e \in Calls : Recorded(e)'
  BY <1>9
     DEF Turns!Searched, RecordInv, Turns!TurnAssumption, Homes, Noted, Recorded, Turns!Of,
         TurnType, TurnPlaces, Hearings, Leased, Turns!Goto, Turns!Hear, Turns!Gone, Turns!place,
         Turns!callVars, Turns!procVars, Turns!dbVars, Turns!InFlight, Turns!Context, Turns!Session,
         Turns!TakesPlace
<1>10. ASSUME NEW c \in Calls, Turns!ChildRefused(c) PROVE \A e \in Calls : Recorded(e)'
  BY <1>10
     DEF Turns!ChildRefused, RecordInv, Turns!TurnAssumption, Homes, Noted, Recorded, Turns!Of,
         TurnType, TurnPlaces, Hearings, Leased, Turns!Goto, Turns!Hear, Turns!Gone, Turns!place,
         Turns!callVars, Turns!procVars, Turns!dbVars, Turns!InFlight, Turns!Context, Turns!Session,
         Turns!TakesPlace
<1>11. ASSUME NEW c \in Calls, Turns!Lease(c) PROVE \A e \in Calls : Recorded(e)'
  BY <1>11
     DEF Turns!Lease, RecordInv, Turns!TurnAssumption, Homes, Noted, Recorded, Turns!Of, TurnType,
         TurnPlaces, Hearings, Leased, Turns!Goto, Turns!Hear, Turns!Gone, Turns!place,
         Turns!callVars, Turns!procVars, Turns!dbVars, Turns!InFlight, Turns!Context, Turns!Session,
         Turns!TakesPlace
<1>12. ASSUME NEW c \in Calls, Turns!WriteChat(c) PROVE \A e \in Calls : Recorded(e)'
  BY <1>12
     DEF Turns!WriteChat, RecordInv, Turns!TurnAssumption, Homes, Noted, Recorded, Turns!Of,
         TurnType, TurnPlaces, Hearings, Leased, Turns!Goto, Turns!Hear, Turns!Gone, Turns!place,
         Turns!callVars, Turns!procVars, Turns!dbVars, Turns!InFlight, Turns!Context, Turns!Session,
         Turns!TakesPlace
<1>13. ASSUME NEW c \in Calls, Turns!FlushAudit(c) PROVE \A e \in Calls : Recorded(e)'
  BY <1>13
     DEF Turns!FlushAudit, RecordInv, Turns!TurnAssumption, Homes, Noted, Recorded, Turns!Of,
         TurnType, TurnPlaces, Hearings, Leased, Turns!Goto, Turns!Hear, Turns!Gone, Turns!place,
         Turns!callVars, Turns!procVars, Turns!dbVars, Turns!InFlight, Turns!Context, Turns!Session,
         Turns!TakesPlace
<1>14. ASSUME NEW c \in Calls, Turns!WriteTurn(c) PROVE \A e \in Calls : Recorded(e)'
  <2>1. TurnType /\ Homes /\ LeaseIsHeld /\ \A e \in Calls : Noted(e) /\ Recorded(e)
    BY DEF RecordInv
  <2>2. /\ turn_pc[c] = "flushed" /\ turn_pc'[c] \in {"written", "done"}
        /\ turn_heard'[c] \in {turn_heard[c], "unsaved"}
        /\ UNCHANGED <<turn_turns, turn_logged, turn_ran>>
        /\ \A e \in Calls \ {c} : turn_pc'[e] = turn_pc[e] /\ turn_heard'[e] = turn_heard[e]
    BY <1>14, <2>1, WriteOf DEF TurnType, TurnPlaces, Hearings
  <2> QED  BY <2>1, <2>2, NothingRecorded
<1>15. ASSUME NEW c \in Calls, Turns!CommitChat(c) PROVE \A e \in Calls : Recorded(e)'
  <2>1. TurnType /\ Homes /\ LeaseIsHeld /\ \A e \in Calls : Noted(e) /\ Recorded(e)
    BY DEF RecordInv
  <2>2. turn_home[c] \in Procs
    BY <1>15, <2>1, CallsAreHome DEF CallSteps
  <2>3. /\ turn_pc[c] \in {"chatted", "written"} /\ UNCHANGED turn_ran
        /\ \/ /\ Turns!Persist(c)
              /\ \E there \in {"done", "flush"} : turn_pc' = [turn_pc EXCEPT ![c] = there]
              /\ UNCHANGED turn_heard \/ turn_heard' = [turn_heard EXCEPT ![c] = "answer"]
           \/ /\ UNCHANGED <<turn_turns, turn_logged>>
              /\ \E there \in {"gate", "done"} : turn_pc' = [turn_pc EXCEPT ![c] = there]
              /\ UNCHANGED turn_heard \/ turn_heard' = [turn_heard EXCEPT ![c] = "unsaved"]
    BY <1>15, Commits
  <2>4. CASE UNCHANGED <<turn_turns, turn_logged>> /\ ~Turns!Persist(c)
    <3>1. /\ turn_pc'[c] \in {"gate", "done"} /\ turn_heard'[c] \in {turn_heard[c], "unsaved"}
          /\ \A e \in Calls \ {c} : turn_pc'[e] = turn_pc[e] /\ turn_heard'[e] = turn_heard[e]
      BY <2>1, <2>3, <2>4 DEF TurnType
    <3> QED  BY <2>1, <2>3, <2>4, <3>1, NothingRecorded
  <2>5. CASE Turns!Persist(c)
    <3>1. /\ turn_pc'[c] \in {"flush", "done", "gate"}
          /\ turn_pc'[c] = "gate" => UNCHANGED turn_turns
          /\ \A e \in Calls \ {c} : turn_pc'[e] = turn_pc[e] /\ turn_heard'[e] = turn_heard[e]
      BY <2>1, <2>3 DEF TurnType
    <3>2. /\ turn_logged' = turn_logged \cup turn_batch[c].logs
          /\ \A e \in Calls \ {c} : Turns!Of(e)' = Turns!Of(e)
          /\ \E t : /\ Turns!Of(c)' = Turns!Of(c) \cup {t} /\ t \in turn_turns' /\ t.call = c
      BY <2>1, <2>2, <2>5, PersistOf, Persisted
    <3>3. Turns!Of(c) = {}
      BY <2>1, <2>3 DEF Recorded
    <3>4. turn_pc'[c] \in {"flush", "done"}
      BY <3>1, <3>2, <3>3 DEF Turns!Of
    <3>5. turn_batch[c].logs \subseteq {c} \cap turn_ran /\ (c \in turn_ran => c \in turn_batch[c].logs)
      BY <2>1, <2>3 DEF Noted
    <3>6. Recorded(c)'
      BY <2>1, <2>3, <3>2, <3>3, <3>4, <3>5 DEF Recorded
    <3>7. \A e \in Calls \ {c} : Recorded(e)'
      BY <2>1, <2>3, <3>1, <3>2, <3>5, RecordsStay
    <3> QED  BY <3>6, <3>7
  <2> QED  BY <2>3, <2>4, <2>5
<1>16. ASSUME NEW c \in Calls, Turns!CommitTurn(c) PROVE \A e \in Calls : Recorded(e)'
  <2>1. TurnType /\ Homes /\ LeaseIsHeld /\ \A e \in Calls : Noted(e) /\ Recorded(e)
    BY DEF RecordInv
  <2>2. turn_home[c] \in Procs
    BY <1>16, <2>1, CallsAreHome DEF CallSteps
  <2>3. /\ turn_pc[c] \in {"chatted", "written"} /\ UNCHANGED turn_ran
        /\ \/ /\ Turns!Persist(c)
              /\ \E there \in {"done", "flush"} : turn_pc' = [turn_pc EXCEPT ![c] = there]
              /\ UNCHANGED turn_heard \/ turn_heard' = [turn_heard EXCEPT ![c] = "answer"]
           \/ /\ UNCHANGED <<turn_turns, turn_logged>>
              /\ \E there \in {"gate", "done"} : turn_pc' = [turn_pc EXCEPT ![c] = there]
              /\ UNCHANGED turn_heard \/ turn_heard' = [turn_heard EXCEPT ![c] = "unsaved"]
    BY <1>16, Commits
  <2>4. CASE UNCHANGED <<turn_turns, turn_logged>> /\ ~Turns!Persist(c)
    <3>1. /\ turn_pc'[c] \in {"gate", "done"} /\ turn_heard'[c] \in {turn_heard[c], "unsaved"}
          /\ \A e \in Calls \ {c} : turn_pc'[e] = turn_pc[e] /\ turn_heard'[e] = turn_heard[e]
      BY <2>1, <2>3, <2>4 DEF TurnType
    <3> QED  BY <2>1, <2>3, <2>4, <3>1, NothingRecorded
  <2>5. CASE Turns!Persist(c)
    <3>1. /\ turn_pc'[c] \in {"flush", "done", "gate"}
          /\ turn_pc'[c] = "gate" => UNCHANGED turn_turns
          /\ \A e \in Calls \ {c} : turn_pc'[e] = turn_pc[e] /\ turn_heard'[e] = turn_heard[e]
      BY <2>1, <2>3 DEF TurnType
    <3>2. /\ turn_logged' = turn_logged \cup turn_batch[c].logs
          /\ \A e \in Calls \ {c} : Turns!Of(e)' = Turns!Of(e)
          /\ \E t : /\ Turns!Of(c)' = Turns!Of(c) \cup {t} /\ t \in turn_turns' /\ t.call = c
      BY <2>1, <2>2, <2>5, PersistOf, Persisted
    <3>3. Turns!Of(c) = {}
      BY <2>1, <2>3 DEF Recorded
    <3>4. turn_pc'[c] \in {"flush", "done"}
      BY <3>1, <3>2, <3>3 DEF Turns!Of
    <3>5. turn_batch[c].logs \subseteq {c} \cap turn_ran /\ (c \in turn_ran => c \in turn_batch[c].logs)
      BY <2>1, <2>3 DEF Noted
    <3>6. Recorded(c)'
      BY <2>1, <2>3, <3>2, <3>3, <3>4, <3>5 DEF Recorded
    <3>7. \A e \in Calls \ {c} : Recorded(e)'
      BY <2>1, <2>3, <3>1, <3>2, <3>5, RecordsStay
    <3> QED  BY <3>6, <3>7
  <2> QED  BY <2>3, <2>4, <2>5
<1>17. ASSUME NEW c \in Calls, Turns!FlushMemory(c) PROVE \A e \in Calls : Recorded(e)'
  <2>1. TurnType /\ Homes /\ LeaseIsHeld /\ \A e \in Calls : Noted(e) /\ Recorded(e)
    BY DEF RecordInv
  <2>2. /\ turn_pc[c] = "flush" /\ turn_pc'[c] = "done"
        /\ UNCHANGED <<turn_turns, turn_logged, turn_ran>>
        /\ \A e \in Calls \ {c} : turn_pc'[e] = turn_pc[e] /\ turn_heard'[e] = turn_heard[e]
    BY <1>17, <2>1
       DEF Turns!FlushMemory, Turns!Goto, Turns!Hear, Turns!procVars, Turns!dbVars, TurnType,
           TurnPlaces, Hearings
  <2> QED  BY <2>1, <2>2, NothingRecorded
<1>18. ASSUME NEW c \in Calls, Turns!Cancel(c) PROVE \A e \in Calls : Recorded(e)'
  BY <1>18
     DEF Turns!Cancel, RecordInv, Turns!TurnAssumption, Homes, Noted, Recorded, Turns!Of, TurnType,
         TurnPlaces, Hearings, Leased, Turns!Goto, Turns!Hear, Turns!Gone, Turns!place,
         Turns!callVars, Turns!procVars, Turns!dbVars, Turns!InFlight, Turns!Context, Turns!Session,
         Turns!TakesPlace
<1>19. ASSUME NEW p \in Procs, Turns!FindLock(p) PROVE \A e \in Calls : Recorded(e)'
  <2>1. UNCHANGED <<turn_pc, turn_heard, turn_ran, turn_turns, turn_logged>>
    BY <1>19 DEF Turns!FindLock, Turns!callVars, Turns!place, Turns!dbVars
  <2> QED  BY <2>1, RecordsStay DEF RecordInv, Turns!Of
<1> QED
  BY <1>1, <1>2, <1>3, <1>4, <1>5, <1>6, <1>7, <1>8, <1>9, <1>10, <1>11, <1>12, <1>13, <1>14, <1>15,
         <1>16, <1>17, <1>18, <1>19 DEF Turns!Next

LEMMA RecordStep == ASSUME ~LateCommit PROVE RecordInv /\ [Next]_vars => RecordInv'
<1> SUFFICES ASSUME RecordInv, [Next]_vars PROVE RecordInv'
  OBVIOUS
<1>1. CASE UNCHANGED turnVars
  BY <1>1
     DEF turnVars, RecordInv, TurnType, Homes, LeaseIsHeld, Noted, Recorded, Turns!InFlight,
         Turns!Context, Turns!Of
<1>2. CASE TurnsSteps
  <2>1. Turns!Next /\ Turns!TurnAssumption
    BY <1>2, ConversationAssumption DEF TurnsSteps
  <2> QED
    BY <2>1, TurnTypeStep, HomesStep, LeaseStep, NotedStep, RecordedStep DEF RecordInv
<1> QED
  BY <1>1, <1>2 DEF Next, SearchSteps, EditsSteps, PromptSteps, PastSteps, WorkersSteps, Only, vars


\* What leaves the numbers as they are: what is still to be recorded was so before.
NumberFrame ==
    /\ turn_up' \subseteq turn_up /\ UNCHANGED <<turn_turns, turn_num, turn_starts, turn_shared>>
    /\ \A p \in turn_up' : turn_sess'[p] = turn_sess[p]
    /\ \A s \in 1..MaxStarts : /\ turn_rows'[s].count = turn_rows[s].count
                               /\ turn_rows'[s].open => turn_rows[s].open
    /\ \A c \in Calls :
        /\ turn_pc'[c] \in Numbered => /\ turn_pc[c] \in Numbered /\ turn_home'[c] = turn_home[c]
                                       /\ turn_sess'[turn_home[c]] = turn_sess[turn_home[c]]
        /\ turn_pc'[c] \in {"chatted", "written"} =>
            turn_pc'[c] = turn_pc[c] /\ turn_batch'[c] = turn_batch[c]

LEMMA NumbersStay == ASSUME Homes, NumberInv, NumberFrame PROVE NumberInv'
<1> USE DEF NumberInv, NumberFrame
<1>0. SessionsAreSingle'
  BY DEF SessionsAreSingle
<1>1. SessionsCount'
  BY DEF SessionsCount
<1>2. Turns!NumbersAreUnique'
  BY DEF Turns!NumbersAreUnique
<1>3. ASSUME NEW c \in Calls PROVE NumberIsFree(c)'
  BY DEF NumberIsFree
<1>4. ASSUME NEW c \in Calls PROVE RowIsCurrent(c)'
  <2> SUFFICES ASSUME turn_pc'[c] \in {"chatted", "written"} PROVE RowIsCurrent(c)'
    BY DEF RowIsCurrent
  <2>1. /\ turn_pc'[c] = turn_pc[c] /\ turn_batch'[c] = turn_batch[c] /\ turn_home'[c] = turn_home[c]
        /\ turn_sess'[turn_home[c]] = turn_sess[turn_home[c]]
    BY DEF Numbered
  <2>2. turn_sess[turn_home[c]].sid \in 1..MaxStarts
    BY <2>1 DEF Homes, Turns!InFlight, SessionsCount
  <2> QED  BY <2>1, <2>2 DEF RowIsCurrent
<1> QED  BY <1>0, <1>1, <1>2, <1>3, <1>4

\* A call that is still to be recorded is in a process that is up, and has its session alone
\* with the calls of that process.
LEMMA AtHome ==
    ASSUME TurnType, Homes, NumberInv, NEW c \in Turns!InFlight
    PROVE  /\ c \in Calls /\ turn_home[c] \in turn_up /\ turn_home[c] \in Procs
           /\ turn_sess[turn_home[c]].sid \in 1..MaxStarts
           /\ \A p \in turn_up : \/ p = turn_home[c]
                                 \/ turn_sess[p].sid # turn_sess[turn_home[c]].sid
                                 \/ turn_sess[p].sid \in turn_shared
           /\ \A d \in Calls : turn_pc[d] \in Numbered => turn_home[d] \in turn_up /\ turn_home[d] \in Procs
<1>1. c \in Calls /\ turn_home[c] \in turn_up /\ turn_up \subseteq Procs
  BY DEF TurnType, Homes, Turns!InFlight
<1>2. \A d \in Calls : turn_pc[d] \in Numbered => turn_home[d] \in turn_up
  BY DEF Homes, Turns!InFlight, Numbered
<1> QED  BY <1>1, <1>2 DEF NumberInv, SessionsAreSingle, SessionsCount

\* A call that is given a number gets one that no turn and no other call of its session has.
LEMMA NumberGiven ==
    ASSUME TurnType, Homes, NumberInv, NEW c \in Turns!InFlight, Counts(c),
           turn_pc[c] \notin Numbered, \A d \in Calls \ {c} : turn_pc'[d] = turn_pc[d],
           UNCHANGED <<turn_home, turn_up, turn_turns, turn_rows, turn_starts, turn_shared>>,
           \A d \in Calls \ {c} : turn_batch'[d] = turn_batch[d],
           turn_pc'[c] \in {"chatted", "written"} =>
               turn_batch'[c].row = turn_sess[turn_home[c]].count + 1
    PROVE  NumberInv'
<1> DEFINE p == turn_home[c]
           n == turn_sess[p].count
           s0 == turn_sess[p].sid
<1>1. /\ c \in Calls /\ p \in turn_up /\ p \in Procs /\ s0 \in 1..MaxStarts /\ turn_up \subseteq Procs
      /\ \A d \in Calls : turn_pc[d] \in Numbered => turn_home[d] \in Procs /\ turn_home[d] \in turn_up
  BY AtHome DEF TurnType
<1>2. /\ \A q \in Procs : /\ turn_sess'[q].sid = turn_sess[q].sid
                          /\ turn_sess'[q].count = turn_sess[q].count + (IF q = p THEN 1 ELSE 0)
      /\ turn_num'[c] = n + 1 /\ \A d \in Calls \ {c} : turn_num'[d] = turn_num[d]
  BY <1>1, Numbering
<1>3. /\ \A d \in Calls : turn_num[d] \in Nat /\ turn_batch[d].row \in Nat
      /\ \A s \in 1..MaxStarts : turn_rows[s].count \in Nat
      /\ \A t \in turn_turns : t.num \in Nat
      /\ \A q \in Procs : turn_sess[q].count \in Nat
      /\ n \in Nat
  BY <1>1 DEF TurnType
<1>4. s0 \notin turn_shared =>
        /\ turn_rows[s0].count <= n
        /\ \A t \in turn_turns : t.sid = s0 => t.num <= n
        /\ \A d \in Calls : turn_pc[d] \in Numbered /\ turn_home[d] = p => turn_num[d] <= n
  <2> SUFFICES ASSUME s0 \notin turn_shared
               PROVE  /\ turn_rows[s0].count <= n
                      /\ \A t \in turn_turns : t.sid = s0 => t.num <= n
                      /\ \A d \in Calls : turn_pc[d] \in Numbered /\ turn_home[d] = p => turn_num[d] <= n
    OBVIOUS
  <2>1. turn_rows[s0].count <= n
    BY <1>1 DEF NumberInv, SessionsCount
  <2>2. \A t \in turn_turns : t.sid = s0 => t.num <= turn_rows[s0].count
    BY DEF NumberInv, SessionsCount
  <2>3. \A d \in Calls : turn_pc[d] \in Numbered /\ turn_home[d] = p => turn_num[d] <= n
    BY DEF NumberInv, NumberIsFree
  <2> QED  BY <1>1, <1>3, <2>1, <2>2, <2>3
<1>5. turn_sess[p].count = n /\ turn_sess[p].sid = s0 /\ turn_home[c] = p
  OBVIOUS
<1> HIDE DEF n, p, s0
<1>6. SessionsCount'
  BY <1>1, <1>2, <1>3 DEF NumberInv, SessionsCount
<1>7. Turns!NumbersAreUnique' /\ SessionsAreSingle'
  BY <1>1, <1>2 DEF NumberInv, Turns!NumbersAreUnique, SessionsAreSingle
<1>8. NumberIsFree(c)'
  <2>1. c \notin Bare
    BY DEF Counts
  <2>2. \A d \in Calls \ {c} : turn_pc[d] \in Numbered /\ turn_home[d] = p /\ s0 \notin turn_shared =>
            turn_num'[d] # n + 1
    BY <1>2, <1>3, <1>4
  <2>3. \A t \in turn_turns : t.sid = s0 /\ s0 \notin turn_shared => t.num # n + 1
    BY <1>3, <1>4
  <2>4. turn_sess'[p].sid = s0 /\ turn_sess'[p].count = n + 1 /\ turn_num'[c] <= n + 1
    BY <1>1, <1>2, <1>3, <1>5
  <2> QED  BY <1>2, <1>5, <2>1, <2>2, <2>3, <2>4 DEF NumberIsFree
<1>9. ASSUME NEW d \in Calls \ {c} PROVE NumberIsFree(d)'
  <2> SUFFICES ASSUME turn_pc[d] \in Numbered PROVE NumberIsFree(d)'
    BY DEF NumberIsFree
  <2> DEFINE q == turn_home[d]
  <2>1. /\ q \in Procs /\ turn_num'[d] = turn_num[d] /\ NumberIsFree(d) /\ turn_sess'[q].sid = turn_sess[q].sid
    BY <1>1, <1>2 DEF NumberInv
  <2>2. turn_sess[q].sid \notin turn_shared =>
            /\ turn_num[d] <= turn_sess'[q].count
            /\ \A t \in turn_turns : t.sid = turn_sess[q].sid => t.num # turn_num[d]
            /\ \A e \in Calls \ {c, d} : turn_pc[e] \in Numbered /\ turn_home[e] = q => turn_num[e] # turn_num[d]
    BY <1>2, <1>3, <2>1 DEF NumberIsFree
  <2>3. turn_sess[q].sid \notin turn_shared /\ q = p => turn_num[d] # n + 1
    BY <1>3, <1>4, <1>5
  <2>4. ASSUME NEW e \in Calls \ {d}, turn_sess[q].sid \notin turn_shared, turn_pc'[e] \in Numbered,
               turn_home[e] = q
        PROVE  turn_num'[e] # turn_num[d]
    <3>1. CASE e = c
      BY <1>2, <1>5, <2>3, <2>4, <3>1
    <3>2. CASE e # c
      <4>1. turn_pc[e] \in Numbered /\ turn_num'[e] = turn_num[e] /\ e \in Calls \ {c, d}
        BY <1>2, <2>4, <3>2
      <4> QED  BY <2>2, <2>4, <4>1
    <3> QED  BY <3>1, <3>2
  <2>5. d \notin Bare
    BY <2>1 DEF NumberIsFree
  <2> QED  BY <2>1, <2>2, <2>4, <2>5 DEF NumberIsFree
<1>10. RowIsCurrent(c)'
  <2>1. turn_pc'[c] \in {"chatted", "written"} => turn_batch'[c].row = n + 1
    BY DEF n, p
  <2>2. turn_rows[s0].count \in Nat
    BY <1>1, <1>3
  <2>3. turn_sess'[p].sid = s0 /\ turn_sess'[p].count = n + 1
    BY <1>1, <1>2, <1>5
  <2> QED  BY <1>2, <1>3, <1>4, <1>5, <2>1, <2>2, <2>3 DEF RowIsCurrent
<1>11. ASSUME NEW d \in Calls \ {c} PROVE RowIsCurrent(d)'
  <2> SUFFICES ASSUME turn_pc[d] \in {"chatted", "written"} PROVE RowIsCurrent(d)'
    BY DEF RowIsCurrent
  <2>1. turn_home[d] \in Procs /\ turn_num'[d] = turn_num[d] /\ RowIsCurrent(d)
    BY <1>1, <1>2 DEF NumberInv, Numbered
  <2> QED  BY <1>2, <1>3, <2>1 DEF RowIsCurrent
<1> QED  BY <1>6, <1>7, <1>8, <1>9, <1>10, <1>11 DEF NumberInv

\* A turn is recorded under the number that its call was given.
LEMMA NumberRecorded ==
    ASSUME TurnType, Homes, LeaseIsHeld, NumberInv, NEW c \in Turns!InFlight,
           turn_pc[c] \in {"chatted", "written"}, Turns!Persist(c),
           turn_pc'[c] \notin Numbered, \A d \in Calls \ {c} : turn_pc'[d] = turn_pc[d],
           UNCHANGED <<turn_num, turn_batch, turn_sess, turn_home, turn_up, turn_starts, turn_shared>>
    PROVE  NumberInv'
<1> DEFINE p == turn_home[c]
           s0 == turn_sess[p].sid
           n == turn_batch[c].row
<1>1. /\ c \in Calls /\ p \in turn_up /\ p \in Procs /\ s0 \in 1..MaxStarts
      /\ \A q \in turn_up : q = p \/ turn_sess[q].sid # s0 \/ s0 \in turn_shared
      /\ \A d \in Calls : turn_pc[d] \in Numbered => turn_home[d] \in turn_up
  BY AtHome
<1>2. NumberIsFree(c) /\ RowIsCurrent(c) /\ SessionsCount /\ SessionsAreSingle
  BY <1>1 DEF NumberInv
<1>3. /\ c \notin Bare
      /\ s0 \notin turn_shared =>
            /\ \A t \in turn_turns : t.sid = s0 => t.num # turn_num[c]
            /\ \A d \in Calls \ {c} : turn_pc[d] \in Numbered /\ turn_home[d] = p => turn_num[d] # turn_num[c]
            /\ turn_num[c] <= n /\ n <= turn_sess[p].count /\ turn_rows[s0].count <= n
  BY <1>2 DEF NumberIsFree, RowIsCurrent, Numbered
<1>4. Turns!Session(c).sid = s0 /\ s0 <= turn_starts
  BY <1>1, <1>2, <1>3 DEF Turns!Session, SessionsCount
<1>5. PICK t \in [sid : Nat, num : Nat, call : Calls] :
        t.sid = s0 /\ t.num = turn_num[c] /\ turn_turns' = turn_turns \cup {t}
  BY <1>1, <1>4, Persisted
<1>6. /\ \A s \in 1..MaxStarts : /\ turn_rows'[s].open = turn_rows[s].open
                                 /\ turn_rows'[s].count = IF s = s0 THEN n ELSE turn_rows[s].count
  BY <1>1, <1>4, Persisted
<1>7. /\ \A d \in Calls : turn_num[d] \in Nat /\ turn_batch[d].row \in Nat
      /\ \A s \in 1..MaxStarts : turn_rows[s].count \in Nat
      /\ \A u \in turn_turns : u.num \in Nat
      /\ n \in Nat /\ turn_num[c] \in Nat /\ turn_starts \in Nat
  BY <1>1 DEF TurnType
<1>8. turn_sess[p].sid = s0 /\ turn_home[c] = p
  OBVIOUS
<1> HIDE DEF n, s0, p
<1>9. SessionsCount'
  <2>1. \A s \in 1..MaxStarts : s > turn_starts => turn_rows'[s].count = 0 /\ ~turn_rows'[s].open
    BY <1>1, <1>2, <1>4, <1>6, <1>7 DEF SessionsCount
  <2>2. \A s \in 1..MaxStarts : s \notin turn_shared => turn_rows[s].count <= turn_rows'[s].count
    BY <1>3, <1>6, <1>7
  <2>3. ASSUME NEW u \in turn_turns'
        PROVE  /\ u.sid \in 1..MaxStarts /\ u.sid <= turn_starts
               /\ u.sid \notin turn_shared => u.num <= turn_rows'[u.sid].count
    <3>1. CASE u = t
      BY <1>1, <1>3, <1>4, <1>5, <1>6, <3>1
    <3>2. CASE u \in turn_turns
      <4>1. /\ u.sid \in 1..MaxStarts /\ u.sid <= turn_starts /\ u.num \in Nat
            /\ u.sid \notin turn_shared => u.num <= turn_rows[u.sid].count
        BY <1>2, <1>7, <3>2 DEF SessionsCount
      <4>2. turn_rows[u.sid].count \in Nat /\ turn_rows'[u.sid].count \in Nat
        BY <1>6, <1>7, <4>1
      <4> QED  BY <2>2, <4>1, <4>2
    <3> QED  BY <1>5, <3>1, <3>2
  <2>4. ASSUME NEW q \in turn_up
        PROVE  /\ turn_sess[q].sid \in 1..MaxStarts /\ turn_sess[q].sid <= turn_starts
               /\ turn_sess[q].sid \notin turn_shared => turn_rows'[turn_sess[q].sid].count <= turn_sess[q].count
    <3>1. /\ turn_sess[q].sid \in 1..MaxStarts /\ turn_sess[q].sid <= turn_starts
          /\ turn_sess[q].sid \notin turn_shared => turn_rows[turn_sess[q].sid].count <= turn_sess[q].count
      BY <1>2 DEF SessionsCount
    <3>2. CASE turn_sess[q].sid = s0
      BY <1>1, <1>3, <1>6, <3>1, <3>2
    <3>3. CASE turn_sess[q].sid # s0
      BY <1>6, <3>1, <3>3
    <3> QED  BY <3>2, <3>3
  <2> QED  BY <2>1, <2>3, <2>4 DEF SessionsCount
<1>10. Turns!NumbersAreUnique' /\ SessionsAreSingle'
  <2>1. \A u, v \in turn_turns : u.sid = v.sid /\ u.num = v.num /\ u.sid \notin turn_shared => u = v
    BY DEF NumberInv, Turns!NumbersAreUnique
  <2> QED  BY <1>2, <1>3, <1>5, <2>1 DEF Turns!NumbersAreUnique, SessionsAreSingle
<1>11. ASSUME NEW d \in Calls PROVE NumberIsFree(d)'
  <2> SUFFICES ASSUME turn_pc'[d] \in Numbered PROVE NumberIsFree(d)'
    BY DEF NumberIsFree
  <2> DEFINE q == turn_home[d]
             s == turn_sess[q].sid
  <2>1. d # c /\ turn_pc[d] \in Numbered /\ NumberIsFree(d) /\ q \in turn_up
    BY <1>1 DEF NumberInv
  <2>2. s \notin turn_shared => \A u \in turn_turns : u.sid = s => u.num # turn_num[d]
    BY <2>1 DEF NumberIsFree
  <2>3. s \notin turn_shared /\ s = s0 => turn_num[d] # turn_num[c]
    BY <1>1, <1>3, <2>1
  <2>4. s \notin turn_shared => \A u \in turn_turns' : u.sid = s => u.num # turn_num[d]
    BY <1>5, <2>2, <2>3
  <2>5. s \notin turn_shared =>
            \A e \in Calls \ {d} : turn_pc'[e] \in Numbered /\ turn_home[e] = q => turn_num[e] # turn_num[d]
    BY <2>1 DEF NumberIsFree
  <2>6. d \notin Bare /\ (s \notin turn_shared => turn_num[d] <= turn_sess[q].count)
    BY <2>1 DEF NumberIsFree
  <2> QED  BY <2>4, <2>5, <2>6 DEF NumberIsFree
<1>12. ASSUME NEW d \in Calls PROVE RowIsCurrent(d)'
  <2>1. turn_pc'[d] \notin {"chatted", "written"}
    BY <1>1 DEF LeaseIsHeld, Leased, Numbered
  <2> QED  BY <2>1 DEF RowIsCurrent
<1> QED  BY <1>9, <1>10, <1>11, <1>12 DEF NumberInv

\* Where no two loops have a session, a turn's number is its own.
LEMMA NumberStep ==
    ASSUME ~LateCommit, RecordInv, NumberInv, Turns!TurnAssumption, Turns!Next
    PROVE  NumberInv'
<1>0. /\ TurnType /\ Homes /\ LeaseIsHeld /\ SessionsCount
      /\ \A c \in Calls : NumberIsFree(c) /\ RowIsCurrent(c)
  BY DEF RecordInv, NumberInv
<1>a. /\ turn_pc \in [Calls -> TurnPlaces] /\ turn_home \in [Calls -> Procs \cup {"nobody"}]
      /\ turn_sess \in [Procs -> [sid : Nat, count : Nat]]
      /\ turn_batch \in [Calls -> [logs : SUBSET Calls, row : Nat]]
      /\ turn_rows \in [1..MaxStarts -> [count : Nat, open : BOOLEAN]]
  BY <1>0 DEF TurnType
\* The most that a call's step changes, where it is given no number and records nothing.
<1>b. ASSUME NEW c \in Calls, NEW there \in TurnPlaces \ {"chat", "chatting", "chatted", "written"},
             turn_pc' = [turn_pc EXCEPT ![c] = there],
             UNCHANGED <<turn_up, turn_sess, turn_num, turn_starts, turn_shared, turn_rows, turn_turns>>,
             \A e \in Calls \ {c} : turn_batch'[e] = turn_batch[e] /\ turn_home'[e] = turn_home[e]
      PROVE  NumberInv'
  <2>1. turn_pc'[c] = there /\ \A e \in Calls \ {c} : turn_pc'[e] = turn_pc[e]
    BY <1>a, <1>b
  <2>2. NumberFrame
    BY <1>b, <2>1 DEF NumberFrame, Numbered
  <2> QED  BY <1>0, <2>2, NumbersStay
<1>1. ASSUME NEW p \in Procs, Turns!Startup(p) PROVE NumberInv'
  <2>1. /\ p \notin turn_up /\ turn_up' = turn_up \cup {p}
        /\ \A q \in Procs \ {p} : turn_sess'[q] = turn_sess[q]
        /\ turn_starts < MaxStarts /\ turn_starts' = turn_starts + 1
        /\ \A s \in 1..MaxStarts : turn_rows'[s].count = turn_rows[s].count
        /\ \/ /\ turn_sess'[p].sid \in 1..MaxStarts /\ turn_rows[turn_sess'[p].sid].open
              /\ turn_sess'[p].count = turn_rows[turn_sess'[p].sid].count
              /\ UNCHANGED turn_rows /\ turn_shared \subseteq turn_shared'
              /\ \A q \in turn_up :
                  turn_sess[q].sid = turn_sess'[p].sid => turn_sess[q].sid \in turn_shared'
           \/ /\ turn_sess'[p].sid = turn_starts + 1 /\ turn_sess'[p].count = 0
              /\ UNCHANGED turn_shared
              /\ \A s \in 1..MaxStarts \ {turn_starts + 1} : turn_rows'[s].open = turn_rows[s].open
    BY <1>1, <1>0, StartupOf
  <2>2. turn_shared \subseteq turn_shared' /\ \A q \in turn_up : turn_sess'[q] = turn_sess[q] /\ q # p
    BY <1>0, <2>1 DEF TurnType
  <2>3. turn_starts \in Nat /\ MaxStarts \in Nat /\ \A s \in 1..MaxStarts : turn_rows[s].count \in Nat
    BY <1>0 DEF TurnType, Turns!TurnAssumption
  <2>4. UNCHANGED <<turn_pc, turn_turns, turn_home, turn_num, turn_batch>>
    BY <1>1 DEF Turns!Startup, Turns!callVars, Turns!place
  <2>5. \A c \in Calls : turn_pc[c] \in Numbered =>
            turn_home[c] \in turn_up /\ turn_sess'[turn_home[c]] = turn_sess[turn_home[c]]
    BY <1>0, <2>2 DEF Homes, Turns!InFlight, Numbered
  <2>6. /\ turn_sess'[p].sid \in 1..MaxStarts /\ turn_sess'[p].sid <= turn_starts + 1
        /\ turn_rows[turn_sess'[p].sid].count <= turn_sess'[p].count
    BY <1>0, <2>1, <2>3 DEF SessionsCount
  <2>7. \A s \in 1..MaxStarts : s > turn_starts + 1 => turn_rows'[s].count = 0 /\ ~turn_rows'[s].open
    BY <1>0, <2>1, <2>3 DEF SessionsCount
  <2>8. \A t \in turn_turns :
            /\ t.sid \in 1..MaxStarts /\ t.sid <= turn_starts + 1
            /\ t.sid \notin turn_shared => t.num <= turn_rows'[t.sid].count
    BY <1>0, <2>1, <2>3 DEF SessionsCount
  <2>9. \A q \in turn_up :
            /\ turn_sess[q].sid \in 1..MaxStarts /\ turn_sess[q].sid <= turn_starts
            /\ turn_sess[q].sid \notin turn_shared => turn_rows'[turn_sess[q].sid].count <= turn_sess[q].count
    BY <1>0, <2>1 DEF SessionsCount
  <2>10. SessionsCount'
    <3>1. \A q \in turn_up' : /\ turn_sess'[q].sid \in 1..MaxStarts /\ turn_sess'[q].sid <= turn_starts + 1
                              /\ turn_sess'[q].sid \notin turn_shared' =>
                                     turn_rows'[turn_sess'[q].sid].count <= turn_sess'[q].count
      BY <2>1, <2>2, <2>3, <2>6, <2>9
    <3> QED  BY <2>1, <2>2, <2>4, <2>7, <2>8, <3>1 DEF SessionsCount
  <2>11. \A q \in turn_up : turn_sess[q].sid = turn_sess'[p].sid => turn_sess[q].sid \in turn_shared'
    BY <2>1, <2>3, <2>9
  <2>12. SessionsAreSingle'
    BY <2>1, <2>2, <2>11 DEF NumberInv, SessionsAreSingle
  <2>13. Turns!NumbersAreUnique'
    BY <2>2, <2>4 DEF NumberInv, Turns!NumbersAreUnique
  <2>14. ASSUME NEW c \in Calls PROVE NumberIsFree(c)'
    BY <1>0, <2>2, <2>4, <2>5 DEF NumberIsFree
  <2>15. ASSUME NEW c \in Calls PROVE RowIsCurrent(c)'
    <3> SUFFICES ASSUME turn_pc[c] \in {"chatted", "written"}, turn_sess[turn_home[c]].sid \notin turn_shared
                 PROVE  RowIsCurrent(c)'
      BY <2>2, <2>4, <2>5 DEF RowIsCurrent, Numbered
    <3>1. turn_home[c] \in turn_up /\ turn_sess'[turn_home[c]] = turn_sess[turn_home[c]]
      BY <2>5 DEF Numbered
    <3>2. turn_rows'[turn_sess[turn_home[c]].sid].count = turn_rows[turn_sess[turn_home[c]].sid].count
      BY <2>1, <2>9, <3>1
    <3> QED  BY <1>0, <2>2, <2>4, <3>1, <3>2 DEF RowIsCurrent
  <2> QED  BY <2>10, <2>12, <2>13, <2>14, <2>15 DEF NumberInv
<1>2. ASSUME NEW p \in Procs, Turns!Crash(p) PROVE NumberInv'
  <2>1. NumberFrame
    BY <1>2, <1>0, <1>a
       DEF Turns!Crash, Turns!Gone, Turns!place, Turns!InFlight, NumberFrame, Numbered, Homes,
           TurnType
  <2> QED  BY <1>0, <2>1, NumbersStay
<1>3. ASSUME NEW p \in Procs, Turns!Shutdown(p) PROVE NumberInv'
  <2>1. turn_sess[p].sid \in Nat
    BY <1>a
  <2>2. \A s \in 1..MaxStarts : /\ turn_rows'[s].count = turn_rows[s].count
                                /\ turn_rows'[s].open => turn_rows[s].open
    BY <1>3, <1>0, <2>1, Opened DEF Turns!Shutdown
  <2>3. NumberFrame
    BY <1>3, <1>0, <1>a, <2>2
       DEF Turns!Shutdown, Turns!Gone, Turns!place, Turns!InFlight, NumberFrame, Numbered, Homes,
              TurnType
  <2> QED  BY <1>0, <2>3, NumbersStay
<1>4. ASSUME NEW c \in Calls, NEW p \in Procs, Turns!Start(c, p) PROVE NumberInv'
  <2>1. /\ turn_pc' = [turn_pc EXCEPT ![c] = "route"] /\ turn_home' = [turn_home EXCEPT ![c] = p]
        /\ UNCHANGED <<turn_up, turn_sess, turn_num, turn_starts, turn_shared, turn_rows, turn_turns,
                       turn_batch>>
    BY <1>4 DEF Turns!Start, Turns!TakesPlace, Turns!Goto, Turns!dbVars
  <2> QED  BY <1>a, <1>b, <2>1 DEF TurnPlaces
<1>5. ASSUME NEW c \in Calls, Turns!Route(c) PROVE NumberInv'
  <2>1. c \in Turns!InFlight
    BY <1>5, <1>0, CallMoves DEF CallSteps
  <2>2. CASE Counts(c) /\ turn_pc' = [turn_pc EXCEPT ![c] = "chat"]
    <3>1. /\ turn_pc'[c] = "chat" /\ \A d \in Calls \ {c} : turn_pc'[d] = turn_pc[d]
      BY <1>a, <2>2
    <3>2. turn_pc[c] \notin Numbered /\ UNCHANGED <<turn_home, turn_up, turn_turns, turn_rows, turn_starts, turn_shared, turn_batch>>
      BY <1>5, RouteOf DEF Numbered
    <3> QED  BY <1>0, <2>1, <2>2, <3>1, <3>2, NumberGiven
  <2>3. CASE UNCHANGED <<turn_sess, turn_num>> /\ turn_pc' = [turn_pc EXCEPT ![c] = "gate"]
    <3>1. UNCHANGED <<turn_home, turn_up, turn_turns, turn_rows, turn_starts, turn_shared, turn_batch>>
      BY <1>5, RouteOf
    <3> QED  BY <1>b, <2>3, <3>1 DEF TurnPlaces
  <2> QED  BY <1>5, <2>2, <2>3, RouteOf
<1>6. ASSUME NEW c \in Calls, Turns!Friction(c) PROVE NumberInv'
  BY <1>6, <1>b
     DEF Turns!Friction, Turns!Goto, Turns!place, Turns!callVars, Turns!procVars, Turns!dbVars,
         TurnPlaces
<1>7. ASSUME NEW c \in Calls, Turns!Prepare(c) PROVE NumberInv'
  BY <1>7, <1>b
     DEF Turns!Prepare, Turns!Goto, Turns!place, Turns!callVars, Turns!procVars, Turns!dbVars,
         TurnPlaces
<1>8. ASSUME NEW c \in Calls, Turns!RunTool(c) PROVE NumberInv'
  <2>1. NumberFrame
    BY <1>8 DEF Turns!RunTool, Turns!place, Turns!dbVars, NumberFrame, Numbered
  <2> QED  BY <1>0, <2>1, NumbersStay
<1>9. ASSUME NEW c \in Calls, Turns!Searched(c) PROVE NumberInv'
  BY <1>9, <1>b
     DEF Turns!Searched, Turns!Goto, Turns!place, Turns!callVars, Turns!procVars, Turns!dbVars,
         TurnPlaces
<1>10. ASSUME NEW c \in Calls, Turns!ChildRefused(c) PROVE NumberInv'
  <2>1. c \in Turns!InFlight
    BY <1>10, <1>0, CallMoves DEF CallSteps
  <2>2. Turns!Session(c).sid \in Nat
    BY <1>0, <1>a, <2>1, AtHome DEF Turns!Session
  <2>3. \A s \in 1..MaxStarts : /\ turn_rows'[s].count = turn_rows[s].count
                                /\ turn_rows'[s].open => turn_rows[s].open
    BY <1>10, <1>0, <2>2, Opened DEF Turns!ChildRefused
  <2>4. NumberFrame
    BY <1>10, <2>3 DEF Turns!ChildRefused, Turns!callVars, Turns!place, NumberFrame, Numbered
  <2> QED  BY <1>0, <2>4, NumbersStay
<1>11. ASSUME NEW c \in Calls, Turns!Lease(c) PROVE NumberInv'
  <2>1. NumberFrame
    BY <1>11, <1>a
       DEF Turns!Lease, Turns!Goto, Turns!place, Turns!procVars, Turns!dbVars, NumberFrame, Numbered
  <2> QED  BY <1>0, <2>1, NumbersStay
<1>12. ASSUME NEW c \in Calls, Turns!WriteChat(c) PROVE NumberInv'
  <2>1. c \in Turns!InFlight
    BY <1>12, <1>0, CallMoves DEF CallSteps
  <2>2. /\ turn_pc[c] = "chatting" /\ turn_pc' = [turn_pc EXCEPT ![c] = "chatted"]
        /\ turn_batch' = [turn_batch EXCEPT ![c] = [logs |-> {}, row |-> Turns!Session(c).count]]
        /\ UNCHANGED <<turn_home, turn_up, turn_sess, turn_num, turn_starts, turn_shared, turn_rows, turn_turns>>
    BY <1>12 DEF Turns!WriteChat, Turns!Goto, Turns!place, Turns!procVars, Turns!dbVars
  <2>3. /\ c \notin Bare /\ turn_home[c] \in turn_up /\ turn_home[c] \in Procs
        /\ turn_sess[turn_home[c]].sid \notin turn_shared => turn_num[c] <= turn_sess[turn_home[c]].count
    BY <1>0, <2>1, <2>2, AtHome DEF NumberIsFree, Numbered
  <2>4. /\ turn_pc'[c] = "chatted" /\ turn_batch'[c].row = turn_sess[turn_home[c]].count
        /\ \A e \in Calls \ {c} : turn_pc'[e] = turn_pc[e] /\ turn_batch'[e] = turn_batch[e]
    BY <1>a, <2>2, <2>3 DEF Turns!Session
  <2>5. RowIsCurrent(c)'
    <3>1. turn_sess[turn_home[c]].count \in Nat
      BY <1>a, <2>3
    <3>2. turn_sess[turn_home[c]].sid \notin turn_shared =>
            turn_rows[turn_sess[turn_home[c]].sid].count <= turn_sess[turn_home[c]].count
      BY <1>0, <2>3 DEF SessionsCount
    <3> QED  BY <2>2, <2>3, <2>4, <3>1, <3>2 DEF RowIsCurrent
  <2>6. \A e \in Calls \ {c} : RowIsCurrent(e)'
    BY <1>0, <2>2, <2>4 DEF RowIsCurrent
  <2>7. \A e \in Calls : turn_pc'[e] \in Numbered <=> turn_pc[e] \in Numbered
    BY <2>2, <2>4 DEF Numbered
  <2>8. \A e \in Calls : NumberIsFree(e)'
    BY <1>0, <2>2, <2>7 DEF NumberIsFree
  <2>9. SessionsCount' /\ Turns!NumbersAreUnique' /\ SessionsAreSingle'
    BY <1>0, <2>2 DEF NumberInv, SessionsCount, Turns!NumbersAreUnique, SessionsAreSingle
  <2> QED  BY <2>5, <2>6, <2>8, <2>9 DEF NumberInv
<1>13. ASSUME NEW c \in Calls, Turns!FlushAudit(c) PROVE NumberInv'
  <2>1. /\ turn_pc' = [turn_pc EXCEPT ![c] = "flushed"]
        /\ turn_batch' = [turn_batch EXCEPT ![c] = [logs |-> turn_audit[Turns!Context(c)], row |-> 0]]
        /\ UNCHANGED <<turn_home, turn_up, turn_sess, turn_num, turn_starts, turn_shared, turn_rows, turn_turns>>
    BY <1>13 DEF Turns!FlushAudit, Turns!Goto, Turns!place, Turns!dbVars
  <2>2. \A e \in Calls \ {c} : turn_batch'[e] = turn_batch[e] /\ turn_home'[e] = turn_home[e]
    BY <1>a, <2>1
  <2> QED  BY <1>b, <2>1, <2>2 DEF TurnPlaces
<1>14. ASSUME NEW c \in Calls, Turns!WriteTurn(c) PROVE NumberInv'
  <2>1. c \in Turns!InFlight
    BY <1>14, <1>0, CallMoves DEF CallSteps
  <2>2. turn_home[c] \in Procs /\ turn_sess[turn_home[c]].count + 1 \in Nat
    BY <1>0, <1>a, <2>1, AtHome
  <2>3. CASE /\ Counts(c) /\ turn_pc' = [turn_pc EXCEPT ![c] = "written"]
             /\ turn_batch' = [turn_batch EXCEPT ![c].row = turn_sess[turn_home[c]].count + 1]
    <3>1. /\ turn_pc'[c] = "written" /\ \A d \in Calls \ {c} : turn_pc'[d] = turn_pc[d]
      BY <1>a, <2>3
    <3>2. turn_pc[c] \notin Numbered /\ UNCHANGED <<turn_home, turn_up, turn_turns, turn_rows, turn_starts, turn_shared>>
      BY <1>14, WriteOf DEF Numbered
    <3>3. /\ turn_batch'[c].row = turn_sess[turn_home[c]].count + 1
          /\ \A d \in Calls \ {c} : turn_batch'[d] = turn_batch[d]
      BY <1>0, <2>2, <2>3, RowWritten
    <3> QED  BY <1>0, <2>1, <2>3, <3>1, <3>2, <3>3, NumberGiven
  <2>4. CASE UNCHANGED <<turn_sess, turn_num, turn_batch>> /\ turn_pc' = [turn_pc EXCEPT ![c] = "done"]
    <3>1. UNCHANGED <<turn_home, turn_up, turn_turns, turn_rows, turn_starts, turn_shared>>
      BY <1>14, WriteOf
    <3> QED  BY <1>b, <2>4, <3>1 DEF TurnPlaces
  <2> QED  BY <1>14, <2>3, <2>4, WriteOf
<1>15. ASSUME NEW c \in Calls, Turns!CommitChat(c) PROVE NumberInv'
  <2>1. c \in Turns!InFlight
    BY <1>15, <1>0, CallMoves DEF CallSteps
  <2>2. /\ turn_pc[c] \in {"chatted", "written"}
        /\ \E there \in {"gate", "done", "flush"} : turn_pc' = [turn_pc EXCEPT ![c] = there]
        /\ UNCHANGED <<turn_home, turn_num, turn_batch, turn_up, turn_sess, turn_starts, turn_shared>>
        /\ Turns!Persist(c) \/ UNCHANGED <<turn_rows, turn_turns>>
    BY <1>15, Commits
  <2>3. CASE UNCHANGED <<turn_rows, turn_turns>>
    BY <1>b, <2>2, <2>3 DEF TurnPlaces
  <2>4. CASE Turns!Persist(c)
    <3>1. turn_pc'[c] \notin Numbered /\ \A d \in Calls \ {c} : turn_pc'[d] = turn_pc[d]
      BY <1>a, <2>2 DEF Numbered
    <3> QED  BY <1>0, <2>1, <2>2, <2>4, <3>1, NumberRecorded
  <2> QED  BY <2>2, <2>3, <2>4
<1>16. ASSUME NEW c \in Calls, Turns!CommitTurn(c) PROVE NumberInv'
  <2>1. c \in Turns!InFlight
    BY <1>16, <1>0, CallMoves DEF CallSteps
  <2>2. /\ turn_pc[c] \in {"chatted", "written"}
        /\ \E there \in {"gate", "done", "flush"} : turn_pc' = [turn_pc EXCEPT ![c] = there]
        /\ UNCHANGED <<turn_home, turn_num, turn_batch, turn_up, turn_sess, turn_starts, turn_shared>>
        /\ Turns!Persist(c) \/ UNCHANGED <<turn_rows, turn_turns>>
    BY <1>16, Commits
  <2>3. CASE UNCHANGED <<turn_rows, turn_turns>>
    BY <1>b, <2>2, <2>3 DEF TurnPlaces
  <2>4. CASE Turns!Persist(c)
    <3>1. turn_pc'[c] \notin Numbered /\ \A d \in Calls \ {c} : turn_pc'[d] = turn_pc[d]
      BY <1>a, <2>2 DEF Numbered
    <3> QED  BY <1>0, <2>1, <2>2, <2>4, <3>1, NumberRecorded
  <2> QED  BY <2>2, <2>3, <2>4
<1>17. ASSUME NEW c \in Calls, Turns!FlushMemory(c) PROVE NumberInv'
  BY <1>17, <1>b
     DEF Turns!FlushMemory, Turns!Goto, Turns!place, Turns!callVars, Turns!procVars, Turns!dbVars,
         TurnPlaces
<1>18. ASSUME NEW c \in Calls, Turns!Cancel(c) PROVE NumberInv'
  BY <1>18, <1>b
     DEF Turns!Cancel, Turns!Goto, Turns!place, Turns!callVars, Turns!procVars, Turns!dbVars,
         TurnPlaces
<1>19. ASSUME NEW p \in Procs, Turns!FindLock(p) PROVE NumberInv'
  <2>1. NumberFrame
    BY <1>19 DEF Turns!FindLock, Turns!callVars, Turns!place, Turns!dbVars, NumberFrame
  <2> QED  BY <1>0, <2>1, NumbersStay
<1> QED
  BY <1>1, <1>2, <1>3, <1>4, <1>5, <1>6, <1>7, <1>8, <1>9, <1>10, <1>11, <1>12, <1>13, <1>14, <1>15,
         <1>16, <1>17, <1>18, <1>19 DEF Turns!Next

LEMMA NumberKept == ASSUME ~LateCommit, RecordInv, NumberInv, [Next]_vars PROVE NumberInv'
<1>1. CASE UNCHANGED turnVars
  <2>1. NumberFrame
    BY <1>1 DEF turnVars, NumberFrame
  <2> QED  BY <2>1, NumbersStay DEF RecordInv
<1>2. CASE TurnsSteps
  <2>1. Turns!Next /\ Turns!TurnAssumption
    BY <1>2, ConversationAssumption DEF TurnsSteps
  <2> QED  BY <2>1, NumberStep
<1> QED
  BY <1>1, <1>2 DEF Next, SearchSteps, EditsSteps, PromptSteps, PastSteps, WorkersSteps, Only, vars

LEMMA RecordsBegin == Init => RecordInv /\ NumberInv
<1>1. Init => RecordInv
  BY ConversationAssumption
     DEF Init, Turns!Init, RecordInv, TurnType, TurnPlaces, Hearings, Homes, LeaseIsHeld, Leased, Noted,
         Recorded, Turns!InFlight, Turns!Of, Turns!Empty, Turns!Sids, Turns!TurnAssumption
<1>2. Init => NumberInv
  BY DEF Init, Turns!Init, Turns!Sids, NumberInv, SessionsAreSingle, SessionsCount,
         Turns!NumbersAreUnique, NumberIsFree, RowIsCurrent, Numbered
<1> QED  BY <1>1, <1>2

LEMMA RecordedOnce == RecordInv => Turns!AnsweredOnce /\ Turns!AuditMatchesTurns
<1> SUFFICES ASSUME RecordInv PROVE Turns!AnsweredOnce /\ Turns!AuditMatchesTurns
  OBVIOUS
<1>1. ASSUME NEW c \in Calls PROVE Cardinality(Turns!Of(c)) <= 1
  <2>1. CASE Turns!Of(c) = {}
    BY <2>1, FS_EmptySet
  <2>2. CASE Turns!Of(c) # {}
    <3>1. PICK t \in Turns!Of(c) : TRUE
      BY <2>2
    <3>2. \A u \in Turns!Of(c) : u = t
      BY <3>1 DEF RecordInv, Recorded
    <3>3. Turns!Of(c) = {t}
      BY <3>1, <3>2
    <3>4. Cardinality({t}) = 1
      BY FS_Singleton
    <3> QED  BY <3>3, <3>4
  <2> QED  BY <2>1, <2>2
<1>2. \A c \in Calls : Turns!Cardinality(Turns!Of(c)) <= 1
  BY <1>1 DEF Cardinality, Turns!Cardinality, IsFiniteSet, Turns!IsFiniteSet
<1> QED
  BY <1>2 DEF RecordInv, Recorded, TurnType, Turns!AnsweredOnce, Turns!AuditMatchesTurns

\* What a session records of its turns is sound, for all calls, processes and startups, whatever
\* rolls back, is cancelled, crashes or loses the process lock, as long as no commit succeeds
\* after its caller gave up: a turn's number is its own where no two loops hold the session
\* (session.py:130 counts in memory, session.py:171 writes the row that the next startup reads),
\* an answered input is recorded once, and no input twice (cognitive_loop.py:715), and tool calls
\* are logged exactly with their turn (cognitive_loop.py:1254).
THEOREM TurnsAreSound ==
    ASSUME ~LateCommit
    PROVE  Spec => []TurnsAreRecorded
<1>1. RecordInv /\ NumberInv /\ [Next]_vars => NumberInv'
  BY NumberKept
<1>2. RecordInv /\ NumberInv => TurnsAreRecorded
  BY RecordedOnce DEF TurnsAreRecorded, NumberInv
<1> QED  BY <1>1, <1>2, RecordsBegin, RecordStep, PTL DEF Spec

\* The lock names the one loop that is up, and no session has two; a process looks for the
\* lock alone, and while no loop is up.
LockIsKept ==
    /\ \A p \in turn_up : p = turn_lock
    /\ turn_opening # {} => turn_up = {} /\ \A p, q \in turn_opening : p = q
    /\ turn_shared = {}

\* The process lock keeps what the numbers need, one loop at a time (cognitive_loop.py:2059) and
\* no session of two, where no sub-agent is spawned in a loop's process, whose end removes the
\* lock of its parent (subagent.py:117), and where startups do not overlap between the look for
\* the lock (cognitive_loop.py:2028) and its writing (cognitive_loop.py:2072).
THEOREM LockKeepsSessions ==
    ASSUME ~MayChild, ~Overlaps
    PROVE  Spec => [](OneLoopAtATime /\ SessionsAreOwn)
<1>1. Init => LockIsKept
  BY DEF Init, Turns!Init, LockIsKept
<1>2. LockIsKept /\ [Next]_vars => LockIsKept'
  <2> SUFFICES ASSUME LockIsKept, [Next]_vars PROVE LockIsKept'
    OBVIOUS
  <2> USE DEF LockIsKept
  <2>1. CASE UNCHANGED turnVars
    BY <2>1 DEF turnVars
  <2>2. CASE Turns!Next
    <3>1. ASSUME NEW p \in Procs, Turns!Startup(p) PROVE LockIsKept'
      <4>1. /\ p \in turn_opening /\ turn_opening' = turn_opening \ {p}
            /\ turn_up' = turn_up \cup {p} /\ turn_lock' = p
            /\ (\A q \in turn_up : FALSE) => turn_shared' = turn_shared
        BY <3>1 DEF Turns!Startup
      <4> QED  BY <4>1
    <3>2. ASSUME NEW p \in Procs, Turns!Crash(p) \/ Turns!Shutdown(p) PROVE LockIsKept'
      BY <3>2 DEF Turns!Crash, Turns!Shutdown, Turns!Gone
    <3>3. ASSUME NEW c \in Calls, (\E p \in Procs : Turns!Start(c, p)) \/ CallSteps(c) PROVE LockIsKept'
      BY <3>3
         DEF CallSteps, Turns!Start, Turns!Route, Turns!Friction, Turns!Prepare, Turns!RunTool,
                Turns!Searched,
             Turns!ChildRefused, Turns!Lease, Turns!WriteChat, Turns!FlushAudit, Turns!WriteTurn,
             Turns!CommitChat, Turns!CommitTurn, Turns!FlushMemory, Turns!Cancel, Turns!callVars,
             Turns!procVars, Turns!dbVars
    <3>4. ASSUME NEW p \in Procs, Turns!FindLock(p) PROVE LockIsKept'
      BY <3>4 DEF Turns!FindLock
    <3> QED  BY <2>2, <3>1, <3>2, <3>3, <3>4 DEF Turns!Next, CallSteps
  <2> QED
    BY <2>1, <2>2
       DEF Next, TurnsSteps, SearchSteps, EditsSteps, PromptSteps, PastSteps, WorkersSteps, Only,
       vars
<1>3. LockIsKept => OneLoopAtATime /\ SessionsAreOwn
  <2> SUFFICES ASSUME LockIsKept PROVE Cardinality(turn_up) <= 1
    BY DEF LockIsKept, OneLoopAtATime, SessionsAreOwn, Turns!OneLoopAtATime, Turns!SessionsAreOwn,
           Cardinality, Turns!Cardinality, IsFiniteSet, Turns!IsFiniteSet
  <2>1. turn_up = {} \/ turn_up = {turn_lock}
    BY DEF LockIsKept
  <2>2. Cardinality({}) = 0 /\ Cardinality({turn_lock}) = 1
    BY FS_EmptySet, FS_Singleton
  <2> QED  BY <2>1, <2>2
<1> QED  BY <1>1, <1>2, <1>3, PTL DEF Spec
-----------------------------------------------------------------------------
(* What the user has made: the search. *)

SearchPlaces ==
    {"idle", "push", "branch", "draft", "act", "redraft", "judge", "commit", "weigh", "select",
     "child", "restore", "done"}
TreeNodes == [parent : Nat, tools : {"none", "file", "edit"}, saw : BOOLEAN, score : Nat, ok : BOOLEAN]
Works == UserEdits \cup UserFiles \cup (Searches \X Nat)
Entries == [dirty : SUBSET Works, loose : SUBSET Works]

SearchType ==
    /\ tree_pc \in [Searches -> SearchPlaces] /\ tree_hasStash \in [Searches -> BOOLEAN]
    /\ tree_tree \in [Searches -> Seq(TreeNodes)] /\ tree_sel \in [Searches -> Nat]
    /\ tree_head \subseteq Works /\ tree_dirty \subseteq Works /\ tree_loose \subseteq Works
    /\ tree_stash \in Seq(Entries) /\ tree_unmerged \in BOOLEAN /\ tree_clashed \in BOOLEAN
    /\ tree_made \subseteq UserEdits \cup UserFiles /\ tree_early \subseteq Searches
    /\ tree_ref \in {"branch", "detached", "unborn", "strange"}

\* The workspace is a search's own from its start to its end.
OneSearch == \A s, t \in Searches : ~Search!Closed(s) /\ ~Search!Closed(t) => s = t

\* From the push on, what the user has made is committed or stashed, as the cleaning of the
\* workspace supposes; also while a pop has left conflicts.
PutAway ==
    /\ \A s \in Searches : ~Search!Closed(s) /\ tree_pc[s] # "push" =>
            tree_made \subseteq tree_head \cup Search!Stashed
    /\ tree_unmerged => tree_made \subseteq tree_head \cup Search!Stashed

\* A search that has nothing to stash found the workspace as it was committed.
NothingToStash ==
    \A s \in Searches : tree_pc[s] = "push" /\ ~tree_hasStash[s] =>
        tree_dirty = {} /\ tree_loose = {}

\* What the entries of a stash hold.
Held(stash) == UNION {stash[i].dirty \cup stash[i].loose : i \in DOMAIN stash}

\* The stash is what search s has pushed, if it has pushed anything.
OwnStash(s) ==
    /\ ~tree_unmerged
    /\ IF tree_hasStash[s] THEN Len(tree_stash) = 1 /\ tree_made \subseteq Held(tree_stash)
       ELSE tree_stash = << >> /\ tree_made = {}

\* As long as git has refused nothing and no search was cut off before its pop, the stash
\* holds what the user has made, for the search that will pop it.
Untroubled ==
    ~tree_clashed /\ tree_early = {} =>
        /\ Search!Quiet \/ (\E s \in Searches : tree_pc[s] = "push") =>
              ~tree_unmerged /\ tree_stash = << >> /\ tree_made \subseteq tree_dirty \cup tree_loose
        /\ \A s \in Searches : ~Search!Closed(s) /\ tree_pc[s] # "push" => OwnStash(s)

Kept ==
    /\ PutAway /\ NothingToStash /\ Untroubled
    /\ tree_made \subseteq tree_head \cup tree_dirty \cup tree_loose \cup Search!Stashed

\* HEAD has not yet been moved from where the user has left it; it never comes back.
Anchored == tree_ref \in {"branch", "detached"}

SearchInv == SearchType /\ OneSearch /\ (Anchored => Kept)

LEMMA HeldOf ==
    ASSUME NEW s \in Seq(Entries), NEW e \in Entries
    PROVE  /\ Search!Stashed = Held(tree_stash)
           /\ Len(s) \in Nat /\ Held(<< >>) = {}
           /\ <<e>> \o s \in Seq(Entries) /\ Len(<<e>> \o s) = Len(s) + 1
           /\ Held(<<e>> \o s) = e.dirty \cup e.loose \cup Held(s)
           /\ s # << >> => /\ Head(s) \in Entries /\ Tail(s) \in Seq(Entries)
                           /\ Held(s) = Head(s).dirty \cup Head(s).loose \cup Held(Tail(s))
                           /\ Len(s) = 1 => Tail(s) = << >>
<1>1. Search!Stashed = Held(tree_stash) /\ Held(<< >>) = {}
  BY DEF Search!Stashed, Held
<1>2. Len(s) \in Nat /\ DOMAIN s = 1..Len(s)
  OBVIOUS
<1>3. /\ <<e>> \o s \in Seq(Entries) /\ Len(<<e>> \o s) = Len(s) + 1
      /\ (<<e>> \o s)[1] = e /\ \A i \in 1..Len(s) : (<<e>> \o s)[i + 1] = s[i]
  <2>1. <<e>> \in Seq(Entries) /\ Len(<<e>>) = 1 /\ <<e>>[1] = e
    OBVIOUS
  <2> DEFINE h == <<e>>
  <2> HIDE DEF h
  <2>2. /\ h \o s \in Seq(Entries) /\ Len(h \o s) = Len(h) + Len(s)
        /\ \A i \in 1..Len(h) + Len(s) : (h \o s)[i] = IF i <= Len(h) THEN h[i] ELSE s[i - Len(h)]
    BY <2>1, ConcatProperties DEF h
  <2> QED  BY <1>2, <2>1, <2>2 DEF h
<1>4. Held(<<e>> \o s) = e.dirty \cup e.loose \cup Held(s)
  <2> DEFINE c == <<e>> \o s
  <2>1. DOMAIN c = 1..Len(s) + 1 /\ c[1] = e /\ \A i \in 1..Len(s) : c[i + 1] = s[i]
    BY <1>2, <1>3
  <2> HIDE DEF c
  <2>2. ASSUME NEW w PROVE w \in Held(c) <=> w \in e.dirty \cup e.loose \cup Held(s)
    <3>1. ASSUME w \in Held(c) PROVE w \in e.dirty \cup e.loose \cup Held(s)
      <4>1. PICK i \in 1..Len(s) + 1 : w \in c[i].dirty \cup c[i].loose
        BY <2>1, <3>1 DEF Held
      <4>2. CASE i = 1
        BY <2>1, <4>1, <4>2
      <4>3. CASE i # 1
        <5>1. i - 1 \in 1..Len(s) /\ c[i] = s[i - 1]
          BY <1>2, <2>1, <4>3
        <5> QED  BY <1>2, <4>1, <5>1 DEF Held
      <4> QED  BY <4>2, <4>3
    <3>2. ASSUME w \in e.dirty \cup e.loose PROVE w \in Held(c)
      <4>1. 1 \in DOMAIN c
        BY <1>2, <2>1
      <4> QED  BY <2>1, <3>2, <4>1 DEF Held
    <3>3. ASSUME w \in Held(s) PROVE w \in Held(c)
      <4>1. PICK i \in 1..Len(s) : w \in s[i].dirty \cup s[i].loose
        BY <1>2, <3>3 DEF Held
      <4>2. i + 1 \in DOMAIN c /\ c[i + 1] = s[i]
        BY <1>2, <2>1
      <4> QED  BY <4>1, <4>2 DEF Held
    <3> QED  BY <3>1, <3>2, <3>3
  <2> QED  BY <2>2 DEF c
<1>5. ASSUME s # << >>
      PROVE  /\ Head(s) \in Entries /\ Tail(s) \in Seq(Entries)
             /\ Held(s) = Head(s).dirty \cup Head(s).loose \cup Held(Tail(s))
             /\ Len(s) = 1 => Tail(s) = << >>
  <2> DEFINE h == Head(s)  t == Tail(s)
  <2>1. /\ h \in Entries /\ t \in Seq(Entries) /\ h = s[1] /\ Len(t) = Len(s) - 1
        /\ \A i \in 1..Len(t) : t[i] = s[i + 1]
    BY <1>5, HeadTailProperties
  <2>2. Len(s) # 0
    BY <1>5, EmptySeq
  <2>3. DOMAIN t = 1..Len(s) - 1
    BY <2>1
  <2> HIDE DEF h, t
  <2>4. Len(s) = 1 => t = << >>
    BY <1>2, <2>1, EmptySeq
  <2>5. ASSUME NEW w PROVE w \in Held(s) <=> w \in h.dirty \cup h.loose \cup Held(t)
    <3>1. ASSUME w \in Held(s) PROVE w \in h.dirty \cup h.loose \cup Held(t)
      <4>1. PICK i \in 1..Len(s) : w \in s[i].dirty \cup s[i].loose
        BY <1>2, <3>1 DEF Held
      <4>2. CASE i = 1
        BY <2>1, <4>1, <4>2
      <4>3. CASE i # 1
        <5>1. i - 1 \in DOMAIN t /\ t[i - 1] = s[i]
          BY <1>2, <2>1, <2>3, <4>3
        <5> QED  BY <4>1, <5>1 DEF Held
      <4> QED  BY <4>2, <4>3
    <3>2. ASSUME w \in h.dirty \cup h.loose PROVE w \in Held(s)
      <4>1. 1 \in DOMAIN s
        BY <1>2, <2>2
      <4> QED  BY <2>1, <3>2, <4>1 DEF Held
    <3>3. ASSUME w \in Held(t) PROVE w \in Held(s)
      <4>1. PICK i \in 1..Len(s) - 1 : w \in t[i].dirty \cup t[i].loose
        BY <2>3, <3>3 DEF Held
      <4>2. i + 1 \in DOMAIN s /\ t[i] = s[i + 1]
        BY <1>2, <2>1, <4>1
      <4> QED  BY <4>1, <4>2 DEF Held
    <3> QED  BY <3>1, <3>2, <3>3
  <2> QED  BY <2>1, <2>4, <2>5 DEF h, t
<1> QED  BY <1>1, <1>2, <1>3, <1>4, <1>5

\* A rated node is a node.
LEMMA RatedOf ==
    ASSUME NEW t \in Seq(TreeNodes), NEW k, NEW x \in Nat, NEW ok \in BOOLEAN
    PROVE  /\ [t EXCEPT ![k].score = x, ![k].ok = ok] \in Seq(TreeNodes)
           /\ [t EXCEPT ![k].saw = TRUE] \in Seq(TreeNodes)
<1>1. \A n \in TreeNodes : /\ [n EXCEPT !.score = x] \in TreeNodes /\ [n EXCEPT !.ok = ok] \in TreeNodes
                           /\ [n EXCEPT !.saw = TRUE] \in TreeNodes
  BY DEF TreeNodes
<1>2. ASSUME NEW u \in Seq(TreeNodes), NEW n \in TreeNodes, k \in DOMAIN u
      PROVE  [u EXCEPT ![k] = n] \in Seq(TreeNodes) /\ k \in DOMAIN [u EXCEPT ![k] = n]
  <2>1. k \in 1..Len(u)
    BY <1>2
  <2> QED  BY <2>1, ExceptSeq
<1>3. k \notin DOMAIN t => /\ [t EXCEPT ![k].score = x, ![k].ok = ok] = t /\ [t EXCEPT ![k].saw = TRUE] = t
  OBVIOUS
<1>4. k \in DOMAIN t => t[k] \in TreeNodes
  OBVIOUS
<1> QED  BY <1>1, <1>2, <1>3, <1>4

LEMMA HeldEmpty == Held(<< >>) = {} /\ Len(<< >>) = 0
BY DEF Held

\* The places of a search after its push.
Inner == SearchPlaces \ {"idle", "push", "done"}

LEMMA SearchStep ==
    ASSUME ~SearchesMeet, ~WorksOn, SearchInv, Search!Next
    PROVE  SearchInv'
<1>0. SearchType /\ OneSearch
  BY DEF SearchInv
<1>r. tree_ref' = tree_ref \/ ~Anchored'
  <2>1. CASE \E s \in Searches : Search!Commit(s) \/ Search!Leave(s)
    BY <1>0, <2>1 DEF Search!Commit, Search!CommitAll, Search!Leave, Anchored, SearchType
  <2>2. CASE \E s \in Searches : Search!Push(s) \/ Search!Restore(s)
    BY <2>2 DEF Search!Push, Search!Restore, Search!StashAll, Search!StashPop, Search!gitVars
  <2>3. CASE \E s \in Searches : \/ Search!Open(s) \/ Search!Cut(s) \/ Search!Abort(s) \/ Search!Branch(s)
                                \/ Search!Think(s) \/ Search!Act(s) \/ Search!Redraft(s)
    BY <2>3 DEF Search!Open, Search!Cut, Search!Abort, Search!Branch, Search!Think, Search!Act,
                Search!Redraft, Search!gitVars
  <2>4. CASE \/ \E s \in Searches : Search!Judge(s) \/ Search!Weigh(s) \/ Search!Select(s) \/ Search!Child(s)
             \/ \E i \in Search!UserItems : Search!UserWorks(i)
    BY <2>4 DEF Search!Judge, Search!Weigh, Search!Select, Search!Child, Search!UserWorks, Search!gitVars
  <2> QED  BY <2>1, <2>2, <2>3, <2>4 DEF Search!Next, Search!Step
<1>k. ASSUME Anchored'
      PROVE  /\ Kept /\ PutAway /\ NothingToStash /\ Untroubled /\ tree_ref' = tree_ref
             /\ Search!Unstashable <=> tree_unmerged
             /\ tree_made \subseteq tree_head \cup tree_dirty \cup tree_loose \cup Search!Stashed
  <2>1. tree_ref' = tree_ref /\ Anchored
    BY <1>r, <1>k DEF Anchored
  <2> QED  BY <2>1 DEF SearchInv, Kept, Anchored, Search!Unstashable
<1>p. \A s \in Searches : /\ tree_pc[s] \in SearchPlaces
                          /\ Search!Closed(s) <=> tree_pc[s] \in {"idle", "done"}
  BY <1>0 DEF SearchType, Search!Closed
<1>d. Search!Stashed = Held(tree_stash) /\ Search!Stashed' = Held(tree_stash')
  BY DEF Search!Stashed, Held
<1>t. /\ tree_tree \in [Searches -> Seq(TreeNodes)] /\ tree_sel \in [Searches -> Nat]
      /\ tree_pc \in [Searches -> SearchPlaces] /\ tree_unmerged \in BOOLEAN
      /\ tree_head \subseteq Works /\ tree_dirty \subseteq Works /\ tree_loose \subseteq Works
  BY <1>0 DEF SearchType
\* A step of a search after its push: it adds to the workspace and to what is committed, and
\* cleans only what is not stashed.
<1>m. ASSUME NEW s \in Searches, tree_pc[s] \in Inner, tree_pc'[s] \in Inner,
             tree_pc' = [tree_pc EXCEPT ![s] = tree_pc'[s]],
             tree_tree' \in [Searches -> Seq(TreeNodes)], tree_sel' \in [Searches -> Nat],
             tree_head \subseteq tree_head', tree_head' \subseteq Works, tree_dirty' \subseteq Works,
             tree_loose' \subseteq Works, tree_unmerged' \in {FALSE, tree_unmerged},
             tree_ref' \in {tree_ref, "strange"},
             UNCHANGED <<tree_hasStash, tree_stash, tree_made, tree_early, tree_clashed>>
      PROVE  SearchInv'
  <2>1. \A t \in Searches : /\ t # s => tree_pc[t] \in {"idle", "done"} /\ tree_pc'[t] = tree_pc[t]
                            /\ tree_pc'[s] \in Inner
    <3>1. \A t \in Searches : t # s => tree_pc'[t] = tree_pc[t]
      BY <1>t, <1>m
    <3> QED  BY <1>0, <1>p, <1>m, <3>1 DEF OneSearch, Inner
  <2>2. SearchType'
    BY <1>0, <1>m DEF SearchType, Inner
  <2>4. OneSearch'
    BY <2>1 DEF OneSearch, Search!Closed
  <2> SUFFICES ASSUME Anchored' PROVE Kept'
    BY <2>2, <2>4 DEF SearchInv
  <2>3. tree_made \subseteq tree_head \cup Search!Stashed
    BY <1>k, <1>p, <1>m DEF PutAway, Inner
  <2>5. /\ tree_made' \subseteq tree_head' \cup Search!Stashed' /\ PutAway'
    BY <1>d, <1>m, <2>3 DEF PutAway
  <2>6. NothingToStash'
    BY <2>1 DEF NothingToStash, Inner
  <2>7. Untroubled'
    <3>1. SUFFICES ASSUME ~tree_clashed, tree_early = {}
                   PROVE  /\ ~Search!Quiet' /\ \A t \in Searches : tree_pc'[t] # "push"
                          /\ \A t \in Searches : tree_pc'[t] \notin {"idle", "done"} => OwnStash(t)'
      BY <1>m DEF Untroubled, Search!Closed
    <3>2. ~Search!Quiet' /\ \A t \in Searches : tree_pc'[t] # "push"
      BY <2>1 DEF Search!Quiet, Search!Closed, Inner
    <3>3. OwnStash(s)
      BY <1>k, <1>p, <1>m, <3>1 DEF Untroubled, Inner
    <3>4. OwnStash(s)'
      <4>1. tree_unmerged' = FALSE /\ tree_hasStash' = tree_hasStash
        BY <1>t, <1>m, <3>3 DEF OwnStash
      <4>2. UNCHANGED <<tree_hasStash[s], tree_stash, tree_made>> /\ Held(tree_stash') = Held(tree_stash)
        BY <1>m
      <4> QED  BY <3>3, <4>1, <4>2, Zenon DEF OwnStash
    <3> QED  BY <2>1, <3>2, <3>4, Zenon DEF Inner
  <2> QED  BY <2>5, <2>6, <2>7 DEF Kept
<1>1. ASSUME NEW s \in Searches,
             Search!Branch(s) \/ Search!Abort(s) \/ Search!Weigh(s) \/ Search!Select(s)
      PROVE  SearchInv'
  <2>1. /\ tree_pc[s] \in Inner /\ tree_pc'[s] \in Inner
        /\ tree_pc' = [tree_pc EXCEPT ![s] = tree_pc'[s]]
    BY <1>1, <1>t
       DEF Search!Branch, Search!Abort, Search!Weigh, Search!Select, Search!Goto, Inner,
           SearchPlaces
  <2>2. UNCHANGED <<tree_tree, tree_hasStash, tree_head, tree_dirty, tree_loose, tree_stash,
                    tree_unmerged, tree_ref, tree_made, tree_early, tree_clashed>>
    BY <1>1 DEF Search!Branch, Search!Abort, Search!Weigh, Search!Select, Search!gitVars
  <2>3. tree_sel' \in [Searches -> Nat]
    <3>1. CASE Search!Select(s)
      <4>1. PICK n \in Search!Leaves(s) : tree_sel' = [tree_sel EXCEPT ![s] = n]
        BY <3>1 DEF Search!Select
      <4>2. n \in Nat
        BY <1>t, <4>1 DEF Search!Leaves
      <4> QED  BY <1>t, <4>1, <4>2
    <3>2. CASE ~Search!Select(s)
      BY <1>1, <1>t, <3>2 DEF Search!Branch, Search!Abort, Search!Weigh
    <3> QED  BY <3>1, <3>2
  <2> QED  BY <1>m, <1>t, <2>1, <2>2, <2>3
<1>2. ASSUME NEW s \in Searches, Search!Think(s) \/ Search!Redraft(s) \/ Search!Judge(s)
      PROVE  SearchInv'
  <2>1. /\ tree_pc[s] \in Inner /\ tree_pc'[s] \in Inner
        /\ tree_pc' = [tree_pc EXCEPT ![s] = tree_pc'[s]]
    BY <1>2, <1>t DEF Search!Think, Search!Redraft, Search!Judge, Search!Goto, Inner, SearchPlaces
  <2>2. UNCHANGED <<tree_sel, tree_hasStash, tree_head, tree_dirty, tree_loose, tree_stash,
                    tree_unmerged, tree_ref, tree_made, tree_early, tree_clashed>>
    BY <1>2 DEF Search!Think, Search!Redraft, Search!Judge, Search!gitVars
  <2>3. tree_tree' \in [Searches -> Seq(TreeNodes)]
    <3>1. CASE Search!Think(s)
      <4>1. PICK t \in {"none", "file", "edit"} : tree_tree' = [tree_tree EXCEPT ![s] = <<Search!Draft(0, t)>>]
        BY <3>1 DEF Search!Think
      <4>2. Search!Draft(0, t) \in TreeNodes
        BY DEF Search!Draft, TreeNodes
      <4>3. <<Search!Draft(0, t)>> \in Seq(TreeNodes)
        BY <4>2
      <4> QED  BY <1>t, <4>1, <4>3
    <3>2. CASE Search!Redraft(s)
      <4>1. tree_tree' = [tree_tree EXCEPT ![s] = [tree_tree[s] EXCEPT ![1].saw = TRUE]]
        BY <1>t, <3>2 DEF Search!Redraft
      <4>2. tree_tree[s] \in Seq(TreeNodes)
        BY <1>t
      <4>3. [tree_tree[s] EXCEPT ![1].saw = TRUE] \in Seq(TreeNodes)
        BY <4>2, RatedOf
      <4> QED  BY <1>t, <4>1, <4>3
    <3>3. CASE Search!Judge(s)
      <4>1. PICK x \in 0..1, ok \in BOOLEAN :
              tree_tree' = [tree_tree EXCEPT ![s][Search!Last(s)].score = x, ![s][Search!Last(s)].ok = ok]
        BY <3>3 DEF Search!Judge, Search!Scores
      <4> DEFINE k == Search!Last(s)
      <4>2. tree_tree' = [tree_tree EXCEPT ![s] = [tree_tree[s] EXCEPT ![k].score = x, ![k].ok = ok]]
        <5> HIDE DEF k
        <5> QED  BY <1>t, <4>1 DEF k
      <4>3. tree_tree[s] \in Seq(TreeNodes) /\ x \in Nat
        BY <1>t
      <4>4. [tree_tree[s] EXCEPT ![k].score = x, ![k].ok = ok] \in Seq(TreeNodes)
        <5> HIDE DEF k
        <5> QED  BY <4>3, RatedOf
      <4> HIDE DEF k
      <4> QED  BY <1>t, <4>2, <4>4
    <3> QED  BY <1>2, <3>1, <3>2, <3>3
  <2> QED  BY <1>m, <1>t, <2>1, <2>2, <2>3
<1>3. ASSUME NEW s \in Searches, Search!Act(s) PROVE SearchInv'
  <2>1. /\ tree_pc[s] \in Inner /\ tree_pc'[s] \in Inner
        /\ tree_pc' = [tree_pc EXCEPT ![s] = tree_pc'[s]]
    BY <1>3, <1>t DEF Search!Act, Search!Goto, Inner, SearchPlaces
  <2>2. UNCHANGED <<tree_tree, tree_sel, tree_hasStash, tree_head, tree_stash, tree_unmerged, tree_ref,
                    tree_made, tree_early, tree_clashed>>
    BY <1>3 DEF Search!Act
  <2>3. Search!Work(s) \in Works
    BY <1>t DEF Search!Work, Search!Last, Works
  <2>4. tree_dirty' \subseteq Works /\ tree_loose' \subseteq Works
    BY <1>3, <1>t, <2>3 DEF Search!Act
  <2> QED  BY <1>m, <1>t, <2>1, <2>2, <2>4
<1>4. ASSUME NEW s \in Searches, Search!Commit(s) PROVE SearchInv'
  <2>1. /\ tree_pc[s] \in Inner /\ tree_pc'[s] \in Inner
        /\ tree_pc' = [tree_pc EXCEPT ![s] = tree_pc'[s]]
    BY <1>4, <1>t DEF Search!Commit, Search!Goto, Inner, SearchPlaces
  <2>2. /\ UNCHANGED <<tree_tree, tree_sel, tree_hasStash, tree_stash, tree_made, tree_early, tree_clashed>>
        /\ tree_head' = tree_head \cup tree_dirty \cup tree_loose
        /\ tree_dirty' = {} /\ tree_loose' = {} /\ tree_unmerged' = FALSE
        /\ tree_ref' \in {tree_ref, "strange"}
    BY <1>4 DEF Search!Commit, Search!CommitAll
  <2> QED  BY <1>m, <1>t, <2>1, <2>2
<1>5. ASSUME NEW s \in Searches, Search!Child(s) PROVE SearchInv'
  <2>1. /\ tree_pc[s] \in Inner /\ tree_pc'[s] \in Inner
        /\ tree_pc' = [tree_pc EXCEPT ![s] = tree_pc'[s]]
    BY <1>5, <1>t DEF Search!Child, Search!Goto, Inner, SearchPlaces
  <2>2. /\ UNCHANGED <<tree_sel, tree_hasStash, tree_head, tree_dirty, tree_stash, tree_unmerged,
                       tree_ref, tree_made, tree_early, tree_clashed>>
        /\ tree_loose' = {}
    BY <1>5 DEF Search!Child
  <2>3. PICK t \in {"none", "file", "edit"} :
          tree_tree' = [tree_tree EXCEPT ![s] = Append(tree_tree[s], Search!Draft(tree_sel[s], t))]
    BY <1>5, <1>t DEF Search!Child
  <2>4. Search!Draft(tree_sel[s], t) \in TreeNodes /\ tree_tree[s] \in Seq(TreeNodes)
    BY <1>t DEF Search!Draft, TreeNodes
  <2>5. Append(tree_tree[s], Search!Draft(tree_sel[s], t)) \in Seq(TreeNodes)
    BY <2>4, AppendProperties
  <2>6. tree_tree' \in [Searches -> Seq(TreeNodes)]
    BY <1>t, <2>3, <2>5
  <2> QED  BY <1>m, <1>t, <2>1, <2>2, <2>6
\* The start and the end.
<1>6. ASSUME NEW s \in Searches, Search!Open(s) PROVE SearchInv'
  <2>1. /\ tree_pc[s] = "idle" /\ Search!Quiet /\ tree_pc' = [tree_pc EXCEPT ![s] = "push"]
        /\ tree_hasStash' = [tree_hasStash EXCEPT ![s] = tree_dirty \cup tree_loose # {} \/ Search!Unstashable]
        /\ UNCHANGED <<tree_tree, tree_sel, tree_head, tree_dirty, tree_loose, tree_stash,
                       tree_unmerged, tree_ref, tree_made, tree_early, tree_clashed>>
    BY <1>6 DEF Search!Open, Search!Goto, Search!gitVars
  <2>2. /\ tree_pc'[s] = "push" /\ tree_hasStash'[s] = (tree_dirty \cup tree_loose # {} \/ Search!Unstashable)
        /\ \A t \in Searches : t # s => tree_pc'[t] \in {"idle", "done"}
    BY <1>0, <1>p, <1>t, <2>1 DEF Search!Quiet, SearchType
  <2>3. SearchType'
    BY <1>0, <2>1 DEF SearchType, SearchPlaces, Search!Unstashable
  <2>4. OneSearch'
    BY <2>2 DEF OneSearch, Search!Closed
  <2> SUFFICES ASSUME Anchored' PROVE Kept'
    BY <2>3, <2>4 DEF SearchInv
  <2>5. PutAway'
    BY <1>k, <1>d, <2>1, <2>2 DEF PutAway, Search!Closed
  <2>6. NothingToStash'
    BY <2>1, <2>2 DEF NothingToStash
  <2>7. Untroubled'
    <3>1. SUFFICES ASSUME ~tree_clashed, tree_early = {}
                   PROVE  ~tree_unmerged /\ tree_stash = << >> /\ tree_made \subseteq tree_dirty \cup tree_loose
      BY <2>1, <2>2 DEF Untroubled, Search!Closed
    <3> QED  BY <1>k, <2>1, <3>1 DEF Untroubled
  <2> QED  BY <1>k, <1>d, <2>1, <2>5, <2>6, <2>7 DEF Kept
<1>7. ASSUME NEW s \in Searches, Search!Cut(s) PROVE SearchInv'
  <2>1. /\ tree_pc[s] \notin {"idle", "done"} /\ tree_pc' = [tree_pc EXCEPT ![s] = "done"]
        /\ tree_tree' = [tree_tree EXCEPT ![s] = << >>] /\ tree_sel' = [tree_sel EXCEPT ![s] = 0]
        /\ tree_hasStash' = [tree_hasStash EXCEPT ![s] = FALSE]
        /\ tree_early' = tree_early \cup {s}
        /\ UNCHANGED <<tree_head, tree_dirty, tree_loose, tree_stash, tree_unmerged, tree_ref,
                       tree_made, tree_clashed>>
    BY <1>7, <1>p DEF Search!Cut, Search!Forget, Search!Goto, Search!gitVars
  <2>2. \A t \in Searches : tree_pc'[t] \in {"idle", "done"}
    BY <1>0, <1>p, <1>t, <2>1 DEF OneSearch
  <2>3. SearchType'
    BY <1>0, <2>1 DEF SearchType, SearchPlaces
  <2>4. OneSearch'
    BY <2>2 DEF OneSearch, Search!Closed
  <2> SUFFICES ASSUME Anchored' PROVE Kept'
    BY <2>3, <2>4 DEF SearchInv
  <2>5. NothingToStash' /\ Untroubled'
    BY <2>1, <2>2 DEF NothingToStash, Untroubled, Search!Closed
  <2>6. PutAway'
    BY <1>k, <1>d, <2>1, <2>2 DEF PutAway, Search!Closed
  <2> QED  BY <1>k, <1>d, <2>1, <2>5, <2>6 DEF Kept
<1>11. ASSUME NEW s \in Searches, Search!Leave(s) PROVE SearchInv'
  <2>1. /\ tree_ref' = "unborn" /\ tree_dirty' = tree_dirty \cup tree_head /\ tree_head' = {}
        /\ UNCHANGED <<tree_pc, tree_tree, tree_sel, tree_hasStash, tree_loose, tree_stash,
                       tree_unmerged, tree_made, tree_early, tree_clashed>>
    BY <1>11 DEF Search!Leave, Search!searchVars
  <2>2. SearchType' /\ OneSearch'
    BY <1>0, <2>1 DEF SearchType, OneSearch, Search!Closed
  <2> QED  BY <2>1, <2>2 DEF SearchInv, Anchored
<1>8. ASSUME NEW s \in Searches, Search!Push(s) PROVE SearchInv'
  <2> DEFINE e == [dirty |-> tree_dirty, loose |-> tree_loose]
  <2>1. /\ tree_pc[s] = "push" /\ tree_pc' = [tree_pc EXCEPT ![s] = "branch"]
        /\ UNCHANGED <<tree_tree, tree_sel, tree_hasStash, tree_ref, tree_made, tree_early>>
        /\ \/ /\ ~tree_hasStash[s]
              /\ UNCHANGED <<tree_head, tree_dirty, tree_loose, tree_stash, tree_unmerged, tree_clashed>>
           \/ /\ tree_hasStash[s] /\ Search!Unstashable /\ tree_clashed' = TRUE
              /\ UNCHANGED <<tree_head, tree_dirty, tree_loose, tree_stash, tree_unmerged>>
           \/ /\ tree_hasStash[s] /\ ~Search!Unstashable /\ tree_stash' = <<e>> \o tree_stash
              /\ tree_dirty' = {} /\ tree_loose' = {}
              /\ UNCHANGED <<tree_head, tree_unmerged, tree_clashed>>
    BY <1>8 DEF Search!Push, Search!Goto, Search!StashAll, Search!gitVars
  <2>2. /\ tree_pc'[s] = "branch"
        /\ \A t \in Searches : t # s => tree_pc'[t] \in {"idle", "done"}
    BY <1>0, <1>p, <1>t, <2>1 DEF OneSearch
  <2>3. e \in Entries /\ tree_stash \in Seq(Entries) /\ e.dirty = tree_dirty /\ e.loose = tree_loose
    BY <1>0 DEF SearchType, Entries
  <2> HIDE DEF e
  <2>4. /\ <<e>> \o tree_stash \in Seq(Entries) /\ Len(<<e>> \o tree_stash) = Len(tree_stash) + 1
        /\ Held(<<e>> \o tree_stash) = tree_dirty \cup tree_loose \cup Held(tree_stash)
        /\ Len(<< >>) = 0 /\ Held(<< >>) = {}
    BY <2>3, HeldOf
  <2>5. SearchType'
    BY <1>0, <2>1, <2>4 DEF SearchType, SearchPlaces
  <2>6. OneSearch'
    BY <2>1, <2>2 DEF OneSearch, Search!Closed
  <2> SUFFICES ASSUME Anchored' PROVE Kept'
    BY <2>5, <2>6 DEF SearchInv
  <2>10. NothingToStash'
    BY <2>1, <2>2 DEF NothingToStash, Search!Closed
  <2>7. tree_made' \subseteq tree_head' \cup Search!Stashed'
    <3>1. CASE ~tree_hasStash[s]
      BY <1>k, <1>d, <2>1, <3>1 DEF NothingToStash
    <3>2. CASE tree_hasStash[s] /\ tree_unmerged
      BY <1>k, <1>d, <2>1, <3>2 DEF PutAway
    <3>3. CASE tree_hasStash[s] /\ ~tree_unmerged
      BY <1>k, <1>d, <2>1, <2>4, <3>3
    <3> QED  BY <3>1, <3>2, <3>3
  <2>8. PutAway'
    BY <2>7 DEF PutAway
  <2>9. Untroubled'
    <3>1. SUFFICES ASSUME ~tree_clashed', tree_early = {}
                   PROVE  OwnStash(s)'
      BY <2>1, <2>2 DEF Untroubled, Search!Closed, Search!Quiet
    <3>2. /\ ~tree_clashed /\ ~tree_unmerged /\ tree_stash = << >>
          /\ tree_made \subseteq tree_dirty \cup tree_loose
      BY <1>0, <1>k, <2>1, <3>1 DEF Untroubled, SearchType
    <3>3. tree_hasStash'[s] = tree_hasStash[s] /\ tree_hasStash[s] \in BOOLEAN
      BY <1>0, <2>1 DEF SearchType
    <3>4. ASSUME ~tree_hasStash[s] PROVE ~tree_unmerged' /\ tree_stash' = << >> /\ tree_made' = {}
      BY <1>k, <2>1, <3>2, <3>4 DEF NothingToStash
    <3>5. ASSUME tree_hasStash[s]
          PROVE  ~tree_unmerged' /\ Len(tree_stash') = 1 /\ tree_made' \subseteq Held(tree_stash')
      BY <1>k, <2>1, <2>4, <3>2, <3>5
    <3> QED  BY <3>3, <3>4, <3>5, Zenon DEF OwnStash
  <2> QED  BY <2>7, <2>8, <2>9, <2>10 DEF Kept
<1>9. ASSUME NEW s \in Searches, Search!Restore(s) PROVE SearchInv'
  <2> DEFINE e == Head(tree_stash)
  <2>1. /\ tree_pc[s] = "restore" /\ tree_pc' = [tree_pc EXCEPT ![s] = "done"]
        /\ tree_tree' = [tree_tree EXCEPT ![s] = << >>] /\ tree_sel' = [tree_sel EXCEPT ![s] = 0]
        /\ tree_hasStash' = [tree_hasStash EXCEPT ![s] = FALSE]
        /\ UNCHANGED <<tree_ref, tree_made, tree_early>>
        /\ \/ /\ ~tree_hasStash[s] \/ tree_stash = << >>
              /\ UNCHANGED <<tree_head, tree_dirty, tree_loose, tree_stash, tree_unmerged, tree_clashed>>
           \/ /\ tree_stash # << >> /\ tree_hasStash[s] /\ ~tree_unmerged /\ tree_stash' = Tail(tree_stash)
              /\ tree_dirty' = tree_dirty \cup e.dirty /\ tree_loose' = tree_loose \cup e.loose
              /\ UNCHANGED <<tree_head, tree_unmerged, tree_clashed>>
           \/ /\ tree_stash # << >> /\ tree_clashed' = TRUE /\ tree_dirty' = tree_dirty
              /\ tree_loose' \in {tree_loose, tree_loose \cup e.loose}
              /\ tree_unmerged' \in BOOLEAN
              /\ UNCHANGED <<tree_head, tree_stash>>
    <3>1. tree_unmerged \in BOOLEAN
      BY <1>t
    <3> QED  BY <1>9, <3>1 DEF Search!Restore, Search!Forget, Search!Goto, Search!StashPop, Search!gitVars
  <2>2. \A t \in Searches : tree_pc'[t] \in {"idle", "done"}
    BY <1>0, <1>p, <1>t, <2>1 DEF OneSearch
  <2>3. /\ tree_stash \in Seq(Entries)
        /\ tree_stash # << >> =>
             /\ e \in Entries /\ Tail(tree_stash) \in Seq(Entries)
             /\ Held(tree_stash) = e.dirty \cup e.loose \cup Held(Tail(tree_stash))
             /\ Len(tree_stash) = 1 => Tail(tree_stash) = << >>
    <3>1. [dirty |-> {}, loose |-> {}] \in Entries
      BY DEF Entries
    <3> QED  BY <1>0, <3>1, HeldOf DEF SearchType
  <2> HIDE DEF e
  <2>4. /\ tree_stash' \in Seq(Entries) /\ tree_dirty' \subseteq Works /\ tree_loose' \subseteq Works
        /\ tree_unmerged' \in BOOLEAN /\ tree_clashed' \in BOOLEAN /\ tree_head' \subseteq Works
    BY <1>0, <2>1, <2>3 DEF SearchType, Entries
  <2>5. /\ tree_pc' \in [Searches -> SearchPlaces] /\ tree_hasStash' \in [Searches -> BOOLEAN]
        /\ tree_tree' \in [Searches -> Seq(TreeNodes)] /\ tree_sel' \in [Searches -> Nat]
        /\ tree_made' \subseteq UserEdits \cup UserFiles /\ tree_early' \subseteq Searches
    BY <1>0, <2>1 DEF SearchType, SearchPlaces
  <2>6. SearchType'
    BY <1>0, <2>1, <2>4, <2>5 DEF SearchType
  <2>12. OneSearch'
    BY <2>2 DEF OneSearch, Search!Closed
  <2> SUFFICES ASSUME Anchored' PROVE Kept'
    BY <2>6, <2>12 DEF SearchInv
  <2>7. NothingToStash'
    BY <2>2 DEF NothingToStash
  <2>8. tree_made \subseteq tree_head \cup Held(tree_stash)
    BY <1>k, <1>d, <1>p, <2>1 DEF PutAway
  <2>9. tree_made' \subseteq tree_head' \cup tree_dirty' \cup tree_loose' \cup Search!Stashed'
    BY <1>d, <2>1, <2>3, <2>8
  <2>10. PutAway'
    <3>1. SUFFICES ASSUME tree_unmerged' PROVE tree_made' \subseteq tree_head' \cup Search!Stashed'
      BY <2>2 DEF PutAway, Search!Closed
    <3>2. CASE tree_stash' = tree_stash
      BY <1>d, <2>1, <2>8, <3>2
    <3>3. CASE tree_stash' # tree_stash
      BY <2>1, <3>1, <3>3
    <3> QED  BY <3>2, <3>3
  <2>11. Untroubled'
    <3>1. SUFFICES ASSUME ~tree_clashed', tree_early = {}
                   PROVE  ~tree_unmerged' /\ tree_stash' = << >> /\ tree_made \subseteq tree_dirty' \cup tree_loose'
      BY <2>1, <2>2 DEF Untroubled, Search!Closed
    <3>2. ~tree_clashed
      BY <1>0, <2>1, <3>1 DEF SearchType
    <3>3. /\ ~tree_unmerged
          /\ IF tree_hasStash[s] THEN Len(tree_stash) = 1 /\ tree_made \subseteq Held(tree_stash)
             ELSE tree_stash = << >> /\ tree_made = {}
      <4>1. OwnStash(s)
        BY <1>k, <1>p, <2>1, <3>1, <3>2 DEF Untroubled
      <4> QED  BY <4>1 DEF OwnStash
    <3>4. tree_unmerged \in BOOLEAN /\ tree_clashed' \in BOOLEAN
      BY <1>t, <2>4
    <3>5. CASE ~tree_hasStash[s]
      BY <2>1, <3>1, <3>3, <3>4, <3>5
    <3>6. CASE tree_hasStash[s]
      <4>1. Len(tree_stash) = 1 /\ tree_made \subseteq Held(tree_stash)
        BY <3>3, <3>6, Zenon
      <4>2. tree_stash # << >> /\ Tail(tree_stash) = << >>
        BY <2>3, <4>1, EmptySeq
      <4>3. tree_made \subseteq e.dirty \cup e.loose
        BY <2>3, <4>1, <4>2, HeldEmpty
      <4>4. CASE tree_clashed' = TRUE
        BY <3>1, <4>4
      <4>5. CASE /\ ~tree_unmerged /\ tree_stash' = Tail(tree_stash) /\ tree_unmerged' = tree_unmerged
                 /\ tree_dirty' = tree_dirty \cup e.dirty /\ tree_loose' = tree_loose \cup e.loose
        BY <4>2, <4>3, <4>5
      <4> QED  BY <2>1, <3>6, <4>2, <4>4, <4>5, Zenon
    <3> QED  BY <3>5, <3>6
  <2> QED  BY <2>7, <2>9, <2>10, <2>11 DEF Kept
<1>10. ASSUME NEW i \in UserEdits \cup UserFiles, Search!UserWorks(i) PROVE SearchInv'
  <2>1. /\ Search!Quiet /\ ~Search!Unstashable /\ tree_made' = tree_made \cup {i}
        /\ i \in tree_dirty' \cup tree_loose'
        /\ tree_dirty' \in {tree_dirty, tree_dirty \cup {i}} /\ tree_loose' \in {tree_loose, tree_loose \cup {i}}
        /\ UNCHANGED <<tree_pc, tree_tree, tree_sel, tree_hasStash, tree_head, tree_stash,
                       tree_unmerged, tree_ref, tree_early, tree_clashed>>
    BY <1>10 DEF Search!UserWorks, Search!searchVars
  <2>2. \A t \in Searches : tree_pc'[t] \in {"idle", "done"}
    BY <1>p, <2>1 DEF Search!Quiet
  <2>3. SearchType'
    BY <1>0, <2>1 DEF SearchType, Works
  <2>4. OneSearch'
    BY <2>1, <2>2 DEF OneSearch, Search!Closed
  <2> SUFFICES ASSUME Anchored' PROVE Kept'
    BY <2>3, <2>4 DEF SearchInv
  <2>7. NothingToStash' /\ PutAway'
    BY <1>k, <2>1, <2>2 DEF NothingToStash, PutAway, Search!Closed
  <2>5. Untroubled'
    BY <1>k, <2>1, <2>2 DEF Untroubled, Search!Closed
  <2>6. tree_made' \subseteq tree_head' \cup tree_dirty' \cup tree_loose' \cup Search!Stashed'
    BY <1>k, <1>d, <2>1
  <2> QED  BY <2>5, <2>6, <2>7 DEF Kept
<1> QED
  BY <1>1, <1>2, <1>3, <1>4, <1>5, <1>6, <1>7, <1>8, <1>9, <1>10, <1>11
     DEF Search!Next, Search!Step, Search!UserItems

-----------------------------------------------------------------------------
(* What the user has made: the drafts. *)

Edit == [id : Drafts, target : Edits!Targets, repl : Edits!Replacements, status : {"pending", "approved"}]

EditType ==
    /\ edit_list \in Seq(Edit)
    /\ edit_job \in [Editors -> [at : {"idle", "file", "ask", "write"}, list : Seq(Edit),
                                 todo : Seq(Edit), done : SUBSET Drafts]]
    /\ edit_trial \in [Trials -> {"new", "running", "judged", "over"}]

\* What a call has read is what the file holds, but for the draft that it is to add.
ReadIsCurrent ==
    \A p \in Editors :
        /\ edit_job[p].at = "file" =>
              /\ Edits!Ids(edit_list) \subseteq Edits!Ids(edit_job[p].list)
              /\ edit_job[p].done \subseteq Edits!Ids(edit_job[p].list)
        /\ edit_job[p].at \in {"ask", "write"} => Edits!Ids(edit_list) = Edits!Ids(edit_job[p].list)

EditInv ==
    /\ EditType /\ ReadIsCurrent
    /\ edit_created \subseteq edit_told \cup Edits!Ids(edit_list)
    /\ edit_hidden # "none" => edit_hidden \in Trials /\ edit_trial[edit_hidden] \in {"running", "judged"}

LEMMA AppendMembers ==
    ASSUME NEW S, NEW s \in Seq(S), NEW x \in S
    PROVE  /\ Append(s, x) \in Seq(S)
           /\ DOMAIN s = 1..Len(s) /\ DOMAIN Append(s, x) = 1..Len(s) + 1 /\ Len(s) \in Nat
           /\ \A i \in 1..Len(s) : s[i] \in S /\ Append(s, x)[i] = s[i]
           /\ Append(s, x)[Len(s) + 1] = x
  OBVIOUS

\* A set that has 0, and the successor of each number that it has, has them all.
LEMMA SetInduction ==
    ASSUME NEW S, 0 \in S, \A n \in Nat : n \in S => n + 1 \in S
    PROVE  Nat \subseteq S
<1> DEFINE T == Nat \ S
<1> SUFFICES ASSUME T # {} PROVE FALSE
  OBVIOUS
<1>1. PICK x \in T : \A y \in T : ~(<<y, x>> \in OpToRel(<, Nat))
  <2>1. IsWellFoundedOn(OpToRel(<, Nat), Nat)
    BY NatLessThanWellFounded
  <2>2. T \subseteq Nat
    OBVIOUS
  <2> HIDE DEF T
  <2> QED  BY <2>1, <2>2, WFMin
<1>2. x - 1 \in T
  <2>1. x \in Nat /\ x \notin S /\ x # 0
    OBVIOUS
  <2>2. x - 1 \in Nat /\ (x - 1) + 1 = x
    BY <2>1
  <2>3. x - 1 \notin S
    BY <2>1, <2>2
  <2> QED  BY <2>2, <2>3
<1>3. x \in Nat /\ x - 1 \in Nat /\ x - 1 < x
  BY <1>2
<1>4. <<x - 1, x>> \in OpToRel(<, Nat)
  <2> DEFINE y == x - 1
  <2>1. x \in Nat /\ y \in Nat /\ y < x
    BY <1>3
  <2> HIDE DEF y
  <2>2. <<y, x>> \in Nat \X Nat /\ <<y, x>>[1] = y /\ <<y, x>>[2] = x
    BY <2>1
  <2>3. <<y, x>>[1] < <<y, x>>[2]
    BY <2>1, <2>2
  <2>4. <<y, x>> \in {ss \in Nat \X Nat : ss[1] < ss[2]}
    BY <2>2, <2>3, Zenon
  <2> QED  BY <2>4, Zenon DEF OpToRel, y
<1> QED  BY <1>1, <1>2, <1>4

\* What a list without some of its drafts holds.
LEMMA WithoutOf ==
    ASSUME NEW S, NEW l \in Seq(S), NEW ids
    PROVE  /\ Edits!Without(l, ids) \in Seq(S)
           /\ Edits!Ids(Edits!Without(l, ids)) = Edits!Ids(l) \ ids
<1> DEFINE n == Len(l)
           Def(f, k) == f = [i \in 0..k |->
                               IF i = 0 THEN << >>
                               ELSE IF l[i].id \in ids THEN f[i - 1] ELSE Append(f[i - 1], l[i])]
           Has == {k \in Nat : \E f : Def(f, k)}
           r == CHOOSE f : Def(f, n)
<1>n. n \in Nat /\ DOMAIN l = 1..n /\ \A i \in 1..n : l[i] \in S
  OBVIOUS
<1> HIDE DEF n
<1>1. Nat \subseteq Has
  <2>1. 0 \in Has
    <3>1. Def([i \in 0..0 |-> << >>], 0)
      OBVIOUS
    <3> QED  BY <3>1
  <2>2. ASSUME NEW k \in Nat, k \in Has PROVE k + 1 \in Has
    <3>1. PICK f : Def(f, k)
      BY <2>2
    <3> DEFINE g == [i \in 0..k + 1 |->
                       IF i \in 0..k THEN f[i]
                       ELSE IF l[i].id \in ids THEN f[i - 1] ELSE Append(f[i - 1], l[i])]
               h == [i \in 0..k + 1 |->
                       IF i = 0 THEN << >>
                       ELSE IF l[i].id \in ids THEN g[i - 1] ELSE Append(g[i - 1], l[i])]
    <3>2. ASSUME NEW i \in 0..k + 1 PROVE g[i] = h[i]
      <4>1. CASE i = 0
        BY <3>1, <4>1
      <4>2. CASE i # 0
        <5>1. i - 1 \in 0..k /\ i - 1 \in 0..k + 1 /\ g[i - 1] = f[i - 1]
          BY <4>2
        <5>2. h[i] = IF l[i].id \in ids THEN f[i - 1] ELSE Append(f[i - 1], l[i])
          BY <4>2, <5>1
        <5>3. CASE i \in 0..k
          <6>1. f[i] = IF l[i].id \in ids THEN f[i - 1] ELSE Append(f[i - 1], l[i])
            BY <3>1, <4>2, <5>3
          <6>2. g[i] = f[i]
            BY <5>3
          <6> QED  BY <5>2, <6>1, <6>2
        <5>4. CASE i \notin 0..k
          BY <5>2, <5>4
        <5> QED  BY <5>3, <5>4
      <4> QED  BY <4>1, <4>2
    <3>3. g = h
      BY <3>2
    <3>4. Def(g, k + 1)
      BY <3>3, Zenon
    <3> HIDE DEF g, Def
    <3> QED  BY <3>4
  <2> HIDE DEF Has
  <2> QED  BY <2>1, <2>2, SetInduction
<1>2. Def(r, n)
  <2>1. \E f : Def(f, n)
    BY <1>n, <1>1
  <2> HIDE DEF Def
  <2> QED  BY <2>1, Zenon
<1>3. Edits!Without(l, ids) = r[n]
  BY Zenon DEF Edits!Without, n
<1> HIDE DEF r
<1>4. /\ r[0] = << >>
      /\ \A i \in 1..n : r[i] = IF l[i].id \in ids THEN r[i - 1] ELSE Append(r[i - 1], l[i])
  <2> DEFINE e == [i \in 0..n |-> IF i = 0 THEN << >>
                                 ELSE IF l[i].id \in ids THEN r[i - 1] ELSE Append(r[i - 1], l[i])]
  <2>1. r = e
    BY <1>2
  <2>2. /\ e[0] = << >>
        /\ \A i \in 1..n : e[i] = IF l[i].id \in ids THEN r[i - 1] ELSE Append(r[i - 1], l[i])
    BY <1>n
  <2> HIDE DEF e
  <2> QED  BY <2>1, <2>2
<1> DEFINE Good(k) == k <= n =>
               /\ r[k] \in Seq(S)
               /\ Edits!Ids(r[k]) = {l[i].id : i \in 1..k} \ ids
           All == {k \in Nat : Good(k)}
<1>5. Nat \subseteq All
  <2>1. Good(0)
    BY <1>n, <1>4 DEF Edits!Ids
  <2>2. ASSUME NEW k \in Nat, Good(k) PROVE Good(k + 1)
    <3> SUFFICES ASSUME k + 1 <= n PROVE r[k + 1] \in Seq(S) /\ Edits!Ids(r[k + 1]) = {l[i].id : i \in 1..k + 1} \ ids
      OBVIOUS
    <3>1. k + 1 \in 1..n /\ (k + 1) - 1 = k /\ l[k + 1] \in S
      BY <1>n
    <3>2. r[k] \in Seq(S) /\ Edits!Ids(r[k]) = {l[i].id : i \in 1..k} \ ids
      BY <1>n, <2>2
    <3>3. r[k + 1] = IF l[k + 1].id \in ids THEN r[k] ELSE Append(r[k], l[k + 1])
      BY <1>4, <3>1
    <3>4. {l[i].id : i \in 1..k + 1} = {l[i].id : i \in 1..k} \cup {l[k + 1].id}
      BY <3>1
    <3>5. CASE l[k + 1].id \in ids
      BY <3>2, <3>3, <3>4, <3>5
    <3>6. ASSUME l[k + 1].id \notin ids
          PROVE  r[k + 1] \in Seq(S) /\ Edits!Ids(r[k + 1]) = Edits!Ids(r[k]) \cup {l[k + 1].id}
      <4> DEFINE s == r[k]  x == l[k + 1]
      <4>1. s \in Seq(S) /\ x \in S /\ r[k + 1] = Append(s, x)
        BY <3>1, <3>2, <3>3, <3>6
      <4> HIDE DEF s, x
      <4>2. /\ Append(s, x) \in Seq(S) /\ Len(s) \in Nat
            /\ DOMAIN s = 1..Len(s) /\ DOMAIN Append(s, x) = 1..Len(s) + 1
            /\ \A i \in 1..Len(s) : Append(s, x)[i] = s[i]
            /\ Append(s, x)[Len(s) + 1] = x
        BY <4>1, AppendMembers
      <4>3. Edits!Ids(Append(s, x)) = Edits!Ids(s) \cup {x.id}
        BY <4>2 DEF Edits!Ids
      <4> QED  BY <4>1, <4>2, <4>3 DEF s, x
    <3> QED  BY <3>2, <3>4, <3>5, <3>6
  <2> HIDE DEF Good
  <2>3. 0 \in All /\ \A k \in Nat : k \in All => k + 1 \in All
    BY <2>1, <2>2
  <2> HIDE DEF All
  <2> QED  BY <2>3, SetInduction
<1>6. Good(n)
  BY <1>5, <1>n
<1>7. Edits!Ids(l) = {l[i].id : i \in 1..n}
  BY <1>n DEF Edits!Ids
<1> QED  BY <1>n, <1>3, <1>6, <1>7

\* A list of drafts is not the torn file, and an approval names no others.
LEMMA ListOf ==
    ASSUME NEW l \in Seq(Edit)
    PROVE  /\ l # Edits!Torn /\ DOMAIN l = 1..Len(l) /\ Len(l) \in Nat /\ Edits!Ids(l) \subseteq Drafts
           /\ \A chosen : /\ Edits!Approved(l, chosen) \in Seq(Edit)
                          /\ Edits!Ids(Edits!Approved(l, chosen)) = Edits!Ids(l)
<1>1. DOMAIN l = 1..Len(l) /\ Len(l) \in Nat /\ \A i \in 1..Len(l) : l[i] \in Edit
  OBVIOUS
<1>2. l # Edits!Torn
  <2>1. Len(Edits!Torn) = 1 /\ Edits!Torn[1] = [id |-> "torn"]
    BY DEF Edits!Torn
  <2>2. [id |-> "torn"] \notin Edit
    BY DEF Edit
  <2> QED  BY <1>1, <2>1, <2>2
<1>3. Edits!Ids(l) \subseteq Drafts
  BY <1>1 DEF Edits!Ids, Edit
<1>4. ASSUME NEW chosen
      PROVE  /\ Edits!Approved(l, chosen) \in Seq(Edit)
             /\ Edits!Ids(Edits!Approved(l, chosen)) = Edits!Ids(l)
  <2> DEFINE e(i) == IF l[i].id \in chosen THEN [l[i] EXCEPT !.status = "approved"] ELSE l[i]
             a == [i \in 1..Len(l) |-> e(i)]
  <2>1. ASSUME NEW i \in 1..Len(l) PROVE e(i) \in Edit /\ e(i).id = l[i].id
    BY <1>1 DEF Edit
  <2>2. Edits!Approved(l, chosen) = a
    BY <1>1 DEF Edits!Approved
  <2> HIDE DEF e
  <2>3. a \in Seq(Edit) /\ DOMAIN a = 1..Len(l)
    BY <1>1, <2>1, IsASeq
  <2>4. Edits!Ids(a) = Edits!Ids(l)
    BY <1>1, <2>1, <2>3 DEF Edits!Ids
  <2> QED  BY <2>2, <2>3, <2>4
<1> QED  BY <1>1, <1>2, <1>3, <1>4

LEMMA EditStep ==
    ASSUME \A p, q \in Editors : p = q, ~Tears, EditInv, Edits!Next
    PROVE  EditInv'
<1> DEFINE JobType == [at : {"idle", "file", "ask", "write"}, list : Seq(Edit), todo : Seq(Edit),
                       done : SUBSET Drafts]
           Current(j, l) ==
              /\ j.at = "file" =>
                    Edits!Ids(l) \subseteq Edits!Ids(j.list) /\ j.done \subseteq Edits!Ids(j.list)
              /\ j.at \in {"ask", "write"} => Edits!Ids(l) = Edits!Ids(j.list)
<1>0. EditType /\ ReadIsCurrent
  BY DEF EditInv
<1>l. /\ edit_list \in Seq(Edit) /\ Edits!Listed = edit_list
      /\ \A p \in Editors : edit_job[p] \in JobType
  BY <1>0, ListOf DEF EditType, Edits!Listed
<1>i. Edits!Idle.at = "idle" /\ Edits!Idle \in JobType /\ Edits!Idle = [Edits!Idle EXCEPT !.at = "idle"]
  BY DEF Edits!Idle
\* A step of an editor: what it leaves for the rest to be said of.
<1>e. ASSUME NEW p \in Editors, NEW j \in JobType, edit_job' = [edit_job EXCEPT ![p] = j],
             edit_list' \in Seq(Edit), Current(j, edit_list'),
             edit_created' \subseteq edit_told' \cup Edits!Ids(edit_list'),
             UNCHANGED <<edit_trial, edit_hidden>>
      PROVE  EditInv'
  <2>1. EditType' /\ edit_job'[p] = j
    BY <1>0, <1>e DEF EditType
  <2>2. \A q \in Editors : Current(edit_job'[q], edit_list')
    BY <1>e, <2>1
  <2>3. ReadIsCurrent'
    BY <2>2 DEF ReadIsCurrent, Edits!Ids
  <2>4. (Edits!Ids(edit_list))' = Edits!Ids(edit_list')
    BY DEF Edits!Ids
  <2> QED  BY <1>e, <2>1, <2>3, <2>4 DEF EditInv
<1> HIDE DEF Current
<1>c. ASSUME NEW p \in Editors PROVE Current(edit_job[p], edit_list)
  BY <1>0 DEF ReadIsCurrent, Current
<1>g. edit_created \subseteq edit_told \cup Edits!Ids(edit_list)
  BY DEF EditInv
<1>f. ASSUME UNCHANGED <<edit_list, edit_job>> PROVE ReadIsCurrent' /\ UNCHANGED Edits!Ids(edit_list)
  <2>1. \A q \in Editors : Current(edit_job'[q], edit_list')
    BY <1>c, <1>f
  <2>2. ReadIsCurrent'
    BY <2>1 DEF ReadIsCurrent, Current, Edits!Ids
  <2> QED  BY <1>f, <2>2 DEF Edits!Ids
<1>n. ASSUME NEW l PROVE Current(Edits!Idle, l)
  BY <1>i DEF Current
<1>1. ASSUME NEW p \in Editors, NEW d \in Drafts, NEW t \in Edits!Targets,
             NEW r \in Edits!Replacements, Edits!Propose(p, d, t, r)
      PROVE  EditInv'
  <2> DEFINE e == [id |-> d, target |-> t, repl |-> r, status |-> "pending"]
             l == Append(edit_list, e)
             j == [at |-> "file", list |-> l, todo |-> << >>, done |-> {d}]
  <2>1. e \in Edit /\ e.id = d
    BY DEF Edit
  <2>2. edit_job' = [edit_job EXCEPT ![p] = j]
    BY <1>1, <1>l DEF Edits!Propose
  <2> HIDE DEF e
  <2>3. l \in Seq(Edit) /\ Edits!Ids(l) = Edits!Ids(edit_list) \cup {d}
    <3>1. /\ l \in Seq(Edit) /\ Len(edit_list) \in Nat
          /\ DOMAIN edit_list = 1..Len(edit_list) /\ DOMAIN l = 1..Len(edit_list) + 1
          /\ \A i \in 1..Len(edit_list) : l[i] = edit_list[i]
          /\ l[Len(edit_list) + 1] = e
      BY <1>l, <2>1, AppendMembers
    <3> HIDE DEF l
    <3> QED  BY <2>1, <3>1 DEF Edits!Ids
  <2> HIDE DEF l
  <2>4. j \in JobType /\ Current(j, edit_list)
    BY <2>3 DEF Current
  <2>5. UNCHANGED <<edit_list, edit_created, edit_told, edit_trial, edit_hidden>>
    BY <1>1 DEF Edits!Propose, Edits!trialVars
  <2> HIDE DEF j
  <2> QED  BY <1>l, <1>g, <1>e, <2>2, <2>4, <2>5
<1>2. ASSUME NEW p \in Editors, Edits!File(p) PROVE EditInv'
  <2>1. /\ edit_job[p].at = "file" /\ edit_list' = edit_job[p].list
        /\ edit_created' = edit_created \cup edit_job[p].done
        /\ edit_job' = [edit_job EXCEPT ![p] = Edits!Idle]
        /\ UNCHANGED <<edit_told, edit_trial, edit_hidden>>
    BY <1>2 DEF Edits!File, Edits!Save, Edits!trialVars
  <2>2. edit_list' \in Seq(Edit)
    BY <1>l, <2>1
  <2>3. edit_created' \subseteq edit_told' \cup Edits!Ids(edit_list')
    BY <1>c, <1>g, <2>1 DEF Current
  <2> QED  BY <1>i, <1>n, <1>e, <2>1, <2>2, <2>3
<1>3. ASSUME NEW p \in Editors, Edits!Challenge(p) PROVE EditInv'
  <2> DEFINE l == Edits!Approved(edit_job[p].list, edit_job[p].done)
             j == [edit_job[p] EXCEPT !.at = "write", !.list = l]
  <2>1. /\ edit_job[p].at = "ask" /\ UNCHANGED <<edit_created, edit_told, edit_trial, edit_hidden>>
        /\ \/ edit_list' = l /\ edit_job' = [edit_job EXCEPT ![p] = j]
           \/ edit_job' = [edit_job EXCEPT ![p] = Edits!Idle] /\ edit_list' = edit_list
    BY <1>3, <1>0 DEF Edits!Challenge, Edits!Save, Edits!trialVars, EditType
  <2>2. l \in Seq(Edit) /\ Edits!Ids(l) = Edits!Ids(edit_job[p].list)
    BY <1>l, ListOf
  <2>3. Edits!Ids(edit_list) = Edits!Ids(edit_job[p].list)
    BY <1>c, <2>1 DEF Current
  <2> HIDE DEF l
  <2>4. j \in JobType /\ j.at = "write" /\ j.list = l
    BY <1>l, <2>2
  <2> HIDE DEF j
  <2>5. Current(j, l)
    BY <2>4 DEF Current
  <2>6. CASE edit_list' = l /\ edit_job' = [edit_job EXCEPT ![p] = j]
    <3>1. edit_created' \subseteq edit_told' \cup Edits!Ids(edit_list')
      BY <1>g, <2>1, <2>2, <2>3, <2>6
    <3> QED  BY <1>e, <2>1, <2>2, <2>4, <2>5, <2>6, <3>1
  <2>7. CASE edit_job' = [edit_job EXCEPT ![p] = Edits!Idle] /\ edit_list' = edit_list
    BY <1>e, <1>g, <1>i, <1>l, <1>n, <2>1, <2>7
  <2> QED  BY <2>1, <2>6, <2>7
<1>4. ASSUME NEW p \in Editors, Edits!Write(p) PROVE EditInv'
  <2> DEFINE j == [edit_job[p] EXCEPT !.todo = Tail(@)]
  <2>1. /\ edit_job[p].at = "write" /\ edit_job[p].todo # << >>
        /\ edit_job' = [edit_job EXCEPT ![p] = j]
        /\ UNCHANGED <<edit_list, edit_created, edit_told, edit_trial, edit_hidden>>
    BY <1>4, <1>0 DEF Edits!Write, Edits!trialVars, EditType
  <2>2. j \in JobType /\ j.at = edit_job[p].at /\ j.list = edit_job[p].list
    <3>1. edit_job[p] \in JobType /\ edit_job[p].todo \in Seq(Edit)
      BY <1>l
    <3>2. Tail(edit_job[p].todo) \in Seq(Edit)
      BY <2>1, <3>1, HeadTailProperties
    <3> QED  BY <3>1, <3>2
  <2> HIDE DEF j
  <2>3. Current(j, edit_list)
    BY <1>c, <2>1, <2>2 DEF Current
  <2> QED  BY <1>e, <1>g, <1>l, <2>1, <2>2, <2>3
<1>5. ASSUME NEW p \in Editors, Edits!WriteFails(p) \/ Edits!Crash(p) PROVE EditInv'
  <2>1. /\ edit_job' = [edit_job EXCEPT ![p] = Edits!Idle]
        /\ UNCHANGED <<edit_list, edit_created, edit_told, edit_trial, edit_hidden>>
    BY <1>5 DEF Edits!WriteFails, Edits!Crash, Edits!trialVars
  <2> QED  BY <1>e, <1>g, <1>i, <1>l, <1>n, <2>1
<1>6. ASSUME NEW p \in Editors, Edits!Finish(p) PROVE EditInv'
  <2> DEFINE j == edit_job[p]
             rest == Edits!Without(j.list, j.done)
  <2>1. /\ j.at = "write" /\ edit_list' = rest
        /\ edit_told' = IF rest = << >> /\ edit_list = << >> THEN edit_told
                        ELSE edit_told \cup (j.done \cap Edits!Ids(j.list))
        /\ edit_job' = [edit_job EXCEPT ![p] = Edits!Idle]
        /\ UNCHANGED <<edit_created, edit_trial, edit_hidden>>
    BY <1>6 DEF Edits!Finish, Edits!Save, Edits!Missing, Edits!trialVars
  <2>2. rest \in Seq(Edit) /\ Edits!Ids(rest) = Edits!Ids(j.list) \ j.done
    BY <1>l, WithoutOf
  <2>3. Edits!Ids(edit_list) = Edits!Ids(j.list)
    BY <1>c, <2>1 DEF Current
  <2>4. Edits!Ids(<< >>) = {}
    BY DEF Edits!Ids
  <2> HIDE DEF rest, j
  <2>5. edit_created' \subseteq edit_told' \cup Edits!Ids(edit_list')
    BY <1>g, <2>1, <2>2, <2>3, <2>4
  <2> QED  BY <1>e, <1>i, <1>n, <2>1, <2>2, <2>5
<1>7. ASSUME NEW p \in Editors, NEW chosen \in {{d} : d \in Drafts} \cup {Drafts}, Edits!Apply(p, chosen)
      PROVE  EditInv'
  <2> DEFINE todo == Edits!Chosen(edit_list, chosen)
  <2>1. PICK at \in {"ask", "write"} :
          edit_job' = [edit_job EXCEPT ![p] = [at |-> at, list |-> edit_list, todo |-> todo, done |-> chosen]]
    BY <1>7, <1>l DEF Edits!Apply
  <2>2. UNCHANGED <<edit_list, edit_created, edit_told, edit_trial, edit_hidden>>
    BY <1>7 DEF Edits!Apply, Edits!trialVars
  <2>3. todo \in Seq(Edit)
    BY <1>l, WithoutOf DEF Edits!Chosen
  <2> HIDE DEF todo
  <2> DEFINE j == [at |-> at, list |-> edit_list, todo |-> todo, done |-> chosen]
  <2>4. j \in JobType /\ Current(j, edit_list)
    BY <1>l, <2>3 DEF Current
  <2> HIDE DEF j
  <2> QED  BY <1>e, <1>g, <1>l, <2>1, <2>2, <2>4 DEF j
<1>8. ASSUME Edits!Tick PROVE EditInv'
  <2>1. UNCHANGED <<edit_list, edit_job, edit_created, edit_told, edit_trial, edit_hidden>>
    BY <1>8 DEF Edits!Tick, Edits!trialVars
  <2> QED  BY <1>0, <1>f, <2>1 DEF EditInv, EditType
<1>t. ASSUME NEW t \in Trials, Edits!TrialStart(t) \/ Edits!TrialJudged(t) \/ Edits!TrialTimesOut(t) \/ Edits!TrialEnd(t)
      PROVE  EditInv'
  <2>1. UNCHANGED <<edit_list, edit_job, edit_created, edit_told>>
    BY <1>t DEF Edits!TrialStart, Edits!TrialJudged, Edits!TrialTimesOut, Edits!TrialEnd, Edits!editVars
  <2>2. edit_hidden # "none" => edit_hidden \in Trials /\ edit_trial[edit_hidden] \in {"running", "judged"}
    BY DEF EditInv
  <2>3. /\ edit_trial' \in [Trials -> {"new", "running", "judged", "over"}]
        /\ edit_hidden' # "none" => edit_hidden' \in Trials /\ edit_trial'[edit_hidden'] \in {"running", "judged"}
    BY <1>0, <1>t, <2>2
       DEF Edits!TrialStart, Edits!TrialJudged, Edits!TrialTimesOut, Edits!TrialEnd, EditType,
              Edits!None
  <2> QED  BY <1>0, <1>g, <1>f, <2>1, <2>3 DEF EditInv, EditType
<1> QED
  BY <1>1, <1>2, <1>3, <1>4, <1>5, <1>6, <1>7, <1>8, <1>t DEF Edits!Next

\* However a search ends, what the user has made is committed, stashed or in the workspace until
\* a detached HEAD was moved, and back there unless git refused a pop or the search was cut off
\* before its pop (tree_search.py:153); a draft that was announced is in the list until it is told of as
\* applied (code_editor.py:244), and no hidden file outlives its trial (phantom.py:234).
\* For one search at a time, a user who waits for it, and one process with drafts that does
\* not end while it writes their list.
THEOREM WorkIsKept ==
    ASSUME ~SearchesMeet, ~WorksOn, ~Tears, \A p, q \in Editors : p = q
    PROVE  Spec => []UserWorkKept
<1>1. Init => SearchInv /\ EditInv
  <2> SUFFICES ASSUME Search!Init, Edits!Init PROVE SearchInv /\ EditInv
    BY DEF Init
  <2>1. SearchType
    <3>1. << >> \in Seq(TreeNodes) /\ << >> \in Seq(Entries)
      OBVIOUS
    <3> QED  BY <3>1 DEF Search!Init, SearchType, SearchPlaces
  <2>2. /\ OneSearch /\ PutAway /\ NothingToStash /\ Untroubled
        /\ tree_made \subseteq tree_head \cup tree_dirty \cup tree_loose \cup Search!Stashed
    BY DEF Search!Init, OneSearch, PutAway, NothingToStash, Untroubled, Search!Closed
  <2>3. EditType
    <3>1. << >> \in Seq(Edit)
      OBVIOUS
    <3> QED  BY <3>1 DEF Edits!Init, EditType, Edits!Missing, Edits!Idle
  <2>4. ReadIsCurrent /\ edit_created = {} /\ edit_hidden = "none"
    BY DEF Edits!Init, ReadIsCurrent, Edits!Idle, Edits!None
  <2> QED  BY <2>1, <2>2, <2>3, <2>4 DEF SearchInv, Kept, EditInv
<1>2. SearchInv /\ EditInv /\ [Next]_vars => SearchInv' /\ EditInv'
  <2> SUFFICES ASSUME SearchInv, EditInv, [Next]_vars PROVE SearchInv' /\ EditInv'
    OBVIOUS
  <2>1. ASSUME UNCHANGED treeVars PROVE SearchInv'
    <3>1. SearchType'
      BY <2>1 DEF treeVars, SearchInv, SearchType
    <3>2. OneSearch' /\ (Anchored' <=> Anchored)
      BY <2>1 DEF treeVars, SearchInv, OneSearch, Anchored, Search!Closed
    <3> SUFFICES ASSUME Kept PROVE Kept'
      BY <3>1, <3>2 DEF SearchInv
    <3>3. /\ PutAway' /\ NothingToStash'
          /\ tree_made' \subseteq tree_head' \cup tree_dirty' \cup tree_loose' \cup Search!Stashed'
      BY <2>1 DEF treeVars, Kept, PutAway, NothingToStash, Search!Closed, Search!Stashed
    <3>4. Untroubled'
      BY <2>1 DEF treeVars, Kept, Untroubled, OwnStash, Held, Search!Closed, Search!Quiet
    <3> QED  BY <3>3, <3>4 DEF Kept
  <2>2. ASSUME UNCHANGED editVars PROVE EditInv'
    <3>1. EditType'
      BY <2>2 DEF editVars, EditInv, EditType
    <3>2. ReadIsCurrent'
      BY <2>2 DEF editVars, EditInv, ReadIsCurrent, Edits!Ids
    <3>3. UNCHANGED <<edit_created, edit_told, edit_hidden, edit_trial, Edits!Ids(edit_list)>>
      BY <2>2 DEF editVars, Edits!Ids
    <3> QED  BY <3>1, <3>2, <3>3 DEF EditInv
  <2>3. CASE SearchSteps
    BY <2>3, SearchStep, <2>2 DEF SearchSteps, Only
  <2>4. CASE EditsSteps
    BY <2>4, EditStep, <2>1 DEF EditsSteps, Only
  <2> QED
    BY <2>1, <2>2, <2>3, <2>4 DEF Next, TurnsSteps, PromptSteps, PastSteps, WorkersSteps, Only, vars
<1>3. SearchInv /\ EditInv => UserWorkKept
  <2> SUFFICES ASSUME SearchInv, EditInv PROVE UserWorkKept
    OBVIOUS
  <2>1. Search!UserWorkKept
    BY DEF SearchInv, Kept, Anchored, Untroubled, Search!UserWorkKept
  <2>2. Edits!DraftsAreKept
    <3>1. Edits!Listed = edit_list
      BY ListOf DEF EditInv, EditType, Edits!Listed
    <3> QED  BY <3>1 DEF EditInv, Edits!DraftsAreKept
  <2>3. Edits!WorkspaceIsClean
    BY DEF EditInv, Edits!WorkspaceIsClean, Edits!None
  <2> QED  BY <2>1, <2>2, <2>3 DEF UserWorkKept
<1> QED  BY <1>1, <1>2, <1>3, PTL DEF Spec

=============================================================================
