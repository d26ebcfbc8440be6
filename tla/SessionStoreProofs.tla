-------------------------- MODULE SessionStoreProofs --------------------------
(***************************************************************************)
(* A session's storage, proved for every bound: whatever fails, the log in *)
(* memory is numbered as it is indexed and every variable keeps its type;  *)
(* and where writes do not fail half way, nothing committed is lost, the   *)
(* session opens again as a transcript wherever the process died, and the  *)
(* whole implements DurableLog.                                            *)
(***************************************************************************)
EXTENDS SessionStore, SequenceTheorems, FiniteSetTheorems, WellFoundedInduction, TLAPS

\* The inductive form of LogIsNumbered: Append and Len say something only of
\* a sequence.
NumberedLog == log \in Seq(Event) /\ LogIsNumbered

\* Appending the event that carries the log's length keeps it numbered
\* (SessionLog.append).
LEMMA AppendNumbered ==
  ASSUME NEW events \in Seq(Event), Contiguous(events),
         NEW kind \in Kind, NEW call \in Call \cup {NoCall}
  PROVE  LET e == EventOf(Len(events), kind, call) IN
         /\ Append(events, e) \in Seq(Event)
         /\ Contiguous(Append(events, e))
         /\ e.seq + 1 = Len(Append(events, e))
<1> DEFINE e == EventOf(Len(events), kind, call)
<1>1. e \in Event /\ e.seq = Len(events)
  BY LenProperties DEF EventOf, Event
<1>2. /\ Append(events, e) \in Seq(Event)
      /\ Len(Append(events, e)) = Len(events) + 1
      /\ \A i \in 1 .. Len(events) : Append(events, e)[i] = events[i]
      /\ Append(events, e)[Len(events) + 1] = e
  BY <1>1, AppendProperties
<1>3. Contiguous(Append(events, e))
  <2> SUFFICES ASSUME NEW i \in DOMAIN Append(events, e)
               PROVE  Append(events, e)[i].seq = i - 1
    BY DEF Contiguous
  <2>1. i \in 1 .. Len(events) + 1 /\ Len(events) \in Nat
    BY <1>2, LenProperties
  <2>2. CASE i = Len(events) + 1
    BY <2>1, <2>2, <1>1, <1>2
  <2>3. CASE i \in 1 .. Len(events)
    BY <2>3, <1>2, LenProperties DEF Contiguous
  <2>4. QED
    BY <2>1, <2>2, <2>3
<1>4. QED
  BY <1>1, <1>2, <1>3

\* Every commit of the event that carries the log's length keeps NumberedLog,
\* whether its line reaches the file or not (_on_event).
LEMMA CommitNumbered ==
  ASSUME NumberedLog, NEW kind \in Kind, NEW call \in Call \cup {NoCall},
         Commit(EventOf(Len(log), kind, call))
  PROVE  NumberedLog'
<1>1. /\ log' = Append(log, EventOf(Len(log), kind, call))
      /\ watermark' = EventOf(Len(log), kind, call).seq + 1
  BY DEF Commit
<1>2. /\ log' \in Seq(Event)
      /\ Contiguous(log')
      /\ watermark' = Len(log')
  BY <1>1, AppendNumbered DEF NumberedLog, LogIsNumbered
<1>3. QED
  BY <1>2 DEF NumberedLog, LogIsNumbered, Contiguous

\* The empty log is numbered.
LEMMA EmptyNumbered ==
  ASSUME log' = <<>>, watermark' = 0
  PROVE  NumberedLog'
BY DEF NumberedLog, LogIsNumbered, Contiguous

\* Every action keeps the log numbered: an append takes the next number, and a
\* load binds only a list that from_events adopts.
THEOREM NumberedLogInvariant == Spec => []NumberedLog
<1>1. Init => NumberedLog
  BY DEF Init, NumberedLog, LogIsNumbered, Contiguous
<1>2. NumberedLog /\ [Next]_vars => NumberedLog'
  <2> SUFFICES ASSUME NumberedLog, [Next]_vars
               PROVE  NumberedLog'
    OBVIOUS
  <2>1. ASSUME log' = log, watermark' = watermark
        PROVE  NumberedLog'
    BY <2>1 DEF NumberedLog, LogIsNumbered, Contiguous
  <2>2. CASE Create
    BY <2>2, EmptyNumbered DEF Create
  <2>3. CASE Crash
    <3>1. Die
      BY <2>3 DEF Crash, Kill, KillInCreate, KillInAppend, KillInClosers, KillInRewrite
    <3>2. QED
      BY <3>1, EmptyNumbered DEF Die
  <2>4. CASE StartTurn
    BY <2>4, CommitNumbered DEF StartTurn, Next_seq, Kind
  <2>5. CASE LogNote
    <3>1. PICK kind \in {"note", "odd"} : Commit(EventOf(Len(log), kind, NoCall))
      BY <2>5 DEF LogNote, Next_seq
    <3>2. QED
      BY <3>1, CommitNumbered DEF Kind
  <2>6. ASSUME NEW c \in Call, LogCall(c) \/ LogResult(c)
        PROVE  NumberedLog'
    <3>1. PICK kind \in {"call", "result"} : Commit(EventOf(Len(log), kind, c))
      BY <2>6 DEF LogCall, LogResult, Next_seq
    <3>2. QED
      BY <3>1, CommitNumbered DEF Kind
  <2>7. CASE EndTurn
    <3>1. CASE Commit(EventOf(Len(log), "end", NoCall))
      BY <3>1, CommitNumbered DEF Kind
    <3>2. CASE UNCHANGED <<log, watermark>>
      BY <3>2, <2>1
    <3>3. QED
      BY <2>7, <3>1, <3>2 DEF EndTurn, Next_seq
  <2>8. CASE Bind
    <3>1. CASE Adoptable(op.events) /\ log' = op.events /\ watermark' = Len(op.events)
      BY <3>1 DEF Adoptable, NumberedLog, LogIsNumbered, Contiguous
    <3>2. CASE UNCHANGED <<log, watermark>>
      BY <3>2, <2>1
    <3>3. QED
      BY <2>8, <3>1, <3>2 DEF Bind
  <2>9. CASE Open \/ Poll \/ Undo \/ TruncateOpen \/ Stop \/ Quiet \/ UNCHANGED vars
    <3>1. log' = log /\ watermark' = watermark
      BY <2>9 DEF Open, Poll, Undo, TruncateOpen, Stop, Quiet, vars
    <3>2. QED
      BY <3>1, <2>1
  <2>10. CASE LoadRead \/ OpenForWriting \/ Fill \/ CheckClosers \/ AppendClosers
    <3>1. log' = log /\ watermark' = watermark
      BY <2>10 DEF LoadRead, OpenForWriting, Fill, CheckClosers, AppendClosers
    <3>2. QED
      BY <3>1, <2>1
  <2>11. QED
    BY <2>2, <2>3, <2>4, <2>5, <2>6, <2>7, <2>8, <2>9, <2>10 DEF Next, LoadStep, TurnStep
<1>3. QED
  BY <1>1, <1>2, PTL DEF Spec

\* No process ever works on a log with a gap, and the persister's watermark
\* is the log's next seq (flush, append_event's contract).
THEOREM LogStaysNumbered == Spec => []LogIsNumbered
<1>1. NumberedLog => LogIsNumbered
  BY DEF NumberedLog
<1>2. QED
  BY <1>1, NumberedLogInvariant, PTL

\* Every set of numbers that is not empty has a least one: what the proofs
\* use in place of induction.
LEMMA LeastNatural ==
  ASSUME NEW S \in SUBSET Nat, S # {}
  PROVE  \E m \in S : \A k \in S : m <= k
<1>1. PICK m \in S : \A k \in S : ~(<<k, m>> \in OpToRel(<, Nat))
  BY NatLessThanWellFounded, WFMin
<1>2. \A k \in S : ~(k < m)
  BY <1>1 DEF OpToRel
<1>3. QED
  BY <1>2

(***************************************************************************)
(* The k-th position of a finite set of positions.                         *)
(***************************************************************************)
Upto(S, i) == {j \in S : j <= i}

\* How many positions come up to one: each number once.
LEMMA RankIsBijective ==
  ASSUME NEW S \in SUBSET Nat, IsFiniteSet(S)
  PROVE  /\ Cardinality(S) \in Nat
         /\ \A i \in S : Cardinality(Upto(S, i)) \in 1 .. Cardinality(S)
         /\ \A i \in S, j \in S : i < j => Cardinality(Upto(S, i)) < Cardinality(Upto(S, j))
         /\ \A k \in 1 .. Cardinality(S) : \E i \in S : Cardinality(Upto(S, i)) = k
<1> DEFINE n == Cardinality(S)
           rank == [i \in S |-> Cardinality(Upto(S, i))]
<1>1. n \in Nat /\ \A i \in S : i \in Nat
  BY FS_CardinalityType
<1>2. ASSUME NEW i \in S
      PROVE  IsFiniteSet(Upto(S, i)) /\ Cardinality(Upto(S, i)) \in 1 .. n
  <2>1. Upto(S, i) \in SUBSET S /\ i \in Upto(S, i)
    BY DEF Upto
  <2>2. IsFiniteSet(Upto(S, i)) /\ Cardinality(Upto(S, i)) <= n
    BY <2>1, FS_Subset
  <2>3. Cardinality(Upto(S, i)) \in Nat /\ Cardinality(Upto(S, i)) # 0
    BY <2>1, <2>2, FS_CardinalityType, FS_EmptySet
  <2>4. QED
    BY <1>1, <2>2, <2>3
<1>3. ASSUME NEW i \in S, NEW j \in S, i < j
      PROVE  Cardinality(Upto(S, i)) < Cardinality(Upto(S, j))
  <2>1. Upto(S, i) \in SUBSET Upto(S, j) /\ j \in Upto(S, j) /\ j \notin Upto(S, i)
    <3>1. \A l \in S : l <= i => l <= j
      BY <1>1, <1>3
    <3>2. ~(j <= i) /\ j <= j
      BY <1>1, <1>3
    <3>3. QED
      BY <3>1, <3>2 DEF Upto
  <2>2. /\ Cardinality(Upto(S, i)) <= Cardinality(Upto(S, j))
        /\ Cardinality(Upto(S, j)) = Cardinality(Upto(S, i)) => Upto(S, j) = Upto(S, i)
    BY <1>2, <2>1, FS_Subset
  <2>3. Cardinality(Upto(S, j)) # Cardinality(Upto(S, i))
    BY <2>1, <2>2
  <2>4. QED
    BY <1>1, <1>2, <2>2, <2>3
<1>4. rank \in Injection(S, 1 .. n)
  <2>1. rank \in [S -> 1 .. n]
    BY <1>2
  <2>2. ASSUME NEW i \in S, NEW j \in S, rank[i] = rank[j] PROVE i = j
    <3>1. ~(i < j) /\ ~(j < i)
      BY <1>1, <1>2, <1>3, <2>2
    <3>2. QED
      BY <3>1
  <2>3. QED
    BY <2>1, <2>2 DEF Injection, IsInjective
<1>5. IsFiniteSet(1 .. n) /\ Cardinality(1 .. n) = n
  BY <1>1, FS_Interval
<1>6. rank \in Surjection(S, 1 .. n)
  BY <1>4, <1>5, FS_Injection
<1>7. \A k \in 1 .. n : \E i \in S : rank[i] = k
  BY <1>6 DEF Surjection
<1>8. QED
  BY <1>1, <1>2, <1>3, <1>7

\* Nth finds the element of every rank.
LEMMA NthIsThere ==
  ASSUME NEW S \in SUBSET Nat, IsFiniteSet(S), NEW k \in 1 .. Cardinality(S)
  PROVE  Nth(S, k) \in S /\ Cardinality(Upto(S, Nth(S, k))) = k
<1>1. \E i \in S : Cardinality(Upto(S, i)) = k
  BY RankIsBijective
<1>2. Nth(S, k) = CHOOSE i \in S : Cardinality(Upto(S, i)) = k
  BY DEF Nth, Upto
<1>3. QED
  BY <1>1, <1>2

\* No two elements have the same rank.
LEMMA SameRank ==
  ASSUME NEW S \in SUBSET Nat, IsFiniteSet(S), NEW i \in S, NEW j \in S,
         Cardinality(Upto(S, i)) = Cardinality(Upto(S, j))
  PROVE  i = j
<1>1. i \in Nat /\ j \in Nat /\ Cardinality(S) \in Nat
  BY RankIsBijective
<1>2. Cardinality(Upto(S, i)) \in Nat
  BY <1>1, RankIsBijective
<1>3. ~(i < j)
  BY <1>2, RankIsBijective
<1>4. ~(j < i)
  BY <1>2, RankIsBijective
<1>5. QED
  BY <1>1, <1>3, <1>4

\* Nth lists a set of positions in ascending order.
LEMMA NthAscends ==
  ASSUME NEW S \in SUBSET Nat, IsFiniteSet(S),
         NEW k \in 1 .. Cardinality(S), NEW m \in 1 .. Cardinality(S), k < m
  PROVE  Nth(S, k) < Nth(S, m)
<1> DEFINE i == Nth(S, k)
           j == Nth(S, m)
<1>1. i \in S /\ j \in S /\ Cardinality(Upto(S, i)) = k /\ Cardinality(Upto(S, j)) = m
  BY NthIsThere
<1> HIDE DEF i, j
<1>2. Cardinality(S) \in Nat /\ k \in Nat /\ m \in Nat /\ i \in Nat /\ j \in Nat
  <2>1. Cardinality(S) \in Nat
    BY RankIsBijective
  <2>2. \A l \in S : l \in Nat
    OBVIOUS
  <2>3. QED
    BY <1>1, <2>1, <2>2
<1>3. j < i => m < k
  BY <1>1, RankIsBijective
<1>4. i # j /\ ~(j < i)
  BY <1>1, <1>2, <1>3
<1>5. i < j
  BY <1>2, <1>4
<1>6. QED
  BY <1>5 DEF i, j

\* Nth misses none of them.
LEMMA NthIsAll ==
  ASSUME NEW S \in SUBSET Nat, IsFiniteSet(S), NEW i \in S
  PROVE  \E k \in 1 .. Cardinality(S) : Nth(S, k) = i
<1>1. PICK k \in 1 .. Cardinality(S) : Cardinality(Upto(S, i)) = k
  BY RankIsBijective
<1>2. Nth(S, k) \in S /\ Cardinality(Upto(S, Nth(S, k))) = k
  BY NthIsThere
<1>3. i = Nth(S, k)
  BY <1>1, <1>2, SameRank
<1>4. QED
  BY <1>3

\* Positions listed in ascending order are listed as Nth lists them.
LEMMA NthIsTheList ==
  ASSUME NEW S \in SUBSET Nat, NEW m \in Nat, NEW f \in [1 .. m -> S],
         \A k \in 1 .. m, l \in 1 .. m : k < l => f[k] < f[l],
         \A i \in S : \E k \in 1 .. m : f[k] = i
  PROVE  /\ IsFiniteSet(S) /\ Cardinality(S) = m
         /\ \A k \in 1 .. m : Nth(S, k) = f[k]
<1>0. \A k \in 1 .. m : f[k] \in S /\ f[k] \in Nat /\ k \in Nat
  <2>1. \A i \in S : i \in Nat
    OBVIOUS
  <2>2. \A k \in 1 .. m : f[k] \in S /\ k \in Nat
    OBVIOUS
  <2>3. QED
    BY <2>1, <2>2
<1>1. ASSUME NEW k \in 1 .. m, NEW l \in 1 .. m, f[k] = f[l] PROVE k = l
  <2>1. ~(k < l)
    <3>1. k < l => f[k] < f[l]
      OBVIOUS
    <3>2. QED
      BY <1>0, <1>1, <3>1
  <2>2. ~(l < k)
    <3>1. l < k => f[l] < f[k]
      OBVIOUS
    <3>2. QED
      BY <1>0, <1>1, <3>1
  <2>3. QED
    BY <1>0, <2>1, <2>2
<1>2. f \in Bijection(1 .. m, S)
  BY <1>1 DEF Bijection, Injection, IsInjective, Surjection
<1>3. IsFiniteSet(1 .. m) /\ Cardinality(1 .. m) = m
  BY FS_Interval
<1>4. IsFiniteSet(S) /\ Cardinality(S) = m
  BY <1>2, <1>3, FS_Bijection DEF ExistsBijection
<1>5. ASSUME NEW k \in 1 .. m PROVE Nth(S, k) = f[k]
  <2>1. Cardinality(Upto(S, f[k])) = k
    <3> DEFINE g == [l \in 1 .. k |-> f[l]]
    <3>1. \A l \in 1 .. k : l \in 1 .. m /\ f[l] \in Upto(S, f[k])
      <4> TAKE l \in 1 .. k
      <4>1. l \in 1 .. m /\ (l < k \/ l = k)
        OBVIOUS
      <4>2. f[l] < f[k] \/ f[l] = f[k]
        BY <4>1
      <4>3. f[l] <= f[k]
        BY <1>0, <4>1, <4>2
      <4>4. QED
        BY <1>0, <4>1, <4>3 DEF Upto
    <3>2. ASSUME NEW i \in Upto(S, f[k]) PROVE \E l \in 1 .. k : g[l] = i
      <4>1. PICK l \in 1 .. m : f[l] = i
        BY DEF Upto
      <4>2. ~(k < l)
        <5>1. k < l => f[k] < i
          BY <4>1
        <5>2. i <= f[k] /\ i \in Nat
          BY DEF Upto
        <5>3. QED
          BY <1>0, <5>1, <5>2
      <4>3. l \in 1 .. k
        BY <1>0, <4>2
      <4>4. QED
        BY <4>1, <4>3
    <3>3. g \in Bijection(1 .. k, Upto(S, f[k]))
      BY <1>1, <3>1, <3>2 DEF Bijection, Injection, IsInjective, Surjection
    <3>4. IsFiniteSet(1 .. k) /\ Cardinality(1 .. k) = k
      BY FS_Interval
    <3>5. QED
      BY <3>3, <3>4, FS_Bijection DEF ExistsBijection
  <2>2. Nth(S, k) \in S /\ Cardinality(Upto(S, Nth(S, k))) = k
    BY <1>4, NthIsThere
  <2>3. f[k] \in S /\ Cardinality(Upto(S, Nth(S, k))) = Cardinality(Upto(S, f[k]))
    BY <1>0, <2>1, <2>2
  <2>4. \A i \in S, j \in S : Cardinality(Upto(S, i)) = Cardinality(Upto(S, j)) => i = j
    BY <1>4, SameRank
  <2>5. QED
    BY <2>2, <2>3, <2>4
<1>6. QED
  BY <1>4, <1>5

\* What is chosen from a list of V is a list of V.
LEMMA ChosenType ==
  ASSUME NEW V, NEW events \in Seq(V), NEW S \in SUBSET DOMAIN events
  PROVE  Chosen(events, S) \in Seq(V)
<1>1. DOMAIN events = 1 .. Len(events) /\ Len(events) \in Nat /\ \A i \in 1 .. Len(events) : events[i] \in V
  BY LenProperties
<1>2. IsFiniteSet(S) /\ S \in SUBSET Nat
  <2>1. IsFiniteSet(1 .. Len(events))
    BY <1>1, FS_Interval
  <2>2. QED
    BY <1>1, <2>1, FS_Subset
<1>3. Cardinality(S) \in Nat
  BY <1>2, FS_CardinalityType
<1>4. \A k \in 1 .. Cardinality(S) : events[Nth(S, k)] \in V
  BY <1>1, <1>2, NthIsThere
<1>5. QED
  BY <1>3, <1>4, IsASeq DEF Chosen

(***************************************************************************)
(* A sound log: numbered, made of turns, every answer to a call of its     *)
(* turn, every turn that ended with its calls answered, and no end of a    *)
(* turn by repair that a live turn went over.                              *)
(***************************************************************************)
NoEnd(h, i, j) == \A k \in i .. j : h[k].kind # "end"

InTurns(h) ==
  \A i \in DOMAIN h : h[i].kind # "start" =>
    \E s \in 1 .. i - 1 : h[s].kind = "start" /\ NoEnd(h, s, i - 1)

TurnsEnd(h) ==
  \A i \in DOMAIN h, s \in DOMAIN h :
    h[i].kind = "start" /\ h[s].kind = "start" /\ s < i => ~NoEnd(h, s, i)

RepairsStand(h) ==
  \A i \in DOMAIN h :
    i < Len(h) /\ h[i].synthetic /\ h[i].kind = "end" => h[i + 1].kind = "start"

Once(h) ==
  \A i \in DOMAIN h, j \in DOMAIN h :
    h[i].kind \in {"call", "result"} /\ h[i].kind = h[j].kind /\ h[i].call = h[j].call => i = j

Asked(h) ==
  \A j \in DOMAIN h : h[j].kind = "result" =>
    \E i \in 1 .. j - 1 : h[i].kind = "call" /\ h[i].call = h[j].call /\ NoEnd(h, i, j)

Answered(h) ==
  \A i \in DOMAIN h, e \in DOMAIN h :
    h[i].kind = "call" /\ h[e].kind = "end" /\ i < e =>
      \E j \in i + 1 .. e - 1 : h[j].kind = "result" /\ h[j].call = h[i].call

Good(h) ==
  /\ h \in Seq(Event)
  /\ Contiguous(h)
  /\ \A i \in DOMAIN h : Parses(h[i])
  /\ InTurns(h) /\ TurnsEnd(h) /\ RepairsStand(h)
  /\ Once(h) /\ Asked(h) /\ Answered(h)

\* The event that may come next.
Fits(h, e) ==
  /\ e \in Event /\ e.seq = Len(h) /\ Parses(e)
  /\ e.kind = "start" <=> ~TurnOpen(h)
  /\ e.kind = "call" => \A i \in DOMAIN h : h[i].call # e.call
  /\ e.kind = "result" => \E i \in OpenCalls(h) : h[i].call = e.call
  /\ e.kind = "end" => OpenCalls(h) = {}

\* The type of a list of events, position by position.
LEMMA LogFacts ==
  ASSUME NEW h \in Seq(Event)
  PROVE  /\ Len(h) \in Nat /\ DOMAIN h = 1 .. Len(h)
         /\ \A i \in 1 .. Len(h) :
              /\ h[i] \in Event
              /\ h[i].kind \in Kind /\ h[i].seq \in Nat /\ h[i].synthetic \in BOOLEAN
<1>1. Len(h) \in Nat /\ DOMAIN h = 1 .. Len(h) /\ \A i \in 1 .. Len(h) : h[i] \in Event
  BY LenProperties
<1>2. QED
  BY <1>1 DEF Event

\* An append, position by position.
LEMMA Grown ==
  ASSUME NEW h \in Seq(Event), NEW e \in Event
  PROVE  /\ Append(h, e) \in Seq(Event)
         /\ Len(Append(h, e)) = Len(h) + 1 /\ Len(h) \in Nat
         /\ DOMAIN Append(h, e) = 1 .. Len(h) + 1 /\ DOMAIN h = 1 .. Len(h)
         /\ \A i \in 1 .. Len(h) : Append(h, e)[i] = h[i]
         /\ Append(h, e)[Len(h) + 1] = e
         /\ \A i \in 1 .. Len(h) + 1 : i \in 1 .. Len(h) \/ i = Len(h) + 1
<1>1. /\ Append(h, e) \in Seq(Event) /\ Len(Append(h, e)) = Len(h) + 1
      /\ \A i \in 1 .. Len(h) : Append(h, e)[i] = h[i]
      /\ Append(h, e)[Len(h) + 1] = e
  BY AppendProperties
<1>2. Len(h) \in Nat /\ DOMAIN h = 1 .. Len(h)
  BY LenProperties
<1>3. DOMAIN Append(h, e) = 1 .. Len(h) + 1
  BY <1>1, LenProperties
<1>4. QED
  BY <1>1, <1>2, <1>3

\* An append changes nothing about the ends before it.
LEMMA NoEndStays ==
  ASSUME NEW h \in Seq(Event), NEW e \in Event, NEW i \in 1 .. Len(h) + 1, NEW j \in 0 .. Len(h)
  PROVE  NoEnd(Append(h, e), i, j) <=> NoEnd(h, i, j)
<1>1. \A k \in i .. j : k \in 1 .. Len(h)
  BY LenProperties
<1>2. \A k \in i .. j : Append(h, e)[k] = h[k]
  BY <1>1, Grown
<1>3. QED
  BY <1>2 DEF NoEnd

\* A turn is open if a start has no end behind it.
LEMMA OpenBy ==
  ASSUME NEW h \in Seq(Event)
  PROVE  TurnOpen(h) <=> \E s \in 1 .. Len(h) : h[s].kind = "start" /\ NoEnd(h, s, Len(h))
<1>1. Len(h) \in Nat /\ DOMAIN h = 1 .. Len(h)
  BY LogFacts
<1>2. ASSUME NEW s \in 1 .. Len(h), h[s].kind = "start"
      PROVE  NoEnd(h, s, Len(h)) <=> \A j \in s + 1 .. Len(h) : h[j].kind # "end"
  <2>1. h[s].kind # "end"
    BY <1>2
  <2>2. \A k \in s .. Len(h) : k = s \/ k \in s + 1 .. Len(h)
    BY <1>1
  <2>3. \A k \in s + 1 .. Len(h) : k \in s .. Len(h)
    BY <1>1
  <2>4. QED
    BY <2>1, <2>2, <2>3 DEF NoEnd
<1>3. QED
  BY <1>1, <1>2 DEF TurnOpen

\* How one more event changes whether a turn is open.
LEMMA AppendTurn ==
  ASSUME NEW h \in Seq(Event), NEW e \in Event
  PROVE  TurnOpen(Append(h, e)) <=> e.kind = "start" \/ (TurnOpen(h) /\ e.kind # "end")
<1> DEFINE g == Append(h, e)
           N == Len(h)
<1>1. /\ N \in Nat /\ g \in Seq(Event) /\ Len(g) = N + 1
      /\ \A i \in 1 .. N : g[i] = h[i]
      /\ g[N + 1] = e
  BY Grown
<1>2. ASSUME NEW s \in 1 .. N
      PROVE  NoEnd(g, s, N + 1) <=> NoEnd(h, s, N) /\ e.kind # "end"
  <2>1. NoEnd(g, s, N) <=> NoEnd(h, s, N)
    BY <1>1, NoEndStays
  <2>2. NoEnd(g, s, N + 1) <=> NoEnd(g, s, N) /\ e.kind # "end"
    <3>1. \A k \in s .. N + 1 : k \in s .. N \/ k = N + 1
      BY <1>1
    <3>2. N + 1 \in s .. N + 1 /\ \A k \in s .. N : k \in s .. N + 1
      BY <1>1
    <3>3. QED
      BY <1>1, <3>1, <3>2 DEF NoEnd
  <2>3. QED
    BY <2>1, <2>2
<1>3. e.kind = "start" => NoEnd(g, N + 1, N + 1)
  <2>1. \A k \in N + 1 .. N + 1 : k = N + 1
    BY <1>1
  <2>2. QED
    BY <1>1, <2>1 DEF NoEnd
<1>4. TurnOpen(g) <=> \E s \in 1 .. N + 1 : g[s].kind = "start" /\ NoEnd(g, s, N + 1)
  BY <1>1, OpenBy
<1>5. TurnOpen(h) <=> \E s \in 1 .. N : h[s].kind = "start" /\ NoEnd(h, s, N)
  BY OpenBy
<1>6. \A s \in 1 .. N + 1 : s \in 1 .. N \/ s = N + 1
  BY <1>1
<1>7. N + 1 \in 1 .. N + 1 /\ \A s \in 1 .. N : s \in 1 .. N + 1
  BY <1>1
<1> HIDE DEF g, N
<1>8. TurnOpen(g) => e.kind = "start" \/ (TurnOpen(h) /\ e.kind # "end")
  BY <1>1, <1>2, <1>4, <1>5, <1>6
<1>9. e.kind = "start" \/ (TurnOpen(h) /\ e.kind # "end") => TurnOpen(g)
  BY <1>1, <1>2, <1>3, <1>4, <1>5, <1>7
<1>10. QED
  BY <1>8, <1>9 DEF g

\* How one more event changes which calls wait for a result.
LEMMA AppendOpen ==
  ASSUME NEW h \in Seq(Event), NEW e \in Event
  PROVE  OpenCalls(Append(h, e)) =
           (IF e.kind = "end" THEN {}
            ELSE {i \in OpenCalls(h) : e.kind = "result" => e.call # h[i].call})
           \cup (IF e.kind = "call" THEN {Len(h) + 1} ELSE {})
<1> DEFINE g == Append(h, e)
           N == Len(h)
           Waits(i) == e.kind # "end" /\ (e.kind = "result" => e.call # h[i].call)
<1>1. /\ N \in Nat /\ g \in Seq(Event) /\ Len(g) = N + 1
      /\ DOMAIN g = 1 .. N + 1 /\ DOMAIN h = 1 .. N
      /\ \A i \in 1 .. N : g[i] = h[i]
      /\ g[N + 1] = e
  BY Grown
<1>2. ASSUME NEW i \in 1 .. N PROVE i \in OpenCalls(g) <=> i \in OpenCalls(h) /\ Waits(i)
  <2>1. \A j \in i + 1 .. N + 1 : j \in i + 1 .. N \/ j = N + 1
    BY <1>1
  <2>2. /\ N + 1 \in i + 1 .. N + 1
        /\ \A j \in i + 1 .. N : j \in i + 1 .. N + 1 /\ g[j] = h[j]
    BY <1>1
  <2>3. i \in 1 .. N + 1
    BY <1>1
  <2> HIDE DEF g, N
  <2>4. i \in OpenCalls(h) /\ Waits(i) => i \in OpenCalls(g)
    <3> SUFFICES ASSUME i \in OpenCalls(h), Waits(i) PROVE i \in OpenCalls(g)
      OBVIOUS
    <3>1. ASSUME NEW j \in i + 1 .. N + 1
          PROVE  g[j].kind # "end" /\ (g[j].kind = "result" => g[j].call # g[i].call)
      <4>1. CASE j \in i + 1 .. N
        BY <1>1, <2>2, <4>1 DEF OpenCalls, N
      <4>2. CASE j = N + 1
        BY <1>1, <4>2
      <4>3. QED
        BY <2>1, <4>1, <4>2
    <3>2. g[i].kind = "call"
      BY <1>1 DEF OpenCalls
    <3>3. QED
      BY <1>1, <2>3, <3>1, <3>2 DEF OpenCalls
  <2>5. i \in OpenCalls(g) => i \in OpenCalls(h) /\ Waits(i)
    <3> SUFFICES ASSUME i \in OpenCalls(g) PROVE i \in OpenCalls(h) /\ Waits(i)
      OBVIOUS
    <3>1. /\ g[i].kind = "call"
          /\ \A j \in i + 1 .. N + 1 :
               g[j].kind # "end" /\ (g[j].kind = "result" => g[j].call # g[i].call)
      BY <1>1 DEF OpenCalls
    <3>2. Waits(i)
      BY <1>1, <2>2, <3>1
    <3>3. i \in OpenCalls(h)
      BY <1>1, <2>2, <3>1 DEF OpenCalls, N
    <3>4. QED
      BY <3>2, <3>3
  <2>6. QED
    BY <2>4, <2>5
<1>3. N + 1 \in OpenCalls(g) <=> e.kind = "call"
  <2>1. (N + 1) + 1 .. N + 1 = {}
    BY <1>1
  <2>2. N + 1 \in 1 .. N + 1
    BY <1>1
  <2>3. QED
    BY <1>1, <2>1, <2>2 DEF OpenCalls
<1>4. OpenCalls(g) \subseteq 1 .. N + 1 /\ OpenCalls(h) \subseteq 1 .. N
  BY <1>1 DEF OpenCalls
<1>5. \A i \in 1 .. N + 1 : i \in 1 .. N \/ i = N + 1
  BY <1>1
<1>6. N + 1 \notin 1 .. N
  BY <1>1
<1> HIDE DEF g, N
<1>7. OpenCalls(g) =
           (IF e.kind = "end" THEN {}
            ELSE {i \in OpenCalls(h) : e.kind = "result" => e.call # h[i].call})
           \cup (IF e.kind = "call" THEN {N + 1} ELSE {})
  BY <1>2, <1>3, <1>4, <1>5, <1>6
<1>8. QED
  BY <1>7 DEF g, N

\* After an end no turn is open.
LEMMA EndCloses ==
  ASSUME NEW h \in Seq(Event), Len(h) > 0, h[Len(h)].kind = "end"
  PROVE  ~TurnOpen(h)
<1>1. Len(h) \in Nat
  BY LogFacts
<1>2. \A s \in 1 .. Len(h) : Len(h) \in s .. Len(h)
  BY <1>1
<1>3. QED
  BY <1>2, OpenBy DEF NoEnd

\* A sound log stays sound by an event that fits.
LEMMA AppendGood ==
  ASSUME NEW h, Good(h), NEW e, Fits(h, e)
  PROVE  Good(Append(h, e))
<1> DEFINE g == Append(h, e)
           N == Len(h)
<1>0. /\ h \in Seq(Event) /\ e \in Event
      /\ InTurns(h) /\ TurnsEnd(h) /\ RepairsStand(h) /\ Once(h) /\ Asked(h) /\ Answered(h)
  BY DEF Good, Fits
<1>1. /\ N \in Nat /\ g \in Seq(Event) /\ Len(g) = N + 1
      /\ DOMAIN g = 1 .. N + 1 /\ DOMAIN h = 1 .. N
      /\ \A i \in 1 .. N : g[i] = h[i]
      /\ g[N + 1] = e
      /\ \A i \in 1 .. N + 1 : i \in 1 .. N \/ i = N + 1
  BY <1>0, Grown
<1>2. \A i \in 1 .. N + 1, j \in 0 .. N : NoEnd(g, i, j) <=> NoEnd(h, i, j)
  BY <1>0, NoEndStays
<1>3. TurnOpen(h) <=> \E s \in 1 .. N : h[s].kind = "start" /\ NoEnd(h, s, N)
  BY <1>0, OpenBy
<1>4. /\ e.kind = "start" <=> ~TurnOpen(h)
      /\ e.kind = "call" => \A i \in 1 .. N : h[i].call # e.call
      /\ e.kind = "result" => \E i \in OpenCalls(h) : h[i].call = e.call
      /\ e.kind = "end" => OpenCalls(h) = {}
      /\ e.seq = N /\ Parses(e)
  BY <1>1 DEF Fits
<1>5. /\ \A i \in 1 .. N : h[i].seq = i - 1
      /\ \A i \in 1 .. N : Parses(h[i])
  BY <1>1 DEF Good, Contiguous
<1>6. Contiguous(g) /\ \A i \in DOMAIN g : Parses(g[i])
  <2>1. ASSUME NEW i \in 1 .. N + 1 PROVE g[i].seq = i - 1 /\ Parses(g[i])
    <3>1. CASE i \in 1 .. N
      BY <1>1, <1>5, <3>1
    <3>2. CASE i = N + 1
      BY <1>1, <1>4, <3>2
    <3>3. QED
      BY <1>1, <3>1, <3>2
  <2>2. QED
    BY <1>1, <2>1 DEF Contiguous
<1>7. \A i \in OpenCalls(h) :
        /\ i \in 1 .. N /\ h[i].kind = "call"
        /\ \A j \in i + 1 .. N : h[j].kind # "end" /\ (h[j].kind = "result" => h[j].call # h[i].call)
  BY <1>1 DEF OpenCalls
<1> HIDE DEF g, N
<1>8. InTurns(g)
  <2> SUFFICES ASSUME NEW i \in 1 .. N + 1, g[i].kind # "start"
               PROVE  \E s \in 1 .. i - 1 : g[s].kind = "start" /\ NoEnd(g, s, i - 1)
    BY <1>1 DEF InTurns
  <2>1. \E s \in 1 .. i - 1 : h[s].kind = "start" /\ NoEnd(h, s, i - 1)
    <3>1. CASE i \in 1 .. N
      BY <1>0, <1>1, <3>1 DEF InTurns
    <3>2. CASE i = N + 1
      <4>1. i - 1 = N /\ TurnOpen(h)
        BY <1>1, <1>4, <3>2
      <4>2. QED
        BY <1>3, <4>1
    <3>3. QED
      BY <1>1, <3>1, <3>2
  <2>2. PICK s \in 1 .. i - 1 : h[s].kind = "start" /\ NoEnd(h, s, i - 1)
    BY <2>1
  <2>3. s \in 1 .. N /\ s \in 1 .. N + 1 /\ i - 1 \in 0 .. N
    BY <1>1
  <2>4. QED
    BY <1>1, <1>2, <2>2, <2>3
<1>9. TurnsEnd(g)
  <2> SUFFICES ASSUME NEW i \in 1 .. N + 1, NEW s \in 1 .. N + 1, s < i,
                      g[i].kind = "start", g[s].kind = "start"
               PROVE  ~NoEnd(g, s, i)
    BY <1>1 DEF TurnsEnd
  <2>1. s \in 1 .. N /\ h[s].kind = "start"
    BY <1>1
  <2>2. CASE i \in 1 .. N
    <3>1. ~NoEnd(h, s, i)
      BY <1>0, <1>1, <2>1, <2>2 DEF TurnsEnd
    <3>2. i \in 0 .. N
      BY <1>1, <2>2
    <3>3. QED
      BY <1>2, <3>1, <3>2
  <2>3. CASE i = N + 1
    <3>1. ~TurnOpen(h)
      BY <1>1, <1>4, <2>3
    <3>2. ~NoEnd(h, s, N)
      BY <1>3, <2>1, <3>1
    <3>3. PICK k \in s .. N : h[k].kind = "end"
      BY <3>2 DEF NoEnd
    <3>4. k \in 1 .. N /\ k \in s .. i
      BY <1>1, <2>1, <2>3
    <3>5. QED
      BY <1>1, <3>3, <3>4 DEF NoEnd
  <2>4. QED
    BY <1>1, <2>2, <2>3
<1>10. RepairsStand(g)
  <2> SUFFICES ASSUME NEW i \in 1 .. N + 1, i < N + 1, g[i].synthetic, g[i].kind = "end"
               PROVE  g[i + 1].kind = "start"
    BY <1>1 DEF RepairsStand
  <2>1. i \in 1 .. N /\ h[i].synthetic /\ h[i].kind = "end"
    BY <1>1
  <2>2. CASE i < N
    <3>1. h[i + 1].kind = "start"
      BY <1>0, <1>1, <2>1, <2>2 DEF RepairsStand, N
    <3>2. i + 1 \in 1 .. N
      BY <1>1, <2>1, <2>2
    <3>3. QED
      BY <1>1, <3>1, <3>2
  <2>3. CASE i = N
    <3>1. N > 0 /\ h[N].kind = "end"
      BY <1>1, <2>1, <2>3
    <3>2. ~TurnOpen(h)
      BY <1>0, <3>1, EndCloses DEF N
    <3>3. QED
      BY <1>1, <1>4, <2>3, <3>2
  <2>4. QED
    BY <1>1, <2>1, <2>2, <2>3
<1>11. \A i \in 1 .. N : g[i].kind \in {"call", "result"} /\ g[i].kind = e.kind => g[i].call # e.call
  <2> SUFFICES ASSUME NEW i \in 1 .. N, h[i].kind \in {"call", "result"}, h[i].kind = e.kind,
                      h[i].call = e.call
               PROVE  FALSE
    BY <1>1
  <2>1. CASE e.kind = "call"
    BY <1>4, <2>1
  <2>2. CASE e.kind = "result"
    <3>1. PICK o \in OpenCalls(h) : h[o].call = e.call
      BY <1>4, <2>2
    <3>2. PICK c \in 1 .. i - 1 : h[c].kind = "call" /\ h[c].call = h[i].call
      BY <1>0, <1>1, <2>2 DEF Asked
    <3>3. c \in 1 .. N /\ o \in 1 .. N /\ h[o].kind = "call"
      BY <1>1, <1>7
    <3>4. c = o
      BY <1>0, <1>1, <3>1, <3>2, <3>3 DEF Once
    <3>5. i \in o + 1 .. N
      BY <1>1, <3>2, <3>3, <3>4
    <3>6. QED
      BY <1>7, <2>2, <3>1, <3>5
  <2>3. QED
    BY <2>1, <2>2
<1>12. Once(g)
  <2> SUFFICES ASSUME NEW i \in 1 .. N + 1, NEW j \in 1 .. N + 1,
                      g[i].kind \in {"call", "result"}, g[i].kind = g[j].kind, g[i].call = g[j].call
               PROVE  i = j
    BY <1>1 DEF Once
  <2>1. CASE i \in 1 .. N /\ j \in 1 .. N
    BY <1>0, <1>1, <2>1 DEF Once
  <2>2. CASE i = N + 1 /\ j \in 1 .. N
    BY <1>1, <1>11, <2>2
  <2>3. CASE i \in 1 .. N /\ j = N + 1
    BY <1>1, <1>11, <2>3
  <2>4. QED
    BY <1>1, <2>1, <2>2, <2>3
<1>13. Asked(g)
  <2> SUFFICES ASSUME NEW j \in 1 .. N + 1, g[j].kind = "result"
               PROVE  \E i \in 1 .. j - 1 : g[i].kind = "call" /\ g[i].call = g[j].call /\ NoEnd(g, i, j)
    BY <1>1 DEF Asked
  <2>1. CASE j \in 1 .. N
    <3>1. PICK i \in 1 .. j - 1 : h[i].kind = "call" /\ h[i].call = h[j].call /\ NoEnd(h, i, j)
      BY <1>0, <1>1, <2>1 DEF Asked
    <3>2. i \in 1 .. N /\ i \in 1 .. N + 1 /\ j \in 0 .. N
      BY <1>1, <2>1
    <3>3. QED
      BY <1>1, <1>2, <2>1, <3>1, <3>2
  <2>2. CASE j = N + 1
    <3>1. e.kind = "result"
      BY <1>1, <2>2
    <3>2. PICK i \in OpenCalls(h) : h[i].call = e.call
      BY <1>4, <3>1
    <3>3. /\ i \in 1 .. N /\ h[i].kind = "call"
          /\ \A k \in i + 1 .. N : h[k].kind # "end"
      BY <1>7
    <3>4. \A k \in i .. N + 1 : k = i \/ k \in i + 1 .. N \/ k = N + 1
      BY <1>1, <3>3
    <3>5. \A k \in i + 1 .. N : k \in 1 .. N
      BY <1>1, <3>3
    <3>6. NoEnd(g, i, N + 1)
      <4> SUFFICES ASSUME NEW k \in i .. N + 1 PROVE g[k].kind # "end"
        BY DEF NoEnd
      <4>1. CASE k = i
        BY <1>1, <3>3, <4>1
      <4>2. CASE k \in i + 1 .. N
        BY <1>1, <3>3, <3>5, <4>2
      <4>3. CASE k = N + 1
        BY <1>1, <3>1, <4>3
      <4>4. QED
        BY <3>4, <4>1, <4>2, <4>3
    <3>7. i \in 1 .. j - 1 /\ g[i] = h[i] /\ g[j] = e
      BY <1>1, <2>2, <3>3
    <3>8. QED
      BY <2>2, <3>2, <3>3, <3>6, <3>7
  <2>3. QED
    BY <1>1, <2>1, <2>2
<1>14. Answered(g)
  <2> SUFFICES ASSUME NEW i \in 1 .. N + 1, NEW f \in 1 .. N + 1,
                      g[i].kind = "call", g[f].kind = "end", i < f
               PROVE  \E j \in i + 1 .. f - 1 : g[j].kind = "result" /\ g[j].call = g[i].call
    BY <1>1 DEF Answered
  <2>1. i \in 1 .. N /\ h[i].kind = "call"
    BY <1>1
  <2>2. \E j \in i + 1 .. f - 1 : h[j].kind = "result" /\ h[j].call = h[i].call
    <3>1. CASE f \in 1 .. N
      BY <1>0, <1>1, <2>1, <3>1 DEF Answered
    <3>2. CASE f = N + 1
      <4>1. i \notin OpenCalls(h)
        BY <1>1, <1>4, <3>2
      <4>2. PICK j \in i + 1 .. N :
              h[j].kind = "end" \/ (h[j].kind = "result" /\ h[j].call = h[i].call)
        BY <1>1, <2>1, <4>1 DEF OpenCalls, N
      <4>3. j \in 1 .. N /\ i < j /\ i + 1 .. f - 1 = i + 1 .. N
        BY <1>1, <2>1, <3>2
      <4>4. CASE h[j].kind = "end"
        <5>1. PICK l \in i + 1 .. j - 1 : h[l].kind = "result" /\ h[l].call = h[i].call
          BY <1>0, <1>1, <2>1, <4>3, <4>4 DEF Answered
        <5>2. l \in i + 1 .. N
          BY <1>1, <2>1, <4>3
        <5>3. QED
          BY <4>3, <5>1, <5>2
      <4>5. QED
        BY <4>2, <4>3, <4>4
    <3>3. QED
      BY <1>1, <3>1, <3>2
  <2>3. \A j \in i + 1 .. f - 1 : j \in 1 .. N
    BY <1>1, <2>1
  <2>4. QED
    BY <1>1, <2>1, <2>2, <2>3
<1>15. Good(g)
  BY <1>1, <1>6, <1>8, <1>9, <1>10, <1>12, <1>13, <1>14 DEF Good
<1>16. QED
  BY <1>15 DEF g

\* The first n events, position by position.
LEMMA CutFacts ==
  ASSUME NEW h \in Seq(Event), NEW n \in 0 .. Len(h)
  PROVE  /\ SubSeq(h, 1, n) \in Seq(Event)
         /\ Len(SubSeq(h, 1, n)) = n /\ n \in Nat
         /\ DOMAIN SubSeq(h, 1, n) = 1 .. n
         /\ \A i \in 1 .. n : SubSeq(h, 1, n)[i] = h[i] /\ i \in 1 .. Len(h)
         /\ \A i \in 1 .. n + 1, j \in 0 .. n : NoEnd(SubSeq(h, 1, n), i, j) <=> NoEnd(h, i, j)
<1> DEFINE p == SubSeq(h, 1, n)
<1>1. Len(h) \in Nat /\ n \in Nat /\ n <= Len(h) /\ \A i \in 1 .. Len(h) : h[i] \in Event
  BY LogFacts
<1>2. p \in Seq(Event) /\ Len(p) = n /\ \A i \in 1 .. n : p[i] = h[i]
  <2>1. 1 \in 1 .. Len(h) + 1 /\ n \in 0 .. Len(h)
    BY <1>1
  <2>2. \A i \in 1 .. n : i \in 1 .. Len(h)
    BY <1>1
  <2>3. p = [i \in 1 .. n |-> h[i]]
    BY <1>1, <2>2
  <2>4. p \in Seq(Event)
    BY <1>1, <2>2, <2>3, IsASeq
  <2>5. Len(p) = n
    BY <1>1, <2>3, <2>4, LenProperties
  <2>6. QED
    BY <2>3, <2>4, <2>5
<1> HIDE DEF p
<1>3. DOMAIN p = 1 .. n
  BY <1>2, LenProperties
<1>4. ASSUME NEW i \in 1 .. n + 1, NEW j \in 0 .. n
      PROVE  NoEnd(p, i, j) <=> NoEnd(h, i, j)
  <2>1. \A k \in i .. j : k \in 1 .. n
    BY <1>1
  <2>2. QED
    BY <1>2, <2>1 DEF NoEnd
<1>5. QED
  BY <1>1, <1>2, <1>3, <1>4 DEF p

\* What a log held earlier is a sound log.
LEMMA PrefixGood ==
  ASSUME NEW h, Good(h), NEW n \in 0 .. Len(h)
  PROVE  Good(SubSeq(h, 1, n))
<1> DEFINE p == SubSeq(h, 1, n)
<1>0. /\ h \in Seq(Event) /\ Contiguous(h) /\ (\A i \in DOMAIN h : Parses(h[i]))
      /\ InTurns(h) /\ TurnsEnd(h) /\ RepairsStand(h) /\ Once(h) /\ Asked(h) /\ Answered(h)
  BY DEF Good
<1>1. /\ p \in Seq(Event)
      /\ Len(p) = n /\ n \in Nat
      /\ DOMAIN p = 1 .. n
      /\ \A i \in 1 .. n : p[i] = h[i] /\ i \in 1 .. Len(h)
      /\ \A i \in 1 .. n + 1, j \in 0 .. n : NoEnd(p, i, j) <=> NoEnd(h, i, j)
  BY <1>0, CutFacts
<1>2. Len(h) \in Nat /\ DOMAIN h = 1 .. Len(h) /\ n <= Len(h)
  BY <1>0, LogFacts
<1> HIDE DEF p
<1>3. Contiguous(p) /\ \A i \in DOMAIN p : Parses(p[i])
  BY <1>0, <1>1, <1>2 DEF Contiguous
<1>4. InTurns(p)
  <2> SUFFICES ASSUME NEW i \in 1 .. n, p[i].kind # "start"
               PROVE  \E s \in 1 .. i - 1 : p[s].kind = "start" /\ NoEnd(p, s, i - 1)
    BY <1>1 DEF InTurns
  <2>1. PICK s \in 1 .. i - 1 : h[s].kind = "start" /\ NoEnd(h, s, i - 1)
    BY <1>0, <1>1, <1>2 DEF InTurns
  <2>2. s \in 1 .. n /\ s \in 1 .. n + 1 /\ i - 1 \in 0 .. n
    BY <1>1
  <2>3. QED
    BY <1>1, <2>1, <2>2
<1>5. TurnsEnd(p)
  <2> SUFFICES ASSUME NEW i \in 1 .. n, NEW s \in 1 .. n, s < i,
                      p[i].kind = "start", p[s].kind = "start"
               PROVE  ~NoEnd(p, s, i)
    BY <1>1 DEF TurnsEnd
  <2>1. ~NoEnd(h, s, i)
    BY <1>0, <1>1, <1>2 DEF TurnsEnd
  <2>2. s \in 1 .. n + 1 /\ i \in 0 .. n
    BY <1>1
  <2>3. QED
    BY <1>1, <2>1, <2>2
<1>6. RepairsStand(p)
  <2> SUFFICES ASSUME NEW i \in 1 .. n, i < n, p[i].synthetic, p[i].kind = "end"
               PROVE  p[i + 1].kind = "start"
    BY <1>1 DEF RepairsStand
  <2>1. i < Len(h) /\ i + 1 \in 1 .. n
    BY <1>1, <1>2
  <2>2. QED
    BY <1>0, <1>1, <1>2, <2>1 DEF RepairsStand
<1>7. Once(p)
  BY <1>0, <1>1, <1>2 DEF Once
<1>8. Asked(p)
  <2> SUFFICES ASSUME NEW j \in 1 .. n, p[j].kind = "result"
               PROVE  \E i \in 1 .. j - 1 : p[i].kind = "call" /\ p[i].call = p[j].call /\ NoEnd(p, i, j)
    BY <1>1 DEF Asked
  <2>1. PICK i \in 1 .. j - 1 : h[i].kind = "call" /\ h[i].call = h[j].call /\ NoEnd(h, i, j)
    BY <1>0, <1>1, <1>2 DEF Asked
  <2>2. i \in 1 .. n /\ i \in 1 .. n + 1 /\ j \in 0 .. n
    BY <1>1
  <2>3. QED
    BY <1>1, <2>1, <2>2
<1>9. Answered(p)
  <2> SUFFICES ASSUME NEW i \in 1 .. n, NEW f \in 1 .. n,
                      p[i].kind = "call", p[f].kind = "end", i < f
               PROVE  \E j \in i + 1 .. f - 1 : p[j].kind = "result" /\ p[j].call = p[i].call
    BY <1>1 DEF Answered
  <2>1. PICK j \in i + 1 .. f - 1 : h[j].kind = "result" /\ h[j].call = h[i].call
    BY <1>0, <1>1, <1>2 DEF Answered
  <2>2. j \in 1 .. n
    BY <1>1
  <2>3. QED
    BY <1>1, <2>1, <2>2
<1>10. Good(p)
  BY <1>1, <1>3, <1>4, <1>5, <1>6, <1>7, <1>8, <1>9 DEF Good
<1>11. QED
  BY <1>10 DEF p

\* No turn is open where another starts.
LEMMA ClosedBeforeStart ==
  ASSUME NEW h, Good(h), NEW i \in 1 .. Len(h), h[i].kind = "start"
  PROVE  ~TurnOpen(SubSeq(h, 1, i - 1))
<1>1. h \in Seq(Event) /\ TurnsEnd(h)
  BY DEF Good
<1>2. Len(h) \in Nat /\ DOMAIN h = 1 .. Len(h) /\ i - 1 \in 0 .. Len(h)
  BY <1>1, LogFacts
<1> DEFINE p == SubSeq(h, 1, i - 1)
<1>3. /\ p \in Seq(Event) /\ Len(p) = i - 1
      /\ \A k \in 1 .. i - 1 : p[k] = h[k] /\ k \in 1 .. Len(h)
  BY <1>1, <1>2, CutFacts
<1> HIDE DEF p
<1>4. ASSUME NEW s \in 1 .. i - 1, p[s].kind = "start" PROVE ~NoEnd(p, s, i - 1)
  <2>1. ~NoEnd(h, s, i)
    BY <1>1, <1>2, <1>3, <1>4 DEF TurnsEnd
  <2>2. PICK k \in s .. i : h[k].kind = "end"
    BY <2>1 DEF NoEnd
  <2>3. k # i
    BY <2>2
  <2>4. k \in s .. i - 1 /\ k \in 1 .. i - 1
    BY <1>2, <2>3
  <2>5. QED
    BY <1>3, <2>2, <2>4 DEF NoEnd
<1>5. ~TurnOpen(p)
  BY <1>3, <1>4, OpenBy
<1>6. QED
  BY <1>5 DEF p

(***************************************************************************)
(* The closers.                                                            *)
(***************************************************************************)
LEMMA OpenCallsFinite ==
  ASSUME NEW h \in Seq(Event)
  PROVE  /\ OpenCalls(h) \in SUBSET Nat /\ OpenCalls(h) \subseteq 1 .. Len(h)
         /\ IsFiniteSet(OpenCalls(h)) /\ Cardinality(OpenCalls(h)) \in Nat
<1>1. Len(h) \in Nat /\ DOMAIN h = 1 .. Len(h)
  BY LogFacts
<1>2. OpenCalls(h) \subseteq 1 .. Len(h)
  BY <1>1 DEF OpenCalls
<1>3. IsFiniteSet(1 .. Len(h))
  BY <1>1, FS_Interval
<1>4. IsFiniteSet(OpenCalls(h))
  BY <1>2, <1>3, FS_Subset
<1>5. QED
  BY <1>1, <1>2, <1>4, FS_CardinalityType

\* The closers of an open turn: a result for each waiting call, in the order
\* of the calls, then the end (_open_turn_closers).
LEMMA ClosersShape ==
  ASSUME NEW h, Good(h), TurnOpen(h), NEW n, n = Cardinality(OpenCalls(h))
  PROVE  /\ n \in Nat /\ Len(h) \in Nat \ {0}
         /\ Closers(h) \in Seq(Event) /\ Len(Closers(h)) = n + 1
         /\ \A k \in 1 .. n :
              /\ Nth(OpenCalls(h), k) \in OpenCalls(h)
              /\ Closers(h)[k] = Closer(Len(h) + k - 1, "result", h[Nth(OpenCalls(h), k)].call)
         /\ Closers(h)[n + 1] = Closer(Len(h) + n, "end", NoCall)
<1> DEFINE O == OpenCalls(h)
           N == Len(h)
           next == Last(h).seq + 1
<1>0. h \in Seq(Event) /\ Contiguous(h)
  BY DEF Good
<1>1. N \in Nat /\ N # 0 /\ DOMAIN h = 1 .. N /\ \A i \in 1 .. N : h[i] \in Event
  BY <1>0, LogFacts, OpenBy
<1>2. next = N
  BY <1>0, <1>1 DEF Contiguous, Last
<1>3. n \in Nat /\ IsFiniteSet(O) /\ O \in SUBSET Nat /\ O \subseteq 1 .. N
  BY <1>0, OpenCallsFinite
<1> DEFINE C == [k \in 1 .. n + 1 |->
                   IF k <= n THEN Closer(next + k - 1, "result", h[Nth(O, k)].call)
                   ELSE Closer(next + n, "end", NoCall)]
<1>4. Closers(h) = C
  BY DEF Closers
<1>5. \A k \in 1 .. n : Nth(O, k) \in O
  BY <1>3, NthIsThere
<1>6. ASSUME NEW k \in 1 .. n + 1 PROVE C[k] \in Event
  <2>1. k \in Nat /\ N + k - 1 \in Nat /\ N + n \in Nat
    BY <1>1, <1>3
  <2>2. CASE k <= n
    <3>1. Nth(O, k) \in 1 .. N
      BY <1>3, <1>5, <2>1, <2>2
    <3>2. h[Nth(O, k)].call \in Call \cup {NoCall}
      BY <1>1, <3>1 DEF Event
    <3>3. QED
      BY <1>2, <2>1, <2>2, <3>2 DEF Closer, Event, Kind
  <2>3. CASE ~(k <= n)
    BY <1>2, <2>1, <2>3 DEF Closer, Event, Kind
  <2>4. QED
    BY <2>2, <2>3
<1>7. C \in Seq(Event)
  BY <1>3, <1>6, IsASeq
<1>8. Len(C) = n + 1
  BY <1>3, <1>7, LenProperties
<1>9. ASSUME NEW k \in 1 .. n PROVE C[k] = Closer(N + k - 1, "result", h[Nth(O, k)].call)
  <2>1. k \in 1 .. n + 1 /\ k <= n
    BY <1>3
  <2>2. next + k - 1 = N + k - 1
    BY <1>2
  <2>3. QED
    BY <2>1, <2>2
<1>10. C[n + 1] = Closer(N + n, "end", NoCall)
  BY <1>2, <1>3
<1> HIDE DEF C
<1>11. \A k \in 1 .. n :
         /\ Nth(O, k) \in O
         /\ Closers(h)[k] = Closer(N + k - 1, "result", h[Nth(O, k)].call)
  BY <1>4, <1>5, <1>9
<1>12. Closers(h)[n + 1] = Closer(N + n, "end", NoCall)
  BY <1>4, <1>10
<1>13. Closers(h) \in Seq(Event) /\ Len(Closers(h)) = n + 1
  BY <1>4, <1>7, <1>8
<1>14. QED
  BY <1>1, <1>3, <1>11, <1>12, <1>13

\* One more closer.
LEMMA JoinStep ==
  ASSUME NEW h \in Seq(Event), NEW C \in Seq(Event), NEW k \in 0 .. Len(C) - 1
  PROVE  /\ h \o SubSeq(C, 1, k + 1) = Append(h \o SubSeq(C, 1, k), C[k + 1])
         /\ C[k + 1] \in Event
<1>1. Len(C) \in Nat /\ \A i \in 1 .. Len(C) : C[i] \in Event
  BY LogFacts
<1>2. 1 \in 1 .. Len(C) /\ k + 1 \in 1 .. Len(C) /\ k \in 0 .. Len(C) /\ (k + 1) - 1 = k
  BY <1>1
<1> DEFINE p == SubSeq(C, 1, k)
           e == C[k + 1]
<1>3. p \in Seq(Event) /\ e \in Event
  BY <1>1, <1>2, CutFacts
<1>4. SubSeq(C, 1, k + 1) = SubSeq(C, 1, (k + 1) - 1) \o <<e>>
  BY <1>2, SubSeqRecursiveSecond
<1>5. SubSeq(C, 1, k + 1) = p \o <<e>>
  BY <1>2, <1>4
<1>6. <<e>> \in Seq(Event) /\ h \o p \in Seq(Event)
  BY <1>3, ConcatProperties
<1> HIDE DEF p, e
<1>7. h \o (p \o <<e>>) = (h \o p) \o <<e>>
  BY <1>3, <1>6, ConcatAssociative
<1>8. Append(h \o p, e) = (h \o p) \o <<e>>
  BY <1>3, <1>6, AppendIsConcat
<1>9. h \o SubSeq(C, 1, k + 1) = Append(h \o p, e)
  BY <1>5, <1>7, <1>8
<1>10. QED
  BY <1>3, <1>9 DEF p, e

\* Closers, one after the other, keep a log sound, answer the open calls in
\* their order, and close the turn with the last.
Closing(h, n, k) ==
  LET g == h \o SubSeq(Closers(h), 1, k) IN
  /\ Good(g) /\ Len(g) = Len(h) + k
  /\ \A i \in 1 .. Len(h) : g[i] = h[i]
  /\ k <= n => /\ TurnOpen(g)
               /\ OpenCalls(g) = {i \in OpenCalls(h) : \E m \in k + 1 .. n : Nth(OpenCalls(h), m) = i}
  /\ k = n + 1 => ~TurnOpen(g)

\* Each closer leaves the log sound, with one call fewer waiting.
LEMMA ClosingStep ==
  ASSUME NEW h, Good(h), TurnOpen(h), NEW n, n = Cardinality(OpenCalls(h)),
         NEW k \in 0 .. n, Closing(h, n, k)
  PROVE  Closing(h, n, k + 1)
<1> DEFINE C == Closers(h)
           O == OpenCalls(h)
           N == Len(h)
           g == h \o SubSeq(C, 1, k)
           e == C[k + 1]
           g2 == h \o SubSeq(C, 1, k + 1)
<1>0. h \in Seq(Event) /\ Once(h)
  BY DEF Good
<1>1. /\ n \in Nat /\ N \in Nat \ {0}
      /\ C \in Seq(Event) /\ Len(C) = n + 1
      /\ \A m \in 1 .. n : /\ Nth(O, m) \in O
                           /\ C[m] = Closer(N + m - 1, "result", h[Nth(O, m)].call)
      /\ C[n + 1] = Closer(N + n, "end", NoCall)
  BY ClosersShape
<1>2. /\ Good(g) /\ Len(g) = N + k
      /\ \A i \in 1 .. N : g[i] = h[i]
      /\ TurnOpen(g)
      /\ OpenCalls(g) = {i \in O : \E m \in k + 1 .. n : Nth(O, m) = i}
  BY <1>1 DEF Closing
<1>3. k \in Nat /\ k <= n /\ k \in 0 .. Len(C) - 1
  BY <1>1
<1>4. g2 = Append(g, e) /\ e \in Event
  BY <1>0, <1>1, <1>3, JoinStep
<1>5. O \in SUBSET Nat /\ O \subseteq 1 .. N /\ IsFiniteSet(O)
  BY <1>0, OpenCallsFinite
<1>6. \A i \in O : h[i].kind = "call" /\ i \in DOMAIN h
  BY DEF OpenCalls
<1>7. g \in Seq(Event)
  BY <1>2 DEF Good
<1>8. \A i \in O, j \in O : h[i].call = h[j].call => i = j
  BY <1>0, <1>6 DEF Once
<1>9. ASSUME NEW m \in 1 .. n, NEW l \in 1 .. n, Nth(O, m) = Nth(O, l) PROVE m = l
  <2>1. ~(m < l)
    <3>1. m < l => Nth(O, m) < Nth(O, l)
      BY <1>5, NthAscends
    <3>2. Nth(O, m) \in Nat
      BY <1>1, <1>5
    <3>3. QED
      BY <1>9, <3>1, <3>2
  <2>2. ~(l < m)
    <3>1. l < m => Nth(O, l) < Nth(O, m)
      BY <1>5, NthAscends
    <3>2. Nth(O, m) \in Nat
      BY <1>1, <1>5
    <3>3. QED
      BY <1>9, <3>1, <3>2
  <2>3. QED
    BY <1>1, <2>1, <2>2
<1> HIDE DEF g, g2, e, C, O, N
<1>10. ASSUME Good(Append(g, e))
       PROVE  Good(g2) /\ Len(g2) = N + (k + 1) /\ \A i \in 1 .. N : g2[i] = h[i]
  <2>1. Len(Append(g, e)) = Len(g) + 1 /\ \A i \in 1 .. Len(g) : Append(g, e)[i] = g[i]
    BY <1>4, <1>7, Grown
  <2>2. \A i \in 1 .. N : i \in 1 .. Len(g)
    BY <1>1, <1>2, <1>3
  <2>3. QED
    BY <1>1, <1>2, <1>3, <1>4, <1>10, <2>1, <2>2
<1>11. CASE k < n
  <2> DEFINE o == Nth(O, k + 1)
  <2>1. /\ k + 1 \in 1 .. n /\ o \in O
        /\ e = Closer(N + (k + 1) - 1, "result", h[o].call)
    <3>1. k + 1 \in 1 .. n
      BY <1>1, <1>3, <1>11
    <3>2. QED
      BY <1>1, <3>1 DEF e
  <2>2. e.kind = "result" /\ e.call = h[o].call /\ e.seq = N + k
    <3>1. N + (k + 1) - 1 = N + k
      BY <1>1, <1>3
    <3>2. QED
      BY <2>1, <3>1 DEF Closer
  <2>3. o \in OpenCalls(g) /\ g[o].call = h[o].call
    <3>1. k + 1 \in k + 1 .. n
      BY <1>1, <1>3, <1>11
    <3>2. QED
      BY <1>2, <1>5, <2>1, <3>1
  <2> HIDE DEF o
  <2>4. Fits(g, e)
    BY <1>2, <1>4, <2>2, <2>3 DEF Fits, Parses
  <2>5. Good(Append(g, e))
    BY <1>2, <2>4, AppendGood
  <2>6. TurnOpen(g2)
    BY <1>2, <1>4, <1>7, <2>2, AppendTurn
  <2>7. OpenCalls(g2) = {i \in OpenCalls(g) : e.call # g[i].call}
    BY <1>4, <1>7, <2>2, AppendOpen
  <2>8. \A i \in OpenCalls(g) : i \in O /\ g[i] = h[i]
    BY <1>2, <1>5
  <2>9. \A i \in OpenCalls(g) : e.call # g[i].call <=> i # o
    BY <1>8, <2>1, <2>2, <2>8
  <2>10. OpenCalls(g2) = {i \in O : \E m \in (k + 1) + 1 .. n : Nth(O, m) = i}
    <3>1. ASSUME NEW i \in O
          PROVE  ((\E m \in k + 1 .. n : Nth(O, m) = i) /\ i # o)
                   <=> \E m \in (k + 1) + 1 .. n : Nth(O, m) = i
      <4>1. ASSUME NEW m \in k + 1 .. n, Nth(O, m) = i, i # o
            PROVE  m \in (k + 1) + 1 .. n
        <5>1. m # k + 1
          BY <4>1 DEF o
        <5>2. QED
          BY <1>1, <1>3, <5>1
      <4>2. ASSUME NEW m \in (k + 1) + 1 .. n, Nth(O, m) = i
            PROVE  m \in k + 1 .. n /\ i # o
        <5>1. m \in k + 1 .. n /\ m \in 1 .. n /\ m # k + 1
          BY <1>1, <1>3
        <5>2. QED
          BY <1>9, <2>1, <4>2, <5>1 DEF o
      <4>3. QED
        BY <4>1, <4>2
    <3>2. QED
      BY <1>2, <2>7, <2>9, <3>1
  <2>11. k + 1 # n + 1 /\ k + 1 <= n
    BY <1>1, <1>3, <1>11
  <2>12. QED
    BY <1>10, <2>5, <2>6, <2>10, <2>11 DEF Closing, g2, C, O, N
<1>12. CASE k = n
  <2>1. e.kind = "end" /\ e.seq = N + k
    BY <1>1, <1>12 DEF Closer, e
  <2>2. OpenCalls(g) = {}
    <3>1. k + 1 .. n = {}
      BY <1>1, <1>12
    <3>2. QED
      BY <1>2, <3>1
  <2>3. Fits(g, e)
    BY <1>2, <1>4, <2>1, <2>2 DEF Fits, Parses
  <2>4. Good(Append(g, e))
    BY <1>2, <2>3, AppendGood
  <2>5. ~TurnOpen(g2)
    BY <1>4, <1>7, <2>1, AppendTurn
  <2>6. ~(k + 1 <= n)
    BY <1>1, <1>12
  <2>7. QED
    BY <1>10, <2>4, <2>5, <2>6 DEF Closing, g2, C, O, N
<1>13. QED
  BY <1>1, <1>3, <1>11, <1>12

\* Before the first closer.
LEMMA ClosingStart ==
  ASSUME NEW h, Good(h), TurnOpen(h), NEW n, n = Cardinality(OpenCalls(h))
  PROVE  Closing(h, n, 0)
<1> DEFINE O == OpenCalls(h)
<1>0. h \in Seq(Event)
  BY DEF Good
<1>1. n \in Nat /\ Len(h) \in Nat /\ Closers(h) \in Seq(Event)
  BY ClosersShape
<1>2. h \o SubSeq(Closers(h), 1, 0) = h
  <2>1. SubSeq(Closers(h), 1, 0) = <<>>
    BY SubSeqEmpty
  <2>2. QED
    BY <1>0, <2>1, ConcatEmptySeq
<1>3. O \in SUBSET Nat /\ IsFiniteSet(O)
  BY <1>0, OpenCallsFinite
<1>4. \A i \in O : \E m \in 1 .. n : Nth(O, m) = i
  BY <1>3, NthIsAll
<1>5. O = {i \in O : \E m \in 0 + 1 .. n : Nth(O, m) = i}
  BY <1>4
<1>6. 0 # n + 1 /\ Len(h) = Len(h) + 0
  BY <1>1
<1>7. QED
  BY <1>2, <1>5, <1>6 DEF Closing

\* However many of the closers reach the file, the log is sound, and only the
\* last of them closes the turn: a repair may be cut short anywhere.
LEMMA ClosersGood ==
  ASSUME NEW h, Good(h), TurnOpen(h)
  PROVE  \A k \in 0 .. Len(Closers(h)) :
           /\ Good(h \o SubSeq(Closers(h), 1, k))
           /\ Len(h \o SubSeq(Closers(h), 1, k)) = Len(h) + k
           /\ TurnOpen(h \o SubSeq(Closers(h), 1, k)) <=> k < Len(Closers(h))
<1> DEFINE n == Cardinality(OpenCalls(h))
           Wrong == {k \in 0 .. n + 1 : ~Closing(h, n, k)}
<1>1. n \in Nat /\ Len(Closers(h)) = n + 1
  BY ClosersShape
<1>2. Wrong = {}
  <2> SUFFICES ASSUME Wrong # {} PROVE FALSE
    OBVIOUS
  <2>1. Wrong \in SUBSET Nat
    BY <1>1
  <2>2. PICK k \in Wrong : \A l \in Wrong : k <= l
    BY <2>1, LeastNatural
  <2>3. k # 0
    BY ClosingStart
  <2>4. k - 1 \in 0 .. n /\ (k - 1) + 1 = k /\ ~(k <= k - 1)
    BY <1>1, <2>3
  <2>5. Closing(h, n, k - 1)
    BY <1>1, <2>2, <2>4
  <2>6. Closing(h, n, (k - 1) + 1)
    BY <2>4, <2>5, ClosingStep
  <2>7. QED
    BY <2>4, <2>6
<1>3. ASSUME NEW k \in 0 .. n + 1
      PROVE  /\ Good(h \o SubSeq(Closers(h), 1, k))
             /\ Len(h \o SubSeq(Closers(h), 1, k)) = Len(h) + k
             /\ TurnOpen(h \o SubSeq(Closers(h), 1, k)) <=> k < n + 1
  <2>1. Closing(h, n, k)
    BY <1>2
  <2>2. (k <= n /\ k < n + 1) \/ (k = n + 1 /\ ~(k < n + 1))
    BY <1>1
  <2>3. QED
    BY <2>1, <2>2 DEF Closing
<1>4. QED
  BY <1>1, <1>3

\* The repair of a sound log is a sound log with no turn open.
LEMMA RepairGood ==
  ASSUME NEW h, Good(h)
  PROVE  /\ Good(h \o Closers(h)) /\ ~TurnOpen(h \o Closers(h))
         /\ Closers(h \o Closers(h)) = <<>>
         /\ Closers(h) \in Seq(Event) /\ (Closers(h) = <<>> <=> ~TurnOpen(h))
<1>0. h \in Seq(Event)
  BY DEF Good
<1>1. CASE TurnOpen(h)
  <2>1. Closers(h) \in Seq(Event) /\ Len(Closers(h)) \in Nat \ {0}
    BY <1>1, ClosersShape
  <2>2. SubSeq(Closers(h), 1, Len(Closers(h))) = Closers(h)
    BY <2>1, SubSeqFull
  <2>3. Len(Closers(h)) \in 0 .. Len(Closers(h)) /\ ~(Len(Closers(h)) < Len(Closers(h)))
    BY <2>1
  <2>4. Good(h \o Closers(h)) /\ ~TurnOpen(h \o Closers(h))
    BY <1>1, <2>2, <2>3, ClosersGood
  <2>5. Closers(h) # <<>>
    BY <2>1, EmptySeq
  <2>6. Closers(h \o Closers(h)) = <<>>
    BY <2>4 DEF Closers
  <2>7. QED
    BY <1>1, <2>1, <2>4, <2>5, <2>6
<1>2. CASE ~TurnOpen(h)
  <2>1. Closers(h) = <<>>
    BY <1>2 DEF Closers
  <2>2. h \o Closers(h) = h
    BY <1>0, <2>1, ConcatEmptySeq
  <2>3. <<>> \in Seq(Event)
    BY EmptySeq
  <2>4. QED
    BY <1>2, <2>1, <2>2, <2>3
<1>3. QED
  BY <1>1, <1>2

(***************************************************************************)
(* The lines of a file, and the log they stand for: the log itself, or the *)
(* log with closers in it that a poll wrote in the middle of a turn.       *)
(***************************************************************************)
StaleAt(lines, h, n) ==
  LET pre == SubSeq(h, 1, n) IN
  /\ n \in 1 .. Len(h) - 1
  /\ TurnOpen(pre) /\ ~h[n].synthetic /\ h[n + 1].kind # "start"
  /\ lines = (pre \o Closers(pre)) \o SubSeq(h, n + 1, Len(h))

StandsFor(lines, h) == Good(h) /\ (lines = h \/ \E n \in 1 .. Len(h) - 1 : StaleAt(lines, h, n))

Sane(lines) == StandsFor(lines, Healed(lines))

\* The events after the first n, position by position.
LEMMA TailFacts ==
  ASSUME NEW h \in Seq(Event), NEW n \in 0 .. Len(h)
  PROVE  /\ SubSeq(h, n + 1, Len(h)) \in Seq(Event)
         /\ Len(SubSeq(h, n + 1, Len(h))) = Len(h) - n
         /\ \A i \in 1 .. Len(h) - n : SubSeq(h, n + 1, Len(h))[i] = h[n + i]
<1>1. Len(h) \in Nat /\ n \in Nat /\ n <= Len(h) /\ \A i \in 1 .. Len(h) : h[i] \in Event
  BY LogFacts
<1>2. n + 1 \in Int /\ Len(h) \in Int /\ \A i \in n + 1 .. Len(h) : h[i] \in Event
  BY <1>1
<1>3. /\ SubSeq(h, n + 1, Len(h)) \in Seq(Event)
      /\ Len(SubSeq(h, n + 1, Len(h))) = IF n + 1 <= Len(h) THEN Len(h) - (n + 1) + 1 ELSE 0
      /\ \A i \in 1 .. Len(h) - (n + 1) + 1 : SubSeq(h, n + 1, Len(h))[i] = h[n + 1 + i - 1]
  BY <1>2, SubSeqProperties
<1>4. Len(SubSeq(h, n + 1, Len(h))) = Len(h) - n
  BY <1>1, <1>3
<1>5. ASSUME NEW i \in 1 .. Len(h) - n PROVE SubSeq(h, n + 1, Len(h))[i] = h[n + i]
  <2>1. i \in 1 .. Len(h) - (n + 1) + 1 /\ n + 1 + i - 1 = n + i
    BY <1>1
  <2>2. QED
    BY <1>3, <2>1
<1>6. QED
  BY <1>3, <1>4, <1>5

\* Where in the file an event of the log is.
Moved(i, n, c) == IF i <= n THEN i ELSE i + c

\* A file of c closers behind the first n events of h, position by position.
Staled(lines, h, n, c) ==
  /\ c \in Nat \ {0} /\ n \in Nat \ {0} /\ Len(h) \in Nat /\ n < Len(h)
  /\ c = Cardinality(OpenCalls(SubSeq(h, 1, n))) + 1
  /\ lines \in Seq(Event) /\ Len(lines) = Len(h) + c
  /\ \A i \in 1 .. n : lines[i] = h[i]
  /\ \A i \in n + 1 .. n + c :
       /\ lines[i].synthetic /\ lines[i].seq = i - 1
       /\ lines[i].kind = IF i = n + c THEN "end" ELSE "result"
       /\ lines[i] = Closers(SubSeq(h, 1, n))[i - n]
  /\ \A i \in n + 1 .. Len(h) : lines[i + c] = h[i]

\* A file with a block of closers in the middle of a turn, position by position.
LEMMA StaleShape ==
  ASSUME NEW h, Good(h), NEW lines, NEW n \in 1 .. Len(h) - 1, StaleAt(lines, h, n)
  PROVE  Staled(lines, h, n, Len(Closers(SubSeq(h, 1, n))))
<1> DEFINE pre == SubSeq(h, 1, n)
           C == Closers(pre)
           c == Len(C)
           post == SubSeq(h, n + 1, Len(h))
           o == Cardinality(OpenCalls(pre))
<1>0. h \in Seq(Event)
  BY DEF Good
<1>1. Len(h) \in Nat /\ n \in Nat \ {0} /\ n < Len(h) /\ n \in 0 .. Len(h)
  BY <1>0, LogFacts
<1>2. pre \in Seq(Event) /\ Len(pre) = n /\ \A i \in 1 .. n : pre[i] = h[i]
  BY <1>0, <1>1, CutFacts
<1>3. post \in Seq(Event) /\ Len(post) = Len(h) - n /\ \A i \in 1 .. Len(h) - n : post[i] = h[n + i]
  BY <1>0, <1>1, TailFacts
<1>4. Good(pre) /\ TurnOpen(pre) /\ lines = (pre \o C) \o post
  BY <1>1, PrefixGood DEF StaleAt
<1>5. /\ o \in Nat /\ C \in Seq(Event) /\ c = o + 1
      /\ \A k \in 1 .. o : C[k] = Closer(n + k - 1, "result", pre[Nth(OpenCalls(pre), k)].call)
      /\ C[o + 1] = Closer(n + o, "end", NoCall)
  <2>1. /\ o \in Nat /\ C \in Seq(Event) /\ c = o + 1
        /\ \A k \in 1 .. o : C[k] = Closer(Len(pre) + k - 1, "result", pre[Nth(OpenCalls(pre), k)].call)
        /\ C[o + 1] = Closer(Len(pre) + o, "end", NoCall)
    BY <1>4, ClosersShape
  <2>2. QED
    BY <1>2, <2>1
<1>6. ASSUME NEW k \in 1 .. c
      PROVE  /\ C[k].synthetic /\ C[k].seq = n + k - 1
             /\ C[k].kind = IF k = c THEN "end" ELSE "result"
  <2>1. CASE k \in 1 .. o
    <3>1. k # c
      BY <1>5, <2>1
    <3>2. C[k] = Closer(n + k - 1, "result", pre[Nth(OpenCalls(pre), k)].call)
      BY <1>5, <2>1
    <3>3. C[k].synthetic /\ C[k].seq = n + k - 1 /\ C[k].kind = "result"
      BY <3>2 DEF Closer
    <3>4. QED
      BY <3>1, <3>3
  <2>2. CASE k = o + 1
    <3>1. n + o = n + k - 1 /\ k = c
      BY <1>1, <1>5, <2>2
    <3>2. C[k] = Closer(n + o, "end", NoCall)
      BY <1>5, <2>2
    <3>3. C[k].synthetic /\ C[k].seq = n + o /\ C[k].kind = "end"
      BY <3>2 DEF Closer
    <3>4. QED
      BY <3>1, <3>3
  <2>3. QED
    BY <1>5, <2>1, <2>2
<1> HIDE DEF pre, C, c, post, o
<1>7. c \in Nat \ {0}
  BY <1>5
<1>8. /\ pre \o C \in Seq(Event) /\ Len(pre \o C) = n + c
      /\ \A i \in 1 .. n + c : (pre \o C)[i] = IF i <= n THEN pre[i] ELSE C[i - n]
  BY <1>2, <1>5, ConcatProperties DEF c
<1>9. /\ lines \in Seq(Event) /\ Len(lines) = (n + c) + (Len(h) - n)
      /\ \A i \in 1 .. (n + c) + (Len(h) - n) :
           lines[i] = IF i <= n + c THEN (pre \o C)[i] ELSE post[i - (n + c)]
  BY <1>3, <1>4, <1>8, ConcatProperties
<1>10. (n + c) + (Len(h) - n) = Len(h) + c
  BY <1>1, <1>7
<1>11. ASSUME NEW i \in 1 .. n PROVE lines[i] = h[i]
  <2>1. i \in 1 .. Len(h) + c /\ i <= n + c /\ i \in 1 .. n + c /\ i <= n
    BY <1>1, <1>7
  <2>2. QED
    BY <1>2, <1>8, <1>9, <1>10, <2>1
<1>12. ASSUME NEW i \in n + 1 .. n + c
       PROVE  /\ lines[i].synthetic /\ lines[i].seq = i - 1
              /\ lines[i].kind = IF i = n + c THEN "end" ELSE "result"
              /\ lines[i] = C[i - n]
  <2>1. i \in 1 .. Len(h) + c /\ i <= n + c /\ i \in 1 .. n + c /\ ~(i <= n)
    BY <1>1, <1>7
  <2>2. lines[i] = C[i - n]
    BY <1>8, <1>9, <1>10, <2>1
  <2>3. i - n \in 1 .. c /\ n + (i - n) - 1 = i - 1 /\ (i - n = c <=> i = n + c)
    BY <1>1, <1>7
  <2>4. QED
    BY <1>6, <2>2, <2>3
<1>13. ASSUME NEW i \in n + 1 .. Len(h) PROVE lines[i + c] = h[i]
  <2>1. i + c \in 1 .. Len(h) + c /\ ~(i + c <= n + c) /\ (i + c) - (n + c) = i - n
    BY <1>1, <1>7
  <2>2. i - n \in 1 .. Len(h) - n /\ n + (i - n) = i
    BY <1>1
  <2>3. QED
    BY <1>3, <1>9, <1>10, <2>1, <2>2
<1>14. lines \in Seq(Event) /\ Len(lines) = Len(h) + c
  BY <1>9, <1>10
<1>15. /\ c \in Nat \ {0} /\ n \in Nat \ {0} /\ Len(h) \in Nat /\ n < Len(h)
       /\ c = Cardinality(OpenCalls(pre)) + 1
  BY <1>1, <1>5, <1>7 DEF o
<1>16. /\ \A i \in n + 1 .. n + c :
            /\ lines[i].synthetic /\ lines[i].seq = i - 1
            /\ lines[i].kind = IF i = n + c THEN "end" ELSE "result"
            /\ lines[i] = Closers(pre)[i - n]
       /\ \A i \in n + 1 .. Len(h) : lines[i + c] = h[i]
  BY <1>12, <1>13 DEF C
<1>17. Staled(lines, h, n, c)
  BY <1>11, <1>14, <1>15, <1>16, Zenon DEF Staled, pre
<1>18. QED
  BY <1>17 DEF c, C, pre

\* A sound log needs no healing.
LEMMA GoodHealed ==
  ASSUME NEW h, Good(h)
  PROVE  Dropped(h) = {} /\ Healed(h) = h
<1>1. h \in Seq(Event) /\ RepairsStand(h)
  BY DEF Good
<1>2. Len(h) \in Nat /\ DOMAIN h = 1 .. Len(h)
  BY <1>1, LogFacts
<1>3. Premature(h) = {}
  BY <1>1, <1>2 DEF Premature, RepairsStand
<1>4. Dropped(h) = {}
  BY <1>3 DEF Dropped
<1>5. DOMAIN h \ Dropped(h) = 1 .. Len(h)
  BY <1>2, <1>4
<1> DEFINE S == 1 .. Len(h)
           f == [k \in 1 .. Len(h) |-> k]
<1>6. S \in SUBSET Nat /\ f \in [1 .. Len(h) -> S]
  BY <1>2
<1>7. \A k \in 1 .. Len(h), l \in 1 .. Len(h) : k < l => f[k] < f[l]
  BY <1>2
<1>8. \A i \in S : \E k \in 1 .. Len(h) : f[k] = i
  BY <1>2
<1>9. \A k \in 1 .. Len(h) : h[f[k]] = h[k]
  BY <1>2
<1> HIDE DEF f
<1>10. Chosen(h, S) = h
  <2>1. Cardinality(S) = Len(h) /\ \A k \in 1 .. Len(h) : Nth(S, k) = f[k]
    BY <1>2, <1>6, <1>7, <1>8, NthIsTheList
  <2>2. Chosen(h, S) = [k \in 1 .. Len(h) |-> h[k]]
    BY <1>9, <2>1 DEF Chosen
  <2>3. QED
    BY <1>1, <2>2, LenProperties
<1>11. QED
  BY <1>4, <1>5, <1>10 DEF Healed

\* Of such a file the load drops exactly the block
\* (_drop_premature_interrupted_closers).
LEMMA StaleDropped ==
  ASSUME NEW h, Good(h), NEW lines, NEW n \in 1 .. Len(h) - 1, StaleAt(lines, h, n)
  PROVE  Dropped(lines) = n + 1 .. n + Len(Closers(SubSeq(h, 1, n)))
<1> DEFINE c == Len(Closers(SubSeq(h, 1, n)))
<1>0. h \in Seq(Event) /\ RepairsStand(h)
  BY DEF Good
<1>a. Staled(lines, h, n, c)
  BY StaleShape
<1>1. /\ c \in Nat \ {0} /\ n \in Nat \ {0} /\ Len(h) \in Nat /\ n < Len(h)
      /\ lines \in Seq(Event) /\ Len(lines) = Len(h) + c
      /\ \A i \in 1 .. n : lines[i] = h[i]
      /\ \A i \in n + 1 .. n + c :
           /\ lines[i].synthetic
           /\ lines[i].kind = IF i = n + c THEN "end" ELSE "result"
      /\ \A i \in n + 1 .. Len(h) : lines[i + c] = h[i]
  BY <1>a DEF Staled
<1>2. ~h[n].synthetic /\ h[n + 1].kind # "start"
  BY DEF StaleAt
<1> HIDE DEF c
<1>3. DOMAIN lines = 1 .. Len(h) + c /\ DOMAIN h = 1 .. Len(h)
  BY <1>0, <1>1, LenProperties
<1>4. n + c \in Premature(lines)
  <2>1. n + c \in n + 1 .. n + c /\ n + c \in 1 .. Len(h) + c /\ n + c < Len(h) + c
    BY <1>1
  <2>2. n + 1 \in n + 1 .. Len(h) /\ (n + 1) + c = (n + c) + 1
    BY <1>1
  <2>3. lines[(n + c) + 1] = h[n + 1]
    BY <1>1, <2>2
  <2>4. QED
    BY <1>1, <1>2, <1>3, <2>1, <2>3 DEF Premature
<1>5. ASSUME NEW i \in Premature(lines) PROVE i = n + c
  <2>1. /\ i \in 1 .. Len(h) + c /\ lines[i].synthetic /\ lines[i].kind = "end"
        /\ i < Len(h) + c /\ lines[i + 1].kind # "start"
    BY <1>1, <1>3 DEF Premature
  <2>2. CASE i < n
    <3>1. i \in 1 .. n /\ i + 1 \in 1 .. n /\ i \in 1 .. Len(h) /\ i < Len(h)
      BY <1>1, <2>1, <2>2
    <3>2. lines[i] = h[i] /\ lines[i + 1] = h[i + 1]
      BY <1>1, <3>1
    <3>3. QED
      BY <1>0, <1>3, <2>1, <3>1, <3>2 DEF RepairsStand
  <2>3. CASE i = n
    BY <1>1, <1>2, <2>1, <2>3
  <2>4. CASE i \in n + 1 .. n + c
    BY <1>1, <2>1, <2>4
  <2>5. CASE n + c < i
    <3>1. /\ i - c \in n + 1 .. Len(h) /\ (i - c) + 1 \in n + 1 .. Len(h)
          /\ (i - c) + c = i /\ ((i - c) + 1) + c = i + 1
          /\ i - c \in 1 .. Len(h) /\ i - c < Len(h)
      BY <1>1, <2>1, <2>5
    <3>2. lines[i] = h[i - c] /\ lines[i + 1] = h[(i - c) + 1]
      BY <1>1, <3>1
    <3>3. QED
      BY <1>0, <1>3, <2>1, <3>1, <3>2 DEF RepairsStand
  <2>6. QED
    BY <1>1, <2>1, <2>2, <2>3, <2>4, <2>5
<1>6. Dropped(lines) = {k \in 1 .. Len(h) + c : InBlock(lines, k, n + c)}
  BY <1>3, <1>4, <1>5 DEF Dropped
<1>7. ASSUME NEW k \in 1 .. Len(h) + c PROVE InBlock(lines, k, n + c) <=> k \in n + 1 .. n + c
  <2>1. ASSUME k \in n + 1 .. n + c PROVE InBlock(lines, k, n + c)
    <3>1. \A m \in k .. (n + c) - 1 : m \in n + 1 .. n + c /\ m # n + c
      BY <1>1, <2>1
    <3>2. k <= n + c
      BY <1>1, <2>1
    <3>3. QED
      BY <1>1, <3>1, <3>2 DEF InBlock
  <2>2. ASSUME InBlock(lines, k, n + c), k <= n PROVE FALSE
    <3>1. n \in k .. (n + c) - 1 /\ n \in 1 .. n
      BY <1>1, <2>2
    <3>2. lines[n].synthetic
      BY <2>2, <3>1 DEF InBlock
    <3>3. QED
      BY <1>1, <1>2, <3>1, <3>2
  <2>3. InBlock(lines, k, n + c) => k <= n + c
    BY DEF InBlock
  <2>4. QED
    BY <1>1, <2>1, <2>2, <2>3
<1>8. n + 1 .. n + c \subseteq 1 .. Len(h) + c
  BY <1>1
<1>9. Dropped(lines) = n + 1 .. n + c
  BY <1>6, <1>7, <1>8
<1>10. QED
  BY <1>9 DEF c

\* Healed, the file is the log again, and all of it parses.
LEMMA StaleHealed ==
  ASSUME NEW h, Good(h), NEW lines, NEW n \in 1 .. Len(h) - 1, StaleAt(lines, h, n)
  PROVE  /\ lines \in Seq(Event)
         /\ Healed(lines) = h /\ Dropped(lines) # {}
         /\ \A i \in DOMAIN lines : Parses(lines[i])
<1> DEFINE c == Len(Closers(SubSeq(h, 1, n)))
           N == Len(h)
           S == DOMAIN lines \ Dropped(lines)
           f == [k \in 1 .. N |-> Moved(k, n, c)]
<1>0. h \in Seq(Event) /\ \A i \in DOMAIN h : Parses(h[i])
  BY DEF Good
<1>a. Staled(lines, h, n, c)
  BY StaleShape
<1>1. /\ c \in Nat \ {0} /\ n \in Nat \ {0} /\ N \in Nat /\ n < N
      /\ lines \in Seq(Event) /\ Len(lines) = N + c
      /\ \A i \in 1 .. n : lines[i] = h[i]
      /\ \A i \in n + 1 .. n + c :
           /\ lines[i].synthetic
           /\ lines[i].kind = IF i = n + c THEN "end" ELSE "result"
      /\ \A i \in n + 1 .. N : lines[i + c] = h[i]
  BY <1>a DEF Staled
<1>2. Dropped(lines) = n + 1 .. n + c
  BY StaleDropped
<1>3. DOMAIN lines = 1 .. N + c /\ DOMAIN h = 1 .. N
  BY <1>0, <1>1, LenProperties
<1> HIDE DEF c, N
<1>4. S \in SUBSET Nat /\ \A i \in S : (i \in 1 .. n \/ i \in (n + c) + 1 .. N + c)
  BY <1>1, <1>2, <1>3
<1>5. ASSUME NEW k \in 1 .. N
      PROVE  /\ Moved(k, n, c) \in S /\ Moved(k, n, c) \in Nat
             /\ lines[Moved(k, n, c)] = h[k]
  <2>1. CASE k <= n
    <3>1. k \in 1 .. n /\ k \in 1 .. N + c /\ k \notin n + 1 .. n + c /\ Moved(k, n, c) = k
      BY <1>1, <2>1 DEF Moved
    <3>2. QED
      BY <1>1, <1>2, <1>3, <3>1
  <2>2. CASE ~(k <= n)
    <3>1. k \in n + 1 .. N /\ k + c \in 1 .. N + c /\ k + c \notin n + 1 .. n + c /\ Moved(k, n, c) = k + c
      BY <1>1, <2>2 DEF Moved
    <3>2. QED
      BY <1>1, <1>2, <1>3, <3>1
  <2>3. QED
    BY <2>1, <2>2
<1>6. f \in [1 .. N -> S] /\ \A k \in 1 .. N : lines[f[k]] = h[k]
  BY <1>5
<1>7. ASSUME NEW k \in 1 .. N, NEW l \in 1 .. N, k < l PROVE f[k] < f[l]
  <2>1. Moved(k, n, c) < Moved(l, n, c)
    BY <1>1, <1>7 DEF Moved
  <2>2. QED
    BY <2>1
<1>8. ASSUME NEW i \in S PROVE \E k \in 1 .. N : f[k] = i
  <2>1. CASE i \in 1 .. n
    <3>1. i \in 1 .. N /\ Moved(i, n, c) = i
      BY <1>1, <2>1 DEF Moved
    <3>2. QED
      BY <3>1
  <2>2. CASE i \in (n + c) + 1 .. N + c
    <3>1. i - c \in 1 .. N /\ Moved(i - c, n, c) = i
      BY <1>1, <2>2 DEF Moved
    <3>2. QED
      BY <3>1
  <2>3. QED
    BY <1>4, <2>1, <2>2
<1> HIDE DEF f
<1>9. N = Len(h)
  BY DEF N
<1>10. Chosen(lines, S) = h
  <2> HIDE DEF S
  <2>1. Cardinality(S) = N /\ \A k \in 1 .. N : Nth(S, k) = f[k]
    <3>1. N \in Nat /\ S \in SUBSET Nat /\ f \in [1 .. N -> S]
      BY <1>1, <1>4, <1>6
    <3>2. QED
      BY <1>7, <1>8, <3>1, NthIsTheList
  <2>2. Chosen(lines, S) = [k \in 1 .. N |-> h[k]]
    BY <1>6, <2>1 DEF Chosen
  <2>3. QED
    BY <1>0, <1>9, <2>2, LenProperties
<1>11. Healed(lines) = h
  BY <1>10 DEF Healed
<1>12. ASSUME NEW i \in DOMAIN lines PROVE Parses(lines[i])
  <2>1. CASE i \in n + 1 .. n + c
    BY <1>1, <2>1 DEF Parses
  <2>2. CASE i \in S
    <3>1. PICK k \in 1 .. N : f[k] = i
      BY <1>8, <2>2
    <3>2. QED
      BY <1>0, <1>3, <1>6, <3>1
  <2>3. QED
    BY <1>2, <2>1, <2>2
<1>13. n + 1 \in n + 1 .. n + c
  BY <1>1
<1>14. QED
  BY <1>1, <1>2, <1>11, <1>12, <1>13

\* A file that stands for a log is healed to that log.
LEMMA StandsForHeals ==
  ASSUME NEW h, NEW lines, StandsFor(lines, h)
  PROVE  /\ lines \in Seq(Event) /\ h \in Seq(Event)
         /\ Healed(lines) = h /\ Good(h)
         /\ Dropped(lines) = {} => lines = h
         /\ \A i \in DOMAIN lines : Parses(lines[i])
<1>1. Good(h) /\ (lines = h \/ \E n \in 1 .. Len(h) - 1 : StaleAt(lines, h, n))
  BY DEF StandsFor
<1>2. h \in Seq(Event) /\ \A i \in DOMAIN h : Parses(h[i])
  BY <1>1 DEF Good
<1>3. CASE lines = h
  BY <1>1, <1>2, <1>3, GoodHealed
<1>4. CASE \E n \in 1 .. Len(h) - 1 : StaleAt(lines, h, n)
  BY <1>1, <1>2, <1>4, StaleHealed
<1>5. QED
  BY <1>1, <1>3, <1>4

(***************************************************************************)
(* What the agent appends, and what undo keeps.                            *)
(***************************************************************************)
LEMMA AppendCut ==
  ASSUME NEW h \in Seq(Event), NEW e \in Event, NEW n \in 0 .. Len(h)
  PROVE  /\ SubSeq(Append(h, e), 1, n) = SubSeq(h, 1, n)
         /\ SubSeq(Append(h, e), n + 1, Len(h) + 1) = Append(SubSeq(h, n + 1, Len(h)), e)
<1> DEFINE g == Append(h, e)
           N == Len(h)
           t == SubSeq(h, n + 1, N)
           u == SubSeq(g, n + 1, N + 1)
<1>1. /\ N \in Nat /\ n \in Nat /\ n <= N /\ g \in Seq(Event) /\ Len(g) = N + 1
      /\ (\A i \in 1 .. N : g[i] = h[i]) /\ g[N + 1] = e
  BY Grown
<1>2. n \in 0 .. Len(g) /\ n \in 0 .. N
  BY <1>1
<1> HIDE DEF g
<1>3. SubSeq(g, 1, n) = SubSeq(h, 1, n)
  <2>1. /\ SubSeq(h, 1, n) \in Seq(Event) /\ Len(SubSeq(h, 1, n)) = n
        /\ \A i \in 1 .. n : SubSeq(h, 1, n)[i] = h[i] /\ i \in 1 .. N
    BY <1>2, CutFacts
  <2>2. /\ SubSeq(g, 1, n) \in Seq(Event) /\ Len(SubSeq(g, 1, n)) = n
        /\ \A i \in 1 .. n : SubSeq(g, 1, n)[i] = g[i]
    BY <1>1, <1>2, CutFacts
  <2>3. \A i \in 1 .. n : SubSeq(g, 1, n)[i] = SubSeq(h, 1, n)[i]
    BY <1>1, <2>1, <2>2
  <2>4. QED
    BY <2>1, <2>2, <2>3, SeqEqual
<1>4. t \in Seq(Event) /\ Len(t) = N - n /\ \A i \in 1 .. N - n : t[i] = h[n + i]
  BY <1>2, TailFacts
<1>5. u \in Seq(Event) /\ Len(u) = (N + 1) - n /\ \A i \in 1 .. (N + 1) - n : u[i] = g[n + i]
  <2>1. /\ SubSeq(g, n + 1, Len(g)) \in Seq(Event)
        /\ Len(SubSeq(g, n + 1, Len(g))) = Len(g) - n
        /\ \A i \in 1 .. Len(g) - n : SubSeq(g, n + 1, Len(g))[i] = g[n + i]
    BY <1>1, <1>2, TailFacts
  <2>2. QED
    BY <1>1, <2>1
<1> HIDE DEF t, u
<1>6. /\ Append(t, e) \in Seq(Event) /\ Len(Append(t, e)) = (N - n) + 1
      /\ (\A i \in 1 .. N - n : Append(t, e)[i] = t[i]) /\ Append(t, e)[(N - n) + 1] = e
  BY <1>4, Grown
<1>7. ASSUME NEW i \in 1 .. (N + 1) - n PROVE u[i] = Append(t, e)[i]
  <2>1. CASE i \in 1 .. N - n
    <3>1. n + i \in 1 .. N
      BY <1>1, <2>1
    <3>2. QED
      BY <1>1, <1>4, <1>5, <1>6, <2>1, <3>1
  <2>2. CASE i = (N - n) + 1
    <3>1. n + i = N + 1
      BY <1>1, <2>2
    <3>2. u[i] = g[N + 1]
      BY <1>5, <3>1
    <3>3. Append(t, e)[i] = e
      BY <1>6, <2>2
    <3>4. QED
      BY <1>1, <3>2, <3>3
  <2>3. i \in 1 .. N - n \/ i = (N - n) + 1
    BY <1>1
  <2>4. QED
    BY <2>1, <2>2, <2>3
<1>8. Len(u) = Len(Append(t, e)) /\ \A i \in 1 .. Len(u) : u[i] = Append(t, e)[i]
  BY <1>1, <1>5, <1>6, <1>7
<1>9. u = Append(t, e)
  BY <1>5, <1>6, <1>8, SeqEqual
<1>10. QED
  BY <1>3, <1>9 DEF g, t, u

\* Appending to the second of two joined lists.
LEMMA JoinAppend ==
  ASSUME NEW s \in Seq(Event), NEW t \in Seq(Event), NEW e \in Event
  PROVE  Append(s \o t, e) = s \o Append(t, e)
<1>1. <<e>> \in Seq(Event) /\ s \o t \in Seq(Event)
  BY ConcatProperties
<1>2. Append(s \o t, e) = (s \o t) \o <<e>> /\ Append(t, e) = t \o <<e>>
  BY <1>1, AppendIsConcat
<1>3. (s \o t) \o <<e>> = s \o (t \o <<e>>)
  BY <1>1, ConcatAssociative
<1>4. QED
  BY <1>2, <1>3

\* A file that stands for a log still does when both grow by an event.
LEMMA StandsGrows ==
  ASSUME NEW h, NEW lines, StandsFor(lines, h), NEW e, Fits(h, e)
  PROVE  StandsFor(Append(lines, e), Append(h, e))
<1> DEFINE g == Append(h, e)
           N == Len(h)
<1>0. Good(h) /\ h \in Seq(Event) /\ e \in Event
  BY DEF StandsFor, Good, Fits
<1>1. Good(g)
  BY <1>0, AppendGood
<1>2. CASE lines = h
  BY <1>1, <1>2 DEF StandsFor
<1>3. ASSUME NEW n \in 1 .. N - 1, StaleAt(lines, h, n)
      PROVE  n \in 1 .. Len(g) - 1 /\ StaleAt(Append(lines, e), g, n)
  <2>1. /\ N \in Nat /\ Len(g) = N + 1 /\ n \in 0 .. N /\ n \in 1 .. N /\ n + 1 \in 1 .. N
        /\ n \in 1 .. Len(g) - 1 /\ g[n] = h[n] /\ g[n + 1] = h[n + 1]
    <3>1. N \in Nat /\ Len(g) = N + 1 /\ \A i \in 1 .. N : g[i] = h[i]
      BY <1>0, Grown
    <3>2. n \in 0 .. N /\ n \in 1 .. N /\ n + 1 \in 1 .. N /\ n \in 1 .. (N + 1) - 1
      BY <3>1
    <3>3. QED
      BY <3>1, <3>2
  <2> DEFINE pre == SubSeq(h, 1, n)
             post == SubSeq(h, n + 1, N)
             C == Closers(pre)
  <2>2. SubSeq(g, 1, n) = pre /\ SubSeq(g, n + 1, Len(g)) = Append(post, e)
    BY <1>0, <2>1, AppendCut
  <2>3. lines = (pre \o C) \o post /\ TurnOpen(pre) /\ ~h[n].synthetic /\ h[n + 1].kind # "start"
    BY <1>3 DEF StaleAt
  <2>4. Good(pre) /\ pre \in Seq(Event) /\ post \in Seq(Event)
    BY <1>0, <2>1, PrefixGood, CutFacts, TailFacts
  <2>5. C \in Seq(Event) /\ pre \o C \in Seq(Event)
    BY <2>4, RepairGood, ConcatProperties
  <2> HIDE DEF pre, post, C
  <2>6. Append(lines, e) = (pre \o C) \o Append(post, e)
    BY <1>0, <2>3, <2>4, <2>5, JoinAppend
  <2> HIDE DEF g
  <2>7. StaleAt(Append(lines, e), g, n)
    <3>1. TurnOpen(SubSeq(g, 1, n)) /\ ~g[n].synthetic /\ g[n + 1].kind # "start"
      BY <2>1, <2>2, <2>3
    <3>2. Append(lines, e) = (SubSeq(g, 1, n) \o Closers(SubSeq(g, 1, n))) \o SubSeq(g, n + 1, Len(g))
      BY <2>2, <2>6 DEF C
    <3>3. QED
      BY <2>1, <3>1, <3>2 DEF StaleAt
  <2>8. QED
    BY <2>1, <2>7
<1>4. QED
  BY <1>1, <1>2, <1>3 DEF StandsFor

\* An event committed behind closers that a poll has written.
LEMMA RepairedGrows ==
  ASSUME NEW h, Good(h), NEW e, Fits(h, e), TurnOpen(h), ~h[Len(h)].synthetic
  PROVE  StandsFor(Append(h \o Closers(h), e), Append(h, e))
<1> DEFINE g == Append(h, e)
           N == Len(h)
           C == Closers(h)
<1>0. h \in Seq(Event) /\ e \in Event /\ e.kind # "start"
  BY DEF Good, Fits
<1>1. Good(g) /\ C \in Seq(Event)
  BY AppendGood, RepairGood
<1>2. N \in Nat \ {0}
  BY ClosersShape
<1>3. Len(g) = N + 1 /\ (\A i \in 1 .. N : g[i] = h[i]) /\ g[N + 1] = e
  BY <1>0, Grown
<1>4. N \in 1 .. Len(g) - 1 /\ N \in 0 .. N /\ N \in 1 .. N
  BY <1>2, <1>3
<1>5. SubSeq(g, 1, N) = h
  <2>1. SubSeq(g, 1, N) = SubSeq(h, 1, N) /\ SubSeq(h, 1, N) = h
    BY <1>0, <1>4, AppendCut, SubSeqFull
  <2>2. QED
    BY <2>1
<1>6. SubSeq(g, N + 1, Len(g)) = <<e>>
  <2>1. SubSeq(g, N + 1, N + 1) = Append(SubSeq(h, N + 1, N), e)
    BY <1>0, <1>4, AppendCut
  <2>2. SubSeq(h, N + 1, N) = <<>>
    BY <1>2, SubSeqEmpty
  <2>3. Append(<<>>, e) = <<e>>
    <3>1. <<>> \in Seq(Event) /\ <<e>> \in Seq(Event)
      BY <1>0, EmptySeq
    <3>2. Append(<<>>, e) = <<>> \o <<e>>
      BY <1>0, <3>1, AppendIsConcat
    <3>3. <<>> \o <<e>> = <<e>>
      BY <3>1, ConcatEmptySeq
    <3>4. QED
      BY <3>2, <3>3
  <2> HIDE DEF g
  <2>4. QED
    BY <1>3, <2>1, <2>2, <2>3
<1>7. h \o C \in Seq(Event)
  BY <1>0, <1>1, ConcatProperties
<1>8. Append(h \o C, e) = (h \o C) \o <<e>>
  BY <1>0, <1>7, AppendIsConcat
<1> HIDE DEF g
<1>9. StaleAt(Append(h \o C, e), g, N)
  BY <1>0, <1>3, <1>4, <1>5, <1>6, <1>8 DEF StaleAt
<1>10. QED
  BY <1>1, <1>4, <1>9 DEF StandsFor, g

\* Between a point of a turn and the next turn's start there is room for the
\* closers of that point: the turn answered its calls and ended.
LEMMA RoomForClosers ==
  ASSUME NEW h, Good(h), NEW n \in 1 .. Len(h) - 1, TurnOpen(SubSeq(h, 1, n)),
         NEW i \in n + 1 .. Len(h), h[i].kind = "start"
  PROVE  n + (Cardinality(OpenCalls(SubSeq(h, 1, n))) + 1) <= i - 1
<1> DEFINE pre == SubSeq(h, 1, n)
           O == OpenCalls(pre)
<1>0. h \in Seq(Event) /\ TurnsEnd(h) /\ Once(h) /\ Answered(h)
  BY DEF Good
<1>1. Len(h) \in Nat /\ DOMAIN h = 1 .. Len(h) /\ n \in Nat /\ n \in 0 .. Len(h) /\ n < Len(h)
  BY <1>0, LogFacts
<1>2. /\ pre \in Seq(Event) /\ Len(pre) = n
      /\ \A k \in 1 .. n : pre[k] = h[k] /\ k \in 1 .. Len(h)
      /\ \A k \in 1 .. n + 1, j \in 0 .. n : NoEnd(pre, k, j) <=> NoEnd(h, k, j)
  BY <1>0, <1>1, CutFacts
<1>3. PICK s \in 1 .. n : pre[s].kind = "start" /\ NoEnd(pre, s, n)
  BY <1>2, OpenBy
<1>4. O \subseteq 1 .. n /\ Cardinality(O) \in Nat
  BY <1>2, OpenCallsFinite
<1>5. \A o \in O :
        /\ pre[o].kind = "call"
        /\ \A j \in o + 1 .. n : pre[j].kind = "result" => pre[j].call # pre[o].call
  BY <1>2 DEF OpenCalls
<1> HIDE DEF pre, O
<1>6. h[s].kind = "start" /\ NoEnd(h, s, n) /\ s < i /\ s \in 1 .. Len(h) /\ i \in 1 .. Len(h)
  BY <1>1, <1>2, <1>3
<1>7. ~NoEnd(h, s, i)
  BY <1>0, <1>1, <1>6 DEF TurnsEnd
<1>8. PICK f \in s .. i : h[f].kind = "end"
  BY <1>7 DEF NoEnd
<1>9. f \in n + 1 .. i - 1 /\ f \in 1 .. Len(h)
  <2>1. ~(f \in s .. n)
    BY <1>6, <1>8 DEF NoEnd
  <2>2. f # i
    BY <1>8
  <2>3. QED
    BY <1>1, <1>6, <2>1, <2>2
<1>10. ASSUME NEW o \in O
       PROVE  \E j \in n + 1 .. f - 1 : h[j].kind = "result" /\ h[j].call = h[o].call
  <2>1. o \in 1 .. n /\ o \in 1 .. Len(h) /\ h[o].kind = "call" /\ o < f
    BY <1>1, <1>2, <1>4, <1>5, <1>9
  <2>2. PICK j \in o + 1 .. f - 1 : h[j].kind = "result" /\ h[j].call = h[o].call
    BY <1>0, <1>1, <1>8, <1>9, <2>1 DEF Answered
  <2>3. ~(j <= n)
    <3>1. ASSUME j <= n PROVE FALSE
      <4>1. j \in o + 1 .. n /\ j \in 1 .. n
        BY <1>1, <2>1, <3>1
      <4>2. QED
        BY <1>2, <1>5, <2>1, <2>2, <4>1
    <3>2. QED
      BY <3>1
  <2>4. j \in n + 1 .. f - 1
    BY <1>1, <1>9, <2>1, <2>3
  <2>5. QED
    BY <2>2, <2>4
<1> DEFINE T == n + 1 .. f - 1
           answer == [o \in O |-> CHOOSE j \in T : h[j].kind = "result" /\ h[j].call = h[o].call]
<1>11. \A o \in O : answer[o] \in T /\ h[answer[o]].kind = "result" /\ h[answer[o]].call = h[o].call
  BY <1>10
<1>12. \A o \in O : o \in 1 .. Len(h) /\ h[o].kind = "call"
  BY <1>2, <1>4, <1>5
<1> HIDE DEF answer
<1>13. ASSUME NEW o \in O, NEW q \in O, answer[o] = answer[q] PROVE o = q
  <2>1. h[o].call = h[q].call
    BY <1>11, <1>13
  <2>2. QED
    BY <1>0, <1>1, <1>12, <2>1 DEF Once
<1>14. answer \in [O -> T]
  BY <1>11 DEF answer
<1>15. answer \in Injection(O, T)
  BY <1>13, <1>14 DEF Injection, IsInjective
<1>16. IsFiniteSet(T) /\ Cardinality(T) = (f - 1) - (n + 1) + 1
  <2>1. n + 1 \in Int /\ f - 1 \in Int
    BY <1>1, <1>9
  <2>2. IsFiniteSet(T) /\ Cardinality(T) = IF n + 1 > f - 1 THEN 0 ELSE (f - 1) - (n + 1) + 1
    BY <2>1, FS_Interval
  <2>3. n + 1 > f - 1 => (f - 1) - (n + 1) + 1 = 0
    BY <1>1, <1>9
  <2>4. QED
    BY <2>2, <2>3
<1>17. Cardinality(O) <= Cardinality(T)
  BY <1>15, <1>16, FS_Injection
<1>18. n + (Cardinality(O) + 1) <= i - 1
  BY <1>1, <1>4, <1>6, <1>9, <1>16, <1>17
<1>19. QED
  BY <1>18 DEF O, pre

\* Choosing the first m positions is cutting after m.
LEMMA ChosenPrefix ==
  ASSUME NEW lines \in Seq(Event), NEW m \in 0 .. Len(lines)
  PROVE  Chosen(lines, 1 .. m) = SubSeq(lines, 1, m)
<1> DEFINE f == [k \in 1 .. m |-> k]
           S == 1 .. m
<1>1. /\ m \in Nat /\ SubSeq(lines, 1, m) \in Seq(Event) /\ Len(SubSeq(lines, 1, m)) = m
      /\ \A i \in 1 .. m : SubSeq(lines, 1, m)[i] = lines[i]
  BY CutFacts
<1>2. S \in SUBSET Nat /\ f \in [1 .. m -> S] /\ \A k \in 1 .. m : f[k] = k
  BY <1>1
<1>3. /\ \A k \in 1 .. m, l \in 1 .. m : k < l => f[k] < f[l]
      /\ \A i \in S : \E k \in 1 .. m : f[k] = i
  BY <1>2
<1> HIDE DEF f, S
<1>4. Cardinality(S) = m /\ \A k \in 1 .. m : Nth(S, k) = f[k]
  BY <1>1, <1>2, <1>3, NthIsTheList
<1>5. Chosen(lines, S) = [k \in 1 .. m |-> SubSeq(lines, 1, m)[k]]
  BY <1>1, <1>2, <1>4 DEF Chosen
<1>6. SubSeq(lines, 1, m) = [k \in 1 .. m |-> SubSeq(lines, 1, m)[k]]
  BY <1>1, LenProperties
<1>7. QED
  BY <1>5, <1>6 DEF S

KeptOf(lines, to) ==
  Chosen(lines, {j \in DOMAIN lines : Parses(lines[j]) /\ lines[j].seq < to})

\* Truncating a sound log keeps what comes before the undone turn.
LEMMA KeptOfLog ==
  ASSUME NEW h, Good(h), NEW i \in 1 .. Len(h)
  PROVE  KeptOf(h, i - 1) = SubSeq(h, 1, i - 1)
<1> DEFINE S == {j \in DOMAIN h : Parses(h[j]) /\ h[j].seq < i - 1}
<1>1. h \in Seq(Event) /\ Contiguous(h) /\ \A j \in DOMAIN h : Parses(h[j])
  BY DEF Good
<1>2. Len(h) \in Nat /\ DOMAIN h = 1 .. Len(h) /\ i - 1 \in 0 .. Len(h)
  BY <1>1, LogFacts
<1>3. \A j \in 1 .. Len(h) : h[j].seq = j - 1 /\ Parses(h[j])
  BY <1>1, <1>2 DEF Contiguous
<1>4. \A j \in 1 .. Len(h) : j - 1 < i - 1 <=> j \in 1 .. i - 1
  BY <1>2
<1>5. 1 .. i - 1 \subseteq 1 .. Len(h)
  BY <1>2
<1>6. S = 1 .. i - 1
  BY <1>2, <1>3, <1>4, <1>5
<1>7. QED
  BY <1>1, <1>2, <1>6, ChosenPrefix DEF KeptOf

\* Undo behind a point where a poll wrote closers keeps all of them, before it
\* none of them.
LEMMA KeptOfStale ==
  ASSUME NEW h, Good(h), NEW lines, NEW n \in 1 .. Len(h) - 1, StaleAt(lines, h, n),
         NEW i \in 1 .. Len(h), h[i].kind = "start"
  PROVE  StandsFor(KeptOf(lines, i - 1), SubSeq(h, 1, i - 1))
<1> DEFINE pre == SubSeq(h, 1, n)
           C == Closers(pre)
           c == Len(C)
           N == Len(h)
           S == {j \in DOMAIN lines : Parses(lines[j]) /\ lines[j].seq < i - 1}
           p == SubSeq(h, 1, i - 1)
<1>0. h \in Seq(Event) /\ Contiguous(h) /\ i - 1 \in 0 .. N /\ N \in Nat
  <2>1. h \in Seq(Event) /\ Contiguous(h)
    BY DEF Good
  <2>2. N \in Nat
    BY <2>1, LogFacts
  <2>3. QED
    BY <2>1, <2>2
<1>a. Staled(lines, h, n, c)
  BY StaleShape
<1>1. /\ c \in Nat \ {0} /\ n \in Nat \ {0} /\ n < N
      /\ c = Cardinality(OpenCalls(pre)) + 1
      /\ lines \in Seq(Event) /\ Len(lines) = N + c
      /\ \A j \in 1 .. n : lines[j] = h[j]
      /\ \A j \in n + 1 .. n + c :
           /\ lines[j].synthetic /\ lines[j].seq = j - 1
           /\ lines[j].kind = IF j = n + c THEN "end" ELSE "result"
           /\ lines[j] = C[j - n]
      /\ \A j \in n + 1 .. N : lines[j + c] = h[j]
  BY <1>0, <1>a DEF Staled
<1>2. TurnOpen(pre) /\ ~h[n].synthetic /\ h[n + 1].kind # "start"
  BY DEF StaleAt
<1>3. /\ p \in Seq(Event) /\ Len(p) = i - 1
      /\ \A j \in 1 .. i - 1 : p[j] = h[j]
  BY <1>0, CutFacts
<1>4. Good(p)
  BY <1>0, PrefixGood
<1>5. DOMAIN lines = 1 .. N + c /\ \A j \in 1 .. N + c : Parses(lines[j])
  BY <1>1, StaleHealed, LenProperties
<1>6. \A j \in 1 .. N : h[j].seq = j - 1
  BY <1>0, LogFacts DEF Contiguous
<1>7. i # n + 1
  BY <1>2
<1>b. c \in Nat \ {0} /\ n \in Nat \ {0} /\ N \in Nat /\ n < N /\ i \in 1 .. N
  BY <1>0, <1>1
<1> HIDE DEF p, c, N
<1>8. ASSUME NEW j \in 1 .. n PROVE lines[j].seq = j - 1
  <2>1. j \in 1 .. N
    BY <1>0, <1>1
  <2>2. lines[j] = h[j]
    BY <1>1
  <2>3. QED
    BY <1>6, <2>1, <2>2
<1>9. ASSUME NEW j \in 1 .. N + c, n + c < j PROVE lines[j].seq = (j - c) - 1 /\ j - c \in n + 1 .. N
  <2>1. j - c \in n + 1 .. N /\ (j - c) + c = j /\ j - c \in 1 .. N
    BY <1>9, <1>b
  <2>2. lines[(j - c) + c] = h[j - c]
    BY <1>1, <2>1
  <2>3. h[j - c].seq = (j - c) - 1
    BY <1>6, <2>1
  <2>4. QED
    BY <2>1, <2>2, <2>3
<1>10. CASE i <= n
  <2>1. ASSUME NEW j \in 1 .. N + c PROVE lines[j].seq < i - 1 <=> j \in 1 .. i - 1
    <3>1. CASE j \in 1 .. n
      BY <1>0, <1>1, <1>8, <1>10, <3>1
    <3>2. CASE j \in n + 1 .. n + c
      <4>1. lines[j].seq = j - 1
        BY <1>1, <3>2
      <4>2. QED
        BY <1>0, <1>1, <1>10, <3>2, <4>1
    <3>3. CASE n + c < j
      BY <1>0, <1>1, <1>9, <1>10, <3>3
    <3>4. QED
      BY <1>0, <1>1, <3>1, <3>2, <3>3
  <2>2. 1 .. i - 1 \subseteq 1 .. N + c
    BY <1>0, <1>1
  <2>3. S = 1 .. i - 1
    BY <1>5, <2>1, <2>2
  <2>4. KeptOf(lines, i - 1) = SubSeq(lines, 1, i - 1) /\ i - 1 \in 0 .. Len(lines)
    <3>1. i - 1 \in 0 .. Len(lines) /\ lines \in Seq(Event)
      BY <1>0, <1>1
    <3>2. KeptOf(lines, i - 1) = Chosen(lines, S)
      BY DEF KeptOf
    <3>3. Chosen(lines, 1 .. i - 1) = SubSeq(lines, 1, i - 1)
      BY <3>1, ChosenPrefix
    <3> HIDE DEF S
    <3>4. QED
      BY <2>3, <3>1, <3>2, <3>3
  <2>5. /\ SubSeq(lines, 1, i - 1) \in Seq(Event) /\ Len(SubSeq(lines, 1, i - 1)) = i - 1
        /\ \A j \in 1 .. i - 1 : SubSeq(lines, 1, i - 1)[j] = lines[j]
    BY <1>1, <2>4, CutFacts
  <2>6. ASSUME NEW j \in 1 .. i - 1 PROVE SubSeq(lines, 1, i - 1)[j] = p[j]
    <3>1. j \in 1 .. n
      BY <1>0, <1>1, <1>10
    <3>2. lines[j] = h[j] /\ p[j] = h[j]
      BY <1>1, <1>3, <3>1
    <3>3. QED
      BY <2>5, <3>2
  <2>7. SubSeq(lines, 1, i - 1) = p
    BY <1>3, <2>5, <2>6, SeqEqual
  <2>8. QED
    BY <1>4, <2>4, <2>7 DEF StandsFor, p
<1>11. CASE n + 1 < i
  <2> DEFINE m == (i - 1) + c
             post == SubSeq(p, n + 1, Len(p))
             kept == (pre \o C) \o post
  <2>1. n + c <= i - 1
    <3>1. i \in n + 1 .. Len(h)
      BY <1>0, <1>1, <1>11 DEF N
    <3>2. QED
      BY <1>1, <1>2, <3>1, RoomForClosers
  <2>2. ASSUME NEW j \in 1 .. N + c PROVE lines[j].seq < i - 1 <=> j \in 1 .. m
    <3>1. CASE j \in 1 .. n
      <4>1. lines[j].seq = j - 1
        BY <1>8, <3>1
      <4>2. QED
        BY <1>11, <1>b, <3>1, <4>1
    <3>2. CASE j \in n + 1 .. n + c
      <4>1. lines[j].seq = j - 1
        BY <1>1, <3>2
      <4>2. QED
        BY <1>11, <1>b, <2>1, <3>2, <4>1
    <3>3. CASE n + c < j
      <4>1. lines[j].seq = (j - c) - 1
        BY <1>9, <3>3
      <4>2. QED
        BY <1>11, <1>b, <2>1, <3>3, <4>1
    <3>4. j \in 1 .. n \/ j \in n + 1 .. n + c \/ n + c < j
      BY <1>b
    <3>5. QED
      BY <3>1, <3>2, <3>3, <3>4
  <2>3. m \in 0 .. Len(lines) /\ 1 .. m \subseteq 1 .. N + c /\ m \in Nat
    BY <1>0, <1>1
  <2>4. S = 1 .. m
    BY <1>5, <2>2, <2>3
  <2>5. KeptOf(lines, i - 1) = SubSeq(lines, 1, m)
    <3>1. KeptOf(lines, i - 1) = Chosen(lines, S)
      BY DEF KeptOf
    <3> HIDE DEF S, m
    <3>2. Chosen(lines, 1 .. m) = SubSeq(lines, 1, m)
      BY <1>1, <2>3, ChosenPrefix
    <3>3. QED
      BY <2>4, <3>1, <3>2
  <2>6. /\ SubSeq(lines, 1, m) \in Seq(Event) /\ Len(SubSeq(lines, 1, m)) = m
        /\ \A j \in 1 .. m : SubSeq(lines, 1, m)[j] = lines[j]
    BY <1>1, <2>3, CutFacts
  <2>7. n \in 1 .. Len(p) - 1 /\ n \in 0 .. Len(p)
    BY <1>0, <1>1, <1>3, <1>11
  <2>8. p[n] = h[n] /\ p[n + 1] = h[n + 1] /\ SubSeq(p, 1, n) = pre
    <3>1. n \in 1 .. i - 1 /\ n + 1 \in 1 .. i - 1 /\ n \in 0 .. N
      BY <1>0, <1>1, <1>11
    <3>2. /\ pre \in Seq(Event) /\ Len(pre) = n /\ \A j \in 1 .. n : pre[j] = h[j]
      BY <1>0, <3>1, CutFacts DEF N
    <3>3. /\ SubSeq(p, 1, n) \in Seq(Event) /\ Len(SubSeq(p, 1, n)) = n
          /\ \A j \in 1 .. n : SubSeq(p, 1, n)[j] = p[j]
      BY <1>3, <2>7, CutFacts
    <3>4. \A j \in 1 .. n : j \in 1 .. i - 1
      BY <1>0, <1>1, <1>11
    <3>5. \A j \in 1 .. n : SubSeq(p, 1, n)[j] = pre[j]
      BY <1>3, <3>2, <3>3, <3>4
    <3>6. SubSeq(p, 1, n) = pre
      BY <3>2, <3>3, <3>5, SeqEqual
    <3>7. QED
      BY <1>3, <3>1, <3>6
  <2>9. StaleAt(kept, p, n)
    BY <1>2, <2>7, <2>8 DEF StaleAt
  <2>10. /\ kept \in Seq(Event) /\ Len(kept) = m
         /\ \A j \in 1 .. n : kept[j] = p[j]
         /\ \A j \in n + 1 .. n + c : kept[j] = C[j - n]
         /\ \A j \in n + 1 .. i - 1 : kept[j + c] = p[j]
    <3> DEFINE d == Len(Closers(SubSeq(p, 1, n)))
    <3>1. d = c
      BY <2>8 DEF c
    <3> HIDE DEF kept
    <3>a. Staled(kept, p, n, d)
      BY <1>4, <2>7, <2>9, StaleShape
    <3>2. /\ kept \in Seq(Event) /\ Len(kept) = Len(p) + d
          /\ \A j \in 1 .. n : kept[j] = p[j]
          /\ \A j \in n + 1 .. n + d :
               /\ kept[j].synthetic /\ kept[j].seq = j - 1
               /\ kept[j].kind = IF j = n + d THEN "end" ELSE "result"
               /\ kept[j] = Closers(SubSeq(p, 1, n))[j - n]
          /\ \A j \in n + 1 .. Len(p) : kept[j + d] = p[j]
      BY <3>a DEF Staled
    <3> HIDE DEF d
    <3>3. kept \in Seq(Event) /\ Len(kept) = m /\ \A j \in 1 .. n : kept[j] = p[j]
      BY <1>3, <3>1, <3>2
    <3>4. \A j \in n + 1 .. i - 1 : kept[j + c] = p[j]
      BY <1>3, <3>1, <3>2
    <3>5. \A j \in n + 1 .. n + c : kept[j] = Closers(SubSeq(p, 1, n))[j - n]
      BY <3>1, <3>2
    <3>6. QED
      BY <2>8, <3>3, <3>4, <3>5
  <2> HIDE DEF kept
  <2>11. ASSUME NEW j \in 1 .. m PROVE kept[j] = lines[j]
    <3>1. CASE j \in 1 .. n
      <4>1. j \in 1 .. i - 1
        BY <1>0, <1>1, <1>11, <3>1
      <4>2. QED
        BY <1>1, <1>3, <2>10, <3>1, <4>1
    <3>2. CASE j \in n + 1 .. n + c
      BY <1>1, <2>10, <3>2
    <3>3. CASE n + c < j
      <4>1. j - c \in n + 1 .. i - 1 /\ j - c \in n + 1 .. N /\ (j - c) + c = j /\ j - c \in 1 .. i - 1
        BY <1>b, <3>3
      <4>2. kept[(j - c) + c] = p[j - c]
        BY <2>10, <4>1
      <4>3. lines[(j - c) + c] = h[j - c]
        BY <1>1, <4>1
      <4>4. QED
        BY <1>3, <4>1, <4>2, <4>3
    <3>4. j \in 1 .. n \/ j \in n + 1 .. n + c \/ n + c < j
      BY <1>1, <2>3
    <3>5. QED
      BY <3>1, <3>2, <3>3, <3>4
  <2>12. SubSeq(lines, 1, m) = kept
    <3> HIDE DEF m
    <3>1. \A j \in 1 .. m : SubSeq(lines, 1, m)[j] = kept[j]
      BY <2>6, <2>11
    <3>2. QED
      BY <2>6, <2>10, <3>1, SeqEqual
  <2>13. QED
    BY <1>4, <2>5, <2>7, <2>9, <2>12 DEF StandsFor, p
<1>12. QED
  BY <1>0, <1>1, <1>7, <1>10, <1>11

\* Truncating a file that stands for a log, closers in the middle included,
\* keeps what stands for the log before the undone turn (truncate).
LEMMA KeptStands ==
  ASSUME NEW h, NEW lines, StandsFor(lines, h), NEW i \in 1 .. Len(h), h[i].kind = "start"
  PROVE  StandsFor(KeptOf(lines, i - 1), SubSeq(h, 1, i - 1))
<1>1. Good(h) /\ (lines = h \/ \E n \in 1 .. Len(h) - 1 : StaleAt(lines, h, n))
  BY DEF StandsFor
<1>2. CASE lines = h
  <2>1. h \in Seq(Event) /\ Len(h) \in Nat
    BY <1>1, LogFacts DEF Good
  <2>2. Good(SubSeq(h, 1, i - 1))
    <3>1. i - 1 \in 0 .. Len(h)
      BY <2>1
    <3>2. QED
      BY <1>1, <3>1, PrefixGood
  <2>3. QED
    BY <1>1, <1>2, <2>2, KeptOfLog DEF StandsFor
<1>3. CASE \E n \in 1 .. Len(h) - 1 : StaleAt(lines, h, n)
  BY <1>1, <1>3, KeptOfStale
<1>4. QED
  BY <1>1, <1>2, <1>3

(***************************************************************************)
(* Types, under every fault.                                               *)
(***************************************************************************)
LEMMA ClosersType ==
  ASSUME NEW h \in Seq(Event)
  PROVE  Closers(h) \in Seq(Event)
<1> DEFINE O == OpenCalls(h)
           n == Cardinality(O)
           next == Last(h).seq + 1
           C == [k \in 1 .. n + 1 |->
                   IF k <= n THEN Closer(next + k - 1, "result", h[Nth(O, k)].call)
                   ELSE Closer(next + n, "end", NoCall)]
<1>1. CASE ~TurnOpen(h)
  BY <1>1, EmptySeq DEF Closers
<1>2. CASE TurnOpen(h)
  <2>1. Len(h) \in Nat \ {0} /\ \A i \in 1 .. Len(h) : h[i] \in Event
    BY <1>2, LogFacts, OpenBy
  <2>2. next \in Nat
    <3>1. h[Len(h)] \in Event
      BY <2>1
    <3>2. QED
      BY <3>1 DEF Last, Event
  <2>3. n \in Nat /\ IsFiniteSet(O) /\ O \in SUBSET Nat /\ O \subseteq 1 .. Len(h)
    BY OpenCallsFinite
  <2> HIDE DEF next, O, n
  <2>4. ASSUME NEW k \in 1 .. n + 1
        PROVE  (IF k <= n THEN Closer(next + k - 1, "result", h[Nth(O, k)].call)
                ELSE Closer(next + n, "end", NoCall)) \in Event
    <3>1. k \in Nat /\ next + k - 1 \in Nat /\ next + n \in Nat
      BY <2>2, <2>3
    <3>2. CASE k <= n
      <4>1. k \in 1 .. Cardinality(O)
        BY <2>3, <3>1, <3>2 DEF n
      <4>2. Nth(O, k) \in 1 .. Len(h)
        BY <2>3, <4>1, NthIsThere
      <4>3. h[Nth(O, k)].call \in Call \cup {NoCall}
        BY <2>1, <4>2 DEF Event
      <4>4. QED
        BY <3>1, <3>2, <4>3 DEF Closer, Event, Kind
    <3>3. CASE ~(k <= n)
      BY <3>1, <3>3 DEF Closer, Event, Kind
    <3>4. QED
      BY <3>2, <3>3
  <2>5. C \in Seq(Event)
    BY <2>3, <2>4, IsASeq
  <2>6. Closers(h) = C
    BY <1>2 DEF Closers, n, O, next
  <2>7. QED
    BY <2>5, <2>6
<1>3. QED
  BY <1>1, <1>2

\* Healing yields a list of events.
LEMMA HealedType ==
  ASSUME NEW events \in Seq(Event)
  PROVE  Healed(events) \in Seq(Event)
BY ChosenType DEF Healed

\* What is committed is an event.
LEMMA EventOfType ==
  ASSUME NEW seq \in Nat, NEW kind \in Kind, NEW call \in Call \cup {NoCall}
  PROVE  EventOf(seq, kind, call) \in Event
BY DEF EventOf, Event

FileType == [header : {"absent", "torn", "whole", "lost"}, lines : Seq(Event), torn : BOOLEAN]
TurnType == [open : BOOLEAN, calls : SUBSET Call, stopped : BOOLEAN, own : BOOLEAN]
OpType == [pc : Steps, events : Seq(Event), fill : Seq(Event), then : {"idle", "read", "close"}]

\* A commit keeps the types, whether its line is written or not.
LEMMA CommitTypes ==
  ASSUME TypeOK, NEW kind \in Kind, NEW call \in Call \cup {NoCall},
         Commit(EventOf(Next_seq, kind, call))
  PROVE  file' \in FileType /\ log' \in Seq(Event) /\ watermark' \in Nat
<1> DEFINE e == EventOf(Next_seq, kind, call)
<1>1. file \in FileType /\ log \in Seq(Event)
  BY DEF TypeOK, FileType
<1>2. e \in Event /\ e.seq \in Nat /\ EventOf(e.seq, "bad", NoCall) \in Event
  <2>1. Next_seq \in Nat
    BY <1>1, LogFacts DEF Next_seq
  <2>2. e \in Event /\ e.seq = Next_seq
    BY <2>1, EventOfType DEF EventOf
  <2>3. QED
    BY <2>1, <2>2, EventOfType DEF Kind
<1> HIDE DEF e
<1>3. log' = Append(log, e) /\ watermark' = e.seq + 1
  BY DEF Commit, e
<1>4. file' \in {file, [file EXCEPT !.torn = TRUE], WithLine(file, e)}
  BY DEF Commit, WriteOutcomes, e
<1>5. WithLine(file, e) \in FileType
  <2>1. /\ Append(file.lines, e) \in Seq(Event)
        /\ Append(file.lines, EventOf(e.seq, "bad", NoCall)) \in Seq(Event)
    BY <1>1, <1>2, Grown DEF FileType
  <2>2. QED
    BY <1>1, <2>1 DEF WithLine, FileType
<1>6. [file EXCEPT !.torn = TRUE] \in FileType
  BY <1>1 DEF FileType
<1>7. log' \in Seq(Event) /\ watermark' \in Nat
  BY <1>1, <1>2, <1>3, Grown
<1>8. QED
  BY <1>1, <1>4, <1>5, <1>6, <1>7

\* The types hold at the start.
LEMMA InitTypes ==
  ASSUME Init PROVE TypeOK
<1>1. env \in Environment /\ 0 \in 0 .. env.maxCrashes
  BY StoreAssumption DEF Init, Environment
<1>2. <<>> \in Seq(Event)
  BY EmptySeq
<1>3. QED
  BY <1>1, <1>2 DEF Init, TypeOK, NoFile, NoTurn, NoOp, Steps

\* Every step keeps the types, under every fault.
LEMMA TypesStay ==
  ASSUME TypeOK, [Next]_vars
  PROVE  TypeOK'
<1>0. /\ env \in Environment /\ file \in FileType /\ log \in Seq(Event) /\ live \in BOOLEAN
      /\ watermark \in Nat /\ turn \in TurnType /\ op \in OpType /\ crashes \in 0 .. env.maxCrashes
      /\ crashes \in Nat /\ env.maxCrashes \in Nat
  BY DEF TypeOK, FileType, TurnType, OpType, Environment
<1>e. <<>> \in Seq(Event)
  BY EmptySeq
<1>n. NoTurn \in TurnType /\ NoOp \in OpType
  BY <1>e DEF NoTurn, TurnType, NoOp, OpType, Steps
<1>f. /\ \A lines \in Seq(Event) : FileOf(lines) \in FileType
      /\ Emptied \in FileType /\ NoFile \in FileType
  BY <1>e DEF FileOf, Emptied, NoFile, FileType
<1>c. Closers(op.events) \in Seq(Event) /\ Healed(file.lines) \in Seq(Event)
  BY <1>0, ClosersType, HealedType DEF OpType, FileType
<1> USE DEF TypeOK
<1> SUFFICES /\ env' \in Environment /\ file' \in FileType /\ log' \in Seq(Event) /\ live' \in BOOLEAN
             /\ watermark' \in Nat /\ turn' \in TurnType /\ op' \in OpType
             /\ crashes' \in 0 .. env'.maxCrashes
  BY DEF FileType, TurnType, OpType
<1> USE <1>0 DEF TypeOK
<1>1. CASE Create
  BY <1>1, <1>e, <1>n, <1>f DEF Create
<1>2. CASE StartTurn
  <2>1. file' \in FileType /\ log' \in Seq(Event) /\ watermark' \in Nat
    BY <1>2, CommitTypes DEF StartTurn, Kind
  <2>2. QED
    BY <1>2, <1>n, <2>1 DEF StartTurn, TurnType
<1>3. CASE LogNote
  <2>1. PICK kind \in {"note", "odd"} : Commit(EventOf(Next_seq, kind, NoCall))
    BY <1>3 DEF LogNote
  <2>2. file' \in FileType /\ log' \in Seq(Event) /\ watermark' \in Nat
    BY <2>1, CommitTypes DEF Kind
  <2>3. QED
    BY <1>3, <2>2 DEF LogNote
<1>4. ASSUME NEW c \in Call, LogCall(c)
      PROVE  /\ env' \in Environment /\ file' \in FileType /\ log' \in Seq(Event) /\ live' \in BOOLEAN
             /\ watermark' \in Nat /\ turn' \in TurnType /\ op' \in OpType
             /\ crashes' \in 0 .. env'.maxCrashes
  <2>1. file' \in FileType /\ log' \in Seq(Event) /\ watermark' \in Nat
    BY <1>4, CommitTypes DEF LogCall, Kind
  <2>2. turn' \in TurnType
    BY <1>4 DEF LogCall, TurnType
  <2>3. QED
    BY <1>4, <2>1, <2>2 DEF LogCall
<1>5. ASSUME NEW c \in Call, LogResult(c)
      PROVE  /\ env' \in Environment /\ file' \in FileType /\ log' \in Seq(Event) /\ live' \in BOOLEAN
             /\ watermark' \in Nat /\ turn' \in TurnType /\ op' \in OpType
             /\ crashes' \in 0 .. env'.maxCrashes
  <2>1. file' \in FileType /\ log' \in Seq(Event) /\ watermark' \in Nat
    BY <1>5, CommitTypes DEF LogResult, Kind
  <2>2. turn' \in TurnType
    BY <1>5 DEF LogResult, TurnType
  <2>3. QED
    BY <1>5, <2>1, <2>2 DEF LogResult
<1>6. CASE EndTurn
  <2>1. file' \in FileType /\ log' \in Seq(Event) /\ watermark' \in Nat
    <3>1. CASE Commit(EventOf(Next_seq, "end", NoCall))
      BY <3>1, CommitTypes DEF Kind
    <3>2. CASE UNCHANGED <<file, log, watermark>>
      BY <3>2
    <3>3. QED
      BY <1>6, <3>1, <3>2 DEF EndTurn
  <2>2. QED
    BY <1>6, <1>n, <2>1 DEF EndTurn
<1>7. CASE Stop
  BY <1>7 DEF Stop, TurnType
<1>8. CASE Open
  <2>1. op' \in OpType
    BY <1>8, <1>n DEF Open, OpType, Steps
  <2>2. QED
    BY <1>8, <2>1 DEF Open
<1>9. CASE LoadRead
  <2>1. op' \in OpType
    <3>1. CASE op' = NoOp
      BY <1>n, <3>1
    <3>2. CASE op' = [NoOp EXCEPT
                    !.pc = IF Dropped(file.lines) # {} THEN "rewrite"
                           ELSE IF file.torn THEN "cut" ELSE "close",
                    !.events = Healed(file.lines)]
      BY <1>n, <1>c, <3>2 DEF OpType, Steps
    <3>3. QED
      BY <1>9, <3>1, <3>2 DEF LoadRead
  <2>2. QED
    BY <1>9, <2>1 DEF LoadRead
<1>10. CASE OpenForWriting
  <2>1. (IF op.pc = "rewrite" THEN op.events ELSE file.lines) \in Seq(Event)
    BY DEF OpType, FileType
  <2>2. op' \in OpType
    BY <1>10, <2>1 DEF OpenForWriting, OpType, Steps
  <2>3. QED
    BY <1>10, <1>f, <2>2 DEF OpenForWriting
<1>11. CASE Fill
  <2>1. op.fill \in Seq(Event)
    BY DEF OpType
  <2>2. Append(op.fill, EventOf(0, "bad", NoCall)) \in Seq(Event)
    BY <2>1, Grown, EventOfType DEF Kind
  <2>3. file' \in FileType
    BY <1>11, <1>f, <2>1, <2>2 DEF Fill
  <2>4. op' \in OpType
    BY <1>11, <1>e DEF Fill, OpType, Steps
  <2>5. QED
    BY <1>11, <2>3, <2>4 DEF Fill
<1>12. CASE CheckClosers
  <2>1. op' \in {NoOp, [op EXCEPT !.pc = "bind"], [op EXCEPT !.pc = "append"]}
    BY <1>12 DEF CheckClosers
  <2>2. op' \in OpType
    BY <1>n, <2>1 DEF OpType, Steps
  <2>3. QED
    BY <1>12, <2>2 DEF CheckClosers
<1>13. CASE AppendClosers
  <2>1. file.lines \o Closers(op.events) \in Seq(Event) /\ op.events \o Closers(op.events) \in Seq(Event)
    BY <1>c, ConcatProperties DEF FileType, OpType
  <2>2. file' \in FileType
    BY <1>13, <2>1 DEF AppendClosers, FileType
  <2>3. op' \in OpType
    BY <1>13, <2>1 DEF AppendClosers, OpType, Steps
  <2>4. QED
    BY <1>13, <2>2, <2>3 DEF AppendClosers
<1>14. CASE Bind
  <2>1. op.events \in Seq(Event) /\ Len(op.events) \in Nat
    BY LogFacts DEF OpType
  <2>2. (IF live THEN [turn EXCEPT !.own = FALSE] ELSE NoTurn) \in TurnType
    BY <1>n DEF TurnType
  <2>3. QED
    BY <1>14, <1>n, <2>1, <2>2 DEF Bind
<1>15. CASE Poll
  <2>1. Loaded(file.lines) \in Seq(Event)
    BY <1>c, ClosersType, ConcatProperties DEF Loaded
  <2>2. QED
    BY <1>15, <1>f, <2>1 DEF Poll
<1>16. CASE Undo
  <2>1. PICK i \in DOMAIN log : op' = [NoOp EXCEPT !.pc = "truncate", !.fill = Kept(log[i].seq)]
    BY <1>16 DEF Undo
  <2>2. Kept(log[i].seq) \in Seq(Event)
    BY ChosenType DEF Kept, FileType
  <2>3. op' \in OpType
    BY <1>n, <2>1, <2>2 DEF OpType, Steps
  <2>4. QED
    BY <1>16, <2>3 DEF Undo
<1>17. CASE TruncateOpen
  <2>1. op' \in OpType
    BY <1>17 DEF TruncateOpen, OpType, Steps
  <2>2. QED
    BY <1>17, <1>f, <2>1 DEF TruncateOpen
<1>18. ASSUME Die
       PROVE  /\ env' \in Environment /\ log' \in Seq(Event) /\ live' \in BOOLEAN
              /\ watermark' \in Nat /\ turn' \in TurnType /\ op' \in OpType
              /\ crashes' \in 0 .. env'.maxCrashes
  <2>1. /\ env' = env /\ crashes < env.maxCrashes /\ crashes' = crashes + 1
        /\ live' = FALSE /\ log' = <<>> /\ watermark' = 0 /\ turn' = NoTurn /\ op' = NoOp
    BY <1>18 DEF Die
  <2>2. crashes + 1 \in 0 .. env.maxCrashes
    BY <2>1
  <2>3. log' \in Seq(Event) /\ turn' \in TurnType /\ op' \in OpType
    BY <1>e, <1>n, <2>1
  <2>4. QED
    BY <2>1, <2>2, <2>3
<1>19. CASE Kill
  BY <1>18, <1>19 DEF Kill
<1>20. CASE KillInCreate
  <2>1. file' \in FileType
    BY <1>20, <1>f DEF KillInCreate, FileType
  <2>2. QED
    BY <1>18, <1>20, <2>1 DEF KillInCreate
<1>21. CASE KillInAppend
  <2>1. file' \in FileType
    BY <1>21 DEF KillInAppend, FileType
  <2>2. QED
    BY <1>18, <1>21, <2>1 DEF KillInAppend
<1>22. CASE KillInClosers
  <2>1. PICK n \in 0 .. Len(Closers(op.events)) - 1 :
          file' = [file EXCEPT !.lines = @ \o SubSeq(Closers(op.events), 1, n), !.torn = TRUE]
    BY <1>22 DEF KillInClosers
  <2>2. n \in 0 .. Len(Closers(op.events))
    BY <1>c, LogFacts
  <2>3. SubSeq(Closers(op.events), 1, n) \in Seq(Event)
    BY <1>c, <2>2, CutFacts
  <2>4. file.lines \o SubSeq(Closers(op.events), 1, n) \in Seq(Event)
    BY <2>3, ConcatProperties DEF FileType
  <2>5. file' \in FileType
    BY <2>1, <2>4 DEF FileType
  <2>6. QED
    BY <1>18, <1>22, <2>5 DEF KillInClosers
<1>23. CASE KillInRewrite
  <2>1. file' \in FileType
    <3>1. CASE file' = Emptied
      BY <1>f, <3>1
    <3>2. ASSUME NEW n \in 0 .. Len(op.fill), file' = [FileOf(SubSeq(op.fill, 1, n)) EXCEPT !.torn = TRUE]
          PROVE  file' \in FileType
      <4>1. SubSeq(op.fill, 1, n) \in Seq(Event)
        BY CutFacts DEF OpType
      <4>2. FileOf(SubSeq(op.fill, 1, n)) \in FileType
        BY <1>f, <4>1
      <4>3. QED
        BY <3>2, <4>2 DEF FileType
    <3>3. QED
      BY <1>23, <3>1, <3>2 DEF KillInRewrite
  <2>2. QED
    BY <1>18, <1>23, <2>1 DEF KillInRewrite
<1>24. CASE Quiet
  BY <1>24 DEF Quiet, vars
<1>25. CASE UNCHANGED vars
  BY <1>25 DEF vars
<1>26. QED
  BY <1>1, <1>2, <1>3, <1>4, <1>5, <1>6, <1>7, <1>8, <1>9, <1>10, <1>11, <1>12, <1>13, <1>14, <1>15,
     <1>16, <1>17, <1>19, <1>20, <1>21, <1>22, <1>23, <1>24, <1>25
     DEF Next, LoadStep, TurnStep, Crash

(***************************************************************************)
(* The inductive invariant of a calm session.                              *)
(***************************************************************************)
\* What undo leaves of a log: what was there when some turn started.
Undone(l, h) == \E i \in DOMAIN l : l[i].kind = "start" /\ h = SubSeq(l, 1, i - 1)

\* The agent's turn is the one its log shows open.
TurnFits(t, l) ==
  /\ t.open <=> TurnOpen(l)
  /\ t.calls = {l[i].call : i \in OpenCalls(l)}
  /\ t.open => ~l[Len(l)].synthetic /\ t.own

Loading == {"read", "rewrite", "cut", "close", "append", "bind"}

\* The file stands for some sound log, unless it is being rewritten.
FileIs ==
  /\ file.header = "whole" => Sane(file.lines)
  /\ file.header # "whole" => file.lines = <<>>
  /\ file.header = "lost" => op.pc = "fill"

\* The log in memory and the file: the file stands for the log, or a poll has
\* closed its turn behind the agent's back; while an undo is under way it
\* stands for what the undo leaves.
LiveIs ==
  live =>
    /\ Good(log) /\ TurnFits(turn, log)
    /\ op.pc # "fill" => file.header = "whole" /\ ~file.torn
    /\ op.pc = "idle" => StandsFor(file.lines, log) \/ file.lines = log \o Closers(log)
    /\ op.pc # "idle" => ~turn.open
    /\ op.pc = "truncate" => StandsFor(file.lines, log)
    /\ op.pc \in {"truncate", "fill"} => Undone(log, Healed(op.fill))
    /\ op.pc \in Loading => Undone(log, Healed(file.lines))

\* What a load has read is what the file holds, healed, and from the cut of a
\* torn tail on it is the file; the lines to be written stand for a sound log.
OpIs ==
  /\ op.pc \in {"rewrite", "cut", "close", "append", "bind"} =>
       file.header = "whole" /\ op.events = Healed(file.lines)
  /\ op.pc \in {"cut", "close", "append", "bind"} => op.events = file.lines
  /\ op.pc \in {"close", "append", "bind"} => ~file.torn
  /\ op.pc = "bind" => ~TurnOpen(op.events)
  /\ op.pc \in {"truncate", "fill"} => Sane(op.fill)
  /\ op.pc = "truncate" => live
  /\ op.pc = "fill" =>
       /\ file.lines = <<>>
       /\ \/ op.then = "read" /\ live
          \/ op.then = "close" /\ op.fill = op.events /\ Healed(op.fill) = op.fill

CalmInvariant == Calm => FileIs /\ LiveIs /\ OpIs

\* The empty log is sound.
LEMMA EmptyGood ==
  /\ Good(<<>>) /\ ~TurnOpen(<<>>) /\ OpenCalls(<<>>) = {}
  /\ Healed(<<>>) = <<>> /\ Sane(<<>>)
<1> DEFINE h == <<>>
<1>1. h \in Seq(Event) /\ Len(h) = 0
  BY EmptySeq
<1>2. DOMAIN h = {}
  BY <1>1, LenProperties
<1> HIDE DEF h
<1>3. Good(h)
  BY <1>1, <1>2 DEF Good, Contiguous, InTurns, TurnsEnd, RepairsStand, Once, Asked, Answered
<1>4. ~TurnOpen(h) /\ OpenCalls(h) = {}
  BY <1>2 DEF TurnOpen, OpenCalls
<1>5. Healed(h) = h
  BY <1>3, GoodHealed
<1>6. Sane(h)
  BY <1>3, <1>5 DEF Sane, StandsFor
<1>7. QED
  BY <1>3, <1>4, <1>5, <1>6 DEF h

\* A call waits only in an open turn.
LEMMA OpenCallInTurn ==
  ASSUME NEW h, Good(h), NEW o \in OpenCalls(h)
  PROVE  TurnOpen(h)
<1>1. h \in Seq(Event) /\ InTurns(h)
  BY DEF Good
<1>2. Len(h) \in Nat /\ DOMAIN h = 1 .. Len(h)
  BY <1>1, LogFacts
<1>3. /\ o \in 1 .. Len(h) /\ h[o].kind = "call"
      /\ \A j \in o + 1 .. Len(h) : h[j].kind # "end"
  BY <1>2 DEF OpenCalls
<1>4. PICK s \in 1 .. o - 1 : h[s].kind = "start" /\ NoEnd(h, s, o - 1)
  BY <1>1, <1>2, <1>3 DEF InTurns
<1>5. s \in 1 .. Len(h)
  BY <1>2, <1>3
<1>6. ASSUME NEW k \in s .. Len(h) PROVE h[k].kind # "end"
  <2>1. k \in s .. o - 1 \/ k = o \/ k \in o + 1 .. Len(h)
    BY <1>2, <1>3, <1>4
  <2>2. QED
    BY <1>3, <1>4, <2>1 DEF NoEnd
<1>7. NoEnd(h, s, Len(h))
  BY <1>6 DEF NoEnd
<1>8. QED
  BY <1>1, <1>4, <1>5, <1>7, OpenBy

\* A file that stands for a log is sane, and healed to it.
LEMMA SaneBy ==
  ASSUME NEW lines, NEW h, StandsFor(lines, h)
  PROVE  Sane(lines) /\ Healed(lines) = h
BY StandsForHeals DEF Sane

\* A sound log stands for itself.
LEMMA GoodIsSane ==
  ASSUME NEW h, Good(h)
  PROVE  Sane(h) /\ Healed(h) = h
BY GoodHealed DEF Sane, StandsFor

\* What is known of a sane file.
LEMMA SaneFacts ==
  ASSUME NEW lines, Sane(lines)
  PROVE  /\ Good(Healed(lines)) /\ Healed(Healed(lines)) = Healed(lines) /\ Sane(Healed(lines))
         /\ \A i \in DOMAIN lines : Parses(lines[i])
         /\ Dropped(lines) = {} => Healed(lines) = lines
<1>1. StandsFor(lines, Healed(lines))
  BY DEF Sane
<1>2. QED
  BY <1>1, StandsForHeals, GoodIsSane

\* What undo leaves is sound and has no turn open.
LEMMA UndoneClosed ==
  ASSUME NEW l, Good(l), NEW h, Undone(l, h)
  PROVE  Good(h) /\ ~TurnOpen(h) /\ Closers(h) = <<>>
<1>1. PICK i \in DOMAIN l : l[i].kind = "start" /\ h = SubSeq(l, 1, i - 1)
  BY DEF Undone
<1>2. l \in Seq(Event)
  BY DEF Good
<1>3. i \in 1 .. Len(l) /\ i - 1 \in 0 .. Len(l)
  BY <1>2, LogFacts
<1>4. Good(h) /\ ~TurnOpen(h)
  BY <1>1, <1>3, PrefixGood, ClosedBeforeStart
<1>5. QED
  BY <1>4 DEF Closers

\* What a commit writes on a calm session's file (append_event).
LEMMA CommitWrites ==
  ASSUME TypeOK, NumberedLog, Calm, FileIs, LiveIs, live, op.pc = "idle",
         NEW e, Fits(log, e), Commit(e)
  PROVE  /\ log' = Append(log, e) /\ Good(log') /\ StandsFor(file'.lines, log')
         /\ file'.header = "whole" /\ ~file'.torn
<1>1. /\ Good(log) /\ TurnFits(turn, log)
      /\ file.header = "whole" /\ ~file.torn
      /\ StandsFor(file.lines, log) \/ file.lines = log \o Closers(log)
  BY DEF LiveIs
<1>2. log \in Seq(Event) /\ e.seq = watermark /\ e \in Event
  BY DEF NumberedLog, LogIsNumbered, Fits
<1>3. ~env.ioFaults
  BY DEF Calm
<1>4. log' = Append(log, e) /\ file' \in WriteOutcomes(file, e)
  BY <1>2 DEF Commit
<1>5. file' = [file EXCEPT !.lines = Append(@, e)]
  BY <1>1, <1>3, <1>4 DEF WriteOutcomes, WithLine
<1>6. /\ file'.lines = Append(file.lines, e)
      /\ file'.header = "whole" /\ ~file'.torn
  BY <1>1, <1>5 DEF TypeOK
<1>7. Good(log')
  BY <1>1, <1>4, AppendGood
<1>8. CASE StandsFor(file.lines, log)
  BY <1>4, <1>6, <1>7, <1>8, StandsGrows
<1>9. CASE file.lines = log \o Closers(log)
  <2>1. CASE TurnOpen(log)
    <3>1. turn.open
      BY <1>1, <2>1 DEF TurnFits, TypeOK
    <3>2. ~log[Len(log)].synthetic
      BY <1>1, <3>1 DEF TurnFits
    <3>3. QED
      BY <1>1, <1>4, <1>6, <1>7, <1>9, <2>1, <3>2, RepairedGrows
  <2>2. CASE ~TurnOpen(log)
    <3>1. Closers(log) = <<>>
      BY <2>2 DEF Closers
    <3>2. file.lines = log
      BY <1>2, <1>9, <3>1, ConcatEmptySeq
    <3>3. StandsFor(file.lines, log)
      BY <1>1, <3>2 DEF StandsFor
    <3>4. QED
      BY <1>4, <1>6, <1>7, <3>3, StandsGrows
  <2>3. QED
    BY <2>1, <2>2
<1>10. QED
  BY <1>1, <1>4, <1>6, <1>7, <1>8, <1>9

\* A commit that fits the log keeps the invariant.
LEMMA CommitKeeps ==
  ASSUME TypeOK, NumberedLog, Calm, FileIs, LiveIs, live, op.pc = "idle",
         NEW e, Fits(log, e), Commit(e), live' = live, op' = op, TurnFits(turn', log')
  PROVE  FileIs' /\ LiveIs' /\ OpIs'
<1>1. /\ Good(log') /\ StandsFor(file'.lines, log')
      /\ file'.header = "whole" /\ ~file'.torn
  BY CommitWrites
<1>2. Sane(file'.lines)
  BY <1>1, SaneBy
<1>3. op'.pc = "idle"
  OBVIOUS
<1>4. FileIs'
  BY <1>1, <1>2 DEF FileIs
<1>5. LiveIs'
  BY <1>1, <1>3 DEF LiveIs, Loading
<1>6. OpIs'
  BY <1>3 DEF OpIs
<1>7. QED
  BY <1>4, <1>5, <1>6

(***************************************************************************)
(* Every action keeps the invariant: the turn's.                           *)
(***************************************************************************)
Standing == TypeOK /\ NumberedLog /\ Calm /\ FileIs /\ LiveIs /\ OpIs

\* What the turn knows of the log it appends to.
LEMMA TurnFacts ==
  ASSUME Standing, live
  PROVE  /\ log \in Seq(Event) /\ Good(log) /\ Len(log) \in Nat /\ watermark = Len(log)
         /\ turn.open \in BOOLEAN /\ (turn.open <=> TurnOpen(log))
         /\ turn.calls = {log[i].call : i \in OpenCalls(log)}
         /\ turn.open => turn.own /\ op.pc = "idle"
         /\ ~turn.open => OpenCalls(log) = {}
<1>1. TypeOK /\ NumberedLog /\ LiveIs
  BY DEF Standing
<1>2. Good(log) /\ TurnFits(turn, log) /\ (op.pc # "idle" => ~turn.open)
  BY <1>1 DEF LiveIs
<1>3. log \in Seq(Event) /\ watermark = Len(log)
  BY <1>1 DEF NumberedLog, LogIsNumbered
<1>4. turn.open \in BOOLEAN
  BY <1>1 DEF TypeOK
<1>5. ~TurnOpen(log) => OpenCalls(log) = {}
  BY <1>2, OpenCallInTurn
<1>6. QED
  BY <1>2, <1>3, <1>4, <1>5, LogFacts DEF TurnFits

\* A committed event of each kind.
LEMMA NewEvent ==
  ASSUME Standing, live, NEW kind \in Kind \ {"odd", "bad"}, NEW call \in Call \cup {NoCall}
  PROVE  LET e == EventOf(Next_seq, kind, call) IN
         /\ e \in Event /\ e.seq = Len(log) /\ Parses(e) /\ e.kind = kind /\ e.call = call
         /\ ~e.synthetic
         /\ Append(log, e)[Len(Append(log, e))] = e
<1> DEFINE e == EventOf(Next_seq, kind, call)
<1>1. log \in Seq(Event) /\ Len(log) \in Nat
  BY TurnFacts
<1>2. e \in Event /\ e.seq = Len(log) /\ e.kind = kind /\ e.call = call /\ ~e.synthetic
  BY <1>1, EventOfType DEF Next_seq, EventOf
<1>3. Parses(e)
  BY <1>2 DEF Parses
<1>4. Append(log, e)[Len(Append(log, e))] = e
  BY <1>1, <1>2, Grown
<1>5. QED
  BY <1>2, <1>3, <1>4

\* A turn starts (run).
LEMMA StartTurnKeeps ==
  ASSUME Standing, StartTurn
  PROVE  FileIs' /\ LiveIs' /\ OpIs'
<1> DEFINE e == EventOf(Next_seq, "start", NoCall)
<1>1. /\ live /\ ~turn.open /\ op.pc = "idle" /\ Commit(e)
      /\ turn' = [NoTurn EXCEPT !.open = TRUE] /\ live' = live /\ op' = op
  BY DEF StartTurn
<1>2. /\ log \in Seq(Event) /\ Good(log)
      /\ ~TurnOpen(log) /\ OpenCalls(log) = {}
  BY <1>1, TurnFacts
<1>3. /\ e \in Event /\ e.seq = Len(log) /\ Parses(e) /\ e.kind = "start"
      /\ ~e.synthetic /\ Append(log, e)[Len(Append(log, e))] = e
  BY <1>1, NewEvent DEF Kind
<1> HIDE DEF e
<1>4. Fits(log, e)
  BY <1>2, <1>3 DEF Fits
<1>5. log' = Append(log, e)
  BY <1>1 DEF Commit
<1>6. TurnOpen(log') /\ OpenCalls(log') = {}
  BY <1>2, <1>3, <1>5, AppendTurn, AppendOpen
<1>7. turn'.open /\ turn'.calls = {} /\ turn'.own
  BY <1>1 DEF NoTurn
<1>8. TurnFits(turn', log')
  BY <1>3, <1>5, <1>6, <1>7 DEF TurnFits
<1>9. QED
  BY <1>1, <1>4, <1>8, CommitKeeps DEF Standing

\* The turn logs an event that is neither call nor result (_log_event).
LEMMA LogNoteKeeps ==
  ASSUME Standing, LogNote
  PROVE  FileIs' /\ LiveIs' /\ OpIs'
<1> DEFINE e == EventOf(Next_seq, "note", NoCall)
<1>1. /\ live /\ turn.open /\ Commit(e)
      /\ turn' = turn /\ live' = live /\ op' = op
  BY DEF LogNote, Standing, Calm
<1>2. /\ log \in Seq(Event) /\ Good(log) /\ TurnOpen(log) /\ op.pc = "idle"
      /\ turn.calls = {log[i].call : i \in OpenCalls(log)} /\ turn.own
  BY <1>1, TurnFacts
<1>3. /\ e \in Event /\ e.seq = Len(log) /\ Parses(e) /\ e.kind = "note"
      /\ ~e.synthetic /\ Append(log, e)[Len(Append(log, e))] = e
  BY <1>1, NewEvent DEF Kind
<1> HIDE DEF e
<1>4. Fits(log, e)
  BY <1>2, <1>3 DEF Fits
<1>5. log' = Append(log, e)
  BY <1>1 DEF Commit
<1>6. TurnOpen(log') /\ OpenCalls(log') = OpenCalls(log)
  <2>1. OpenCalls(log') =
           (IF e.kind = "end" THEN {}
            ELSE {i \in OpenCalls(log) : e.kind = "result" => e.call # log[i].call})
           \cup (IF e.kind = "call" THEN {Len(log) + 1} ELSE {})
    BY <1>2, <1>3, <1>5, AppendOpen
  <2>2. \A i : i \in OpenCalls(log') <=> i \in OpenCalls(log)
    BY <1>3, <2>1
  <2>3. TurnOpen(log')
    BY <1>2, <1>3, <1>5, AppendTurn
  <2>4. QED
    BY <2>2, <2>3
<1>7. \A i \in OpenCalls(log) : log'[i] = log[i]
  BY <1>2, <1>3, <1>5, Grown, OpenCallsFinite
<1>8. {log'[i].call : i \in OpenCalls(log')} = {log[i].call : i \in OpenCalls(log)}
  BY <1>6, <1>7
<1>9. TurnFits(turn', log')
  BY <1>1, <1>2, <1>3, <1>5, <1>6, <1>8 DEF TurnFits
<1>10. QED
  BY <1>1, <1>2, <1>4, <1>9, CommitKeeps DEF Standing

\* The turn logs a call (_run_loop).
LEMMA LogCallKeeps ==
  ASSUME Standing, NEW c \in Call, LogCall(c)
  PROVE  FileIs' /\ LiveIs' /\ OpIs'
<1> DEFINE e == EventOf(Next_seq, "call", c)
<1>1. /\ live /\ turn.open /\ Commit(e) /\ live' = live /\ op' = op
      /\ \A i \in DOMAIN log : log[i].call # c
      /\ turn' = [turn EXCEPT !.calls = @ \cup {c}]
  BY DEF LogCall
<1>2. /\ log \in Seq(Event) /\ Good(log) /\ TurnOpen(log) /\ op.pc = "idle" /\ Len(log) \in Nat
      /\ turn.calls = {log[i].call : i \in OpenCalls(log)} /\ turn.own
  BY <1>1, TurnFacts
<1>3. /\ e \in Event /\ e.seq = Len(log) /\ Parses(e) /\ e.kind = "call" /\ e.call = c
      /\ ~e.synthetic /\ Append(log, e)[Len(Append(log, e))] = e
  BY <1>1, NewEvent DEF Kind
<1> HIDE DEF e
<1>4. Fits(log, e)
  BY <1>1, <1>2, <1>3 DEF Fits
<1>5. log' = Append(log, e)
  BY <1>1 DEF Commit
<1>6. TurnOpen(log') /\ OpenCalls(log') = OpenCalls(log) \cup {Len(log) + 1}
  BY <1>2, <1>3, <1>5, AppendTurn, AppendOpen
<1>7. (\A i \in OpenCalls(log) : log'[i] = log[i]) /\ log'[Len(log) + 1] = e
  BY <1>2, <1>3, <1>5, Grown, OpenCallsFinite
<1>8. {log'[i].call : i \in OpenCalls(log')} = {log[i].call : i \in OpenCalls(log)} \cup {c}
  BY <1>3, <1>6, <1>7
<1>9. turn'.open /\ turn'.own /\ turn'.calls = turn.calls \cup {c}
  BY <1>1, <1>2 DEF Standing, TypeOK
<1>10. TurnFits(turn', log')
  BY <1>2, <1>3, <1>5, <1>6, <1>8, <1>9 DEF TurnFits
<1>11. QED
  BY <1>1, <1>2, <1>4, <1>10, CommitKeeps DEF Standing

\* The turn logs the result of a call it waits for (_log_tool_result).
LEMMA LogResultKeeps ==
  ASSUME Standing, NEW c \in Call, LogResult(c)
  PROVE  FileIs' /\ LiveIs' /\ OpIs'
<1> DEFINE e == EventOf(Next_seq, "result", c)
<1>1. /\ live /\ c \in turn.calls /\ Commit(e) /\ live' = live /\ op' = op
      /\ turn' = [turn EXCEPT !.calls = @ \ {c}]
  BY DEF LogResult
<1>2. PICK o \in OpenCalls(log) : log[o].call = c
  BY <1>1, TurnFacts
<1>3. /\ log \in Seq(Event) /\ Good(log) /\ TurnOpen(log) /\ op.pc = "idle" /\ Len(log) \in Nat
      /\ turn.calls = {log[i].call : i \in OpenCalls(log)} /\ turn.own /\ turn.open
  BY <1>1, <1>2, TurnFacts
<1>4. /\ e \in Event /\ e.seq = Len(log) /\ Parses(e) /\ e.kind = "result" /\ e.call = c
      /\ ~e.synthetic /\ Append(log, e)[Len(Append(log, e))] = e
  BY <1>1, NewEvent DEF Kind
<1> HIDE DEF e
<1>5. Fits(log, e)
  BY <1>2, <1>3, <1>4 DEF Fits
<1>6. log' = Append(log, e)
  BY <1>1 DEF Commit
<1>7. TurnOpen(log') /\ OpenCalls(log') = {i \in OpenCalls(log) : c # log[i].call}
  BY <1>3, <1>4, <1>6, AppendTurn, AppendOpen
<1>8. \A i \in OpenCalls(log) : log'[i] = log[i]
  BY <1>3, <1>4, <1>6, Grown, OpenCallsFinite
<1>9. {log'[i].call : i \in OpenCalls(log')} = {log[i].call : i \in OpenCalls(log)} \ {c}
  BY <1>7, <1>8
<1>10. turn'.open /\ turn'.own /\ turn'.calls = turn.calls \ {c}
  BY <1>1, <1>3 DEF Standing, TypeOK
<1>11. TurnFits(turn', log')
  BY <1>3, <1>4, <1>6, <1>7, <1>9, <1>10 DEF TurnFits
<1>12. QED
  BY <1>1, <1>3, <1>5, <1>11, CommitKeeps DEF Standing

\* The turn ends once nothing waits (run).
LEMMA EndTurnKeeps ==
  ASSUME Standing, EndTurn
  PROVE  FileIs' /\ LiveIs' /\ OpIs'
<1> DEFINE e == EventOf(Next_seq, "end", NoCall)
<1>1. live /\ turn.open /\ turn.calls = {} /\ live' = live /\ op' = op /\ turn' = NoTurn
  BY DEF EndTurn
<1>2. /\ log \in Seq(Event) /\ Good(log) /\ TurnOpen(log) /\ op.pc = "idle"
      /\ turn.calls = {log[i].call : i \in OpenCalls(log)} /\ turn.own
  BY <1>1, TurnFacts
<1>3. Commit(e)
  BY <1>2 DEF EndTurn
<1>4. OpenCalls(log) = {}
  BY <1>1, <1>2
<1>5. /\ e \in Event /\ e.seq = Len(log) /\ Parses(e) /\ e.kind = "end"
  BY <1>1, NewEvent DEF Kind
<1> HIDE DEF e
<1>6. Fits(log, e)
  BY <1>2, <1>4, <1>5 DEF Fits
<1>7. log' = Append(log, e)
  BY <1>3 DEF Commit
<1>8. ~TurnOpen(log') /\ OpenCalls(log') = {}
  BY <1>2, <1>5, <1>7, AppendTurn, AppendOpen
<1>9. ~turn'.open /\ turn'.calls = {}
  BY <1>1 DEF NoTurn
<1>10. TurnFits(turn', log')
  BY <1>8, <1>9 DEF TurnFits
<1>11. QED
  BY <1>1, <1>2, <1>3, <1>6, <1>10, CommitKeeps DEF Standing

(***************************************************************************)
(* The load's, the undo's and the crashes'.                                *)
(***************************************************************************)
LEMMA CreateKeeps ==
  ASSUME Standing, Create
  PROVE  FileIs' /\ LiveIs' /\ OpIs'
<1>1. /\ op.pc = "idle" /\ op' = op /\ live' /\ log' = <<>> /\ turn' = NoTurn
      /\ file' = FileOf(<<>>)
  BY DEF Create
<1>2. file'.header = "whole" /\ file'.lines = <<>> /\ ~file'.torn
  BY <1>1 DEF FileOf
<1>3. ~turn'.open /\ turn'.calls = {}
  BY <1>1 DEF NoTurn
<1>4. TurnFits(turn', log')
  BY <1>1, <1>3, EmptyGood DEF TurnFits
<1>5. StandsFor(file'.lines, log') /\ Good(log') /\ Sane(file'.lines)
  BY <1>1, <1>2, EmptyGood DEF StandsFor
<1>6. FileIs' /\ LiveIs' /\ OpIs'
  BY <1>1, <1>2, <1>4, <1>5 DEF FileIs, LiveIs, OpIs, Loading
<1>7. QED
  BY <1>6

\* A stop asks the turn to end (_cancel_chat).
LEMMA StopKeeps ==
  ASSUME Standing, Stop
  PROVE  FileIs' /\ LiveIs' /\ OpIs'
<1>1. /\ turn' = [turn EXCEPT !.stopped = TRUE]
      /\ file' = file /\ log' = log /\ live' = live /\ op' = op
  BY DEF Stop
<1>2. turn'.open = turn.open /\ turn'.calls = turn.calls /\ turn'.own = turn.own
  BY <1>1 DEF Standing, TypeOK
<1>3. TurnFits(turn, log) => TurnFits(turn', log')
  BY <1>1, <1>2 DEF TurnFits
<1>4. FileIs /\ LiveIs /\ OpIs
  BY DEF Standing
<1>5. FileIs' /\ OpIs'
  BY <1>1, <1>4 DEF FileIs, OpIs
<1>6. LiveIs'
  BY <1>1, <1>2, <1>3, <1>4 DEF LiveIs
<1>7. QED
  BY <1>5, <1>6

\* A load begins (_load_or_create_log).
LEMMA OpenKeeps ==
  ASSUME Standing, Open
  PROVE  FileIs' /\ LiveIs' /\ OpIs'
<1>1. /\ ~live /\ op.pc = "idle" /\ op' = [NoOp EXCEPT !.pc = "read"]
      /\ file' = file /\ log' = log /\ live' = live /\ turn' = turn
  BY DEF Open
<1>2. op'.pc = "read"
  BY <1>1 DEF NoOp
<1>3. FileIs
  BY DEF Standing
<1>4. QED
  BY <1>1, <1>2, <1>3 DEF FileIs, LiveIs, OpIs

\* A load that touches no file leaves the live session as it was.
LEMMA SameLoad ==
  ASSUME LiveIs, file' = file, log' = log, live' = live, turn' = turn,
         op.pc \in Loading, op'.pc \in Loading
  PROVE  LiveIs'
<1>1. op.pc # "idle" /\ op.pc # "fill" /\ op.pc # "truncate"
  BY DEF Loading
<1>2. op'.pc # "idle" /\ op'.pc # "fill" /\ op'.pc # "truncate"
  BY DEF Loading
<1>3. QED
  BY <1>1, <1>2 DEF LiveIs

\* The load reads the file and heals it in memory (load).
LEMMA LoadReadKeeps ==
  ASSUME Standing, LoadRead
  PROVE  FileIs' /\ LiveIs' /\ OpIs'
<1>1. /\ op.pc = "read" /\ file' = file /\ log' = log /\ live' = live /\ turn' = turn
  BY DEF LoadRead
<1>2. FileIs /\ LiveIs
  BY DEF Standing
<1>3. CASE Readable(file)
  <2>1. op' = [NoOp EXCEPT
                    !.pc = IF Dropped(file.lines) # {} THEN "rewrite"
                           ELSE IF file.torn THEN "cut" ELSE "close",
                    !.events = Healed(file.lines)]
    BY <1>3 DEF LoadRead
  <2>2. /\ op'.events = Healed(file.lines)
        /\ op'.pc = IF Dropped(file.lines) # {} THEN "rewrite"
                    ELSE IF file.torn THEN "cut" ELSE "close"
    BY <2>1 DEF NoOp
  <2>3. file.header = "whole" /\ Sane(file.lines)
    BY <1>2, <1>3 DEF Readable, FileIs
  <2>4. Dropped(file.lines) = {} => Healed(file.lines) = file.lines
    BY <2>3, SaneFacts
  <2>5. op'.pc \in {"rewrite", "cut", "close"}
    BY <2>2
  <2>6. FileIs'
    BY <1>1, <2>3 DEF FileIs
  <2>7. LiveIs'
    BY <1>1, <1>2, <2>5, SameLoad DEF Loading
  <2>8. OpIs'
    BY <1>1, <2>2, <2>3, <2>4 DEF OpIs
  <2>9. QED
    BY <2>6, <2>7, <2>8
<1>4. CASE ~Readable(file)
  <2>1. op' = NoOp
    BY <1>4 DEF LoadRead
  <2>2. op'.pc = "idle"
    BY <2>1 DEF NoOp
  <2>3. ~live
    <3>1. SUFFICES ASSUME live PROVE FALSE
      OBVIOUS
    <3>2. file.header = "whole"
      BY <1>1, <1>2, <3>1 DEF LiveIs
    <3>3. \A i \in DOMAIN file.lines : Parses(file.lines[i])
      BY <1>2, <3>2, SaneFacts DEF FileIs
    <3>4. QED
      BY <1>4, <3>2, <3>3 DEF Readable
  <2>4. file.header # "lost"
    BY <1>1, <1>2 DEF FileIs
  <2>5. FileIs' /\ LiveIs' /\ OpIs'
    BY <1>1, <1>2, <2>2, <2>3, <2>4 DEF FileIs, LiveIs, OpIs
  <2>6. QED
    BY <2>5
<1>5. QED
  BY <1>3, <1>4

\* The load empties the file, to write back what it healed (_rewrite) or the
\* whole lines before half a line (_truncate_torn_tail).
LEMMA OpenForWritingKeeps ==
  ASSUME Standing, OpenForWriting
  PROVE  FileIs' /\ LiveIs' /\ OpIs'
<1>0. FileIs /\ LiveIs /\ OpIs /\ op \in OpType
  BY DEF Standing, TypeOK, OpType
<1>1. /\ op.pc \in {"rewrite", "cut"} /\ file' = Emptied
      /\ log' = log /\ live' = live /\ turn' = turn
      /\ op' = [op EXCEPT !.pc = "fill", !.then = "close",
                      !.fill = IF op.pc = "rewrite" THEN op.events ELSE file.lines]
  BY DEF OpenForWriting
<1>2. /\ op'.pc = "fill" /\ op'.then = "close" /\ op'.events = op.events
      /\ op'.fill = IF op.pc = "rewrite" THEN op.events ELSE file.lines
  BY <1>0, <1>1 DEF OpType
<1>3. /\ file.header = "whole" /\ op.events = Healed(file.lines)
      /\ op.pc = "cut" => op.events = file.lines
  BY <1>0, <1>1 DEF OpIs
<1>4. Sane(file.lines)
  BY <1>0, <1>3 DEF FileIs
<1>5. Good(op.events) /\ Healed(op.events) = op.events /\ Sane(op.events)
  BY <1>3, <1>4, SaneFacts
<1>6. op'.fill = op.events
  BY <1>1, <1>2, <1>3
<1>7. file'.header = "lost" /\ file'.lines = <<>>
  BY <1>1 DEF Emptied
<1>8. FileIs'
  BY <1>2, <1>7 DEF FileIs
<1>9. OpIs'
  BY <1>2, <1>5, <1>6, <1>7 DEF OpIs
<1>10. LiveIs'
  <2> SUFFICES ASSUME live PROVE LiveIs'
    BY <1>1 DEF LiveIs
  <2>1. /\ Good(log) /\ TurnFits(turn, log) /\ ~turn.open
        /\ Undone(log, Healed(file.lines))
    BY <1>0, <1>1 DEF LiveIs, Loading
  <2>2. Healed(op'.fill) = Healed(file.lines)
    BY <1>3, <1>5, <1>6
  <2>3. op'.pc \notin Loading
    BY <1>2 DEF Loading
  <2>4. QED
    BY <1>1, <1>2, <2>1, <2>2, <2>3 DEF LiveIs
<1>11. QED
  BY <1>8, <1>9, <1>10

\* The rewrite writes the healed events back.
LEMMA FillKeeps ==
  ASSUME Standing, Fill
  PROVE  FileIs' /\ LiveIs' /\ OpIs'
<1>0. FileIs /\ LiveIs /\ OpIs /\ op \in OpType
  BY DEF Standing, TypeOK, OpType
<1>1. /\ op.pc = "fill" /\ log' = log /\ live' = live /\ turn' = turn
      /\ op' = [op EXCEPT !.pc = op.then, !.fill = <<>>, !.then = "idle"]
  BY DEF Fill
<1>2. op'.pc = op.then /\ op'.events = op.events
  BY <1>0, <1>1 DEF OpType
<1>3. /\ file.lines = <<>> /\ Sane(op.fill)
      /\ \/ op.then = "read" /\ live
         \/ op.then = "close" /\ op.fill = op.events /\ Healed(op.fill) = op.fill
  BY <1>0, <1>1 DEF OpIs
<1>4. file' = FileOf(op.fill)
  <2>1. Range(file.lines) = {}
    <3>1. <<>> \in Seq(Event) /\ Len(<<>>) = 0
      BY EmptySeq
    <3>2. DOMAIN file.lines = {}
      BY <1>3, <3>1, LenProperties
    <3>3. QED
      BY <3>2 DEF Range
  <2>2. QED
    BY <2>1 DEF Fill
<1>5. file'.header = "whole" /\ file'.lines = op.fill /\ ~file'.torn
  BY <1>4 DEF FileOf
<1>6. op'.pc \in {"read", "close"}
  BY <1>2, <1>3
<1>7. FileIs'
  BY <1>3, <1>5 DEF FileIs
<1>8. OpIs'
  BY <1>2, <1>3, <1>5 DEF OpIs
<1>9. LiveIs'
  <2> SUFFICES ASSUME live PROVE LiveIs'
    BY <1>1 DEF LiveIs
  <2>1. /\ Good(log) /\ TurnFits(turn, log) /\ ~turn.open
        /\ Undone(log, Healed(op.fill))
    BY <1>0, <1>1 DEF LiveIs
  <2>2. op'.pc # "idle" /\ op'.pc # "truncate" /\ op'.pc # "fill"
    BY <1>6
  <2>3. QED
    BY <1>1, <1>5, <2>1, <2>2 DEF LiveIs
<1>10. QED
  BY <1>7, <1>8, <1>9

\* The load looks for closers to append (append).
LEMMA CheckClosersKeeps ==
  ASSUME Standing, CheckClosers
  PROVE  FileIs' /\ LiveIs' /\ OpIs'
<1>0. FileIs /\ LiveIs /\ OpIs /\ op \in OpType
  BY DEF Standing, TypeOK, OpType
<1>1. /\ op.pc = "close" /\ file' = file /\ log' = log /\ live' = live /\ turn' = turn
  BY DEF CheckClosers
<1>2. /\ file.header = "whole" /\ op.events = Healed(file.lines)
      /\ op.events = file.lines /\ ~file.torn
  BY <1>0, <1>1 DEF OpIs
<1>3. Good(file.lines) /\ \A i \in DOMAIN file.lines : Parses(file.lines[i])
  BY <1>0, <1>2, SaneFacts DEF FileIs
<1> DEFINE closers == Closers(op.events)
           stored == IF file.lines = <<>> THEN 0 ELSE Last(file.lines).seq + 1
<1>4. CASE closers = <<>>
  <2>1. op' = [op EXCEPT !.pc = "bind"]
    BY <1>4 DEF CheckClosers
  <2>2. op'.pc = "bind" /\ op'.events = op.events
    BY <1>0, <2>1 DEF OpType
  <2>3. ~TurnOpen(op.events)
    BY <1>2, <1>3, <1>4, RepairGood
  <2>4. FileIs'
    BY <1>0, <1>1, <1>2 DEF FileIs
  <2>5. OpIs'
    BY <1>1, <1>2, <2>2, <2>3 DEF OpIs
  <2>6. LiveIs'
    BY <1>0, <1>1, <2>2, SameLoad DEF Loading
  <2>7. QED
    BY <2>4, <2>5, <2>6
<1>5. CASE closers # <<>>
  <2>1. TurnOpen(op.events)
    BY <1>2, <1>3, <1>5, RepairGood
  <2> DEFINE n == Cardinality(OpenCalls(op.events))
  <2>2. /\ n \in Nat /\ Len(op.events) \in Nat \ {0}
        /\ closers \in Seq(Event) /\ Len(closers) = n + 1
        /\ \A k \in 1 .. n :
              closers[k] = Closer(Len(op.events) + k - 1, "result", op.events[Nth(OpenCalls(op.events), k)].call)
        /\ closers[n + 1] = Closer(Len(op.events) + n, "end", NoCall)
    BY <1>2, <1>3, <2>1, ClosersShape
  <2> HIDE DEF n, closers
  <2>3. closers[1].seq = Len(op.events)
    <3>1. CASE n = 0
      <4>1. closers[1] = Closer(Len(op.events) + n, "end", NoCall)
        BY <2>2, <3>1
      <4>2. QED
        BY <2>2, <3>1, <4>1 DEF Closer
    <3>2. CASE n # 0
      <4>1. 1 \in 1 .. n
        BY <2>2, <3>2
      <4>2. closers[1] = Closer(Len(op.events) + 1 - 1, "result", op.events[Nth(OpenCalls(op.events), 1)].call)
        BY <2>2, <4>1
      <4>3. closers[1].seq = Len(op.events) + 1 - 1
        BY <4>2 DEF Closer
      <4>4. QED
        BY <2>2, <4>3
    <3>3. QED
      BY <3>1, <3>2
  <2>4. stored = Len(op.events)
    <3>1. file.lines \in Seq(Event) /\ Contiguous(file.lines)
      BY <1>3 DEF Good
    <3>2. file.lines # <<>>
      BY <1>2, <2>2, EmptySeq
    <3>3. file.lines[Len(file.lines)].seq = Len(file.lines) - 1
      BY <1>2, <2>2, <3>1, LogFacts DEF Contiguous
    <3>4. QED
      BY <1>2, <2>2, <3>2, <3>3 DEF Last
  <2>5. Head(closers) = closers[1]
    BY <2>2
  <2>6. Readable(file) /\ ~file.torn /\ Head(closers).seq = stored
    BY <1>2, <1>3, <2>3, <2>4, <2>5 DEF Readable
  <2>7. op' = [op EXCEPT !.pc = "append"]
    BY <1>5, <2>6 DEF CheckClosers, closers
  <2>8. op'.pc = "append" /\ op'.events = op.events
    BY <1>0, <2>7 DEF OpType
  <2>9. FileIs'
    BY <1>0, <1>1, <1>2 DEF FileIs
  <2>10. OpIs'
    BY <1>1, <1>2, <2>8 DEF OpIs
  <2>11. LiveIs'
    BY <1>0, <1>1, <2>8, SameLoad DEF Loading
  <2>12. QED
    BY <2>9, <2>10, <2>11
<1>6. QED
  BY <1>4, <1>5

\* The load appends them (_append_lines).
LEMMA AppendClosersKeeps ==
  ASSUME Standing, AppendClosers
  PROVE  FileIs' /\ LiveIs' /\ OpIs'
<1>0. FileIs /\ LiveIs /\ OpIs /\ op \in OpType /\ file \in FileType
  BY DEF Standing, TypeOK, OpType, FileType
<1> DEFINE C == Closers(op.events)
<1>1. /\ op.pc = "append" /\ log' = log /\ live' = live /\ turn' = turn
      /\ file' = [file EXCEPT !.lines = @ \o C]
      /\ op' = [op EXCEPT !.pc = "bind", !.events = @ \o C]
  BY DEF AppendClosers
<1>2. /\ file.header = "whole" /\ op.events = Healed(file.lines)
      /\ op.events = file.lines /\ ~file.torn
  BY <1>0, <1>1 DEF OpIs
<1>3. Good(file.lines)
  BY <1>0, <1>2, SaneFacts DEF FileIs
<1>4. /\ Good(file.lines \o C) /\ ~TurnOpen(file.lines \o C)
      /\ Healed(file.lines \o C) = file.lines \o C /\ Sane(file.lines \o C)
  BY <1>2, <1>3, RepairGood, GoodIsSane
<1>5. /\ file'.lines = file.lines \o C /\ file'.header = "whole" /\ ~file'.torn
      /\ op'.pc = "bind" /\ op'.events = op.events \o C
  BY <1>0, <1>1, <1>2 DEF OpType, FileType
<1> HIDE DEF C
<1>6. FileIs'
  BY <1>4, <1>5 DEF FileIs
<1>7. OpIs'
  BY <1>2, <1>4, <1>5 DEF OpIs
<1>8. LiveIs'
  <2> SUFFICES ASSUME live PROVE LiveIs'
    BY <1>1 DEF LiveIs
  <2>1. /\ Good(log) /\ TurnFits(turn, log) /\ ~turn.open
        /\ Undone(log, Healed(file.lines))
    BY <1>0, <1>1 DEF LiveIs, Loading
  <2>2. C = <<>>
    BY <1>2, <2>1, UndoneClosed DEF C
  <2>3. file'.lines = file.lines
    BY <1>0, <1>5, <2>2, ConcatEmptySeq DEF FileType
  <2>4. QED
    BY <1>1, <1>5, <2>1, <2>3 DEF LiveIs
<1>9. QED
  BY <1>6, <1>7, <1>8

\* The loaded events become the log of the session (_bind_persister).
LEMMA BindKeeps ==
  ASSUME Standing, Bind
  PROVE  /\ FileIs' /\ LiveIs' /\ OpIs'
         /\ log' = op.events /\ live' /\ Healed(file'.lines) = op.events
<1>0. FileIs /\ LiveIs /\ OpIs /\ live \in BOOLEAN /\ turn \in TurnType
  BY DEF Standing, TypeOK, TurnType
<1>1. op.pc = "bind" /\ op' = NoOp /\ file' = file
  BY DEF Bind
<1>2. /\ file.header = "whole" /\ op.events = Healed(file.lines)
      /\ op.events = file.lines /\ ~file.torn /\ ~TurnOpen(op.events)
  BY <1>0, <1>1 DEF OpIs
<1>3. Good(op.events)
  BY <1>0, <1>2, SaneFacts DEF FileIs
<1>4. Adoptable(op.events)
  BY <1>3 DEF Adoptable, Good
<1>5. /\ log' = op.events /\ live' = TRUE
      /\ turn' = IF live THEN [turn EXCEPT !.own = FALSE] ELSE NoTurn
  BY <1>4 DEF Bind
<1>6. OpenCalls(op.events) = {}
  BY <1>2, <1>3, OpenCallInTurn
<1>7. ~turn'.open /\ turn'.calls = {}
  <2>1. CASE live
    <3>1. ~turn.open
      BY <1>0, <1>1, <2>1 DEF LiveIs
    <3>2. OpenCalls(log) = {} /\ turn.calls = {log[i].call : i \in OpenCalls(log)}
      BY <2>1, <3>1, TurnFacts
    <3>3. turn.calls = {}
      BY <3>2
    <3>4. turn' = [turn EXCEPT !.own = FALSE]
      BY <1>5, <2>1
    <3>5. QED
      BY <1>0, <3>1, <3>3, <3>4 DEF TurnType
  <2>2. CASE ~live
    BY <1>5, <2>2 DEF NoTurn
  <2>3. QED
    BY <1>0, <2>1, <2>2
<1>8. TurnFits(turn', log')
  BY <1>2, <1>5, <1>6, <1>7 DEF TurnFits
<1>9. op'.pc = "idle"
  BY <1>1 DEF NoOp
<1>10. StandsFor(file'.lines, log')
  BY <1>1, <1>2, <1>3, <1>5 DEF StandsFor
<1>11. FileIs'
  BY <1>0, <1>1, <1>2 DEF FileIs
<1>12. LiveIs'
  BY <1>1, <1>2, <1>3, <1>5, <1>8, <1>9, <1>10 DEF LiveIs, Loading
<1>13. OpIs'
  BY <1>9 DEF OpIs
<1>14. Healed(file'.lines) = op.events
  BY <1>1, <1>2
<1>15. QED
  BY <1>5, <1>11, <1>12, <1>13, <1>14

\* Whatever the file holds beside an idle, live session, a load of it returns
\* the log with its turn closed.
LEMMA LoadedIsTheLog ==
  ASSUME Standing, live, op.pc = "idle"
  PROVE  /\ Loaded(file.lines) = log \o Closers(log)
         /\ \/ Healed(file.lines) = log
            \/ Healed(file.lines) = log \o Closers(log)
         /\ Readable(file)
<1>0. /\ Good(log) /\ file.header = "whole"
      /\ StandsFor(file.lines, log) \/ file.lines = log \o Closers(log)
  BY DEF Standing, LiveIs
<1>1. Sane(file.lines)
  BY <1>0 DEF Standing, FileIs
<1>2. Readable(file)
  BY <1>0, <1>1, SaneFacts DEF Readable
<1>3. CASE StandsFor(file.lines, log)
  <2>1. Healed(file.lines) = log
    BY <1>3, SaneBy
  <2>2. QED
    BY <1>2, <2>1 DEF Loaded
<1>4. CASE file.lines = log \o Closers(log)
  <2>1. Good(file.lines) /\ Closers(file.lines) = <<>>
    BY <1>0, <1>4, RepairGood
  <2>2. Healed(file.lines) = file.lines /\ file.lines \in Seq(Event)
    BY <2>1, GoodIsSane DEF Good
  <2>3. Loaded(file.lines) = file.lines
    BY <2>1, <2>2, ConcatEmptySeq DEF Loaded
  <2>4. QED
    BY <1>2, <1>4, <2>2, <2>3
<1>5. QED
  BY <1>0, <1>3, <1>4

\* A status poll loads the file beside a live session, with its repair
\* (get_session_data).
LEMMA PollKeeps ==
  ASSUME Standing, Poll
  PROVE  FileIs' /\ LiveIs' /\ OpIs'
<1>1. /\ live /\ op.pc = "idle" /\ file' = FileOf(Loaded(file.lines))
      /\ log' = log /\ live' = live /\ turn' = turn /\ op' = op
  BY DEF Poll
<1>2. LiveIs /\ OpIs
  BY DEF Standing
<1>3. file'.lines = log \o Closers(log) /\ file'.header = "whole" /\ ~file'.torn
  BY <1>1, LoadedIsTheLog DEF FileOf
<1>4. Good(log)
  BY <1>1, <1>2 DEF LiveIs
<1>5. Sane(file'.lines)
  BY <1>3, <1>4, RepairGood, GoodIsSane
<1>6. FileIs'
  BY <1>3, <1>5 DEF FileIs
<1>7. LiveIs'
  BY <1>1, <1>2, <1>3 DEF LiveIs, Loading
<1>8. OpIs'
  BY <1>1 DEF OpIs
<1>9. QED
  BY <1>6, <1>7, <1>8

\* An undo begins (_handle_truncate).
LEMMA UndoKeeps ==
  ASSUME Standing, Undo
  PROVE  FileIs' /\ LiveIs' /\ OpIs'
<1>0. FileIs /\ LiveIs /\ OpIs
  BY DEF Standing
<1>1. /\ live /\ op.pc = "idle" /\ ~turn.open
      /\ file' = file /\ log' = log /\ live' = live /\ turn' = turn
  BY DEF Undo, Standing, Calm
<1>2. PICK i \in DOMAIN log :
        log[i].kind = "start" /\ op' = [NoOp EXCEPT !.pc = "truncate", !.fill = Kept(log[i].seq)]
  BY DEF Undo
<1>3. /\ Good(log) /\ log \in Seq(Event) /\ ~TurnOpen(log)
      /\ Contiguous(log) /\ i \in 1 .. Len(log)
  BY <1>1, TurnFacts, LogFacts DEF Good
<1>4. StandsFor(file.lines, log)
  <2>1. StandsFor(file.lines, log) \/ file.lines = log \o Closers(log)
    BY <1>0, <1>1 DEF LiveIs
  <2>2. Closers(log) = <<>>
    BY <1>3 DEF Closers
  <2>3. file.lines = log \o Closers(log) => file.lines = log
    BY <1>3, <2>2, ConcatEmptySeq
  <2>4. QED
    BY <1>3, <2>1, <2>3 DEF StandsFor
<1>5. /\ op'.pc = "truncate" /\ op'.fill = KeptOf(file.lines, i - 1)
  <2>1. log[i].seq = i - 1
    BY <1>3 DEF Contiguous
  <2>2. op'.pc = "truncate" /\ op'.fill = Kept(log[i].seq)
    BY <1>2 DEF NoOp
  <2>3. QED
    BY <2>1, <2>2 DEF Kept, KeptOf
<1>6. StandsFor(op'.fill, SubSeq(log, 1, i - 1))
  BY <1>2, <1>3, <1>4, <1>5, KeptStands
<1>7. Sane(op'.fill) /\ Healed(op'.fill) = SubSeq(log, 1, i - 1)
  BY <1>6, SaneBy
<1>8. Undone(log, Healed(op'.fill))
  BY <1>2, <1>7 DEF Undone
<1>9. FileIs'
  BY <1>0, <1>1, <1>5 DEF FileIs
<1>10. OpIs'
  BY <1>1, <1>5, <1>7 DEF OpIs
<1>11. LiveIs'
  <2>1. /\ TurnFits(turn, log) /\ file.header = "whole" /\ ~file.torn
    BY <1>0, <1>1 DEF LiveIs
  <2>2. QED
    BY <1>1, <1>3, <1>4, <1>5, <1>8, <2>1 DEF LiveIs, Loading
<1>12. QED
  BY <1>9, <1>10, <1>11

\* The undo empties the file to rewrite it (truncate).
LEMMA TruncateOpenKeeps ==
  ASSUME Standing, TruncateOpen
  PROVE  FileIs' /\ LiveIs' /\ OpIs'
<1>0. FileIs /\ LiveIs /\ OpIs /\ op \in OpType
  BY DEF Standing, TypeOK, OpType
<1>1. /\ op.pc = "truncate" /\ op' = [op EXCEPT !.pc = "fill", !.then = "read"]
      /\ file' = Emptied /\ log' = log /\ live' = live /\ turn' = turn
  BY DEF TruncateOpen
<1>2. op'.pc = "fill" /\ op'.then = "read" /\ op'.fill = op.fill
  BY <1>0, <1>1 DEF OpType
<1>3. file'.lines = <<>> /\ file'.header = "lost"
  BY <1>1 DEF Emptied
<1>4. live /\ Sane(op.fill)
  BY <1>0, <1>1 DEF OpIs
<1>5. /\ Good(log) /\ TurnFits(turn, log) /\ ~turn.open /\ Undone(log, Healed(op.fill))
  BY <1>0, <1>1, <1>4 DEF LiveIs
<1>6. FileIs'
  BY <1>2, <1>3 DEF FileIs
<1>7. OpIs'
  BY <1>1, <1>2, <1>3, <1>4 DEF OpIs
<1>8. LiveIs'
  BY <1>1, <1>2, <1>5 DEF LiveIs, Loading
<1>9. QED
  BY <1>6, <1>7, <1>8

\* A death that leaves the file sane keeps the invariant.
LEMMA DeathKeeps ==
  ASSUME Standing, Die, FileIs'
  PROVE  FileIs' /\ LiveIs' /\ OpIs'
<1>1. live' = FALSE /\ op'.pc = "idle"
  BY DEF Die, NoOp
<1>2. LiveIs' /\ OpIs'
  BY <1>1 DEF LiveIs, OpIs
<1>3. QED
  BY <1>2

\* The process dies, idle or within an append or a repair.
LEMMA CrashKeeps ==
  ASSUME Standing, Crash
  PROVE  FileIs' /\ LiveIs' /\ OpIs'
<1>0. FileIs /\ OpIs /\ file \in FileType
  BY DEF Standing, TypeOK, FileType
<1>1. Die
  BY DEF Crash, Kill, KillInCreate, KillInAppend, KillInClosers, KillInRewrite
<1>2. CASE Kill
  <2>1. file' = file /\ op.pc # "fill"
    BY <1>2 DEF Kill
  <2>2. FileIs'
    BY <1>0, <2>1 DEF FileIs
  <2>3. QED
    BY <1>1, <2>2, DeathKeeps
<1>3. CASE KillInCreate
  <2>1. file' = [NoFile EXCEPT !.header = "torn", !.torn = TRUE]
    BY <1>3 DEF KillInCreate
  <2>2. file'.header = "torn" /\ file'.lines = <<>>
    BY <2>1 DEF NoFile
  <2>3. FileIs'
    BY <2>2 DEF FileIs
  <2>4. QED
    BY <1>1, <2>3, DeathKeeps
<1>4. CASE KillInAppend
  <2>1. file' = [file EXCEPT !.torn = TRUE] /\ op.pc = "idle"
    BY <1>4 DEF KillInAppend
  <2>2. file'.header = file.header /\ file'.lines = file.lines
    BY <1>0, <2>1 DEF FileType
  <2>3. FileIs'
    BY <1>0, <2>1, <2>2 DEF FileIs
  <2>4. QED
    BY <1>1, <2>3, DeathKeeps
<1>5. CASE KillInClosers
  <2> DEFINE C == Closers(op.events)
  <2>1. PICK n \in 0 .. Len(C) - 1 :
          file' = [file EXCEPT !.lines = @ \o SubSeq(C, 1, n), !.torn = TRUE]
    BY <1>5 DEF KillInClosers
  <2>2. op.pc = "append"
    BY <1>5 DEF KillInClosers
  <2>3. file.header = "whole" /\ op.events = Healed(file.lines) /\ op.events = file.lines
    BY <1>0, <2>2 DEF OpIs
  <2>4. Good(file.lines)
    BY <1>0, <2>3, SaneFacts DEF FileIs
  <2>5. C \in Seq(Event) /\ (C = <<>> <=> ~TurnOpen(file.lines))
    BY <2>3, <2>4, RepairGood
  <2>6. Len(C) \in Nat /\ n \in 0 .. Len(C) /\ Len(C) # 0
    BY <2>5, LogFacts
  <2>7. C # <<>>
    BY <2>6, EmptySeq
  <2>8. Good(file.lines \o SubSeq(C, 1, n))
    BY <2>3, <2>4, <2>5, <2>6, <2>7, ClosersGood
  <2>9. file'.lines = file.lines \o SubSeq(C, 1, n) /\ file'.header = "whole"
    BY <1>0, <2>1, <2>3 DEF FileType
  <2>10. Sane(file'.lines)
    BY <2>8, <2>9, GoodIsSane
  <2>11. FileIs'
    BY <2>9, <2>10 DEF FileIs
  <2>12. QED
    BY <1>1, <2>11, DeathKeeps
<1>6. CASE KillInRewrite
  BY <1>6 DEF KillInRewrite, Standing, Calm
<1>7. QED
  BY <1>2, <1>3, <1>4, <1>5, <1>6 DEF Crash

\* Nothing happens.
LEMMA SameKeeps ==
  ASSUME Standing, UNCHANGED vars
  PROVE  FileIs' /\ LiveIs' /\ OpIs'
BY DEF Standing, vars, FileIs, LiveIs, OpIs

\* The environment a behaviour starts with is the one it ends with.
LEMMA EnvStays ==
  ASSUME [Next]_vars PROVE env' = env
BY DEF Next, LoadStep, TurnStep, Crash, Create, StartTurn, LogNote, LogCall, LogResult, EndTurn, Stop,
       Open, LoadRead, OpenForWriting, Fill, CheckClosers, AppendClosers, Bind, Poll, Undo, TruncateOpen,
       Kill, KillInCreate, KillInAppend, KillInClosers, KillInRewrite, Die, Quiet, vars

\* Every step keeps the invariant of a calm session.
LEMMA CalmKeeps ==
  ASSUME TypeOK, NumberedLog, CalmInvariant, [Next]_vars
  PROVE  CalmInvariant'
<1>1. env' = env
  BY EnvStays
<1>2. Calm' <=> Calm
  BY <1>1 DEF Calm
<1> SUFFICES ASSUME Calm PROVE FileIs' /\ LiveIs' /\ OpIs'
  BY <1>2 DEF CalmInvariant
<1>3. Standing
  BY DEF Standing, CalmInvariant
<1>4. CASE Create \/ Open \/ Poll \/ Undo \/ TruncateOpen
  BY <1>3, <1>4, CreateKeeps, OpenKeeps, PollKeeps, UndoKeeps, TruncateOpenKeeps
<1>5. CASE LoadStep
  BY <1>3, <1>5, LoadReadKeeps, OpenForWritingKeeps, FillKeeps, CheckClosersKeeps, AppendClosersKeeps,
     BindKeeps DEF LoadStep
<1>6. CASE TurnStep
  BY <1>3, <1>6, StartTurnKeeps, LogNoteKeeps, EndTurnKeeps, StopKeeps, LogCallKeeps, LogResultKeeps
     DEF TurnStep
<1>7. CASE Crash
  BY <1>3, <1>7, CrashKeeps
<1>8. CASE Quiet \/ UNCHANGED vars
  BY <1>3, <1>8, SameKeeps DEF Quiet
<1>9. QED
  BY <1>4, <1>5, <1>6, <1>7, <1>8 DEF Next

\* The invariant holds at the start.
LEMMA CalmStart ==
  ASSUME Init PROVE CalmInvariant
<1>1. file = NoFile /\ ~live /\ op.pc = "idle"
  BY DEF Init, NoOp
<1>2. QED
  BY <1>1 DEF CalmInvariant, FileIs, LiveIs, OpIs, NoFile

(***************************************************************************)
(* What the runs check.                                                    *)
(***************************************************************************)
LEMMA SurviveStep ==
  ASSUME TypeOK, NumberedLog, CalmInvariant PROVE CalmCommitsSurvive
<1> SUFFICES ASSUME Calm, live, op.pc = "idle"
             PROVE  /\ Readable(file)
                    /\ IsPrefix(log, Loaded(file.lines))
                    /\ Len(Loaded(file.lines)) <= Len(log) + Len(Closers(log))
  BY DEF CalmCommitsSurvive
<1>1. Standing
  BY DEF Standing, CalmInvariant
<1>2. Readable(file) /\ Loaded(file.lines) = log \o Closers(log)
  BY <1>1, LoadedIsTheLog
<1>3. log \in Seq(Event) /\ Closers(log) \in Seq(Event)
  BY <1>1, TurnFacts, ClosersType
<1> DEFINE C == Closers(log)
           g == log \o C
<1>4. /\ g \in Seq(Event) /\ Len(g) = Len(log) + Len(C) /\ Len(log) \in Nat /\ Len(C) \in Nat
      /\ \A i \in 1 .. Len(log) : g[i] = log[i]
  <2>1. /\ g \in Seq(Event) /\ Len(g) = Len(log) + Len(C) /\ Len(log) \in Nat /\ Len(C) \in Nat
        /\ \A i \in 1 .. Len(log) + Len(C) : g[i] = IF i <= Len(log) THEN log[i] ELSE C[i - Len(log)]
    BY <1>3, ConcatProperties, LenProperties
  <2>2. \A i \in 1 .. Len(log) : i \in 1 .. Len(log) + Len(C) /\ i <= Len(log)
    BY <2>1
  <2>3. QED
    BY <2>1, <2>2
<1>5. Len(log) \in 0 .. Len(g) /\ Len(log) <= Len(g)
  BY <1>4
<1> HIDE DEF g, C
<1>6. /\ SubSeq(g, 1, Len(log)) \in Seq(Event) /\ Len(SubSeq(g, 1, Len(log))) = Len(log)
      /\ \A i \in 1 .. Len(log) : SubSeq(g, 1, Len(log))[i] = g[i]
  BY <1>4, <1>5, CutFacts
<1>7. log = SubSeq(g, 1, Len(log))
  <2>1. \A i \in 1 .. Len(log) : log[i] = SubSeq(g, 1, Len(log))[i]
    BY <1>4, <1>6
  <2>2. QED
    BY <1>3, <1>6, <2>1, SeqEqual
<1>8. IsPrefix(log, g)
  BY <1>5, <1>7 DEF IsPrefix
<1>9. Loaded(file.lines) = g
  BY <1>2 DEF g, C
<1>10. QED
  BY <1>2, <1>4, <1>8, <1>9 DEF C

\* A sound log with no turn open is a transcript.
LEMMA ClosedIsTranscript ==
  ASSUME NEW h, Good(h), ~TurnOpen(h)
  PROVE  /\ \A i \in DOMAIN h : h[i].kind = "call" =>
              \E j \in Answers(h, i) :
                 /\ Answers(h, i) = {j}
                 /\ \A k \in i .. j : h[k].kind # "end"
         /\ \A j \in DOMAIN h : h[j].kind = "result" =>
              \E i \in 1 .. j - 1 : h[i].kind = "call" /\ h[i].call = h[j].call
<1>1. h \in Seq(Event) /\ InTurns(h) /\ Once(h) /\ Asked(h) /\ Answered(h)
  BY DEF Good
<1>2. Len(h) \in Nat /\ DOMAIN h = 1 .. Len(h)
  BY <1>1, LogFacts
<1>3. ASSUME NEW i \in 1 .. Len(h), h[i].kind = "call"
      PROVE  \E j \in Answers(h, i) :
                 /\ Answers(h, i) = {j}
                 /\ \A k \in i .. j : h[k].kind # "end"
  <2>1. PICK s \in 1 .. i - 1 : h[s].kind = "start" /\ NoEnd(h, s, i - 1)
    BY <1>1, <1>2, <1>3 DEF InTurns
  <2>2. s \in 1 .. Len(h) /\ ~NoEnd(h, s, Len(h))
    BY <1>1, <1>2, <2>1, OpenBy
  <2>3. PICK f \in s .. Len(h) : h[f].kind = "end"
    BY <2>2 DEF NoEnd
  <2>4. f \in 1 .. Len(h) /\ i < f
    <3>1. ~(f \in s .. i - 1)
      BY <2>1, <2>3 DEF NoEnd
    <3>2. f # i
      BY <1>3, <2>3
    <3>3. QED
      BY <1>2, <2>2, <3>1, <3>2
  <2>5. PICK j \in i + 1 .. f - 1 : h[j].kind = "result" /\ h[j].call = h[i].call
    BY <1>1, <1>2, <1>3, <2>3, <2>4 DEF Answered
  <2>6. j \in i + 1 .. Len(h) /\ j \in 1 .. Len(h)
    BY <1>2, <2>4
  <2>7. j \in Answers(h, i)
    BY <2>5, <2>6 DEF Answers
  <2>8. ASSUME NEW l \in Answers(h, i) PROVE l = j
    <3>1. l \in i + 1 .. Len(h) /\ h[l].kind = "result" /\ h[l].call = h[i].call
      BY DEF Answers
    <3>2. l \in 1 .. Len(h)
      BY <1>2, <3>1
    <3>3. QED
      BY <1>1, <1>2, <2>5, <2>6, <3>1, <3>2 DEF Once
  <2>9. PICK c \in 1 .. j - 1 : h[c].kind = "call" /\ h[c].call = h[j].call /\ NoEnd(h, c, j)
    BY <1>1, <1>2, <2>5, <2>6 DEF Asked
  <2>10. c = i
    <3>1. c \in 1 .. Len(h) /\ h[c].kind = h[i].kind /\ h[c].call = h[i].call
      BY <1>2, <1>3, <2>5, <2>6, <2>9
    <3>2. QED
      BY <1>1, <1>2, <1>3, <3>1 DEF Once
  <2>11. \A k \in i .. j : h[k].kind # "end"
    BY <2>9, <2>10 DEF NoEnd
  <2>12. QED
    BY <2>7, <2>8, <2>11
<1>4. ASSUME NEW j \in 1 .. Len(h), h[j].kind = "result"
      PROVE  \E i \in 1 .. j - 1 : h[i].kind = "call" /\ h[i].call = h[j].call
  BY <1>1, <1>2, <1>4 DEF Asked
<1>5. QED
  BY <1>2, <1>3, <1>4

\* What a load returns is sound, and needs no second repair.
LEMMA LoadedGood ==
  ASSUME NEW lines, Sane(lines)
  PROVE  Good(Loaded(lines)) /\ Loaded(Loaded(lines)) = Loaded(lines)
<1> DEFINE g == Loaded(lines)
<1>1. Good(Healed(lines))
  BY SaneFacts
<1>2. Good(g) /\ Closers(g) = <<>>
  BY <1>1, RepairGood DEF Loaded
<1>3. Healed(g) = g /\ g \in Seq(Event)
  BY <1>2, GoodIsSane DEF Good
<1> HIDE DEF g
<1>4. Loaded(g) = g
  BY <1>2, <1>3, ConcatEmptySeq DEF Loaded
<1>5. QED
  BY <1>2, <1>4 DEF g

\* The session opens as a transcript, by the invariant.
LEMMA OpensStep ==
  ASSUME TypeOK, NumberedLog, CalmInvariant PROVE CalmOpensAsTranscript
<1> SUFFICES ASSUME Calm PROVE AlwaysLoadable /\ LoadedIsTranscript /\ RepairIsStable
  BY DEF CalmOpensAsTranscript
<1>1. FileIs /\ OpIs
  BY DEF CalmInvariant
<1>2. ASSUME file.header = "whole"
      PROVE  /\ Readable(file) /\ Contiguous(Loaded(file.lines))
             /\ Loaded(Loaded(file.lines)) = Loaded(file.lines)
  <2>1. Sane(file.lines)
    BY <1>1, <1>2 DEF FileIs
  <2>2. Readable(file)
    BY <1>2, <2>1, SaneFacts DEF Readable
  <2>3. QED
    BY <2>1, <2>2, LoadedGood DEF Good
<1>3. AlwaysLoadable
  BY <1>2 DEF AlwaysLoadable
<1>4. RepairIsStable
  BY <1>2 DEF RepairIsStable, Readable
<1>5. LoadedIsTranscript
  <2> SUFFICES ASSUME op.pc = "bind" PROVE LoadedIsTranscript
    BY DEF LoadedIsTranscript
  <2>1. /\ file.header = "whole" /\ op.events = Healed(file.lines) /\ ~TurnOpen(op.events)
    BY <1>1 DEF OpIs
  <2>2. Good(op.events)
    BY <1>1, <2>1, SaneFacts DEF FileIs
  <2> DEFINE h == op.events
  <2>3. /\ \A i \in DOMAIN h : h[i].kind = "call" =>
              \E j \in Answers(h, i) :
                 /\ Answers(h, i) = {j}
                 /\ \A k \in i .. j : h[k].kind # "end"
        /\ \A j \in DOMAIN h : h[j].kind = "result" =>
              \E i \in 1 .. j - 1 : h[i].kind = "call" /\ h[i].call = h[j].call
    BY <2>1, <2>2, ClosedIsTranscript
  <2>4. QED
    BY <2>1, <2>3 DEF LoadedIsTranscript
<1>6. QED
  BY <1>3, <1>4, <1>5

(***************************************************************************)
(* A session implements the durable log.                                   *)
(***************************************************************************)
Committed(h, g) ==
  \E kind \in Kind, call \in Call \cup {NoCall} : g = Append(h, EventOf(Len(h), kind, call))

Interrupted(h, g) == \E n \in DOMAIN Closers(h) : g = h \o SubSeq(Closers(h), 1, n)

Recording(h, g) == g = h \/ Committed(h, g) \/ Interrupted(h, g) \/ Undone(h, g)

\* The instance has copies of the operators of SessionEvents: they are the same.
LEMMA SameCardinality == \A S : Durable!Cardinality(S) = Cardinality(S)
BY DEF Durable!Cardinality, Cardinality

\* Nor is Nth another in the instance.
LEMMA SameNth == \A S, k : Durable!Nth(S, k) = Nth(S, k)
<1> TAKE S, k
<1>1. \A i : (Durable!Cardinality({j \in S : j <= i}) = k) <=> (Cardinality({j \in S : j <= i}) = k)
  BY SameCardinality
<1>2. QED
  BY <1>1, Zenon DEF Durable!Nth, Nth

\* Nor are the closers.
LEMMA SameClosers == \A h : Durable!Closers(h) = Closers(h)
<1> TAKE h
<1>1. Durable!TurnOpen(h) <=> TurnOpen(h)
  BY DEF Durable!TurnOpen, TurnOpen
<1>2. Durable!OpenCalls(h) = OpenCalls(h)
  BY DEF Durable!OpenCalls, OpenCalls
<1>4. \A seq, kind, call : Durable!Closer(seq, kind, call) = Closer(seq, kind, call)
  BY Zenon DEF Durable!Closer, Closer
<1>5. Durable!Last(h) = Last(h)
  BY DEF Durable!Last, Last
<1>6. CASE ~TurnOpen(h)
  BY <1>1, <1>6, Zenon DEF Durable!Closers, Closers
<1>7. CASE TurnOpen(h)
  BY <1>1, <1>2, SameNth, SameCardinality, <1>4, <1>5, <1>7, Zenon DEF Durable!Closers, Closers
<1>8. QED
  BY <1>6, <1>7

\* What DurableLog allows, in this module's operators.
LEMMA RecordingIsDurable ==
  ASSUME Recording(Recorded, Recorded')
  PROVE  [Durable!Next]_Recorded
<1>1. ASSUME Committed(Recorded, Recorded') PROVE Durable!Commit
  <2>1. PICK kind \in Kind, call \in Call \cup {NoCall} :
          Recorded' = Append(Recorded, EventOf(Len(Recorded), kind, call))
    BY <1>1 DEF Committed
  <2>2. Durable!EventOf(Len(Recorded), kind, call) = EventOf(Len(Recorded), kind, call)
    BY DEF Durable!EventOf, EventOf
  <2>3. kind \in Durable!Kind
    BY DEF Durable!Kind, Kind
  <2>4. QED
    BY <2>1, <2>2, <2>3 DEF Durable!Commit
<1>2. ASSUME Interrupted(Recorded, Recorded') PROVE Durable!Interrupt
  <2>1. Durable!Closers(Recorded) = Closers(Recorded)
    BY SameClosers
  <2>2. QED
    BY <1>2, <2>1 DEF Interrupted, Durable!Interrupt
<1>3. ASSUME Undone(Recorded, Recorded') PROVE Durable!Undo
  BY <1>3 DEF Undone, Durable!Undo, Durable!UndoTurnsFrom
<1>4. QED
  BY <1>1, <1>2, <1>3 DEF Recording, Durable!Next

\* All the closers at once are an interruption, or nothing.
LEMMA AllClosers ==
  ASSUME NEW h, Good(h)
  PROVE  Recording(h, h \o Closers(h))
<1> DEFINE C == Closers(h)
<1>1. C \in Seq(Event) /\ h \in Seq(Event)
  BY RepairGood DEF Good
<1>2. CASE C = <<>>
  BY <1>1, <1>2, ConcatEmptySeq DEF Recording
<1>3. CASE C # <<>>
  <2>1. Len(C) \in Nat \ {0} /\ DOMAIN C = 1 .. Len(C) /\ SubSeq(C, 1, Len(C)) = C
    BY <1>1, <1>3, EmptySeq, LenProperties, SubSeqFull
  <2>2. Len(C) \in DOMAIN C
    BY <2>1
  <2>3. QED
    BY <2>1, <2>2 DEF Recording, Interrupted
<1>4. QED
  BY <1>2, <1>3

\* The history, in each phase.
LEMMA RecordedIs ==
  ASSUME Calm
  PROVE  /\ live => Recorded = log
         /\ ~live /\ op.pc = "fill" => Recorded = Healed(op.fill)
         /\ ~live /\ op.pc # "fill" => Recorded = Healed(file.lines)
BY DEF Recorded

\* The history after a step, in each phase.
LEMMA RecordedIsNext ==
  ASSUME Calm'
  PROVE  /\ live' => Recorded' = log'
         /\ ~live' /\ op'.pc = "fill" => Recorded' = Healed(op'.fill)
         /\ ~live' /\ op'.pc # "fill" => Recorded' = Healed(file'.lines)
BY DEF Recorded

\* The steps of a turn are commits, or record nothing.
LEMMA TurnRecords ==
  ASSUME Standing, Calm', TurnStep
  PROVE  Recording(Recorded, Recorded')
<1>1. live /\ live' = live
  BY DEF TurnStep, StartTurn, LogNote, LogCall, LogResult, EndTurn, Stop
<1>2. Recorded = log /\ Recorded' = log'
  BY <1>1, RecordedIs, RecordedIsNext DEF Standing
<1>3. ASSUME NEW kind \in Kind, NEW call \in Call \cup {NoCall}, Commit(EventOf(Next_seq, kind, call))
      PROVE  Committed(log, log')
  BY <1>3 DEF Commit, Committed, Next_seq
<1>4. "start" \in Kind /\ "end" \in Kind /\ "note" \in Kind /\ "odd" \in Kind /\ "call" \in Kind /\ "result" \in Kind
  BY DEF Kind
<1>5. CASE StartTurn
  BY <1>3, <1>4, <1>5, <1>2 DEF StartTurn, Recording
<1>6. CASE LogNote
  <2>1. PICK kind \in {"note", "odd"} : Commit(EventOf(Next_seq, kind, NoCall))
    BY <1>6 DEF LogNote
  <2>2. QED
    BY <1>2, <1>3, <1>4, <2>1 DEF Recording
<1>7. ASSUME NEW c \in Call, LogCall(c) \/ LogResult(c)
      PROVE  Recording(Recorded, Recorded')
  <2>1. PICK kind \in {"call", "result"} : Commit(EventOf(Next_seq, kind, c))
    BY <1>7 DEF LogCall, LogResult
  <2>2. QED
    BY <1>2, <1>3, <1>4, <2>1 DEF Recording
<1>8. CASE EndTurn
  <2>1. CASE Commit(EventOf(Next_seq, "end", NoCall))
    BY <1>2, <1>3, <1>4, <2>1 DEF Recording
  <2>2. CASE UNCHANGED <<file, log, watermark>>
    BY <1>2, <2>2 DEF Recording
  <2>3. QED
    BY <1>8, <2>1, <2>2 DEF EndTurn
<1>9. CASE Stop
  BY <1>2, <1>9 DEF Stop, Recording
<1>10. QED
  BY <1>5, <1>6, <1>7, <1>8, <1>9 DEF TurnStep

\* Binding what a load returned interrupts the open turn, or records nothing.
LEMMA BindRecords ==
  ASSUME Standing, Calm', Bind
  PROVE  Recording(Recorded, Recorded')
<1>0. FileIs /\ LiveIs /\ OpIs
  BY DEF Standing
<1>1. log' = op.events /\ live'
  BY BindKeeps
<1>2. Recorded' = op.events
  BY <1>1, RecordedIsNext
<1>3. op.pc = "bind"
  BY DEF Bind
<1>4. op.events = Healed(file.lines)
  BY <1>0, <1>3 DEF OpIs
<1>5. CASE live
  <2>1. Undone(log, Healed(file.lines)) /\ Recorded = log
    BY <1>0, <1>3, <1>5, RecordedIs DEF LiveIs, Loading, Standing
  <2>2. QED
    BY <1>2, <1>4, <2>1 DEF Recording
<1>6. CASE ~live
  <2>1. Recorded = Healed(file.lines)
    BY <1>3, <1>6, RecordedIs DEF Standing
  <2>2. QED
    BY <1>2, <1>4, <2>1 DEF Recording
<1>7. QED
  BY <1>5, <1>6

\* The steps of a load, an undo and a poll record nothing, or the closers of
\* an open turn, or undo whole turns.
LEMMA LoadRecords ==
  ASSUME Standing, Calm',
         Open \/ LoadRead \/ CheckClosers \/ OpenForWriting \/ Fill \/ AppendClosers
           \/ Poll \/ Undo \/ TruncateOpen \/ Quiet \/ UNCHANGED vars
  PROVE  Recording(Recorded, Recorded')
<1>0. FileIs /\ LiveIs /\ OpIs /\ op \in OpType /\ file \in FileType
  BY DEF Standing, TypeOK, OpType, FileType
<1>1. log' = log /\ live' = live
  BY DEF Open, LoadRead, CheckClosers, OpenForWriting, Fill, AppendClosers, Poll, Undo, TruncateOpen, Quiet, vars
<1>2. CASE live
  <2>1. Recorded = log /\ Recorded' = log'
    BY <1>1, <1>2, RecordedIs, RecordedIsNext DEF Standing
  <2>2. QED
    BY <1>1, <2>1 DEF Recording
<1>3. CASE ~live
  <2>0. ~live'
    BY <1>1, <1>3
  <2>1. CASE Open \/ LoadRead \/ CheckClosers
    <3>1. file' = file /\ op.pc # "fill"
      BY <2>1 DEF Open, LoadRead, CheckClosers
    <3>2. op'.pc # "fill"
      <4>1. CASE Open
        BY <4>1 DEF Open, NoOp
      <4>2. CASE LoadRead
        <5>1. CASE op' = NoOp
          BY <5>1 DEF NoOp
        <5>2. CASE op' = [NoOp EXCEPT
                    !.pc = IF Dropped(file.lines) # {} THEN "rewrite"
                           ELSE IF file.torn THEN "cut" ELSE "close",
                    !.events = Healed(file.lines)]
          BY <5>2 DEF NoOp
        <5>3. QED
          BY <4>2, <5>1, <5>2 DEF LoadRead
      <4>3. CASE CheckClosers
        <5>1. op' \in {NoOp, [op EXCEPT !.pc = "bind"], [op EXCEPT !.pc = "append"]}
          BY <4>3 DEF CheckClosers
        <5>2. QED
          BY <1>0, <5>1 DEF NoOp, OpType
      <4>4. QED
        BY <2>1, <4>1, <4>2, <4>3
    <3>3. Recorded = Healed(file.lines) /\ Recorded' = Healed(file'.lines)
      BY <1>3, <2>0, <3>1, <3>2, RecordedIs, RecordedIsNext DEF Standing
    <3>4. QED
      BY <3>1, <3>3 DEF Recording
  <2>2. CASE OpenForWriting
    <3>1. /\ op.pc \in {"rewrite", "cut"}
          /\ op' = [op EXCEPT !.pc = "fill", !.then = "close",
                      !.fill = IF op.pc = "rewrite" THEN op.events ELSE file.lines]
      BY <2>2 DEF OpenForWriting
    <3>2. /\ op'.pc = "fill" /\ op'.fill = IF op.pc = "rewrite" THEN op.events ELSE file.lines
      BY <1>0, <3>1 DEF OpType
    <3>3. /\ file.header = "whole" /\ op.events = Healed(file.lines)
          /\ op.pc = "cut" => op.events = file.lines
      BY <1>0, <3>1 DEF OpIs
    <3>4. Healed(op.events) = op.events
      BY <1>0, <3>3, SaneFacts DEF FileIs
    <3>5. op'.fill = op.events
      BY <3>1, <3>2, <3>3
    <3>6. Recorded = Healed(file.lines) /\ Recorded' = Healed(op'.fill)
      BY <1>3, <2>0, <3>1, <3>2, RecordedIs, RecordedIsNext DEF Standing
    <3>7. QED
      BY <3>3, <3>4, <3>5, <3>6 DEF Recording
  <2>3. CASE Fill
    <3>1. op.pc = "fill" /\ op' = [op EXCEPT !.pc = op.then, !.fill = <<>>, !.then = "idle"]
      BY <2>3 DEF Fill
    <3>2. file.lines = <<>> /\ op.then \in {"read", "close"}
      BY <1>0, <3>1 DEF OpIs
    <3>3. file' = FileOf(op.fill)
      <4>1. Range(file.lines) = {}
        <5>1. <<>> \in Seq(Event) /\ Len(<<>>) = 0
          BY EmptySeq
        <5>2. DOMAIN file.lines = {}
          BY <3>2, <5>1, LenProperties
        <5>3. QED
          BY <5>2 DEF Range
      <4>2. QED
        BY <2>3, <4>1 DEF Fill
    <3>4. file'.lines = op.fill /\ op'.pc # "fill"
      BY <1>0, <3>1, <3>2, <3>3 DEF FileOf, OpType
    <3>5. Recorded = Healed(op.fill) /\ Recorded' = Healed(file'.lines)
      BY <1>3, <2>0, <3>1, <3>4, RecordedIs, RecordedIsNext DEF Standing
    <3>6. QED
      BY <3>4, <3>5 DEF Recording
  <2>4. CASE AppendClosers
    <3>1. /\ op.pc = "append" /\ op' = [op EXCEPT !.pc = "bind", !.events = @ \o Closers(op.events)]
          /\ file' = [file EXCEPT !.lines = @ \o Closers(op.events)]
      BY <2>4 DEF AppendClosers
    <3>2. /\ file.header = "whole" /\ op.events = Healed(file.lines) /\ op.events = file.lines
      BY <1>0, <3>1 DEF OpIs
    <3>3. Good(file.lines)
      BY <1>0, <3>2, SaneFacts DEF FileIs
    <3>4. file'.lines = file.lines \o Closers(file.lines) /\ op'.pc = "bind"
      BY <1>0, <3>1, <3>2 DEF FileType, OpType
    <3>5. Healed(file'.lines) = file'.lines
      BY <3>3, <3>4, RepairGood, GoodIsSane
    <3>6. Recorded = Healed(file.lines) /\ Recorded' = Healed(file'.lines)
      BY <1>3, <2>0, <3>1, <3>4, RecordedIs, RecordedIsNext DEF Standing
    <3>7. QED
      BY <3>2, <3>3, <3>4, <3>5, <3>6, AllClosers
  <2>5. CASE Poll \/ Undo \/ TruncateOpen
    <3>1. live
      BY <1>0, <2>5 DEF Poll, Undo, TruncateOpen, OpIs
    <3>2. QED
      BY <1>3, <3>1
  <2>6. CASE Quiet \/ UNCHANGED vars
    <3>1. UNCHANGED vars
      BY <2>6 DEF Quiet
    <3>2. Recorded' = Recorded
      BY <3>1 DEF Recorded, vars, Calm
    <3>3. QED
      BY <3>2 DEF Recording
  <2>7. QED
    BY <2>1, <2>2, <2>3, <2>4, <2>5, <2>6
<1>4. QED
  BY <1>2, <1>3

\* Creating a session starts with no history.
LEMMA CreateRecords ==
  ASSUME Standing, Calm', Create
  PROVE  Recording(Recorded, Recorded')
<1>1. ~live /\ op.pc = "idle" /\ file.header = "absent" /\ live' /\ log' = <<>>
  BY DEF Create
<1>2. file.lines = <<>>
  BY <1>1 DEF Standing, FileIs
<1>3. Recorded = Healed(file.lines) /\ Recorded' = <<>>
  BY <1>1, RecordedIs, RecordedIsNext DEF Standing
<1>4. QED
  BY <1>2, <1>3, EmptyGood DEF Recording

\* The death of the process interrupts the open turn, or records nothing.
LEMMA CrashRecords ==
  ASSUME Standing, Calm', Crash
  PROVE  Recording(Recorded, Recorded')
<1>0. FileIs /\ LiveIs /\ OpIs /\ op \in OpType /\ file \in FileType /\ Calm
  BY DEF Standing, TypeOK, OpType, FileType
<1>1. Die
  BY DEF Crash, Kill, KillInCreate, KillInAppend, KillInClosers, KillInRewrite
<1>2. Recorded' = Healed(file'.lines)
  <2>1. ~live' /\ op'.pc # "fill"
    BY <1>1 DEF Die, NoOp
  <2>2. QED
    BY <2>1, RecordedIsNext
\* A process that dies beside an idle file leaves its log, or the log repaired.
<1>3. ASSUME live, op.pc = "idle", file'.lines = file.lines
      PROVE  Recording(Recorded, Recorded')
  <2>1. Recorded = log /\ Good(log)
    BY <1>0, <1>3, RecordedIs DEF LiveIs
  <2>2. Healed(file.lines) = log \/ Healed(file.lines) = log \o Closers(log)
    BY <1>3, LoadedIsTheLog
  <2>3. Recorded' = log \/ Recorded' = log \o Closers(log)
    BY <1>2, <1>3, <2>2
  <2>4. QED
    BY <2>1, <2>3, AllClosers DEF Recording
<1>4. CASE Kill
  <2>1. file' = file /\ op.pc # "fill"
    BY <1>4 DEF Kill
  <2>2. CASE ~live
    <3>1. Recorded = Healed(file.lines)
      BY <1>0, <2>1, <2>2, RecordedIs
    <3>2. QED
      BY <1>2, <2>1, <3>1 DEF Recording
  <2>3. CASE live /\ op.pc = "idle"
    BY <1>3, <2>1, <2>3
  <2>4. CASE live /\ op.pc = "truncate"
    <3>1. Recorded = log /\ Healed(file.lines) = log
      BY <1>0, <2>4, RecordedIs, SaneBy DEF LiveIs
    <3>2. QED
      BY <1>2, <2>1, <3>1 DEF Recording
  <2>5. CASE live /\ op.pc \in Loading
    <3>1. Recorded = log /\ Undone(log, Healed(file.lines))
      BY <1>0, <2>5, RecordedIs DEF LiveIs
    <3>2. QED
      BY <1>2, <2>1, <3>1 DEF Recording
  <2>6. op.pc \in Loading \/ op.pc \in {"idle", "truncate"}
    BY <1>0, <2>1 DEF OpType, Steps, Loading
  <2>7. QED
    BY <2>2, <2>3, <2>4, <2>5, <2>6
<1>5. CASE KillInCreate
  <2>1. ~live /\ op.pc = "idle" /\ file.header = "absent" /\ file' = [NoFile EXCEPT !.header = "torn", !.torn = TRUE]
    BY <1>5 DEF KillInCreate
  <2>2. file.lines = <<>> /\ file'.lines = <<>>
    BY <1>0, <2>1 DEF FileIs, NoFile
  <2>3. Recorded = Healed(file.lines)
    BY <1>0, <2>1, RecordedIs
  <2>4. QED
    BY <1>2, <2>2, <2>3 DEF Recording
<1>6. CASE KillInAppend
  <2>1. live /\ op.pc = "idle" /\ file' = [file EXCEPT !.torn = TRUE]
    BY <1>6 DEF KillInAppend
  <2>2. file'.lines = file.lines
    BY <1>0, <2>1 DEF FileType
  <2>3. QED
    BY <1>3, <2>1, <2>2
<1>7. CASE KillInClosers
  <2> DEFINE C == Closers(op.events)
  <2>1. PICK n \in 0 .. Len(C) - 1 :
          file' = [file EXCEPT !.lines = @ \o SubSeq(C, 1, n), !.torn = TRUE]
    BY <1>7 DEF KillInClosers
  <2>2. op.pc = "append"
    BY <1>7 DEF KillInClosers
  <2>3. file.header = "whole" /\ op.events = Healed(file.lines) /\ op.events = file.lines
    BY <1>0, <2>2 DEF OpIs
  <2>4. Good(file.lines)
    BY <1>0, <2>3, SaneFacts DEF FileIs
  <2>5. C \in Seq(Event) /\ (C = <<>> <=> ~TurnOpen(file.lines)) /\ DOMAIN C = 1 .. Len(C)
    BY <2>3, <2>4, RepairGood, LenProperties
  <2>6. Len(C) \in Nat /\ n \in 0 .. Len(C) /\ Len(C) # 0
    BY <2>5, LogFacts
  <2>7. C # <<>>
    BY <2>6, EmptySeq
  <2>8. Good(file.lines \o SubSeq(C, 1, n))
    BY <2>3, <2>4, <2>5, <2>6, <2>7, ClosersGood
  <2>9. file'.lines = file.lines \o SubSeq(C, 1, n)
    BY <1>0, <2>1 DEF FileType
  <2>10. ~live
    <3>1. SUFFICES ASSUME live PROVE FALSE
      OBVIOUS
    <3>2. Good(log) /\ Undone(log, Healed(file.lines))
      BY <1>0, <2>2, <3>1 DEF LiveIs, Loading
    <3>3. C = <<>>
      BY <2>3, <3>2, UndoneClosed
    <3>4. QED
      BY <2>7, <3>3
  <2>11. Recorded = file.lines
    BY <1>0, <2>2, <2>3, <2>10, RecordedIs
  <2>12. Recorded' = file.lines \o SubSeq(C, 1, n)
    BY <1>2, <2>8, <2>9, GoodIsSane
  <2>13. CASE n = 0
    <3>1. SubSeq(C, 1, n) = <<>>
      BY <2>13, SubSeqEmpty
    <3>2. file.lines \o <<>> = file.lines
      BY <2>4, ConcatEmptySeq DEF Good
    <3>3. QED
      BY <2>11, <2>12, <3>1, <3>2 DEF Recording
  <2>14. CASE n # 0
    <3>1. n \in DOMAIN C
      BY <2>5, <2>6, <2>14
    <3>2. C = Closers(file.lines)
      BY <2>3
    <3>3. QED
      BY <2>11, <2>12, <3>1, <3>2 DEF Recording, Interrupted
  <2>15. QED
    BY <2>13, <2>14
<1>8. CASE KillInRewrite
  BY <1>0, <1>8 DEF KillInRewrite, Calm
<1>9. QED
  BY <1>4, <1>5, <1>6, <1>7, <1>8 DEF Crash

\* Every step of a session is a step of the durable log.
LEMMA DurableStep ==
  ASSUME TypeOK, NumberedLog, CalmInvariant, [Next]_vars
  PROVE  [Durable!Next]_Recorded
<1>1. env' = env
  BY EnvStays
<1>2. Calm' <=> Calm
  BY <1>1 DEF Calm
<1>3. CASE ~Calm
  BY <1>2, <1>3 DEF Recorded
<1>4. CASE Calm
  <2>1. Standing /\ Calm'
    BY <1>2, <1>4 DEF Standing, CalmInvariant
  <2>2. Recording(Recorded, Recorded')
    <3>1. CASE Create
      BY <2>1, <3>1, CreateRecords
    <3>2. CASE TurnStep
      BY <2>1, <3>2, TurnRecords
    <3>3. CASE Crash
      BY <2>1, <3>3, CrashRecords
    <3>4. CASE Bind
      BY <2>1, <3>4, BindRecords
    <3>5. CASE Open \/ LoadRead \/ CheckClosers \/ OpenForWriting \/ Fill \/ AppendClosers
                 \/ Poll \/ Undo \/ TruncateOpen \/ Quiet \/ UNCHANGED vars
      BY <2>1, <3>5, LoadRecords
    <3>6. QED
      BY <3>1, <3>2, <3>3, <3>4, <3>5 DEF Next, LoadStep
  <2>3. QED
    BY <2>2, RecordingIsDurable
<1>5. QED
  BY <1>3, <1>4

\* A session starts as the durable log does.
LEMMA DurableStart ==
  ASSUME Init PROVE Durable!Init
<1>1. file = NoFile /\ ~live /\ op.pc = "idle"
  BY DEF Init, NoOp
<1>2. Recorded = <<>>
  BY <1>1, EmptyGood DEF Recorded, NoFile
<1>3. QED
  BY <1>2 DEF Durable!Init

(***************************************************************************)
(* What holds of every behaviour.                                          *)
(***************************************************************************)

\* The variables keep their types under every fault: a file is a header state
\* and a list of lines, the log and what an operation carries are lists of
\* events (SessionLogStore, IncrementalPersister).
THEOREM TypesHold == Spec => []TypeOK
<1>1. Init => TypeOK
  BY InitTypes
<1>2. TypeOK /\ [Next]_vars => TypeOK'
  BY TypesStay
<1>3. QED
  BY <1>1, <1>2, PTL DEF Spec

\* In a calm environment the file stands for the log, or for the log with the
\* closers a poll wrote into its open turn, at every step of every operation.
THEOREM CalmInvariantHolds == Spec => []CalmInvariant
<1>1. Init => CalmInvariant
  BY CalmStart
<1>2. TypeOK /\ NumberedLog /\ CalmInvariant /\ [Next]_vars => CalmInvariant'
  BY CalmKeeps
<1>3. QED
  BY <1>1, <1>2, TypesHold, NumberedLogInvariant, PTL DEF Spec

\* Nothing committed is lost: a load begun now returns the log of the working
\* process, whatever a status poll wrote into its file in the middle of a turn
\* (_on_event, load, _drop_premature_interrupted_closers).
THEOREM CommitsSurvive == Spec => []CalmCommitsSurvive
<1>1. TypeOK /\ NumberedLog /\ CalmInvariant => CalmCommitsSurvive
  BY SurviveStep
<1>2. QED
  BY <1>1, TypesHold, NumberedLogInvariant, CalmInvariantHolds, PTL

\* A session opens again wherever its process died, as a transcript a provider
\* accepts, and a repaired file needs no repair (load, _open_turn_closers).
THEOREM OpensAsTranscript == Spec => []CalmOpensAsTranscript
<1>1. TypeOK /\ NumberedLog /\ CalmInvariant => CalmOpensAsTranscript
  BY OpensStep
<1>2. QED
  BY <1>1, TypesHold, NumberedLogInvariant, CalmInvariantHolds, PTL

\* The session implements the durable log: a crash, a repair, a poll and an
\* undo in between each other are commits, interruptions and undone turns of
\* one gapless history, or nothing.
THEOREM LogIsDurable == Spec => CalmLogIsDurable
<1>1. Init => Durable!Init
  BY DurableStart
<1>2. TypeOK /\ NumberedLog /\ CalmInvariant /\ [Next]_vars => [Durable!Next]_Recorded
  BY DurableStep
<1>3. QED
  BY <1>1, <1>2, TypesHold, NumberedLogInvariant, CalmInvariantHolds, PTL
  DEF Spec, CalmLogIsDurable, Durable!Spec
===============================================================================
