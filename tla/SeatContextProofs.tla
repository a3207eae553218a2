--------------------------- MODULE SeatContextProofs ---------------------------
(***************************************************************************)
(* A seat has in front of it what its waking told it, its list is made of  *)
(* whole turns, and what it has lived is in its archive, for every         *)
(* configuration of the compaction, budget, size of an observation and     *)
(* number of attempts.                                                     *)
(*                                                                         *)
(* The last part is about the requests an Integrator answers (Integration):*)
(* it implements IntegrationProtocol, for every set of requests, every     *)
(* limit and every combination of faults on either backend.  The names of  *)
(* the two are apart, and neither says anything of the other.              *)
(***************************************************************************)
EXTENDS SeatContext, Integration, TLAPS, WellFoundedInduction, SequenceTheorems

\* The counters of a worker.
Memory == [step : Nat, repair : Nat, turn : Nat, clock : {"early", "late", "margin"},
           reminded : BOOLEAN, late : BOOLEAN]

\* Between attempts, and before it is woken, a seat has nothing in mind.
AtRest == pc \in {"off", "wake"} => live = <<>> /\ due = <<>> /\ mem.turn = 0

\* What an attempt archives is its own and comes after what the others did.
InTurn == /\ \A i \in 1..Len(archive) : archive[i].by <= attempt
          /\ pc = "wake" => \A i \in 1..Len(archive) : archive[i].by < attempt
          /\ \A i \in 1..Len(due) : due[i].by = attempt

\* All that a waking tells comes before the first reply, and only what a tool
\* shows may be long.
ToldFirst ==
    /\ \A i, j \in 1..Len(live) : i < j /\ live[i].what \in Assistant => live[j].what \notin Waking
    /\ \A i \in 1..Len(live) : live[i].what # "observation" => live[i].size = 1

\* A turn that is to be kept is the end of the list.
JustKept == pc = "kept" => LET n == Len(live)
                           IN /\ n > 1 /\ live[n - 1].what = "reply" /\ live[n].what = "observation"
                              /\ live[n - 1].turn = mem.turn /\ live[n].turn = mem.turn

\* What is remembered of this attempt: what it was told, what has been shed since
\* and what has not.
Memories == Only(Lived, attempt, archive \o Rows(due))
Remembers == Awake => \E shed, rest \in Seq(Message) :
                         /\ Memories = told \o (shed \o rest)
                         /\ Only(Lived, 0, Rows(live)) = told \o rest

IInv == /\ TypeOK /\ FramingKept /\ TurnsWhole
        /\ AtRest /\ InTurn /\ ToldFirst /\ JustKept /\ Remembers

--------------------------------------------------------------------------------
(* Only, a recursion over a list: what it takes of a join, of a list all   *)
(* of whose messages pass, of one none of whose does.  The induction is    *)
(* over the set of lengths for which the recursion has gone well.          *)

\* A set of naturals that is not empty has a least element.
LEMMA LeastOf ==
    ASSUME NEW S \in SUBSET Nat, S # {}
    PROVE  \E n \in S : \A m \in S : n <= m
<1>1. PICK n \in S : \A m \in S : ~(<<m, n>> \in OpToRel(<, Nat))
  BY WFMin, NatLessThanWellFounded
<1>2. \A m \in S : ~(m < n)
  BY <1>1 DEF OpToRel
<1>. QED BY <1>2

\* A message passes: it is of one of the kinds and not of an attempt before.
Passes(kinds, since, m) == m.what \in kinds /\ m.by >= since

\* A function that is Only's recursion, prefix by prefix.
Unfolds(kinds, since, ms, f) ==
    f = [n \in 0..Len(ms) |->
            IF n = 0 THEN <<>>
            ELSE IF Passes(kinds, since, ms[n]) THEN Append(f[n - 1], ms[n]) ELSE f[n - 1]]

\* There is one for every sequence.
LEMMA Unfolded ==
    ASSUME NEW kinds, NEW since, NEW ms, Len(ms) \in Nat
    PROVE  \E f : Unfolds(kinds, since, ms, f)
<1>. DEFINE Step(f, n) == IF n = 0 THEN <<>>
                          ELSE IF Passes(kinds, since, ms[n]) THEN Append(f[n - 1], ms[n])
                          ELSE f[n - 1]
            Has(n) == \E f : f = [i \in 0..n |-> Step(f, i)]
            Bad == {n \in Nat : ~Has(n)}
<1>1. Has(0)
  <2>. DEFINE f == [i \in 0..0 |-> <<>>]
  <2>1. f = [i \in 0..0 |-> Step(f, i)]
    OBVIOUS
  <2>. QED BY <2>1
<1>2. ASSUME NEW n \in Nat, Has(n) PROVE Has(n + 1)
  <2>1. PICK f : f = [i \in 0..n |-> Step(f, i)]
    BY <1>2
  <2>. DEFINE g == [i \in 0..n + 1 |-> IF i = n + 1 THEN Step(f, n + 1) ELSE f[i]]
  <2>2. \A i \in 0..n : g[i] = f[i]
    OBVIOUS
  <2>3. ASSUME NEW i \in 0..n + 1 PROVE g[i] = Step(g, i)
    <3>1. CASE i = n + 1
      <4>1. g[i] = Step(f, n + 1)
        BY <3>1
      <4>2. g[n] = f[n]
        BY <2>2
      <4>3. i - 1 = n /\ n + 1 - 1 = n /\ i # 0 /\ n + 1 # 0
        BY <3>1
      <4>. HIDE DEF g
      <4>. QED BY <4>1, <4>2, <4>3, <3>1
    <3>2. CASE i \in 0..n
      <4>1. g[i] = f[i] /\ f[i] = Step(f, i)
        BY <2>1, <2>2, <3>2
      <4>2. i # 0 => g[i - 1] = f[i - 1]
        <5>1. i # 0 => i - 1 \in 0..n
          BY <3>2
        <5>. QED BY <5>1, <2>2
      <4>. HIDE DEF g
      <4>. QED BY <4>1, <4>2
    <3>. QED BY <3>1, <3>2
  <2>4. g = [i \in 0..n + 1 |-> g[i]]
    OBVIOUS
  <2>5. g = [i \in 0..n + 1 |-> Step(g, i)]
    <3>. HIDE DEF g, Step
    <3>. QED BY <2>3, <2>4
  <2>. QED BY <2>5
<1>3. Bad = {}
  <2>. SUFFICES ASSUME Bad # {} PROVE FALSE
    OBVIOUS
  <2>1. PICK n \in Bad : \A m \in Bad : n <= m
    BY LeastOf
  <2>2. n \in Nat /\ ~Has(n)
    OBVIOUS
  <2>3. n # 0
    BY <1>1, <2>2
  <2>4. n - 1 \in Nat /\ n - 1 + 1 = n /\ ~(n <= n - 1)
    BY <2>2, <2>3
  <2>5. n - 1 \notin Bad
    BY <2>1, <2>4
  <2>6. Has(n - 1)
    BY <2>5, <2>4
  <2>7. Has(n - 1 + 1)
    BY <2>4, <2>6, <1>2
  <2>8. Has(n)
    BY <2>7, <2>4
  <2>. QED BY <2>2, <2>8
<1>4. Has(Len(ms))
  <2>. HIDE DEF Has
  <2>. QED BY <1>3
<1>. QED BY <1>4 DEF Unfolds

\* What holds of 0, and of n + 1 with n, holds up to any natural.
LEMMA Climbs ==
    ASSUME NEW N \in Nat, NEW S \in SUBSET Nat, 0 \in S,
           \A n \in Nat : n < N /\ n \in S => n + 1 \in S
    PROVE  \A n \in 0..N : n \in S
<1>. DEFINE Bad == {n \in 0..N : n \notin S}
<1>1. Bad \in SUBSET Nat
  OBVIOUS
<1>2. Bad = {}
  <2>. SUFFICES ASSUME Bad # {} PROVE FALSE
    OBVIOUS
  <2>1. PICK n \in Bad : \A m \in Bad : n <= m
    <3>. HIDE DEF Bad
    <3>. QED BY <1>1, LeastOf
  <2>2. n \in Nat /\ n <= N /\ n \notin S /\ n # 0
    OBVIOUS
  <2>3. n - 1 \in Nat /\ n - 1 < N /\ n - 1 + 1 = n /\ ~(n <= n - 1)
    BY <2>2
  <2>4. n - 1 \in S
    BY <2>1, <2>3
  <2>. QED BY <2>2, <2>3, <2>4
<1>. QED BY <1>2

\* What the values of the recursion are.
Collects(kinds, since, ms, f) ==
    /\ f[0] = <<>>
    /\ \A n \in Nat : n < Len(ms) =>
          f[n + 1] = IF Passes(kinds, since, ms[n + 1]) THEN Append(f[n], ms[n + 1]) ELSE f[n]
    /\ \A n \in 0..Len(ms) : f[n] \in Seq(Message)

\* What the recursion has taken after every message.
LEMMA CollectsIs ==
    ASSUME NEW kinds, NEW since, NEW ms \in Seq(Message), NEW f, Unfolds(kinds, since, ms, f)
    PROVE  Collects(kinds, since, ms, f)
<1>. DEFINE Value(n) == IF n = 0 THEN <<>>
                        ELSE IF Passes(kinds, since, ms[n]) THEN Append(f[n - 1], ms[n])
                        ELSE f[n - 1]
<1>1. f = [n \in 0..Len(ms) |-> Value(n)]
  BY DEF Unfolds
<1>2. Len(ms) \in Nat
  OBVIOUS
<1>. HIDE DEF Value
<1>3. \A n \in 0..Len(ms) : f[n] = Value(n)
  BY <1>1
<1>4. f[0] = <<>>
  <2>1. 0 \in 0..Len(ms)
    BY <1>2
  <2>2. Value(0) = <<>>
    BY DEF Value
  <2>. QED BY <1>3, <2>1, <2>2
<1>5. ASSUME NEW n \in Nat, n < Len(ms)
      PROVE  f[n + 1] = IF Passes(kinds, since, ms[n + 1]) THEN Append(f[n], ms[n + 1]) ELSE f[n]
  <2>1. n + 1 \in 0..Len(ms) /\ n + 1 # 0 /\ n + 1 - 1 = n
    BY <1>2, <1>5
  <2>2. f[n + 1] = Value(n + 1)
    BY <1>3, <2>1
  <2>3. Value(n + 1) = IF Passes(kinds, since, ms[n + 1]) THEN Append(f[n + 1 - 1], ms[n + 1])
                       ELSE f[n + 1 - 1]
    BY <2>1 DEF Value
  <2>. QED BY <2>1, <2>2, <2>3
<1>. DEFINE S == {n \in Nat : f[n] \in Seq(Message)}
<1>6. ASSUME NEW n \in Nat, n < Len(ms), f[n] \in Seq(Message)
      PROVE  f[n + 1] \in Seq(Message)
  <2>1. ms[n + 1] \in Message
    BY <1>6, <1>2
  <2>2. Append(f[n], ms[n + 1]) \in Seq(Message)
    BY <2>1, <1>6
  <2>. QED BY <1>5, <1>6, <2>2
<1>7. \A n \in Nat : n < Len(ms) /\ n \in S => n + 1 \in S
  BY <1>6
<1>8. 0 \in S
  <2>1. <<>> \in Seq(Message)
    OBVIOUS
  <2>. QED BY <1>4, <2>1
<1>9. \A n \in 0..Len(ms) : n \in S
  <2>1. S \in SUBSET Nat
    OBVIOUS
  <2>. HIDE DEF S
  <2>. QED BY <1>2, <1>7, <1>8, <2>1, Climbs
<1>. QED BY <1>4, <1>5, <1>9 DEF Collects

\* Only is what such a function makes of the whole sequence.
LEMMA OnlyIs ==
    ASSUME NEW kinds, NEW since, NEW ms \in Seq(Message)
    PROVE  \E f : Collects(kinds, since, ms, f) /\ Only(kinds, since, ms) = f[Len(ms)]
<1>. DEFINE f == CHOOSE f : Unfolds(kinds, since, ms, f)
<1>1. Len(ms) \in Nat
  OBVIOUS
<1>2. Unfolds(kinds, since, ms, f)
  BY <1>1, Unfolded
<1>3. Only(kinds, since, ms) = f[Len(ms)]
  BY DEF Only, Unfolds, Passes
<1>. HIDE DEF f
<1>4. Collects(kinds, since, ms, f)
  BY <1>2, CollectsIs
<1>. QED BY <1>3, <1>4

\* It is a sequence of messages.
LEMMA OnlyType ==
    ASSUME NEW kinds, NEW since, NEW ms \in Seq(Message)
    PROVE  Only(kinds, since, ms) \in Seq(Message)
<1>1. PICK f : Collects(kinds, since, ms, f) /\ Only(kinds, since, ms) = f[Len(ms)]
  BY OnlyIs
<1>2. Len(ms) \in 0..Len(ms)
  OBVIOUS
<1>. QED BY <1>1, <1>2 DEF Collects

\* A message appended to a join is appended to its second part.
LEMMA AppendJoin ==
    ASSUME NEW a \in Seq(Message), NEW b \in Seq(Message), NEW m \in Message
    PROVE  Append(a \o b, m) = a \o Append(b, m)
<1>. DEFINE left == Append(a \o b, m)
            right == a \o Append(b, m)
<1>1. Len(a) \in Nat /\ Len(b) \in Nat /\ a \o b \in Seq(Message) /\ Append(b, m) \in Seq(Message)
  OBVIOUS
<1>2. /\ left \in Seq(Message) /\ Len(left) = Len(a) + Len(b) + 1
      /\ right \in Seq(Message) /\ Len(right) = Len(a) + Len(b) + 1
  BY <1>1
<1>3. ASSUME NEW i \in 1..Len(a) + Len(b) + 1 PROVE left[i] = right[i]
  <2>1. CASE i \in 1..Len(a)
    BY <1>1, <2>1
  <2>2. CASE i \in Len(a) + 1..Len(a) + Len(b)
    BY <1>1, <2>2
  <2>3. CASE i = Len(a) + Len(b) + 1
    BY <1>1, <2>3
  <2>. QED BY <1>1, <2>1, <2>2, <2>3
<1>. HIDE DEF left, right
<1>4. left = right
  BY <1>2, <1>3
<1>. QED BY <1>4 DEF left, right

\* The messages of two sequences in a row are those of the one and of the other.
LEMMA OnlyJoin ==
    ASSUME NEW kinds, NEW since, NEW ms \in Seq(Message), NEW ns \in Seq(Message)
    PROVE  Only(kinds, since, ms \o ns) = Only(kinds, since, ms) \o Only(kinds, since, ns)
<1>. DEFINE all == ms \o ns
            M == Len(ms)
            N == Len(ns)
<1>1. /\ all \in Seq(Message) /\ Len(all) = M + N /\ M \in Nat /\ N \in Nat
      /\ \A i \in 1..M : all[i] = ms[i]
      /\ \A i \in 1..N : all[M + i] = ns[i]
      /\ \A i \in 1..N : ns[i] \in Message
  OBVIOUS
<1>. HIDE DEF all
<1>2. PICK f : Collects(kinds, since, all, f) /\ Only(kinds, since, all) = f[Len(all)]
  BY <1>1, OnlyIs
<1>3. PICK g : Collects(kinds, since, ms, g) /\ Only(kinds, since, ms) = g[M]
  BY OnlyIs
<1>4. PICK h : Collects(kinds, since, ns, h) /\ Only(kinds, since, ns) = h[N]
  BY OnlyIs
<1>. HIDE DEF M, N
<1>5. /\ f[0] = <<>> /\ g[0] = <<>> /\ h[0] = <<>>
      /\ \A n \in Nat : n < M + N =>
            f[n + 1] = IF Passes(kinds, since, all[n + 1]) THEN Append(f[n], all[n + 1]) ELSE f[n]
      /\ \A n \in Nat : n < M =>
            g[n + 1] = IF Passes(kinds, since, ms[n + 1]) THEN Append(g[n], ms[n + 1]) ELSE g[n]
      /\ \A n \in Nat : n < N =>
            h[n + 1] = IF Passes(kinds, since, ns[n + 1]) THEN Append(h[n], ns[n + 1]) ELSE h[n]
      /\ g[M] \in Seq(Message)
      /\ \A n \in Nat : n < N => h[n] \in Seq(Message)
  <2>1. /\ f[0] = <<>> /\ g[0] = <<>> /\ h[0] = <<>>
    BY <1>2, <1>3, <1>4 DEF Collects
  <2>2. \A n \in Nat : n < M + N =>
            f[n + 1] = IF Passes(kinds, since, all[n + 1]) THEN Append(f[n], all[n + 1]) ELSE f[n]
    BY <1>1, <1>2 DEF Collects
  <2>3. \A n \in Nat : n < M =>
            g[n + 1] = IF Passes(kinds, since, ms[n + 1]) THEN Append(g[n], ms[n + 1]) ELSE g[n]
    BY <1>1, <1>3 DEF Collects, M
  <2>4. \A n \in Nat : n < N =>
            h[n + 1] = IF Passes(kinds, since, ns[n + 1]) THEN Append(h[n], ns[n + 1]) ELSE h[n]
    BY <1>1, <1>4 DEF Collects, N
  <2>5. /\ \A n \in 0..M : g[n] \in Seq(Message)
        /\ \A n \in 0..N : h[n] \in Seq(Message)
    BY <1>3, <1>4 DEF Collects, M, N
  <2>. QED BY <1>1, <2>1, <2>2, <2>3, <2>4, <2>5
<1>. DEFINE F == {n \in Nat : f[n] = g[n]}
            Joined(n) == f[M + n] = g[M] \o h[n]
            S == {n \in Nat : Joined(n)}
<1>6. f[M] = g[M]
  <2>1. 0 \in F
    BY <1>5
  <2>2. ASSUME NEW n \in Nat, n < M, f[n] = g[n] PROVE f[n + 1] = g[n + 1]
    <3>1. all[n + 1] = ms[n + 1] /\ n < M + N
      BY <1>1, <2>2
    <3>. QED BY <1>5, <2>2, <3>1
  <2>3. \A n \in Nat : n < M /\ n \in F => n + 1 \in F
    BY <2>2
  <2>4. F \in SUBSET Nat
    OBVIOUS
  <2>5. M \in F
    <3>. HIDE DEF F
    <3>1. \A n \in 0..M : n \in F
      BY <1>1, <2>1, <2>3, <2>4, Climbs
    <3>. QED BY <1>1, <3>1
  <2>. QED BY <2>5
<1>7. f[M + N] = g[M] \o h[N]
  <2>1. Joined(0)
    <3>1. M + 0 = M /\ g[M] \o <<>> = g[M]
      BY <1>1, <1>5
    <3>. QED BY <1>5, <1>6, <3>1
  <2>2. ASSUME NEW n \in Nat, n < N, Joined(n)
        PROVE  Joined(n + 1)
    <3>. DEFINE m == ns[n + 1]
    <3>1. M + n \in Nat /\ M + n < M + N /\ M + (n + 1) = M + n + 1
      BY <1>1, <2>2
    <3>2. all[M + n + 1] = m /\ m \in Message
      BY <1>1, <2>2, <3>1
    <3>3. f[M + n + 1] = IF Passes(kinds, since, m) THEN Append(f[M + n], m) ELSE f[M + n]
      BY <1>5, <3>1, <3>2
    <3>4. h[n + 1] = IF Passes(kinds, since, m) THEN Append(h[n], m) ELSE h[n]
      BY <1>5, <2>2
    <3>5. g[M] \in Seq(Message) /\ h[n] \in Seq(Message)
      BY <1>5, <2>2
    <3>. HIDE DEF m
    <3>6. Append(g[M] \o h[n], m) = g[M] \o Append(h[n], m)
      BY <3>2, <3>5, AppendJoin
    <3>. QED BY <2>2, <3>1, <3>3, <3>4, <3>6
  <2>. HIDE DEF Joined
  <2>3. \A n \in Nat : n < N /\ n \in S => n + 1 \in S
    BY <2>2
  <2>4. S \in SUBSET Nat /\ 0 \in S
    BY <2>1
  <2>5. Joined(N)
    <3>. HIDE DEF S
    <3>1. \A n \in 0..N : n \in S
      BY <1>1, <2>3, <2>4, Climbs
    <3>. QED BY <1>1, <3>1 DEF S
  <2>. QED BY <2>5 DEF Joined
<1>. QED BY <1>1, <1>2, <1>3, <1>4, <1>7 DEF all

\* Where the same messages pass, the same are taken.
LEMMA OnlyAgree ==
    ASSUME NEW kinds, NEW since, NEW ms \in Seq(Message), NEW others, NEW later,
           \A i \in 1..Len(ms) : Passes(kinds, since, ms[i]) <=> Passes(others, later, ms[i])
    PROVE  Only(kinds, since, ms) = Only(others, later, ms)
<1>1. Len(ms) \in Nat
  OBVIOUS
<1>2. PICK f : Collects(kinds, since, ms, f) /\ Only(kinds, since, ms) = f[Len(ms)]
  BY OnlyIs
<1>3. PICK g : Collects(others, later, ms, g) /\ Only(others, later, ms) = g[Len(ms)]
  BY OnlyIs
<1>. DEFINE S == {n \in Nat : f[n] = g[n]}
<1>4. 0 \in S
  BY <1>2, <1>3 DEF Collects
<1>5. ASSUME NEW n \in Nat, n < Len(ms), f[n] = g[n] PROVE f[n + 1] = g[n + 1]
  <2>1. n + 1 \in 1..Len(ms)
    BY <1>1, <1>5
  <2>2. f[n + 1] = IF Passes(kinds, since, ms[n + 1]) THEN Append(f[n], ms[n + 1]) ELSE f[n]
    BY <1>2, <1>5 DEF Collects
  <2>3. g[n + 1] = IF Passes(others, later, ms[n + 1]) THEN Append(g[n], ms[n + 1]) ELSE g[n]
    BY <1>3, <1>5 DEF Collects
  <2>. QED BY <1>5, <2>1, <2>2, <2>3
<1>6. \A n \in Nat : n < Len(ms) /\ n \in S => n + 1 \in S
  BY <1>5
<1>7. \A n \in 0..Len(ms) : n \in S
  <2>1. S \in SUBSET Nat
    OBVIOUS
  <2>. HIDE DEF S
  <2>. QED BY <1>1, <1>4, <1>6, <2>1, Climbs
<1>. QED BY <1>1, <1>2, <1>3, <1>7

\* Where all pass, all are taken.
LEMMA OnlyAll ==
    ASSUME NEW kinds, NEW since, NEW ms \in Seq(Message),
           \A i \in 1..Len(ms) : Passes(kinds, since, ms[i])
    PROVE  Only(kinds, since, ms) = ms
<1>1. Len(ms) \in Nat
  OBVIOUS
<1>2. PICK f : Collects(kinds, since, ms, f) /\ Only(kinds, since, ms) = f[Len(ms)]
  BY OnlyIs
<1>. DEFINE S == {n \in Nat : f[n] = SubSeq(ms, 1, n)}
<1>3. 0 \in S
  <2>1. f[0] = <<>>
    BY <1>2 DEF Collects
  <2>2. SubSeq(ms, 1, 0) = <<>>
    OBVIOUS
  <2>. QED BY <2>1, <2>2
<1>4. ASSUME NEW n \in Nat, n < Len(ms), f[n] = SubSeq(ms, 1, n)
      PROVE  f[n + 1] = SubSeq(ms, 1, n + 1)
  <2>1. n + 1 \in 1..Len(ms)
    BY <1>1, <1>4
  <2>2. f[n + 1] = Append(f[n], ms[n + 1])
    BY <1>2, <1>4, <2>1 DEF Collects
  <2>3. Append(SubSeq(ms, 1, n), ms[n + 1]) = SubSeq(ms, 1, n + 1)
    <3>. DEFINE front == SubSeq(ms, 1, n)
                longer == SubSeq(ms, 1, n + 1)
    <3>1. front \in Seq(Message) /\ Len(front) = n /\ \A i \in 1..n : front[i] = ms[i]
      BY <1>1, <2>1
    <3>2. longer \in Seq(Message) /\ Len(longer) = n + 1 /\ \A i \in 1..n + 1 : longer[i] = ms[i]
      BY <1>1, <2>1
    <3>3. ms[n + 1] \in Message
      BY <2>1
    <3>. HIDE DEF front, longer
    <3>4. Append(front, ms[n + 1]) = longer
      BY <3>1, <3>2, <3>3
    <3>. QED BY <3>4 DEF front, longer
  <2>. QED BY <1>4, <2>2, <2>3
<1>5. \A n \in Nat : n < Len(ms) /\ n \in S => n + 1 \in S
  BY <1>4
<1>6. \A n \in 0..Len(ms) : n \in S
  <2>1. S \in SUBSET Nat
    OBVIOUS
  <2>. HIDE DEF S
  <2>. QED BY <1>1, <1>3, <1>5, <2>1, Climbs
<1>7. f[Len(ms)] = SubSeq(ms, 1, Len(ms))
  BY <1>1, <1>6
<1>8. SubSeq(ms, 1, Len(ms)) = ms
  OBVIOUS
<1>. QED BY <1>2, <1>7, <1>8

\* Where none passes, none is taken.
LEMMA OnlyNone ==
    ASSUME NEW kinds, NEW since, NEW ms \in Seq(Message),
           \A i \in 1..Len(ms) : ~Passes(kinds, since, ms[i])
    PROVE  Only(kinds, since, ms) = <<>>
<1>1. Len(ms) \in Nat
  OBVIOUS
<1>2. PICK f : Collects(kinds, since, ms, f) /\ Only(kinds, since, ms) = f[Len(ms)]
  BY OnlyIs
<1>. DEFINE S == {n \in Nat : f[n] = <<>>}
<1>3. 0 \in S
  BY <1>2 DEF Collects
<1>4. ASSUME NEW n \in Nat, n < Len(ms), f[n] = <<>> PROVE f[n + 1] = <<>>
  <2>1. n + 1 \in 1..Len(ms)
    BY <1>1, <1>4
  <2>. QED BY <1>2, <1>4, <2>1 DEF Collects
<1>5. \A n \in Nat : n < Len(ms) /\ n \in S => n + 1 \in S
  BY <1>4
<1>6. \A n \in 0..Len(ms) : n \in S
  <2>1. S \in SUBSET Nat
    OBVIOUS
  <2>. HIDE DEF S
  <2>. QED BY <1>1, <1>3, <1>5, <2>1, Climbs
<1>. QED BY <1>1, <1>2, <1>6

\* What is taken passes and was there.
LEMMA OnlyOf ==
    ASSUME NEW kinds, NEW since, NEW ms \in Seq(Message), NEW some,
           some = Only(kinds, since, ms)
    PROVE  \A i \in 1..Len(some) : /\ Passes(kinds, since, some[i])
                                   /\ \E j \in 1..Len(ms) : some[i] = ms[j]
<1>1. Len(ms) \in Nat
  OBVIOUS
<1>2. PICK f : Collects(kinds, since, ms, f) /\ Only(kinds, since, ms) = f[Len(ms)]
  BY OnlyIs
<1>. DEFINE Right(m) == Passes(kinds, since, m) /\ \E j \in 1..Len(ms) : m = ms[j]
            Good(n) == \A i \in 1..Len(f[n]) : Right(f[n][i])
            S == {n \in Nat : Good(n)}
<1>3. Good(0)
  <2>1. f[0] = <<>> /\ Len(<<>>) = 0 /\ 1..0 = {}
    BY <1>2 DEF Collects
  <2>. HIDE DEF Right
  <2>. QED BY <2>1
<1>4. ASSUME NEW n \in Nat, n < Len(ms), Good(n)
      PROVE  Good(n + 1)
  <2>1. n + 1 \in 1..Len(ms) /\ n \in 0..Len(ms)
    BY <1>1, <1>4
  <2>2. f[n] \in Seq(Message) /\ ms[n + 1] \in Message
    BY <1>2, <2>1 DEF Collects
  <2>3. CASE Passes(kinds, since, ms[n + 1])
    <3>1. f[n + 1] = Append(f[n], ms[n + 1])
      BY <1>2, <1>4, <2>3 DEF Collects
    <3>2. Right(ms[n + 1])
      BY <2>1, <2>3
    <3>. HIDE DEF Right
    <3>. QED BY <1>4, <2>2, <3>1, <3>2
  <2>4. CASE ~Passes(kinds, since, ms[n + 1])
    <3>1. f[n + 1] = f[n]
      BY <1>2, <1>4, <2>4 DEF Collects
    <3>. HIDE DEF Right
    <3>. QED BY <1>4, <3>1
  <2>. QED BY <2>3, <2>4
<1>. HIDE DEF Good
<1>5. \A n \in Nat : n < Len(ms) /\ n \in S => n + 1 \in S
  BY <1>4
<1>6. \A n \in 0..Len(ms) : n \in S
  <2>1. S \in SUBSET Nat /\ 0 \in S
    BY <1>3
  <2>. HIDE DEF S
  <2>. QED BY <1>1, <1>5, <2>1, Climbs
<1>7. Good(Len(ms))
  BY <1>1, <1>6
<1>. QED BY <1>2, <1>7 DEF Good

--------------------------------------------------------------------------------
\* The kinds of messages, and which of them no life and no turn is made of.
LEMMA Kinds ==
    /\ Waking \cap Assistant = {} /\ Waking \cap Answer = {} /\ Assistant \cap Answer = {}
    /\ Lived = Waking \cup {"reply", "observation"}
    /\ "nudge" \notin Lived \cup Assistant \cup Answer /\ "suspend" \notin Lived \cup Assistant \cup Answer
    /\ "start" \notin Lived \cup Assistant \cup Answer /\ "coverage" \notin Lived \cup Assistant \cup Answer
    /\ "refused" \notin Lived /\ "correction" \notin Lived
    /\ "refused" \in Assistant /\ "reply" \in Assistant
    /\ "correction" \in Answer /\ "observation" \in Answer
    /\ Waking \subseteq Kind /\ Assistant \subseteq Kind /\ Answer \subseteq Kind
    /\ {"start", "coverage", "nudge", "suspend"} \subseteq Kind
BY DEF Waking, Assistant, Answer, Lived, Kind

\* What Msg and Sized make.
LEMMA MessageIs ==
    ASSUME attempt \in Nat, mem.turn \in Nat
    PROVE  /\ \A what \in Kind : /\ Msg(what) \in Message /\ Msg(what).what = what
                                 /\ Msg(what).by = attempt /\ Msg(what).turn = mem.turn
                                 /\ Msg(what).size = 1
           /\ \A what \in Kind, n \in Nat : /\ Sized(what, n) \in Message /\ Sized(what, n).what = what
                                            /\ Sized(what, n).by = attempt
                                            /\ Sized(what, n).turn = mem.turn
BY DEF Msg, Sized, Message

\* A row is its message but for the length, and is the message where that is 1.
LEMMA RowIs ==
    /\ \A m \in Message : /\ Row(m) \in Message /\ Row(m).what = m.what /\ Row(m).by = m.by
                          /\ m.size = 1 => Row(m) = m
    /\ \A m \in Message : m.what \in Kind /\ m.by \in Nat /\ m.turn \in Nat /\ m.size \in Nat
BY DEF Row, Message

\* Rows goes message by message.
LEMMA RowsAre ==
    ASSUME NEW ms \in Seq(Message)
    PROVE  /\ Rows(ms) \in Seq(Message) /\ Len(Rows(ms)) = Len(ms)
           /\ \A i \in 1..Len(ms) : Rows(ms)[i] = Row(ms[i])
<1>1. Len(ms) \in Nat /\ DOMAIN ms = 1..Len(ms) /\ \A i \in 1..Len(ms) : ms[i] \in Message
  OBVIOUS
<1>2. Rows(ms) = [i \in 1..Len(ms) |-> Row(ms[i])]
  BY <1>1 DEF Rows
<1>. QED BY <1>1, <1>2, RowIs

\* A join of two lists, place by place.
LEMMA JoinIs ==
    ASSUME NEW a \in Seq(Message), NEW b \in Seq(Message)
    PROVE  /\ a \o b \in Seq(Message) /\ Len(a) \in Nat /\ Len(b) \in Nat
           /\ Len(a \o b) = Len(a) + Len(b)
           /\ \A i \in 1..Len(a) : (a \o b)[i] = a[i]
           /\ \A i \in Len(a) + 1..Len(a) + Len(b) : (a \o b)[i] = b[i - Len(a)]
OBVIOUS

\* The rows of a join are the join of the rows.
LEMMA RowsJoin ==
    ASSUME NEW a \in Seq(Message), NEW b \in Seq(Message)
    PROVE  Rows(a \o b) = Rows(a) \o Rows(b)
<1>. DEFINE ab == a \o b
            ra == Rows(a)
            rb == Rows(b)
            left == Rows(ab)
            right == ra \o rb
<1>1. /\ ab \in Seq(Message) /\ Len(a) \in Nat /\ Len(b) \in Nat /\ Len(ab) = Len(a) + Len(b)
      /\ \A i \in 1..Len(a) : ab[i] = a[i]
      /\ \A i \in Len(a) + 1..Len(a) + Len(b) : ab[i] = b[i - Len(a)]
  OBVIOUS
<1>2. ra \in Seq(Message) /\ Len(ra) = Len(a) /\ \A i \in 1..Len(a) : ra[i] = Row(a[i])
  BY RowsAre
<1>3. rb \in Seq(Message) /\ Len(rb) = Len(b) /\ \A i \in 1..Len(b) : rb[i] = Row(b[i])
  BY RowsAre
<1>. HIDE DEF ab, ra, rb
<1>4. left \in Seq(Message) /\ Len(left) = Len(ab) /\ \A i \in 1..Len(ab) : left[i] = Row(ab[i])
  BY <1>1, RowsAre
<1>5. /\ right \in Seq(Message) /\ Len(right) = Len(a) + Len(b)
      /\ \A i \in 1..Len(a) : right[i] = ra[i]
      /\ \A i \in Len(a) + 1..Len(a) + Len(b) : right[i] = rb[i - Len(a)]
  <2>1. Len(ra) = Len(a) /\ Len(rb) = Len(b) /\ ra \in Seq(Message) /\ rb \in Seq(Message)
    BY <1>2, <1>3
  <2>2. /\ right \in Seq(Message) /\ Len(right) = Len(ra) + Len(rb)
        /\ \A i \in 1..Len(ra) : right[i] = ra[i]
        /\ \A i \in Len(ra) + 1..Len(ra) + Len(rb) : right[i] = rb[i - Len(ra)]
    BY <2>1, JoinIs
  <2>. HIDE DEF right
  <2>. QED BY <2>1, <2>2
<1>. HIDE DEF left, right
<1>6. ASSUME NEW i \in 1..Len(a) + Len(b) PROVE left[i] = right[i]
  <2>1. CASE i \in 1..Len(a)
    BY <1>1, <1>2, <1>4, <1>5, <2>1
  <2>2. CASE i \in Len(a) + 1..Len(a) + Len(b)
    <3>1. i - Len(a) \in 1..Len(b)
      BY <1>1, <2>2
    <3>. QED BY <1>1, <1>3, <1>4, <1>5, <2>2, <3>1
  <2>. QED BY <1>1, <2>1, <2>2
<1>7. left = right
  BY <1>1, <1>4, <1>5, <1>6
<1>. QED BY <1>7 DEF left, right, ab, ra, rb

\* Short messages are their own rows.
LEMMA RowsSame ==
    ASSUME NEW ms \in Seq(Message), \A i \in 1..Len(ms) : ms[i].size = 1
    PROVE  Rows(ms) = ms
<1>1. \A i \in 1..Len(ms) : Rows(ms)[i] = ms[i]
  BY RowsAre, RowIs
<1>. QED BY <1>1, RowsAre

\* It does not matter which two of three lists are joined first.
LEMMA JoinIsAssociative ==
    ASSUME NEW a \in Seq(Message), NEW b \in Seq(Message), NEW c \in Seq(Message)
    PROVE  (a \o b) \o c = a \o (b \o c)
<1>. DEFINE left == (a \o b) \o c
            right == a \o (b \o c)
<1>1. /\ Len(a) \in Nat /\ Len(b) \in Nat /\ Len(c) \in Nat
      /\ a \o b \in Seq(Message) /\ b \o c \in Seq(Message)
      /\ Len(a \o b) = Len(a) + Len(b) /\ Len(b \o c) = Len(b) + Len(c)
  OBVIOUS
<1>2. /\ left \in Seq(Message) /\ Len(left) = Len(a) + Len(b) + Len(c)
      /\ right \in Seq(Message) /\ Len(right) = Len(a) + Len(b) + Len(c)
  BY <1>1
<1>3. ASSUME NEW i \in 1..Len(a) + Len(b) + Len(c) PROVE left[i] = right[i]
  <2>1. CASE i \in 1..Len(a)
    <3>1. left[i] = (a \o b)[i] /\ (a \o b)[i] = a[i] /\ right[i] = a[i]
      BY <1>1, <2>1
    <3>. QED BY <3>1
  <2>2. CASE i \in Len(a) + 1..Len(a) + Len(b)
    <3>1. left[i] = (a \o b)[i] /\ (a \o b)[i] = b[i - Len(a)]
      BY <1>1, <2>2
    <3>2. right[i] = (b \o c)[i - Len(a)] /\ (b \o c)[i - Len(a)] = b[i - Len(a)]
      BY <1>1, <2>2
    <3>. QED BY <3>1, <3>2
  <2>3. CASE i \in Len(a) + Len(b) + 1..Len(a) + Len(b) + Len(c)
    <3>1. left[i] = c[i - (Len(a) + Len(b))]
      BY <1>1, <2>3
    <3>2. right[i] = (b \o c)[i - Len(a)]
      BY <1>1, <2>3
    <3>3. (b \o c)[i - Len(a)] = c[i - Len(a) - Len(b)]
      BY <1>1, <2>3
    <3>4. i - Len(a) - Len(b) = i - (Len(a) + Len(b))
      BY <1>1
    <3>. QED BY <3>1, <3>2, <3>3, <3>4
  <2>. QED BY <1>1, <2>1, <2>2, <2>3
<1>. HIDE DEF left, right
<1>4. left = right
  BY <1>2, <1>3
<1>. QED BY <1>4 DEF left, right

\* What follows a list in a join is determined by the join.
LEMMA JoinCancels ==
    ASSUME NEW a \in Seq(Message), NEW b \in Seq(Message), NEW c \in Seq(Message),
           a \o b = a \o c
    PROVE  b = c
<1>0. \A s, t \in Seq(Message) : Len(s) = Len(t) /\ (\A i \in 1..Len(s) : s[i] = t[i]) => s = t
  OBVIOUS
<1>1. Len(a) \in Nat /\ Len(b) \in Nat /\ Len(c) \in Nat
      /\ Len(a \o b) = Len(a) + Len(b) /\ Len(a \o c) = Len(a) + Len(c)
  OBVIOUS
<1>2. Len(b) = Len(c)
  BY <1>1
<1>3. ASSUME NEW i \in 1..Len(b) PROVE b[i] = c[i]
  <2>1. (a \o b)[Len(a) + i] = b[i]
    BY <1>1
  <2>2. (a \o c)[Len(a) + i] = c[i]
    BY <1>1, <1>2
  <2>. QED BY <2>1, <2>2
<1>. QED BY <1>0, <1>2, <1>3, Zenon

\* The greatest element of a set of numbers up to a bound, and the least.
LEMMA Extremes ==
    ASSUME NEW n \in Nat, NEW S \in SUBSET (1..n), S # {}
    PROVE  /\ Max(S) \in S /\ Min(S) \in S
           /\ \A m \in S : m <= Max(S) /\ Min(S) <= m
<1>1. \E m \in S : \A k \in S : m <= k
  BY LeastOf
<1>2. \E m \in S : \A k \in S : m >= k
  <2>. DEFINE T == {k \in Nat : n - k \in S}
  <2>1. T \in SUBSET Nat /\ T # {}
    <3>1. PICK e \in S : TRUE
      OBVIOUS
    <3>2. n - e \in Nat /\ n - (n - e) = e
      OBVIOUS
    <3>. QED BY <3>1, <3>2
  <2>2. \E k \in T : \A l \in T : k <= l
    <3>. HIDE DEF T
    <3>. QED BY <2>1, LeastOf
  <2>3. PICK k \in T : \A l \in T : k <= l
    BY <2>2
  <2>4. n - k \in S
    OBVIOUS
  <2>5. ASSUME NEW e \in S PROVE n - k >= e
    <3>1. e \in 1..n /\ n - e \in Nat /\ n - (n - e) = e
      OBVIOUS
    <3>2. n - e \in T
      BY <3>1
    <3>3. k <= n - e /\ k \in Nat
      BY <2>3, <3>2
    <3>. QED BY <3>1, <3>3
  <2>. QED BY <2>4, <2>5
<1>3. Max(S) \in S /\ \A k \in S : Max(S) >= k
  BY <1>2 DEF Max
<1>4. Min(S) \in S /\ \A k \in S : Min(S) <= k
  BY <1>1 DEF Min
<1>. QED BY <1>3, <1>4

\* A part of a list, place by place.
LEMMA SubSeqIs ==
    ASSUME NEW ms \in Seq(Message), NEW p \in 1..Len(ms) + 1, NEW q \in 0..Len(ms), p <= q + 1
    PROVE  /\ SubSeq(ms, p, q) \in Seq(Message) /\ Len(SubSeq(ms, p, q)) = q + 1 - p
           /\ \A i \in 1..q + 1 - p : SubSeq(ms, p, q)[i] = ms[p + i - 1]
<1>1. Len(ms) \in Nat /\ \A i \in 1..Len(ms) : ms[i] \in Message
  OBVIOUS
<1>2. \A i \in p..q : ms[i] \in Message
  BY <1>1
<1>3. Len(SubSeq(ms, p, q)) = q + 1 - p
  BY <1>1
<1>4. \A i \in 1..q + 1 - p : SubSeq(ms, p, q)[i] = ms[p + i - 1]
  BY <1>1
<1>5. SubSeq(ms, p, q) \in Seq(Message)
  BY <1>1, <1>2
<1>. QED BY <1>3, <1>4, <1>5

\* Two lists of one length that agree at every place are one.
LEMMA SameSeq ==
    ASSUME NEW a \in Seq(Message), NEW b \in Seq(Message), Len(a) = Len(b),
           \A i \in 1..Len(a) : a[i] = b[i]
    PROVE  a = b
OBVIOUS

\* The first message begins a unit, and every unit begins at a reply or
\* behind something that is none.
LEMMA StartsAre ==
    ASSUME NEW tail \in Seq(Message), Len(tail) > 0
    PROVE  /\ Starts(tail) \in SUBSET (1..Len(tail)) /\ 1 \in Starts(tail)
           /\ \A i \in Starts(tail) : \/ i = 1 \/ tail[i].what \in Assistant
                                      \/ tail[i - 1].what \notin Assistant
BY DEF Starts, IsAssistant

\* _cap_tail keeps the messages from the beginning of some unit on.
LEMMA CapTailIs ==
    ASSUME NEW tail \in Seq(Message), Len(tail) > 0
    PROVE  \E q \in Starts(tail) : CapTail(tail) = SubSeq(tail, q, Len(tail))
<1>. DEFINE S == {i \in Starts(tail) : Fits(SubSeq(tail, i, Len(tail)))} \cup {Max(Starts(tail))}
<1>1. Len(tail) \in Nat
  OBVIOUS
<1>2. Max(Starts(tail)) \in Starts(tail) /\ Starts(tail) \in SUBSET (1..Len(tail))
  <2>1. Starts(tail) \in SUBSET (1..Len(tail)) /\ Starts(tail) # {}
    BY StartsAre
  <2>. QED BY <1>1, <2>1, Extremes
<1>3. S \in SUBSET (1..Len(tail)) /\ S # {} /\ S \subseteq Starts(tail)
  BY <1>2
<1>4. CapTail(tail) = SubSeq(tail, Min(S), Len(tail))
  BY DEF CapTail
<1>. HIDE DEF S
<1>5. Min(S) \in S
  BY <1>1, <1>3, Extremes
<1>. QED BY <1>3, <1>4, <1>5

\* The place of the first reply, if there is one.
LEMMA FirstReplyIs ==
    ASSUME NEW ms \in Seq(Message), FirstReply(ms) # 0
    PROVE  /\ FirstReply(ms) \in 1..Len(ms) /\ ms[FirstReply(ms)].what \in Assistant
           /\ \A j \in 1..FirstReply(ms) - 1 : ms[j].what \notin Assistant
<1>. DEFINE I == {i \in 1..Len(ms) : ms[i].what \in Assistant}
<1>1. FirstReply(ms) = IF I # {} THEN Min(I) ELSE 0
  BY DEF FirstReply, SelectInSeq, IsAssistant
<1>2. I # {} /\ FirstReply(ms) = Min(I) /\ I \in SUBSET (1..Len(ms)) /\ Len(ms) \in Nat
  BY <1>1
<1>3. Min(I) \in I /\ \A m \in I : Min(I) <= m
  <2>. HIDE DEF I
  <2>. QED BY <1>2, Extremes
<1>4. ASSUME NEW j \in 1..FirstReply(ms) - 1 PROVE j \notin I
  <2>1. j < Min(I) /\ Min(I) \in Nat /\ j \in Nat
    BY <1>2, <1>3
  <2>. HIDE DEF I
  <2>. QED BY <1>3, <2>1
<1>5. \A j \in 1..FirstReply(ms) - 1 : j \in 1..Len(ms)
  BY <1>2, <1>3
<1>. QED BY <1>2, <1>3, <1>4, <1>5

\* _compact_live_messages keeps the list, or the framing before the first
\* reply and what follows from the beginning of some unit on.
LEMMA CompactedIs ==
    ASSUME NEW ms \in Seq(Message)
    PROVE  \/ Compacted(ms) = ms
           \/ \E p \in 1..Len(ms) : \E q \in p..Len(ms) :
                 /\ ms[p].what \in Assistant
                 /\ \A j \in 1..p - 1 : ms[j].what \notin Assistant
                 /\ q = p \/ ms[q].what \in Assistant \/ ms[q - 1].what \notin Assistant
                 /\ Compacted(ms) = SubSeq(ms, 1, p - 1) \o SubSeq(ms, q, Len(ms))
<1>. DEFINE p == FirstReply(ms)
            n == Len(ms)
            tail == SubSeq(ms, p, n)
<1>1. CASE p = 0 \/ p >= n
  BY <1>1 DEF Compacted
<1>2. CASE ~(p = 0 \/ p >= n)
  <2>1. Compacted(ms) = SubSeq(ms, 1, p - 1) \o CapTail(tail)
    BY <1>2 DEF Compacted, Preamble
  <2>2. /\ p \in 1..n /\ p < n /\ n \in Nat
        /\ ms[p].what \in Assistant
        /\ \A j \in 1..p - 1 : ms[j].what \notin Assistant
    BY <1>2, FirstReplyIs
  <2>. HIDE DEF p
  <2>3. /\ tail \in Seq(Message) /\ Len(tail) = n + 1 - p
        /\ \A i \in 1..n + 1 - p : tail[i] = ms[p + i - 1]
    BY <2>2, SubSeqIs
  <2>. HIDE DEF tail
  <2>4. Len(tail) > 0
    BY <2>2, <2>3
  <2>5. PICK i \in Starts(tail) : CapTail(tail) = SubSeq(tail, i, Len(tail))
    BY <2>3, <2>4, CapTailIs
  <2>6. i \in 1..Len(tail) /\ (i = 1 \/ tail[i].what \in Assistant \/ tail[i - 1].what \notin Assistant)
    BY <2>3, <2>4, StartsAre
  <2>. DEFINE q == p + i - 1
  <2>7. q \in p..n /\ q \in 1..n
    BY <2>2, <2>3, <2>6
  <2>8. q = p \/ ms[q].what \in Assistant \/ ms[q - 1].what \notin Assistant
    <3>1. CASE i = 1
      BY <2>2, <3>1
    <3>2. CASE i # 1
      <4>1. i - 1 \in 1..n + 1 - p /\ i \in 1..n + 1 - p /\ p + (i - 1) - 1 = q - 1
        BY <2>2, <2>3, <2>6, <3>2
      <4>2. tail[i] = ms[q] /\ tail[i - 1] = ms[q - 1]
        BY <2>3, <4>1
      <4>. QED BY <2>6, <3>2, <4>2
    <3>. QED BY <3>1, <3>2
  <2>9. SubSeq(tail, i, Len(tail)) = SubSeq(ms, q, n)
    <3>. DEFINE left == SubSeq(tail, i, Len(tail))
                right == SubSeq(ms, q, n)
    <3>1. /\ left \in Seq(Message) /\ Len(left) = Len(tail) + 1 - i
          /\ \A j \in 1..Len(tail) + 1 - i : left[j] = tail[i + j - 1]
      BY <2>3, <2>6, SubSeqIs
    <3>2. /\ right \in Seq(Message) /\ Len(right) = n + 1 - q
          /\ \A j \in 1..n + 1 - q : right[j] = ms[q + j - 1]
      BY <2>2, <2>7, SubSeqIs
    <3>. HIDE DEF left, right
    <3>3. Len(tail) + 1 - i = n + 1 - q
      BY <2>2, <2>3, <2>6
    <3>4. ASSUME NEW j \in 1..n + 1 - q PROVE left[j] = right[j]
      <4>1. i + j - 1 \in 1..n + 1 - p /\ p + (i + j - 1) - 1 = q + j - 1
        BY <2>2, <2>3, <2>6
      <4>2. left[j] = ms[p + (i + j - 1) - 1]
        BY <2>3, <3>1, <3>3, <4>1
      <4>. QED BY <3>2, <4>1, <4>2
    <3>5. left = right
      BY <3>1, <3>2, <3>3, <3>4, SameSeq
    <3>. QED BY <3>5 DEF left, right
  <2>10. Compacted(ms) = SubSeq(ms, 1, p - 1) \o SubSeq(ms, q, n)
    BY <2>1, <2>5, <2>9
  <2>. HIDE DEF q
  <2>. QED BY <2>2, <2>7, <2>8, <2>10
<1>. QED BY <1>1, <1>2

\* A sequence cut at p and at q.
LEMMA CutInPieces ==
    ASSUME NEW ms \in Seq(Message), NEW p \in 1..Len(ms), NEW q \in p..Len(ms)
    PROVE  /\ SubSeq(ms, 1, p - 1) \in Seq(Message) /\ Len(SubSeq(ms, 1, p - 1)) = p - 1
           /\ \A i \in 1..p - 1 : SubSeq(ms, 1, p - 1)[i] = ms[i]
           /\ SubSeq(ms, p, q - 1) \in Seq(Message) /\ Len(SubSeq(ms, p, q - 1)) = q - p
           /\ \A i \in 1..q - p : SubSeq(ms, p, q - 1)[i] = ms[p + i - 1]
           /\ SubSeq(ms, q, Len(ms)) \in Seq(Message) /\ Len(SubSeq(ms, q, Len(ms))) = Len(ms) + 1 - q
           /\ \A i \in 1..Len(ms) + 1 - q : SubSeq(ms, q, Len(ms))[i] = ms[q + i - 1]
           /\ ms = SubSeq(ms, 1, p - 1) \o (SubSeq(ms, p, q - 1) \o SubSeq(ms, q, Len(ms)))
<1>. DEFINE n == Len(ms)
            a == SubSeq(ms, 1, p - 1)
            b == SubSeq(ms, p, q - 1)
            c == SubSeq(ms, q, n)
<1>0. n \in Nat /\ p \in 1..n /\ q \in p..n
  OBVIOUS
<1>1. a \in Seq(Message) /\ Len(a) = p - 1 /\ \A i \in 1..p - 1 : a[i] = ms[i]
  <2>1. 1 \in 1..n + 1 /\ p - 1 \in 0..n /\ 1 <= p - 1 + 1 /\ p - 1 + 1 - 1 = p - 1
    BY <1>0
  <2>2. a \in Seq(Message) /\ Len(a) = p - 1 + 1 - 1
        /\ \A i \in 1..p - 1 + 1 - 1 : a[i] = ms[1 + i - 1]
    BY <2>1, SubSeqIs
  <2>3. \A i \in 1..p - 1 : 1 + i - 1 = i
    BY <1>0
  <2>. HIDE DEF a
  <2>. QED BY <2>1, <2>2, <2>3
<1>2. b \in Seq(Message) /\ Len(b) = q - p /\ \A i \in 1..q - p : b[i] = ms[p + i - 1]
  <2>1. p \in 1..n + 1 /\ q - 1 \in 0..n /\ p <= q - 1 + 1 /\ q - 1 + 1 - p = q - p
    BY <1>0
  <2>2. b \in Seq(Message) /\ Len(b) = q - 1 + 1 - p
        /\ \A i \in 1..q - 1 + 1 - p : b[i] = ms[p + i - 1]
    BY <2>1, SubSeqIs
  <2>. HIDE DEF b
  <2>. QED BY <2>1, <2>2
<1>3. c \in Seq(Message) /\ Len(c) = n + 1 - q /\ \A i \in 1..n + 1 - q : c[i] = ms[q + i - 1]
  <2>1. q \in 1..n + 1 /\ n \in 0..n /\ q <= n + 1
    BY <1>0
  <2>. QED BY <2>1, SubSeqIs
<1>. HIDE DEF a, b, c
<1>4. /\ b \o c \in Seq(Message) /\ Len(b \o c) = n + 1 - p
      /\ \A i \in 1..q - p : (b \o c)[i] = ms[p + i - 1]
      /\ \A i \in q - p + 1..n + 1 - p : (b \o c)[i] = ms[p + i - 1]
  <2>1. /\ b \o c \in Seq(Message) /\ Len(b \o c) = Len(b) + Len(c)
        /\ \A i \in 1..Len(b) : (b \o c)[i] = b[i]
        /\ \A i \in Len(b) + 1..Len(b) + Len(c) : (b \o c)[i] = c[i - Len(b)]
    BY <1>2, <1>3, JoinIs
  <2>2. Len(b) + Len(c) = n + 1 - p
    BY <1>0, <1>2, <1>3
  <2>3. ASSUME NEW i \in q - p + 1..n + 1 - p PROVE (b \o c)[i] = ms[p + i - 1]
    <3>1. i - (q - p) \in 1..n + 1 - q /\ q + (i - (q - p)) - 1 = p + i - 1
      BY <1>0
    <3>2. i \in Len(b) + 1..Len(b) + Len(c) /\ i - Len(b) = i - (q - p)
      BY <1>0, <1>2, <2>2
    <3>. QED BY <1>3, <2>1, <3>1, <3>2
  <2>. QED BY <1>2, <2>1, <2>2, <2>3
<1>. DEFINE d == b \o c
<1>5. d \in Seq(Message) /\ Len(d) = n + 1 - p /\ \A i \in 1..n + 1 - p : d[i] = ms[p + i - 1]
  <2>1. \A i \in 1..n + 1 - p : i \in 1..q - p \/ i \in q - p + 1..n + 1 - p
    BY <1>0
  <2>. QED BY <1>4, <2>1
<1>. HIDE DEF d
<1>6. ms = a \o d
  <2>1. /\ a \o d \in Seq(Message) /\ Len(a \o d) = Len(a) + Len(d)
        /\ \A i \in 1..Len(a) : (a \o d)[i] = a[i]
        /\ \A i \in Len(a) + 1..Len(a) + Len(d) : (a \o d)[i] = d[i - Len(a)]
    BY <1>1, <1>5, JoinIs
  <2>2. Len(a) + Len(d) = n
    BY <1>0, <1>1, <1>5
  <2>3. ASSUME NEW i \in 1..n PROVE ms[i] = (a \o d)[i]
    <3>1. CASE i < p
      <4>1. i \in 1..p - 1
        BY <1>0, <3>1
      <4>. QED BY <1>1, <2>1, <4>1
    <3>2. CASE i >= p
      <4>1. i \in Len(a) + 1..Len(a) + Len(d) /\ i - Len(a) \in 1..n + 1 - p
            /\ p + (i - Len(a)) - 1 = i
        BY <1>0, <1>1, <2>2, <3>2
      <4>. QED BY <1>5, <2>1, <4>1
    <3>3. i \in Nat /\ p \in Nat
      BY <1>0
    <3>4. i < p \/ i >= p
      BY <3>3
    <3>. QED BY <3>1, <3>2, <3>4
  <2>. QED BY <2>1, <2>2, <2>3, SameSeq
<1>7. ms = a \o (b \o c)
  BY <1>6 DEF d
<1>. QED BY <1>1, <1>2, <1>3, <1>7 DEF a, b, c

\* The types the steps need.
LEMMA TypeIs ==
    ASSUME TypeOK
    PROVE  /\ attempt \in Nat /\ mem \in Memory /\ mem.turn \in Nat
           /\ live \in Seq(Message) /\ due \in Seq(Message) /\ told \in Seq(Message)
           /\ archive \in Seq(Message)
<1>1. attempt \in Nat
  BY ContextAssumption DEF TypeOK
<1>2. mem \in Memory
  BY DEF TypeOK, Memory
<1>3. mem.turn \in Nat
  BY <1>2 DEF Memory
<1>. QED BY <1>1, <1>2, <1>3 DEF TypeOK

Nudged(m, c, x, y) == [m EXCEPT !.clock = c, !.repair = 0, !.reminded = x, !.late = y]
Corrected(m) == [m EXCEPT !.repair = m.repair + 1, !.turn = m.turn + 1]
Stepped(m) == [m EXCEPT !.step = m.step + 1, !.turn = m.turn + 1]

\* A worker begins its counters at 0.
LEMMA FreshIs == Fresh \in Memory /\ Fresh.turn = 0
BY DEF Fresh, Memory

\* Nudges leave the turn as it was.
LEMMA NudgedIs ==
    ASSUME NEW m \in Memory, NEW c \in {"early", "late", "margin"}, NEW x \in BOOLEAN, NEW y \in BOOLEAN
    PROVE  Nudged(m, c, x, y) \in Memory /\ Nudged(m, c, x, y).turn = m.turn
BY DEF Nudged, Memory

\* A correction ends a turn.
LEMMA CorrectedIs ==
    ASSUME NEW m \in Memory
    PROVE  Corrected(m) \in Memory /\ Corrected(m).turn = m.turn + 1
<1>1. m.turn + 1 \in Nat /\ m.repair + 1 \in Nat
  BY DEF Memory
<1>. DEFINE t == m.turn + 1
            r == m.repair + 1
<1>. HIDE DEF t, r
<1>2. t \in Nat /\ r \in Nat
  BY <1>1 DEF t, r
<1>3. [m EXCEPT !.repair = r, !.turn = t] \in Memory /\ [m EXCEPT !.repair = r, !.turn = t].turn = t
  BY <1>2 DEF Memory
<1>. QED BY <1>3 DEF Corrected, t, r

\* A step ends a turn.
LEMMA SteppedIs ==
    ASSUME NEW m \in Memory
    PROVE  Stepped(m) \in Memory /\ Stepped(m).turn = m.turn + 1
<1>1. m.turn + 1 \in Nat /\ m.step + 1 \in Nat
  BY DEF Memory
<1>. DEFINE t == m.turn + 1
            r == m.step + 1
<1>. HIDE DEF t, r
<1>2. t \in Nat /\ r \in Nat
  BY <1>1 DEF t, r
<1>3. [m EXCEPT !.step = r, !.turn = t] \in Memory /\ [m EXCEPT !.step = r, !.turn = t].turn = t
  BY <1>2 DEF Memory
<1>. QED BY <1>3 DEF Stepped, t, r

\* What a waking says.
LEMMA FramingIs ==
    ASSUME TypeOK, NEW coverage \in BOOLEAN
    PROVE  /\ Framing(coverage) \in Seq(Message)
           /\ \A i \in 1..Len(Framing(coverage)) :
                 LET m == Framing(coverage)[i]
                 IN m.what \in Waking \cup {"start", "coverage"} /\ m.by = attempt /\ m.size = 1
<1>. DEFINE Framed(s) ==
              /\ s \in Seq(Message)
              /\ \A i \in 1..Len(s) :
                     s[i] \in {m \in Message : /\ m.what \in Waking \cup {"start", "coverage"}
                                               /\ m.by = attempt /\ m.size = 1}
<1>1. Framed(<<>>)
  OBVIOUS
<1>2. \A what \in Waking \cup {"start", "coverage"} : Framed(<<Msg(what)>>)
  <2>1. attempt \in Nat /\ mem.turn \in Nat
    BY TypeIs
  <2>2. Waking \cup {"start", "coverage"} \subseteq Kind
    BY Kinds
  <2>3. ASSUME NEW what \in Waking \cup {"start", "coverage"} PROVE Framed(<<Msg(what)>>)
    <3>1. Msg(what) \in Message /\ Msg(what).what = what /\ Msg(what).by = attempt /\ Msg(what).size = 1
      BY <2>1, <2>2, MessageIs
    <3>. QED BY <3>1
  <2>. QED BY <2>3
<1>3. \A s, t : Framed(s) /\ Framed(t) => Framed(s \o t)
  <2>. SUFFICES ASSUME NEW s, NEW t, Framed(s), Framed(t) PROVE Framed(s \o t)
    OBVIOUS
  <2>1. /\ s \o t \in Seq(Message) /\ Len(s) \in Nat /\ Len(t) \in Nat /\ Len(s \o t) = Len(s) + Len(t)
        /\ \A i \in 1..Len(s) : (s \o t)[i] = s[i]
        /\ \A i \in Len(s) + 1..Len(s) + Len(t) : (s \o t)[i] = t[i - Len(s)]
    BY JoinIs
  <2>2. ASSUME NEW i \in 1..Len(s \o t) PROVE \/ \E j \in 1..Len(s) : (s \o t)[i] = s[j]
                                              \/ \E j \in 1..Len(t) : (s \o t)[i] = t[j]
    <3>1. i \in 1..Len(s) \/ (i \in Len(s) + 1..Len(s) + Len(t) /\ i - Len(s) \in 1..Len(t))
      BY <2>1
    <3>. QED BY <2>1, <3>1
  <2>. QED BY <2>1, <2>2
<1>. HIDE DEF Framed
<1>4. \A what \in Waking \cup {"start", "coverage"}, b \in BOOLEAN : Framed(IF b THEN <<Msg(what)>> ELSE <<>>)
  BY <1>1, <1>2
<1>5. {"seed", "event", "verdict"} = Waking
  BY DEF Waking
<1>6. Framed(StartMessages(coverage))
  <2>1. Framed(IF IsFirst THEN <<Msg("start")>> ELSE <<>>)
    BY <1>1, <1>2
  <2>2. Framed(IF IsFirst /\ seeded THEN <<Seed>> ELSE <<>>)
    BY <1>1, <1>2, <1>5 DEF Seed
  <2>3. Framed(IF coverage THEN <<Msg("coverage")>> ELSE <<>>)
    BY <1>1, <1>2
  <2>. QED BY <1>3, <2>1, <2>2, <2>3 DEF StartMessages
<1>7. Framed(WorldEvent)
  <2>1. Framed(<<Seed>>) /\ Framed(<<Transition>>)
    BY <1>2, <1>5 DEF Seed, Transition
  <2>. QED BY <1>1, <2>1 DEF WorldEvent
<1>8. Framed(Feedback)
  <2>1. Framed(<<Msg("verdict")>>)
    BY <1>2, <1>5
  <2>. QED BY <1>1, <2>1 DEF Feedback
<1>9. Framed(Framing(coverage))
  BY <1>3, <1>6, <1>7, <1>8 DEF Framing
<1>. QED BY <1>9 DEF Framed

--------------------------------------------------------------------------------
\* Lists of one and of two messages.
LEMMA PairIs ==
    ASSUME NEW a \in Message, NEW b \in Message
    PROVE  /\ <<a>> \in Seq(Message) /\ Len(<<a>>) = 1 /\ <<a>>[1] = a
           /\ <<a, b>> \in Seq(Message) /\ Len(<<a, b>>) = 2 /\ <<a, b>>[1] = a /\ <<a, b>>[2] = b
           /\ 1..1 = {1} /\ 1..2 = {1, 2}
OBVIOUS

\* Nothing, joined to a list, and a list of one to another.
LEMMA SmallJoins ==
    /\ <<>> \in Seq(Message) /\ Len(<<>>) = 0
    /\ \A s \in Seq(Message) : <<>> \o s = s /\ s \o <<>> = s
    /\ \A a, b \in Message : <<a>> \o <<b>> = <<a, b>>
    /\ Rows(<<>>) = <<>>
<1>1. <<>> \in Seq(Message) /\ Len(<<>>) = 0
  OBVIOUS
<1>2. \A s \in Seq(Message) : <<>> \o s = s /\ s \o <<>> = s
  OBVIOUS
<1>3. \A a, b \in Message : <<a>> \o <<b>> = <<a, b>>
  <2>. SUFFICES ASSUME NEW a \in Message, NEW b \in Message PROVE <<a>> \o <<b>> = <<a, b>>
    OBVIOUS
  <2>. DEFINE left == <<a>> \o <<b>>
              right == <<a, b>>
  <2>1. left \in Seq(Message) /\ Len(left) = 2 /\ left[1] = a /\ left[2] = b
    OBVIOUS
  <2>2. right \in Seq(Message) /\ Len(right) = 2 /\ right[1] = a /\ right[2] = b
    OBVIOUS
  <2>. HIDE DEF left, right
  <2>3. \A i \in 1..Len(left) : left[i] = right[i]
    BY <2>1, <2>2
  <2>4. left = right
    BY <2>1, <2>2, <2>3, SameSeq
  <2>. QED BY <2>4 DEF left, right
<1>4. Rows(<<>>) = <<>>
  <2>1. Rows(<<>>) \in Seq(Message) /\ Len(Rows(<<>>)) = 0
    BY <1>1, RowsAre
  <2>. QED BY <2>1
<1>. QED BY <1>1, <1>2, <1>3, <1>4

\* Nudges are nudges.
LEMMA NudgesAre ==
    ASSUME TypeOK, NEW clock
    PROVE  /\ Nudges(clock) \in Seq(Message)
           /\ \A i \in 1..Len(Nudges(clock)) : Nudges(clock)[i].what = "nudge" /\ Nudges(clock)[i].size = 1
<1>1. Msg("nudge") \in Message /\ Msg("nudge").what = "nudge" /\ Msg("nudge").size = 1
  <2>1. "nudge" \in Kind /\ attempt \in Nat /\ mem.turn \in Nat
    BY TypeIs, Kinds
  <2>. QED BY <2>1, MessageIs
<1>. DEFINE m == Msg("nudge")
<1>. HIDE DEF m
<1>2. Nudges(clock) \in {<<>> \o <<>>, <<m>> \o <<>>, <<>> \o <<m>>, <<m>> \o <<m>>}
  BY DEF Nudges, m
<1>3. m \in Message
  BY <1>1 DEF m
<1>4. Nudges(clock) \in {<<>>, <<m>>, <<m, m>>}
  <2>1. <<m>> \in Seq(Message)
    BY <1>3
  <2>2. <<>> \o <<>> = <<>> /\ <<m>> \o <<>> = <<m>> /\ <<>> \o <<m>> = <<m>> /\ <<m>> \o <<m>> = <<m, m>>
    BY <1>3, <2>1, SmallJoins
  <2>. QED BY <1>2, <2>2
<1>5. m.what = "nudge" /\ m.size = 1
  BY <1>1 DEF m
<1>6. CASE Nudges(clock) = <<>>
  BY <1>6
<1>7. CASE Nudges(clock) = <<m>>
  BY <1>3, <1>5, <1>7, PairIs
<1>8. CASE Nudges(clock) = <<m, m>>
  BY <1>3, <1>5, <1>8, PairIs
<1>. QED BY <1>4, <1>6, <1>7, <1>8

\* The list grows at its end by whole turns and by nothing a waking tells.
LEMMA Grow ==
    ASSUME IInv, TypeOK', Awake, NEW x \in Seq(Message), live' = live \o x, told' = told,
           \A i \in 1..Len(x) : /\ x[i].what \notin Waking
                                /\ x[i].what # "observation" => x[i].size = 1,
           \A i \in 1..Len(x) :
              x[i].what \in Answer =>
                  /\ i > 1 /\ x[i - 1].turn = x[i].turn
                  /\ x[i - 1].what = IF x[i].what = "observation" THEN "reply" ELSE "refused",
           \/ mem'.turn = mem.turn
           \/ \E i \in 1..Len(x) : x[i].what \in Assistant /\ x[i].turn >= mem'.turn - 1
    PROVE  FramingKept' /\ TurnsWhole' /\ ToldFirst'
<1>1. /\ live \in Seq(Message) /\ live' \in Seq(Message) /\ Len(live) \in Nat /\ Len(x) \in Nat
      /\ Len(live') = Len(live) + Len(x)
      /\ \A i \in 1..Len(live) : live'[i] = live[i]
      /\ \A i \in Len(live) + 1..Len(live) + Len(x) : live'[i] = x[i - Len(live)]
      /\ DOMAIN live = 1..Len(live) /\ DOMAIN live' = 1..Len(live')
  <2>1. live \in Seq(Message)
    BY TypeIs DEF IInv
  <2>. QED BY <2>1, JoinIs
<1>2. /\ \A i \in 1..Len(live) : i \in 1..Len(live')
      /\ \A i \in 1..Len(x) : i + Len(live) \in 1..Len(live') /\ live'[i + Len(live)] = x[i]
      /\ \A i \in 1..Len(live') : i \in 1..Len(live) \/ (i > Len(live) /\ i - Len(live) \in 1..Len(x))
  <2>1. \A i \in 1..Len(live) : i \in 1..Len(live')
    BY <1>1
  <2>2. \A i \in 1..Len(x) : i + Len(live) \in 1..Len(live') /\ i + Len(live) \in Len(live) + 1..Len(live) + Len(x)
                             /\ i + Len(live) - Len(live) = i
    BY <1>1
  <2>3. \A i \in 1..Len(live') : i \in 1..Len(live) \/ (i > Len(live) /\ i - Len(live) \in 1..Len(x))
    BY <1>1
  <2>4. \A i \in 1..Len(x) : live'[i + Len(live)] = x[i]
    BY <1>1, <2>2
  <2>. QED BY <2>1, <2>2, <2>3, <2>4
<1>3. FramingKept'
  <2>1. Only(Waking, 0, live \o x) = Only(Waking, 0, live) \o Only(Waking, 0, x)
    BY <1>1, OnlyJoin
  <2>2. \A i \in 1..Len(x) : ~Passes(Waking, 0, x[i])
    BY DEF Passes
  <2>3. Only(Waking, 0, x) = <<>>
    BY <2>2, OnlyNone
  <2>4. Only(Waking, 0, live) = told /\ told \in Seq(Message)
    BY TypeIs DEF IInv, FramingKept
  <2>5. told \o <<>> = told
    BY <2>4
  <2>6. Only(Waking, 0, live') = told'
    BY <2>1, <2>3, <2>4, <2>5
  <2>. QED BY <2>6 DEF FramingKept
<1>4. TurnsWhole'
  <2>1. ASSUME NEW i \in 1..Len(live'), live'[i].what \in Answer
        PROVE  /\ i > 1 /\ live'[i - 1].turn = live'[i].turn
               /\ live'[i - 1].what = IF live'[i].what = "observation" THEN "reply" ELSE "refused"
    <3>1. CASE i \in 1..Len(live)
      <4>1. live'[i] = live[i]
        BY <1>1, <3>1
      <4>2. /\ i > 1 /\ live[i - 1].turn = live[i].turn
            /\ live[i - 1].what = IF live[i].what = "observation" THEN "reply" ELSE "refused"
        BY <1>1, <2>1, <3>1, <4>1 DEF IInv, TurnsWhole
      <4>3. i - 1 \in 1..Len(live)
        BY <1>1, <3>1, <4>2
      <4>4. live'[i - 1] = live[i - 1]
        BY <1>1, <4>3
      <4>. QED BY <4>1, <4>2, <4>4
    <3>2. CASE i > Len(live) /\ i - Len(live) \in 1..Len(x)
      <4>. DEFINE j == i - Len(live)
      <4>1. j \in 1..Len(x) /\ j + Len(live) = i /\ i \in Nat
        BY <1>1, <3>2
      <4>2. live'[i] = x[j]
        BY <1>2, <4>1
      <4>3. /\ j > 1 /\ x[j - 1].turn = x[j].turn
            /\ x[j - 1].what = IF x[j].what = "observation" THEN "reply" ELSE "refused"
        BY <2>1, <4>1, <4>2
      <4>4. j - 1 \in 1..Len(x) /\ j - 1 + Len(live) = i - 1 /\ i > 1
        BY <1>1, <4>1, <4>3
      <4>5. live'[i - 1] = x[j - 1]
        BY <1>2, <4>4
      <4>. HIDE DEF j
      <4>. QED BY <4>2, <4>3, <4>4, <4>5
    <3>. QED BY <1>2, <3>1, <3>2
  <2>2. ASSUME mem'.turn > 0
        PROVE  \E i \in 1..Len(live') : live'[i].turn >= mem'.turn - 1 /\ live'[i].what \in Assistant
    <3>1. CASE mem'.turn = mem.turn
      <4>1. PICK i \in 1..Len(live) : live[i].turn >= mem.turn - 1 /\ live[i].what \in Assistant
        BY <1>1, <2>2, <3>1 DEF IInv, TurnsWhole
      <4>. QED BY <1>1, <1>2, <3>1, <4>1
    <3>2. CASE \E i \in 1..Len(x) : x[i].what \in Assistant /\ x[i].turn >= mem'.turn - 1
      BY <1>2, <3>2
    <3>. QED BY <3>1, <3>2
  <2>. QED BY <1>1, <2>1, <2>2 DEF TurnsWhole
<1>5. ToldFirst'
  <2>0. ToldFirst
    BY DEF IInv
  <2>1. ASSUME NEW i \in 1..Len(live'), NEW j \in 1..Len(live'), i < j, live'[i].what \in Assistant
        PROVE  live'[j].what \notin Waking
    <3>1. CASE j \in 1..Len(live)
      <4>1. i \in 1..Len(live)
        BY <1>1, <2>1, <3>1
      <4>. QED BY <1>1, <2>0, <2>1, <3>1, <4>1 DEF ToldFirst
    <3>2. CASE j > Len(live) /\ j - Len(live) \in 1..Len(x)
      <4>1. j - Len(live) + Len(live) = j
        BY <1>1
      <4>2. live'[j] = x[j - Len(live)]
        BY <1>2, <3>2, <4>1
      <4>. QED BY <3>2, <4>2
    <3>. QED BY <1>2, <3>1, <3>2
  <2>2. ASSUME NEW i \in 1..Len(live'), live'[i].what # "observation" PROVE live'[i].size = 1
    <3>1. CASE i \in 1..Len(live)
      BY <1>1, <2>0, <2>2, <3>1 DEF ToldFirst
    <3>2. CASE i > Len(live) /\ i - Len(live) \in 1..Len(x)
      <4>1. i - Len(live) + Len(live) = i
        BY <1>1
      <4>2. live'[i] = x[i - Len(live)]
        BY <1>2, <3>2, <4>1
      <4>. QED BY <2>2, <3>2, <4>2
    <3>. QED BY <1>2, <3>1, <3>2
  <2>. QED BY <2>1, <2>2 DEF ToldFirst
<1>. QED BY <1>3, <1>4, <1>5

\* What is added to the list and what is to be archived are the same, of what is lived.
LEMMA Recall ==
    ASSUME IInv, TypeOK', Awake, due = <<>>, NEW x \in Seq(Message), live' = live \o x,
           UNCHANGED <<told, attempt, archive>>,
           Only(Lived, attempt, Rows(due')) = Only(Lived, 0, Rows(x))
    PROVE  Remembers'
<1>1. /\ live \in Seq(Message) /\ told \in Seq(Message) /\ archive \in Seq(Message)
      /\ due' \in Seq(Message) /\ Rows(due') \in Seq(Message) /\ Rows(x) \in Seq(Message)
      /\ Rows(live) \in Seq(Message)
  <2>1. live \in Seq(Message) /\ told \in Seq(Message) /\ archive \in Seq(Message)
    BY TypeIs DEF IInv
  <2>2. due' \in Seq(Message)
    BY DEF TypeOK
  <2>. QED BY <2>1, <2>2, RowsAre
<1>2. PICK shed \in Seq(Message), rest \in Seq(Message) :
         /\ Memories = told \o (shed \o rest)
         /\ Only(Lived, 0, Rows(live)) = told \o rest
  BY DEF IInv, Remembers
<1>. DEFINE new == Only(Lived, 0, Rows(x))
<1>3. new \in Seq(Message)
  BY <1>1, OnlyType
<1>4. Memories = Only(Lived, attempt, archive)
  <2>1. Rows(<<>>) = <<>>
    BY SmallJoins
  <2>2. archive \o <<>> = archive
    BY <1>1
  <2>. QED BY <2>1, <2>2 DEF Memories
<1>5. Memories' = Memories \o new
  <2>1. Memories' = Only(Lived, attempt, archive \o Rows(due'))
    BY DEF Memories, Rows, Row
  <2>2. Only(Lived, attempt, archive \o Rows(due')) = Only(Lived, attempt, archive) \o Only(Lived, attempt, Rows(due'))
    BY <1>1, OnlyJoin
  <2>. QED BY <1>4, <2>1, <2>2
<1>6. Only(Lived, 0, Rows(live')) = (told \o rest) \o new
  <2>1. Rows(live \o x) = Rows(live) \o Rows(x)
    BY <1>1, RowsJoin
  <2>2. Only(Lived, 0, Rows(live) \o Rows(x)) = Only(Lived, 0, Rows(live)) \o new
    BY <1>1, OnlyJoin, ZenonT(30)
  <2>. QED BY <1>2, <2>1, <2>2
<1>. HIDE DEF new
<1>7. /\ rest \o new \in Seq(Message)
      /\ (told \o rest) \o new = told \o (rest \o new)
      /\ (told \o (shed \o rest)) \o new = told \o ((shed \o rest) \o new)
      /\ (shed \o rest) \o new = shed \o (rest \o new)
  <2>1. shed \o rest \in Seq(Message) /\ rest \o new \in Seq(Message)
    BY <1>3
  <2>2. \A a, b \in Seq(Message) : (a \o b) \o new = a \o (b \o new)
    BY <1>3, JoinIsAssociative, SMTT(30)
  <2>3. told \in Seq(Message)
    BY <1>1
  <2>5. (told \o rest) \o new = told \o (rest \o new)
    BY <2>2, <2>3, Zenon
  <2>6. (told \o (shed \o rest)) \o new = told \o ((shed \o rest) \o new)
    BY <2>1, <2>2, <2>3, Zenon
  <2>4. (shed \o rest) \o new = shed \o (rest \o new)
    BY <1>3, JoinIsAssociative
  <2>. QED BY <2>1, <2>4, <2>5, <2>6
<1>8. Memories' = told' \o (shed \o (rest \o new)) /\ Only(Lived, 0, Rows(live')) = told' \o (rest \o new)
  BY <1>2, <1>5, <1>6, <1>7
<1>9. Remembers' <=> (Awake' => \E s, r \in Seq(Message) : Memories' = told' \o (s \o r)
                                    /\ Only(Lived, 0, Rows(live')) = told' \o r)
  BY DEF Remembers, Rows, Row
<1>. QED BY <1>7, <1>8, <1>9

\* A list shortened by a compaction is a list of messages.
LEMMA CompactsType ==
    ASSUME NEW ms \in Seq(Message), NEW short \in Compacts(ms)
    PROVE  short \in Seq(Message) /\ (short = ms \/ short = Compacted(ms))
<1>1. short = ms \/ short = Compacted(ms)
  BY DEF Compacts
<1>2. ASSUME NEW p \in 1..Len(ms), NEW q \in p..Len(ms),
             Compacted(ms) = SubSeq(ms, 1, p - 1) \o SubSeq(ms, q, Len(ms))
      PROVE  Compacted(ms) \in Seq(Message)
  <2>1. SubSeq(ms, 1, p - 1) \in Seq(Message) /\ SubSeq(ms, q, Len(ms)) \in Seq(Message)
    BY CutInPieces
  <2>2. \A a, b \in Seq(Message) : a \o b \in Seq(Message)
    OBVIOUS
  <2>. QED BY <1>2, <2>1, <2>2, Zenon
<1>3. Compacted(ms) \in Seq(Message)
  BY <1>2, CompactedIs
<1>. QED BY <1>1, <1>3

\* What Ponder, Correct and Shed make of the counters.
LEMMA Counters ==
    ASSUME TypeOK
    PROVE  /\ \A clock \in Later(mem.clock) :
                 LET m == [mem EXCEPT !.clock = clock, !.repair = 0,
                                      !.reminded = @ \/ StepNudge, !.late = @ \/ TimeNudge(clock)]
                 IN m \in Memory /\ m.turn = mem.turn
           /\ [mem EXCEPT !.repair = @ + 1, !.turn = @ + 1] \in Memory
           /\ [mem EXCEPT !.repair = @ + 1, !.turn = @ + 1].turn = mem.turn + 1
           /\ [mem EXCEPT !.step = @ + 1, !.turn = @ + 1] \in Memory
           /\ [mem EXCEPT !.step = @ + 1, !.turn = @ + 1].turn = mem.turn + 1
<1>1. mem \in Memory
  BY TypeIs
<1>2. ASSUME NEW clock \in Later(mem.clock)
      PROVE  LET m == [mem EXCEPT !.clock = clock, !.repair = 0,
                                  !.reminded = @ \/ StepNudge, !.late = @ \/ TimeNudge(clock)]
             IN m \in Memory /\ m.turn = mem.turn
  <2>1. clock \in {"early", "late", "margin"}
    <3>1. \A i \in 1..3 : Clocks[i] \in {"early", "late", "margin"}
      BY DEF Clocks
    <3>. QED BY <3>1 DEF Later
  <2>2. (mem.reminded \/ StepNudge) \in BOOLEAN /\ (mem.late \/ TimeNudge(clock)) \in BOOLEAN
    OBVIOUS
  <2>. DEFINE x == mem.reminded \/ StepNudge
              y == mem.late \/ TimeNudge(clock)
  <2>3. Nudged(mem, clock, x, y) \in Memory /\ Nudged(mem, clock, x, y).turn = mem.turn
    <3>. HIDE DEF x, y
    <3>1. x \in BOOLEAN /\ y \in BOOLEAN
      BY <2>2 DEF x, y
    <3>. QED BY <1>1, <2>1, <3>1, NudgedIs
  <2>. QED BY <2>3 DEF Nudged
<1>3. Corrected(mem) \in Memory /\ Corrected(mem).turn = mem.turn + 1
  BY <1>1, CorrectedIs
<1>4. Stepped(mem) \in Memory /\ Stepped(mem).turn = mem.turn + 1
  BY <1>1, SteppedIs
<1>. QED BY <1>2, <1>3, <1>4 DEF Corrected, Stepped

\* The messages of a turn.
LEMMA TurnIs ==
    ASSUME TypeOK
    PROVE  /\ \A n \in Sizes : n \in Nat
           /\ \A what \in {"reply", "refused", "correction", "suspend"} :
                 /\ what \in Kind /\ Msg(what) \in Message /\ Msg(what).what = what
                 /\ Msg(what).by = attempt /\ Msg(what).turn = mem.turn /\ Msg(what).size = 1
           /\ \A n \in Sizes : LET m == Sized("observation", n)
                               IN /\ m \in Message /\ m.what = "observation"
                                  /\ m.by = attempt /\ m.turn = mem.turn
<1>1. attempt \in Nat /\ mem.turn \in Nat
  BY TypeIs
<1>2. {"reply", "refused", "correction", "suspend", "observation"} \subseteq Kind
  BY Kinds
<1>3. \A n \in Sizes : n \in Nat
  BY ContextAssumption
<1>. QED BY <1>1, <1>2, <1>3, MessageIs

--------------------------------------------------------------------------------
\* A step keeps the types.
LEMMA TypeStep ==
    ASSUME TypeOK, [Next]_vars
    PROVE  TypeOK'
<1>. USE DEF TypeOK
<1>0. FALSE \in BOOLEAN /\ <<>> \in Seq(Message) /\ Fresh \in Memory
      /\ \A a, b \in Seq(Message) : a \o b \in Seq(Message)
  BY FreshIs
<1>1. CASE Start
  <2>1. attempt' \in 0..MaxAttempts
    BY <1>1, ContextAssumption DEF Start
  <2>2. archive' \in Seq(Message) /\ notebook' \in BOOLEAN
    <3>1. CASE UNCHANGED store
      BY <3>1 DEF store
    <3>2. CASE archive' = <<[what |-> "reply", by |-> 0, turn |-> 0, size |-> 1]>> /\ notebook' = TRUE
      <4>1. "reply" \in Kind
        BY Kinds
      <4>2. [what |-> "reply", by |-> 0, turn |-> 0, size |-> 1] \in Message
        BY <4>1 DEF Message
      <4>. QED BY <3>2, <4>2
    <3>. QED BY <1>1, <3>1, <3>2 DEF Start
  <2>3. verdict' \in BOOLEAN /\ ended' = "none" /\ seeded' \in BOOLEAN /\ pc' = "wake"
    BY <1>1 DEF Start, Refused
  <2>4. live' = <<>> /\ due' = <<>> /\ told' = <<>> /\ mem' = Fresh
    BY <1>1 DEF Start
  <2>. QED BY <1>0, <2>1, <2>2, <2>3, <2>4 DEF Memory
<1>2. CASE Assemble
  <2>1. PICK coverage \in BOOLEAN : /\ live' = Framing(coverage)
                                    /\ due' = Only(Archived, 0, Framing(coverage))
                                    /\ told' = Only(Waking, 0, Framing(coverage))
    BY <1>2 DEF Assemble
  <2>2. Framing(coverage) \in Seq(Message)
    BY FramingIs
  <2>3. live' \in Seq(Message) /\ due' \in Seq(Message) /\ told' \in Seq(Message)
    BY <2>1, <2>2, OnlyType
  <2>. QED BY <1>2, <2>3 DEF Assemble, store, given
<1>3. CASE Append1
  <2>1. due # <<>> /\ Head(due) \in Message /\ Tail(due) \in Seq(Message)
    BY <1>3 DEF Append1
  <2>2. Row(Head(due)) \in Message
    BY <2>1, RowIs
  <2>3. archive' \in Seq(Message) /\ due' \in Seq(Message)
    BY <1>3, <2>1, <2>2 DEF Append1
  <2>. QED BY <1>3, <2>3 DEF Append1, given
<1>4. CASE Ponder
  <2>1. PICK clock \in Later(mem.clock) :
           /\ live' = live \o Nudges(clock)
           /\ mem' = [mem EXCEPT !.clock = clock, !.repair = 0,
                                 !.reminded = @ \/ StepNudge, !.late = @ \/ TimeNudge(clock)]
           /\ pc' = IF clock = "margin" THEN "suspend" ELSE "asked"
    BY <1>4 DEF Ponder
  <2>2. mem' \in Memory
    BY <2>1, Counters
  <2>3. Nudges(clock) \in Seq(Message)
    BY NudgesAre
  <2>4. live' \in Seq(Message)
    BY <1>0, <2>1, <2>3
  <2>. QED BY <1>4, <2>1, <2>2, <2>4 DEF Ponder, store, given, Memory
<1>5. CASE Spent
  BY <1>5 DEF Spent, store, given, talk
<1>6. CASE Correct
  <2>1. mem' \in Memory
    BY <1>6, Counters DEF Correct
  <2>2. <<Msg("refused"), Msg("correction")>> \in Seq(Message)
    BY TurnIs
  <2>3. live' \in Seq(Message)
    BY <1>0, <1>6, <2>2 DEF Correct
  <2>. QED BY <1>6, <2>1, <2>3 DEF Correct, store, given, Memory
<1>7. CASE Act
  <2>1. PICK n \in Sizes : /\ live' = live \o <<Msg("reply"), Sized("observation", n)>>
                           /\ due' = <<Msg("reply"), Sized("observation", n)>>
    BY <1>7 DEF Act
  <2>2. <<Msg("reply"), Sized("observation", n)>> \in Seq(Message)
    BY TurnIs
  <2>3. live' \in Seq(Message) /\ due' \in Seq(Message)
    BY <1>0, <2>1, <2>2
  <2>. QED BY <1>7, <2>3 DEF Act, store, given
<1>8. CASE Shed
  <2>1. mem' \in Memory
    BY <1>8, Counters DEF Shed
  <2>2. live' \in Seq(Message)
    BY <1>8, CompactsType DEF Shed
  <2>. QED BY <1>8, <2>1, <2>2 DEF Shed, store, given, Memory
<1>9. CASE Conclude
  <2>1. Msg("reply") \in Message
    BY TurnIs
  <2>2. live' \in Seq(Message) /\ due' \in Seq(Message)
    BY <1>9, <2>1 DEF Conclude
  <2>. QED BY <1>9, <2>2 DEF Conclude, store, given
<1>10. CASE Suspend
  <2>1. Msg("suspend") \in Message
    BY TurnIs
  <2>2. due' \in Seq(Message) /\ notebook' \in BOOLEAN
    <3>1. <<Msg("suspend"), Msg("suspend")>> \in Seq(Message)
      BY <2>1
    <3>. QED BY <1>10, <3>1 DEF Suspend
  <2>. QED BY <1>10, <2>2 DEF Suspend, given
<1>11. CASE Gone /\ (UNCHANGED ended \/ ended' = "failed")
  BY <1>0, <1>11 DEF Gone, store, given, Memory
<1>12. CASE UNCHANGED vars
  BY <1>12 DEF vars, store, given, talk
<1>. QED BY <1>1, <1>2, <1>3, <1>4, <1>5, <1>6, <1>7, <1>8, <1>9, <1>10, <1>11, <1>12
         DEF Next, Worker, Closes, Dies

--------------------------------------------------------------------------------
\* Where nothing is in mind the invariant asks for nothing but the order of the archive.
LEMMA Rested ==
    ASSUME live' = <<>>, due' = <<>>, told' = <<>>, mem' = Fresh, pc' \in {"off", "wake"}
    PROVE  /\ AtRest' /\ FramingKept' /\ TurnsWhole' /\ ToldFirst' /\ JustKept' /\ Remembers'
           /\ Len(due') = 0
<1>1. ~Awake' /\ pc' # "kept"
  BY DEF Awake
<1>2. Len(live') = 0 /\ DOMAIN live' = {} /\ Len(due') = 0
  OBVIOUS
<1>3. mem'.turn = 0
  BY FreshIs
<1>4. AtRest'
  BY <1>3 DEF AtRest
<1>5. FramingKept' /\ Remembers'
  BY <1>1 DEF FramingKept, Remembers
<1>6. TurnsWhole'
  BY <1>1, <1>2 DEF TurnsWhole
<1>7. ToldFirst'
  BY <1>2 DEF ToldFirst
<1>8. JustKept'
  BY <1>1 DEF JustKept
<1>. QED BY <1>2, <1>4, <1>5, <1>6, <1>7, <1>8

\* The invariant holds initially.
LEMMA InitInv ==
    ASSUME Init
    PROVE  IInv
<1>1. TypeOK
  <2>1. Fresh \in Memory /\ <<>> \in Seq(Message)
    BY FreshIs
  <2>2. attempt \in 0..MaxAttempts
    BY ContextAssumption DEF Init
  <2>3. archive \in Seq(Message) /\ live \in Seq(Message) /\ due \in Seq(Message) /\ told \in Seq(Message)
    BY <2>1 DEF Init
  <2>4. mem \in Memory
    BY <2>1 DEF Init
  <2>. QED BY <2>2, <2>3, <2>4 DEF Init, TypeOK, Memory
<1>2. ~Awake /\ pc # "kept" /\ Len(live) = 0 /\ DOMAIN live = {} /\ Len(due) = 0 /\ Len(archive) = 0
  BY DEF Init, Awake
<1>3. AtRest
  BY FreshIs DEF Init, AtRest
<1>4. InTurn
  BY <1>2 DEF InTurn
<1>5. FramingKept /\ Remembers /\ TurnsWhole /\ ToldFirst /\ JustKept
  BY <1>2 DEF FramingKept, Remembers, TurnsWhole, ToldFirst, JustKept
<1>. QED BY <1>1, <1>3, <1>4, <1>5 DEF IInv

\* A list to which nothing is added is what it was.
LEMMA Nothing ==
    ASSUME NEW s \in Seq(Message)
    PROVE  s = s \o <<>> /\ <<>> \in Seq(Message) /\ Len(<<>>) = 0
           /\ \A kinds, since : Only(kinds, since, Rows(<<>>)) = <<>>
<1>1. s = s \o <<>> /\ <<>> \in Seq(Message) /\ Len(<<>>) = 0 /\ Rows(<<>>) = <<>>
  BY SmallJoins
<1>2. ASSUME NEW kinds, NEW since PROVE Only(kinds, since, <<>>) = <<>>
  <2>1. <<>> \in Seq(Message) /\ \A i \in 1..Len(<<>>) : ~Passes(kinds, since, <<>>[i])
    BY <1>1
  <2>. QED BY <2>1, OnlyNone
<1>. QED BY <1>1, <1>2

\* Nothing is lived of messages that are not of the seat's life.
LEMMA NothingLived ==
    ASSUME NEW since, NEW ms \in Seq(Message), \A i \in 1..Len(ms) : ms[i].what \notin Lived
    PROVE  Only(Lived, since, Rows(ms)) = <<>>
<1>1. Rows(ms) \in Seq(Message) /\ Len(Rows(ms)) = Len(ms) /\ Len(ms) \in Nat
  BY RowsAre
<1>2. ASSUME NEW i \in 1..Len(Rows(ms)) PROVE ~Passes(Lived, since, Rows(ms)[i])
  <2>1. Rows(ms)[i] = Row(ms[i]) /\ ms[i] \in Message /\ i \in 1..Len(ms)
    BY <1>1, RowsAre
  <2>. QED BY <2>1, RowIs DEF Passes
<1>. QED BY <1>1, <1>2, OnlyNone

\* A step that leaves the list alone, or adds to it, while the seat is awake.
LEMMA Awakes ==
    ASSUME pc \in {"step", "asked", "kept", "suspend", "closing"}
    PROVE  Awake /\ pc # "wake"
BY DEF Awake

\* An attempt starts with nothing in mind and after all that is archived.
LEMMA StartStep ==
    ASSUME IInv, TypeOK', Start
    PROVE  IInv'
<1>1. live' = <<>> /\ due' = <<>> /\ told' = <<>> /\ mem' = Fresh /\ pc' = "wake" /\ attempt' = attempt + 1
  BY DEF Start
<1>2. /\ AtRest' /\ FramingKept' /\ TurnsWhole' /\ ToldFirst' /\ JustKept' /\ Remembers'
      /\ Len(due') = 0
  BY <1>1, Rested
<1>3. attempt \in Nat /\ archive \in Seq(Message)
  BY TypeIs DEF IInv
<1>4. \A i \in 1..Len(archive') : archive'[i].by < attempt'
  <2>1. CASE UNCHANGED store
    <3>1. \A i \in 1..Len(archive) : archive[i].by <= attempt /\ archive[i] \in Message
      BY <1>3 DEF IInv, InTurn
    <3>2. \A i \in 1..Len(archive) : archive[i].by \in Nat /\ archive[i].by < attempt + 1
      BY <1>3, <3>1, RowIs
    <3>. QED BY <1>1, <2>1, <3>2 DEF store
  <2>2. CASE archive' = <<[what |-> "reply", by |-> 0, turn |-> 0, size |-> 1]>>
    <3>1. Len(archive') = 1 /\ archive'[1].by = 0
      BY <2>2
    <3>. QED BY <1>1, <1>3, <3>1
  <2>. QED BY <2>1, <2>2 DEF Start
<1>5. \A i \in 1..Len(archive') : archive'[i].by <= attempt'
  <2>1. attempt' \in Nat /\ archive' \in Seq(Message)
    BY <1>1, <1>3 DEF TypeOK
  <2>2. \A i \in 1..Len(archive') : archive'[i].by \in Nat
    <3>1. \A i \in 1..Len(archive') : archive'[i] \in Message
      BY <2>1
    <3>. QED BY <3>1, RowIs
  <2>. QED BY <1>4, <2>1, <2>2
<1>6. InTurn'
  BY <1>2, <1>4, <1>5 DEF InTurn
<1>. QED BY <1>2, <1>6 DEF IInv

\* With its worker, all an attempt had in mind is gone.
LEMMA GoneStep ==
    ASSUME IInv, TypeOK', Gone
    PROVE  IInv'
<1>1. live' = <<>> /\ due' = <<>> /\ told' = <<>> /\ mem' = Fresh /\ pc' = "off"
      /\ archive' = archive /\ attempt' = attempt
  BY DEF Gone, store
<1>2. /\ AtRest' /\ FramingKept' /\ TurnsWhole' /\ ToldFirst' /\ JustKept' /\ Remembers'
      /\ Len(due') = 0
  BY <1>1, Rested
<1>3. InTurn'
  BY <1>1, <1>2 DEF IInv, InTurn
<1>. QED BY <1>2, <1>3 DEF IInv

\* What a waking tells is in front of the seat and is all it remembers of the attempt.
LEMMA AssembleStep ==
    ASSUME IInv, TypeOK', Assemble
    PROVE  IInv'
<1>1. PICK coverage \in BOOLEAN : /\ live' = Framing(coverage)
                                  /\ due' = Only(Waking, 0, Framing(coverage))
                                  /\ told' = Only(Waking, 0, Framing(coverage))
  BY DEF Assemble, Archived
<1>2. pc = "wake" /\ pc' = "step" /\ due = <<>> /\ UNCHANGED <<attempt, archive, mem>>
  BY DEF Assemble, Idle, store
<1>3. TypeOK /\ attempt \in Nat /\ archive \in Seq(Message)
  BY TypeIs DEF IInv
<1>. DEFINE F == Framing(coverage)
<1>4. F \in Seq(Message) /\ Len(F) \in Nat
      /\ \A i \in 1..Len(F) : F[i].what \in Waking \cup {"start", "coverage"} /\ F[i].by = attempt /\ F[i].size = 1
  BY <1>3, FramingIs
<1>5. live' = F /\ due' = Only(Waking, 0, F) /\ told' = Only(Waking, 0, F)
  BY <1>1
<1>. HIDE DEF F
<1>6. due' \in Seq(Message) /\ DOMAIN live' = 1..Len(F) /\ due' = told'
  BY <1>4, <1>5, OnlyType
<1>7. \A i \in 1..Len(due') : /\ due'[i].what \in Waking
                              /\ \E j \in 1..Len(F) : due'[i] = F[j]
  BY <1>4, <1>5, OnlyOf DEF Passes
<1>8. \A i \in 1..Len(due') : due'[i].by = attempt /\ due'[i].size = 1
  BY <1>4, <1>7
<1>9. FramingKept'
  BY <1>5 DEF FramingKept
<1>10. AtRest' /\ JustKept'
  BY <1>2 DEF AtRest, JustKept
<1>11. InTurn'
  BY <1>2, <1>8 DEF IInv, InTurn
<1>12. \A i \in 1..Len(F) : F[i].what \notin Assistant /\ F[i].what \notin Answer /\ F[i].what # "observation"
  BY <1>4, Kinds
<1>13. ToldFirst'
  BY <1>4, <1>5, <1>12 DEF ToldFirst
<1>14. TurnsWhole'
  <2>1. mem'.turn = 0
    BY <1>2 DEF IInv, AtRest
  <2>. QED BY <1>5, <1>6, <1>12, <2>1 DEF TurnsWhole
<1>15. Memories' = told'
  <2>1. Rows(due') = due'
    BY <1>6, <1>8, RowsSame
  <2>2. Memories' = Only(Lived, attempt, archive \o due')
    BY <1>2, <2>1 DEF Memories, Rows, Row
  <2>3. Only(Lived, attempt, archive \o due') = Only(Lived, attempt, archive) \o Only(Lived, attempt, due')
    BY <1>3, <1>6, OnlyJoin
  <2>4. Only(Lived, attempt, archive) = <<>>
    <3>1. \A i \in 1..Len(archive) : archive[i].by < attempt /\ archive[i] \in Message
      BY <1>2, <1>3 DEF IInv, InTurn
    <3>2. \A i \in 1..Len(archive) : ~(archive[i].by >= attempt)
      BY <1>3, <3>1, RowIs
    <3>. QED BY <1>3, <3>2, OnlyNone DEF Passes
  <2>5. Only(Lived, attempt, due') = due'
    <3>1. \A i \in 1..Len(due') : Passes(Lived, attempt, due'[i])
      BY <1>3, <1>7, <1>8, Kinds DEF Passes
    <3>. QED BY <1>6, <3>1, OnlyAll
  <2>6. <<>> \o due' = due'
    BY <1>6, SmallJoins
  <2>. QED BY <1>6, <2>2, <2>3, <2>4, <2>5, <2>6
<1>16. Only(Lived, 0, Rows(live')) = told'
  <2>1. Rows(F) = F
    BY <1>4, RowsSame
  <2>2. \A i \in 1..Len(F) : Passes(Lived, 0, F[i]) <=> Passes(Waking, 0, F[i])
    <3>1. \A i \in 1..Len(F) : F[i].what \in Lived <=> F[i].what \in Waking
      BY <1>4, Kinds
    <3>. QED BY <3>1 DEF Passes
  <2>3. Only(Lived, 0, F) = Only(Waking, 0, F)
    BY <1>4, <2>2, OnlyAgree
  <2>. QED BY <1>5, <2>1, <2>3
<1>17. Remembers'
  <2>1. <<>> \in Seq(Message) /\ told' \o <<>> = told' /\ <<>> \o <<>> = <<>>
    BY <1>6, SmallJoins
  <2>2. Memories' = told' \o (<<>> \o <<>>) /\ Only(Lived, 0, Rows(live')) = told' \o <<>>
    BY <1>15, <1>16, <2>1
  <2>3. Remembers' <=> (Awake' => \E s, r \in Seq(Message) : Memories' = told' \o (s \o r)
                                      /\ Only(Lived, 0, Rows(live')) = told' \o r)
    BY DEF Remembers, Rows, Row
  <2>. QED BY <2>1, <2>2, <2>3
<1>. QED BY <1>9, <1>10, <1>11, <1>13, <1>14, <1>17 DEF IInv

\* A line moves from what is to be archived to the archive.
LEMMA Append1Step ==
    ASSUME IInv, TypeOK', Append1
    PROVE  IInv'
<1>. DEFINE h == Head(due)
            t == Tail(due)
<1>1. /\ archive' = Append(archive, Row(h)) /\ due' = t /\ due # <<>>
      /\ UNCHANGED <<attempt, pc, live, told, mem>>
  BY DEF Append1
<1>2. TypeOK /\ attempt \in Nat /\ archive \in Seq(Message) /\ due \in Seq(Message)
      /\ live \in Seq(Message) /\ told \in Seq(Message)
  BY TypeIs DEF IInv
<1>3. /\ h \in Message /\ t \in Seq(Message) /\ Len(due) \in Nat /\ Len(due) > 0 /\ Len(t) = Len(due) - 1
      /\ h = due[1] /\ \A i \in 1..Len(t) : t[i] = due[i + 1]
  BY <1>1, <1>2
<1>4. due = <<h>> \o t
  <2>. DEFINE joined == <<h>> \o t
  <2>1. <<h>> \in Seq(Message) /\ Len(<<h>>) = 1 /\ <<h>>[1] = h
    BY <1>3, PairIs
  <2>2. /\ joined \in Seq(Message) /\ Len(joined) = 1 + Len(t)
        /\ \A i \in 1..1 : joined[i] = <<h>>[i]
        /\ \A i \in 1 + 1..1 + Len(t) : joined[i] = t[i - 1]
    <3>1. /\ <<h>> \o t \in Seq(Message) /\ Len(<<h>> \o t) = Len(<<h>>) + Len(t)
          /\ \A i \in 1..Len(<<h>>) : (<<h>> \o t)[i] = <<h>>[i]
          /\ \A i \in Len(<<h>>) + 1..Len(<<h>>) + Len(t) : (<<h>> \o t)[i] = t[i - Len(<<h>>)]
      BY <1>3, <2>1, JoinIs
    <3>. QED BY <2>1, <3>1
  <2>. HIDE DEF joined
  <2>3. ASSUME NEW i \in 1..Len(due) PROVE due[i] = joined[i]
    <3>1. CASE i = 1
      BY <1>3, <2>1, <2>2, <3>1
    <3>2. CASE i # 1
      <4>1. i - 1 \in 1..Len(t) /\ i - 1 + 1 = i /\ i \in 1 + 1..1 + Len(t)
        BY <1>3, <3>2
      <4>. QED BY <1>3, <2>2, <4>1
    <3>. QED BY <3>1, <3>2
  <2>4. due = joined
    BY <1>2, <1>3, <2>2, <2>3, SameSeq
  <2>. QED BY <2>4 DEF joined
<1>. HIDE DEF h, t
<1>5. pc \notin {"off", "wake"} /\ pc' \notin {"off", "wake"}
  BY <1>1 DEF IInv, AtRest
<1>6. Awake
  BY <1>5 DEF Awake
<1>7. Row(h) \in Message /\ Row(h).by = attempt
  <2>1. h.by = attempt
    BY <1>3 DEF IInv, InTurn
  <2>. QED BY <1>3, <2>1, RowIs
<1>8. InTurn'
  <2>1. /\ archive' \in Seq(Message) /\ Len(archive) \in Nat /\ Len(archive') = Len(archive) + 1
        /\ \A i \in 1..Len(archive) : archive'[i] = archive[i]
        /\ archive'[Len(archive) + 1] = Row(h)
    BY <1>1, <1>2, <1>7
  <2>2. \A i \in 1..Len(archive') : archive'[i].by <= attempt'
    <3>1. \A i \in 1..Len(archive') : i \in 1..Len(archive) \/ i = Len(archive) + 1
      BY <2>1
    <3>2. \A i \in 1..Len(archive) : archive[i].by <= attempt
      BY DEF IInv, InTurn
    <3>3. archive'[Len(archive) + 1].by = attempt
      BY <1>7, <2>1
    <3>. QED BY <1>1, <1>2, <2>1, <3>1, <3>2, <3>3
  <2>3. \A i \in 1..Len(due') : due'[i].by = attempt'
    <3>1. \A i \in 1..Len(t) : i + 1 \in 1..Len(due)
      BY <1>3
    <3>2. \A i \in 1..Len(due) : due[i].by = attempt
      BY DEF IInv, InTurn
    <3>. QED BY <1>1, <1>3, <3>1, <3>2
  <2>. QED BY <1>5, <2>2, <2>3 DEF InTurn
<1>9. FramingKept' /\ TurnsWhole' /\ ToldFirst'
  <2>. DEFINE x == <<>>
  <2>1. live' = live \o x /\ x \in Seq(Message) /\ Len(x) = 0
    BY <1>1, <1>2, Nothing
  <2>. HIDE DEF x
  <2>2. \A i \in 1..Len(x) : FALSE
    BY <2>1
  <2>. QED BY <1>1, <1>6, <2>1, <2>2, Grow
<1>10. AtRest' /\ JustKept'
  BY <1>1, <1>5 DEF IInv, AtRest, JustKept
<1>11. Remembers'
  <2>1. <<Row(h)>> \in Seq(Message) /\ Rows(t) \in Seq(Message) /\ <<h>> \in Seq(Message)
    BY <1>3, <1>7, RowsAre
  <2>2. Append(archive, Row(h)) = archive \o <<Row(h)>>
    <3>1. archive \o <<>> = archive /\ <<>> \in Seq(Message)
      BY <1>2, SmallJoins
    <3>2. Append(archive \o <<>>, Row(h)) = archive \o Append(<<>>, Row(h))
      BY <1>2, <1>7, <3>1, AppendJoin
    <3>3. Append(<<>>, Row(h)) = <<Row(h)>>
      BY <1>7
    <3>. QED BY <3>1, <3>2, <3>3
  <2>3. Rows(due) = <<Row(h)>> \o Rows(t)
    <3>1. Rows(<<h>> \o t) = Rows(<<h>>) \o Rows(t)
      BY <1>3, <2>1, RowsJoin
    <3>2. Rows(<<h>>) = <<Row(h)>>
      <4>1. Rows(<<h>>) \in Seq(Message) /\ Len(Rows(<<h>>)) = 1 /\ Rows(<<h>>)[1] = Row(h)
        <5>1. Len(<<h>>) = 1 /\ <<h>>[1] = h
          BY <1>3, PairIs
        <5>2. /\ Rows(<<h>>) \in Seq(Message) /\ Len(Rows(<<h>>)) = Len(<<h>>)
              /\ \A i \in 1..Len(<<h>>) : Rows(<<h>>)[i] = Row(<<h>>[i])
          BY <2>1, RowsAre
        <5>. QED BY <5>1, <5>2
      <4>. DEFINE left == Rows(<<h>>)
                  right == <<Row(h)>>
      <4>2. right \in Seq(Message) /\ Len(right) = 1 /\ right[1] = Row(h)
        BY <1>7, PairIs
      <4>. HIDE DEF right
      <4>3. left \in Seq(Message) /\ Len(left) = 1 /\ left[1] = Row(h)
        BY <4>1
      <4>. HIDE DEF left
      <4>4. \A i \in 1..Len(left) : left[i] = right[i]
        BY <4>2, <4>3
      <4>5. left = right
        BY <4>2, <4>3, <4>4, SameSeq
      <4>. QED BY <4>5 DEF left, right
    <3>. QED BY <1>4, <3>1, <3>2
  <2>4. Append(archive, Row(h)) \o Rows(t) = archive \o Rows(due)
    <3>1. \A a, b, c \in Seq(Message) : (a \o b) \o c = a \o (b \o c)
      BY JoinIsAssociative
    <3>2. (archive \o <<Row(h)>>) \o Rows(t) = archive \o (<<Row(h)>> \o Rows(t))
      BY <1>2, <2>1, <3>1, ZenonT(30)
    <3>. QED BY <2>2, <2>3, <3>2
  <2>5. Memories' = Only(Lived, attempt, Append(archive, Row(h)) \o Rows(t))
    BY <1>1 DEF Memories, Rows, Row
  <2>6. Memories' = Memories
    BY <2>4, <2>5 DEF Memories
  <2>7. PICK shed \in Seq(Message), rest \in Seq(Message) :
           /\ Memories = told \o (shed \o rest)
           /\ Only(Lived, 0, Rows(live)) = told \o rest
    BY <1>6 DEF IInv, Remembers
  <2>8. Memories' = told' \o (shed \o rest) /\ Only(Lived, 0, Rows(live')) = told' \o rest
    BY <1>1, <2>6, <2>7
  <2>9. Remembers' <=> (Awake' => \E s, r \in Seq(Message) : Memories' = told' \o (s \o r)
                                      /\ Only(Lived, 0, Rows(live')) = told' \o r)
    BY DEF Remembers, Rows, Row
  <2>. QED BY <2>8, <2>9
<1>. QED BY <1>8, <1>9, <1>10, <1>11 DEF IInv

\* A step that adds to the list and archives nothing, but has it to be archived.
LEMMA Adds ==
    ASSUME IInv, TypeOK', NEW x \in Seq(Message), live' = live \o x, due = <<>>,
           UNCHANGED <<told, attempt, archive>>,
           pc \in {"step", "asked", "kept", "suspend", "closing"},
           pc' \in {"step", "asked", "suspend", "closing"},
           \A i \in 1..Len(due') : due'[i].by = attempt,
           \A i \in 1..Len(x) : /\ x[i].what \notin Waking
                                /\ x[i].what # "observation" => x[i].size = 1,
           \A i \in 1..Len(x) :
              x[i].what \in Answer =>
                  /\ i > 1 /\ x[i - 1].turn = x[i].turn
                  /\ x[i - 1].what = IF x[i].what = "observation" THEN "reply" ELSE "refused",
           \/ mem'.turn = mem.turn
           \/ \E i \in 1..Len(x) : x[i].what \in Assistant /\ x[i].turn >= mem'.turn - 1,
           Only(Lived, attempt, Rows(due')) = Only(Lived, 0, Rows(x))
    PROVE  IInv'
<1>1. Awake /\ pc # "wake" /\ pc' \notin {"off", "wake", "kept"}
  BY DEF Awake
<1>2. FramingKept' /\ TurnsWhole' /\ ToldFirst'
  BY <1>1, Grow
<1>3. Remembers'
  BY <1>1, Recall
<1>4. AtRest' /\ JustKept'
  BY <1>1 DEF AtRest, JustKept
<1>5. InTurn'
  BY <1>1 DEF IInv, InTurn
<1>. QED BY <1>2, <1>3, <1>4, <1>5 DEF IInv

\* The last step has been taken: nothing changes but what comes next.
LEMMA SpentStep ==
    ASSUME IInv, TypeOK', Spent
    PROVE  IInv'
<1>. DEFINE x == <<>>
<1>1. /\ due = <<>> /\ due' = <<>> /\ pc = "step" /\ pc' = "suspend"
      /\ UNCHANGED <<live, told, attempt, archive, mem>>
  BY DEF Spent, Idle, store, talk
<1>2. live \in Seq(Message)
  BY TypeIs DEF IInv
<1>3. /\ live' = live \o x /\ x \in Seq(Message) /\ Len(x) = 0
      /\ Only(Lived, attempt, Rows(due')) = Only(Lived, 0, Rows(x))
      /\ \A i \in 1..Len(due') : FALSE
  <2>1. live = live \o <<>> /\ <<>> \in Seq(Message) /\ Len(<<>>) = 0
    BY <1>2, Nothing
  <2>2. \A kinds, since : Only(kinds, since, Rows(<<>>)) = <<>>
    BY <1>2, Nothing
  <2>. QED BY <1>1, <2>1, <2>2
<1>. HIDE DEF x
<1>4. \A i \in 1..Len(x) : FALSE
  BY <1>3
<1>. QED BY <1>1, <1>3, <1>4, Adds

\* The checkpoint is archived and is no part of the life.
LEMMA SuspendStep ==
    ASSUME IInv, TypeOK', Suspend
    PROVE  IInv'
<1>. DEFINE x == <<>>
<1>1. /\ due = <<>> /\ pc = "suspend" /\ pc' = "closing"
      /\ UNCHANGED <<live, told, attempt, archive, mem>>
      /\ due' = <<>> \/ due' = <<Msg("suspend"), Msg("suspend")>>
  BY DEF Suspend, Idle
<1>2. live \in Seq(Message) /\ TypeOK
  BY TypeIs DEF IInv
<1>3. live' = live \o x /\ x \in Seq(Message) /\ Len(x) = 0 /\ Only(Lived, 0, Rows(x)) = <<>>
  <2>1. live = live \o <<>> /\ <<>> \in Seq(Message) /\ Len(<<>>) = 0
    BY <1>2, Nothing
  <2>2. \A kinds, since : Only(kinds, since, Rows(<<>>)) = <<>>
    BY <1>2, Nothing
  <2>. QED BY <1>1, <2>1, <2>2
<1>. HIDE DEF x
<1>4. \A i \in 1..Len(x) : FALSE
  BY <1>3
<1>5. \A i \in 1..Len(due') : due'[i].by = attempt /\ due'[i].what \notin Lived
  <2>1. CASE due' = <<>>
    <3>1. Len(due') = 0
      BY <2>1
    <3>. QED BY <3>1
  <2>2. CASE due' = <<Msg("suspend"), Msg("suspend")>>
    <3>1. Msg("suspend") \in Message /\ Msg("suspend").by = attempt /\ Msg("suspend").what = "suspend"
      BY <1>2, TurnIs
    <3>2. Len(due') = 2 /\ 1..2 = {1, 2} /\ due'[1] = Msg("suspend") /\ due'[2] = Msg("suspend")
      BY <2>2, <3>1, PairIs
    <3>. QED BY <3>1, <3>2, Kinds
  <2>. QED BY <1>1, <2>1, <2>2
<1>6. Only(Lived, attempt, Rows(due')) = <<>>
  <2>1. due' \in Seq(Message)
    BY DEF TypeOK
  <2>. QED BY <1>5, <2>1, NothingLived
<1>. QED BY <1>1, <1>3, <1>4, <1>5, <1>6, Adds

\* A nudge is said and not lived.
LEMMA PonderStep ==
    ASSUME IInv, TypeOK', Ponder
    PROVE  IInv'
<1>1. PICK clock \in Later(mem.clock) :
         /\ live' = live \o Nudges(clock)
         /\ mem' = [mem EXCEPT !.clock = clock, !.repair = 0,
                               !.reminded = @ \/ StepNudge, !.late = @ \/ TimeNudge(clock)]
         /\ pc' = IF clock = "margin" THEN "suspend" ELSE "asked"
  BY DEF Ponder
<1>2. /\ due = <<>> /\ due' = <<>> /\ pc = "step" /\ pc' \in {"asked", "suspend"}
      /\ UNCHANGED <<told, attempt, archive>>
  BY <1>1 DEF Ponder, Idle, store
<1>3. live \in Seq(Message) /\ TypeOK
  BY TypeIs DEF IInv
<1>4. mem'.turn = mem.turn
  BY <1>1, <1>3, Counters
<1>. DEFINE x == Nudges(clock)
<1>5. /\ x \in Seq(Message) /\ live' = live \o x
      /\ \A i \in 1..Len(x) : x[i].what = "nudge" /\ x[i].size = 1
  BY <1>1, <1>3, NudgesAre
<1>. HIDE DEF x
<1>6. \A i \in 1..Len(x) : x[i].what \notin Waking /\ x[i].what \notin Answer /\ x[i].what \notin Lived
  BY <1>5, Kinds
<1>7. Only(Lived, attempt, Rows(due')) = Only(Lived, 0, Rows(x))
  <2>1. Only(Lived, 0, Rows(x)) = <<>>
    BY <1>5, <1>6, NothingLived
  <2>2. \A kinds, since : Only(kinds, since, Rows(<<>>)) = <<>>
    BY <1>3, Nothing
  <2>. QED BY <1>2, <2>1, <2>2
<1>8. \A i \in 1..Len(due') : FALSE
  <2>1. Len(due') = 0
    BY <1>2
  <2>. QED BY <2>1
<1>. QED BY <1>2, <1>4, <1>5, <1>6, <1>7, <1>8, Adds

\* A refused reply and its correction are said and not lived.
LEMMA CorrectStep ==
    ASSUME IInv, TypeOK', Correct
    PROVE  IInv'
<1>. DEFINE x == <<Msg("refused"), Msg("correction")>>
<1>1. /\ due = <<>> /\ due' = <<>> /\ pc = "asked" /\ pc' = "asked"
      /\ live' = live \o x /\ UNCHANGED <<told, attempt, archive>>
      /\ mem' = [mem EXCEPT !.repair = @ + 1, !.turn = @ + 1]
  BY DEF Correct, Idle, store
<1>2. live \in Seq(Message) /\ TypeOK /\ mem.turn \in Nat
  BY TypeIs DEF IInv
<1>3. mem'.turn = mem.turn + 1
  BY <1>1, <1>2, Counters
<1>4. /\ x \in Seq(Message) /\ Len(x) = 2 /\ 1..2 = {1, 2}
      /\ x[1].what = "refused" /\ x[1].turn = mem.turn /\ x[1].size = 1
      /\ x[2].what = "correction" /\ x[2].turn = mem.turn /\ x[2].size = 1
  BY <1>2, TurnIs, PairIs
<1>. HIDE DEF x
<1>5. \A i \in 1..Len(x) : x[i].what \notin Waking /\ x[i].what \notin Lived /\ x[i].size = 1
  BY <1>4, Kinds
<1>6. \A i \in 1..Len(x) :
         x[i].what \in Answer =>
             /\ i > 1 /\ x[i - 1].turn = x[i].turn
             /\ x[i - 1].what = IF x[i].what = "observation" THEN "reply" ELSE "refused"
  <2>1. x[1].what \notin Answer /\ 2 - 1 = 1 /\ 2 > 1
    BY <1>4, Kinds
  <2>. QED BY <1>4, <2>1
<1>7. \E i \in 1..Len(x) : x[i].what \in Assistant /\ x[i].turn >= mem'.turn - 1
  <2>1. x[1].what \in Assistant /\ x[1].turn >= mem'.turn - 1 /\ 1 \in 1..Len(x)
    BY <1>2, <1>3, <1>4, Kinds
  <2>. QED BY <2>1
<1>8. Only(Lived, attempt, Rows(due')) = Only(Lived, 0, Rows(x))
  <2>1. Only(Lived, 0, Rows(x)) = <<>>
    BY <1>4, <1>5, NothingLived
  <2>2. \A kinds, since : Only(kinds, since, Rows(<<>>)) = <<>>
    BY <1>2, Nothing
  <2>. QED BY <1>1, <2>1, <2>2
<1>9. \A i \in 1..Len(due') : FALSE
  <2>1. Len(due') = 0
    BY <1>1
  <2>. QED BY <2>1
<1>. QED BY <1>1, <1>4, <1>5, <1>6, <1>7, <1>8, <1>9, Adds

\* The concluding reply is lived and is to be archived.
LEMMA ConcludeStep ==
    ASSUME IInv, TypeOK', Conclude
    PROVE  IInv'
<1>. DEFINE x == <<Msg("reply")>>
<1>1. /\ due = <<>> /\ due' = x /\ pc = "asked" /\ pc' = "suspend"
      /\ live' = Append(live, Msg("reply")) /\ UNCHANGED <<told, attempt, archive, mem>>
  BY DEF Conclude, Idle, store
<1>2. live \in Seq(Message) /\ TypeOK /\ attempt \in Nat
  BY TypeIs DEF IInv
<1>3. /\ Msg("reply") \in Message /\ Msg("reply").what = "reply" /\ Msg("reply").by = attempt
      /\ Msg("reply").size = 1
  BY <1>2, TurnIs
<1>4. live' = live \o x
  <2>1. live \o <<>> = live /\ <<>> \in Seq(Message)
    BY <1>2, SmallJoins
  <2>2. Append(live \o <<>>, Msg("reply")) = live \o Append(<<>>, Msg("reply"))
    BY <1>2, <1>3, <2>1, AppendJoin
  <2>3. Append(<<>>, Msg("reply")) = x
    BY <1>3
  <2>. QED BY <1>1, <2>1, <2>2, <2>3
<1>5. /\ x \in Seq(Message) /\ Len(x) = 1 /\ 1..1 = {1}
      /\ x[1].what = "reply" /\ x[1].by = attempt /\ x[1].size = 1
  BY <1>3, PairIs
<1>. HIDE DEF x
<1>6. \A i \in 1..Len(x) : /\ x[i].what \notin Waking /\ x[i].what \notin Answer
                           /\ x[i].size = 1 /\ x[i].by = attempt
  BY <1>5, Kinds
<1>7. Only(Lived, attempt, Rows(due')) = Only(Lived, 0, Rows(x))
  <2>1. Rows(x) = x
    BY <1>5, <1>6, RowsSame
  <2>2. \A i \in 1..Len(x) : Passes(Lived, attempt, x[i]) <=> Passes(Lived, 0, x[i])
    BY <1>2, <1>6 DEF Passes
  <2>. QED BY <1>1, <1>5, <2>1, <2>2, OnlyAgree
<1>. QED BY <1>1, <1>4, <1>5, <1>6, <1>7, Adds

\* A turn is lived and is to be archived, as a whole.
LEMMA ActStep ==
    ASSUME IInv, TypeOK', Act
    PROVE  IInv'
<1>1. PICK n \in Sizes : /\ live' = live \o <<Msg("reply"), Sized("observation", n)>>
                         /\ due' = <<Msg("reply"), Sized("observation", n)>>
  BY DEF Act
<1>. DEFINE x == <<Msg("reply"), Sized("observation", n)>>
<1>2. /\ due = <<>> /\ due' = x /\ pc = "asked" /\ pc' = "kept"
      /\ live' = live \o x /\ UNCHANGED <<told, attempt, archive, mem>>
  BY <1>1 DEF Act, Idle, store
<1>3. live \in Seq(Message) /\ TypeOK /\ attempt \in Nat
  BY TypeIs DEF IInv
<1>4. /\ x \in Seq(Message) /\ Len(x) = 2 /\ 1..2 = {1, 2}
      /\ x[1].what = "reply" /\ x[1].turn = mem.turn /\ x[1].size = 1 /\ x[1].by = attempt
      /\ x[2].what = "observation" /\ x[2].turn = mem.turn /\ x[2].by = attempt
  BY <1>3, TurnIs, PairIs
<1>. HIDE DEF x
<1>5. \A i \in 1..Len(x) : /\ x[i].what \notin Waking /\ x[i].by = attempt
                           /\ x[i].what # "observation" => x[i].size = 1
  BY <1>4, Kinds
<1>6. \A i \in 1..Len(x) :
         x[i].what \in Answer =>
             /\ i > 1 /\ x[i - 1].turn = x[i].turn
             /\ x[i - 1].what = IF x[i].what = "observation" THEN "reply" ELSE "refused"
  <2>1. x[1].what \notin Answer /\ 2 - 1 = 1 /\ 2 > 1
    BY <1>4, Kinds
  <2>. QED BY <1>4, <2>1
<1>7. Only(Lived, attempt, Rows(due')) = Only(Lived, 0, Rows(x))
  <2>1. Rows(x) \in Seq(Message) /\ Len(Rows(x)) = Len(x)
        /\ \A i \in 1..Len(x) : Rows(x)[i] = Row(x[i]) /\ x[i] \in Message
    BY <1>4, RowsAre
  <2>2. \A i \in 1..Len(x) : Rows(x)[i].by = attempt
    <3>1. \A m \in Message : Row(m).by = m.by
      BY RowIs
    <3>2. \A i \in 1..Len(x) : x[i] \in Message /\ x[i].by = attempt /\ Rows(x)[i] = Row(x[i])
      BY <1>5, <2>1
    <3>. QED BY <3>1, <3>2
  <2>3. \A i \in 1..Len(Rows(x)) : Passes(Lived, attempt, Rows(x)[i]) <=> Passes(Lived, 0, Rows(x)[i])
    BY <1>3, <2>1, <2>2 DEF Passes
  <2>. QED BY <1>2, <2>1, <2>3, OnlyAgree
<1>8. Awake /\ pc # "wake"
  BY <1>2 DEF Awake
<1>9. FramingKept' /\ TurnsWhole' /\ ToldFirst'
  BY <1>2, <1>4, <1>5, <1>6, <1>8, Grow
<1>10. Remembers'
  BY <1>2, <1>4, <1>7, <1>8, Recall
<1>11. AtRest'
  BY <1>2 DEF AtRest
<1>12. InTurn'
  BY <1>2, <1>5 DEF IInv, InTurn
<1>13. JustKept'
  <2>1. /\ Len(live) \in Nat /\ Len(live') = Len(live) + Len(x)
        /\ \A i \in Len(live) + 1..Len(live) + Len(x) : live'[i] = x[i - Len(live)]
    BY <1>2, <1>3, <1>4, JoinIs
  <2>. DEFINE m == Len(live')
  <2>2. /\ m = Len(live) + 2 /\ m > 1 /\ m - 1 - Len(live) = 1 /\ m - Len(live) = 2
        /\ m - 1 \in Len(live) + 1..Len(live) + Len(x) /\ m \in Len(live) + 1..Len(live) + Len(x)
    BY <1>4, <2>1
  <2>3. live'[m - 1] = x[1] /\ live'[m] = x[2]
    BY <2>1, <2>2
  <2>. QED BY <1>2, <1>4, <2>2, <2>3 DEF JustKept
<1>. QED BY <1>9, <1>10, <1>11, <1>12, <1>13 DEF IInv

\* Compaction cuts a run of turns, the first kept, out from behind the framing.
LEMMA CutStep ==
    ASSUME IInv, TypeOK', pc = "kept", pc' = "step", due = <<>>, due' = <<>>,
           UNCHANGED <<told, attempt, archive>>, mem'.turn = mem.turn + 1,
           NEW p \in 1..Len(live), NEW q \in p..Len(live),
           live[p].what \in Assistant,
           \A j \in 1..p - 1 : live[j].what \notin Assistant,
           q = p \/ live[q].what \in Assistant \/ live[q - 1].what \notin Assistant,
           live' = SubSeq(live, 1, p - 1) \o SubSeq(live, q, Len(live))
    PROVE  IInv'
<1>. DEFINE n == Len(live)
            P == SubSeq(live, 1, p - 1)
            F == SubSeq(live, p, q - 1)
            B == SubSeq(live, q, n)
<1>1. live \in Seq(Message) /\ told \in Seq(Message) /\ archive \in Seq(Message) /\ mem.turn \in Nat /\ attempt \in Nat
  BY TypeIs DEF IInv
<1>2. /\ n \in Nat /\ p \in 1..n /\ q \in p..n /\ DOMAIN live = 1..n
      /\ p \in Nat /\ q \in Nat /\ 1 <= p /\ p <= q /\ q <= n
  <2>1. n \in Nat /\ p \in 1..n /\ q \in p..n /\ DOMAIN live = 1..n
    BY <1>1
  <2>. HIDE DEF n
  <2>. QED BY <2>1
<1>3. /\ P \in Seq(Message) /\ Len(P) = p - 1
      /\ \A i \in 1..p - 1 : P[i] = live[i]
      /\ F \in Seq(Message) /\ Len(F) = q - p
      /\ \A i \in 1..q - p : F[i] = live[p + i - 1]
      /\ B \in Seq(Message) /\ Len(B) = n + 1 - q
      /\ \A i \in 1..n + 1 - q : B[i] = live[q + i - 1]
      /\ live = P \o (F \o B)
  BY <1>1, CutInPieces, ZenonT(30)
<1>4. live' = P \o B
  OBVIOUS
<1>. HIDE DEF n, P, F, B
<1>5. /\ live' \in Seq(Message) /\ Len(live') = (p - 1) + (n + 1 - q)
      /\ \A i \in 1..p - 1 : live'[i] = live[i]
      /\ \A i \in p..Len(live') : live'[i] = live[q + i - p]
      /\ DOMAIN live' = 1..Len(live')
  <2>1. /\ P \o B \in Seq(Message) /\ Len(P \o B) = Len(P) + Len(B)
        /\ \A i \in 1..Len(P) : (P \o B)[i] = P[i]
        /\ \A i \in Len(P) + 1..Len(P) + Len(B) : (P \o B)[i] = B[i - Len(P)]
    BY <1>3, JoinIs
  <2>2. live' \in Seq(Message) /\ Len(live') = (p - 1) + (n + 1 - q)
    BY <1>3, <1>4, <2>1
  <2>3. \A i \in 1..p - 1 : live'[i] = live[i]
    BY <1>3, <1>4, <2>1
  <2>4. ASSUME NEW i \in p..Len(live') PROVE live'[i] = live[q + i - p]
    <3>5. i \in Int /\ p <= i /\ i <= (p - 1) + (n + 1 - q)
      BY <1>2, <2>2
    <3>6. Len(P) = p - 1 /\ Len(B) = n + 1 - q
      BY <1>3
    <3>1. i \in Len(P) + 1..Len(P) + Len(B) /\ i - Len(P) = i - p + 1 /\ i - p + 1 \in 1..n + 1 - q
      BY <1>2, <3>5, <3>6
    <3>2. live'[i] = B[i - p + 1]
      BY <1>4, <2>1, <3>1
    <3>3. i \in Int /\ q + (i - p + 1) - 1 = q + i - p
      BY <1>2
    <3>4. B[i - p + 1] = live[q + (i - p + 1) - 1]
      BY <1>3, <3>1
    <3>. QED BY <3>2, <3>3, <3>4
  <2>. QED BY <2>2, <2>3, <2>4
<1>6. /\ ToldFirst /\ TurnsWhole /\ JustKept
      /\ Only(Waking, 0, live) = told
  <2>1. Awake
    BY DEF Awake
  <2>. QED BY <2>1 DEF IInv, FramingKept
<1>7. n > 1 /\ live[n - 1].what = "reply" /\ live[n].what = "observation" /\ live[n - 1].turn = mem.turn
  BY <1>6 DEF JustKept, n
<1>8. q <= n - 1
  <2>1. live[n].what \notin Assistant /\ live[n - 1].what \in Assistant
    BY <1>7, Kinds
  <2>2. q # n
    BY <2>1
  <2>. QED BY <1>2, <2>2
\* The places of the list that is left, in the list that was.
<1>. DEFINE Old(i) == IF i < p THEN i ELSE q + i - p
<1>9. \A i \in 1..Len(live') : Old(i) \in 1..n /\ live'[i] = live[Old(i)]
  <2>. SUFFICES ASSUME NEW i \in 1..Len(live') PROVE Old(i) \in 1..n /\ live'[i] = live[Old(i)]
    OBVIOUS
  <2>1. CASE i < p
    <3>1. i \in 1..p - 1 /\ i \in 1..n
      BY <1>2, <1>5, <2>1, SMTT(30)
    <3>. QED BY <1>5, <2>1, <3>1
  <2>2. CASE ~(i < p)
    <3>1. i \in p..Len(live')
      BY <1>2, <1>5, <2>2
    <3>2. i \in Nat /\ p <= i /\ i <= (p - 1) + (n + 1 - q)
      BY <1>2, <1>5, <3>1
    <3>3. q + i - p \in 1..n
      BY <1>2, <3>2
    <3>. QED BY <1>5, <2>2, <3>1, <3>3
  <2>. QED BY <2>1, <2>2
<1>10. \A i, j \in 1..Len(live') : i < j => Old(i) < Old(j)
  BY <1>2, <1>5
<1>11. ToldFirst'
  <2>1. \A i, j \in 1..Len(live') : i < j /\ live'[i].what \in Assistant => live'[j].what \notin Waking
    <3>. HIDE DEF Old
    <3>. QED BY <1>6, <1>9, <1>10 DEF ToldFirst, n
  <2>2. \A i \in 1..Len(live') : live'[i].what # "observation" => live'[i].size = 1
    <3>. HIDE DEF Old
    <3>. QED BY <1>6, <1>9 DEF ToldFirst, n
  <2>. QED BY <2>1, <2>2 DEF ToldFirst
<1>12. \A i \in 1..n : live[i].what \in Answer =>
          /\ i > 1 /\ live[i - 1].turn = live[i].turn /\ live[i - 1].what \in Assistant
          /\ live[i - 1].what = IF live[i].what = "observation" THEN "reply" ELSE "refused"
  <2>1. \A i \in 1..n : live[i].what \in Answer =>
           /\ i > 1 /\ live[i - 1].turn = live[i].turn
           /\ live[i - 1].what = IF live[i].what = "observation" THEN "reply" ELSE "refused"
    BY <1>2, <1>6 DEF TurnsWhole
  <2>. QED BY <2>1, Kinds
<1>13. ASSUME NEW i \in 1..Len(live'), live'[i].what \in Answer
       PROVE  /\ i > 1 /\ live'[i - 1].turn = live'[i].turn
              /\ live'[i - 1].what = IF live'[i].what = "observation" THEN "reply" ELSE "refused"
  <2>1. CASE i < p
    <3>1. i \in 1..p - 1 /\ i \in 1..n
      BY <1>2, <1>5, <2>1, SMTT(30)
    <3>2. live'[i] = live[i]
      BY <1>5, <3>1
    <3>3. i > 1 /\ live[i - 1].turn = live[i].turn
          /\ live[i - 1].what = IF live[i].what = "observation" THEN "reply" ELSE "refused"
      BY <1>12, <1>13, <3>1, <3>2
    <3>4. i - 1 \in 1..p - 1
      BY <1>2, <3>1, <3>3
    <3>5. live'[i - 1] = live[i - 1]
      BY <1>5, <3>4
    <3>. QED BY <3>2, <3>3, <3>5
  <2>2. CASE i = p
    <3>1. live'[i] = live[q]
      <4>1. i \in p..Len(live') /\ q + i - p = q
        BY <1>2, <1>5, <2>2
      <4>. QED BY <1>5, <4>1
    <3>2. live[q].what \in Answer /\ q \in 1..n
      BY <1>2, <1>13, <3>1
    <3>3. live[q - 1].what \in Assistant /\ live[q].what \notin Assistant
      BY <1>12, <3>2, Kinds
    <3>. QED BY <3>3
  <2>3. CASE i > p
    <3>1. /\ i \in p..Len(live') /\ i - 1 \in p..Len(live') /\ i > 1
          /\ i \in Nat /\ i <= (p - 1) + (n + 1 - q)
      BY <1>2, <1>5, <2>3, SMTT(30)
    <3>3. q + i - p \in 1..n /\ q + (i - 1) - p = (q + i - p) - 1
      BY <1>2, <2>3, <3>1
    <3>4. live'[i] = live[q + i - p] /\ live'[i - 1] = live[q + (i - 1) - p]
      BY <1>5, <3>1
    <3>2. live'[i] = live[q + i - p] /\ live'[i - 1] = live[(q + i - p) - 1]
      BY <3>3, <3>4
    <3>. QED BY <1>12, <1>13, <3>1, <3>2, <3>3
  <2>. QED BY <1>2, <1>5, <2>1, <2>2, <2>3
<1>14. TurnsWhole'
  <2>. DEFINE k == p + (n - 1 - q)
  <2>1. k \in p..Len(live') /\ k \in 1..Len(live') /\ q + k - p = n - 1
    <3>1. /\ n \in Nat /\ p \in Nat /\ q \in Nat /\ 1 <= p /\ p <= q /\ q <= n - 1
          /\ Len(live') = (p - 1) + (n + 1 - q)
      BY <1>2, <1>5, <1>8
    <3>2. k \in Int /\ p <= k /\ 1 <= k /\ k <= (p - 1) + (n + 1 - q) /\ q + k - p = n - 1
      BY <3>1
    <3>. HIDE DEF k
    <3>3. Len(live') \in Nat /\ k <= Len(live')
      BY <3>1, <3>2
    <3>. QED BY <3>1, <3>2, <3>3
  <2>2. live'[k] = live[n - 1]
    BY <1>5, <2>1
  <2>. HIDE DEF k
  <2>4. live'[k].turn = mem.turn /\ live'[k].what = "reply"
    BY <1>7, <2>2
  <2>5. mem.turn >= mem'.turn - 1
    BY <1>1
  <2>3. live'[k].turn >= mem'.turn - 1 /\ live'[k].what \in Assistant
    BY <2>4, <2>5, Kinds
  <2>. QED BY <1>5, <1>13, <2>1, <2>3 DEF TurnsWhole
\* Before the cut, none of a turn; after it, nothing that was told.
<1>15. \A i \in 1..Len(P) : P[i].what \notin Assistant /\ P[i].what # "observation" /\ P[i].size = 1
  <2>. SUFFICES ASSUME NEW i \in 1..Len(P)
                PROVE  P[i].what \notin Assistant /\ P[i].what # "observation" /\ P[i].size = 1
    OBVIOUS
  <2>1. i \in 1..p - 1 /\ i \in 1..n /\ P[i] = live[i]
    BY <1>2, <1>3
  <2>2. P[i].what \notin Assistant
    BY <2>1
  <2>3. P[i].what # "observation"
    <3>. SUFFICES ASSUME live[i].what = "observation" PROVE FALSE
      BY <2>1
    <3>1. i > 1 /\ live[i - 1].what \in Assistant
      BY <1>12, <2>1, Kinds
    <3>2. i - 1 \in 1..p - 1
      BY <1>2, <2>1, <3>1
    <3>. QED BY <3>1, <3>2
  <2>. QED BY <1>6, <2>1, <2>2, <2>3 DEF ToldFirst, n
<1>16. \A i \in p..n : live[i].what \notin Waking
  <2>1. live[p].what \notin Waking
    BY Kinds
  <2>. QED BY <1>2, <1>6, <2>1 DEF ToldFirst, n
<1>17. F \o B \in Seq(Message)
  BY <1>3
<1>23. \A i \in 1..Len(F) : p + i - 1 \in p..n /\ F[i] = live[p + i - 1]
  <2>. SUFFICES ASSUME NEW i \in 1..Len(F) PROVE p + i - 1 \in p..n /\ F[i] = live[p + i - 1]
    OBVIOUS
  <2>1. i \in 1..q - p
    BY <1>3
  <2>2. p + i - 1 \in p..n
    BY <1>2, <2>1
  <2>. QED BY <1>3, <2>1, <2>2
<1>24. \A i \in 1..Len(B) : q + i - 1 \in p..n /\ B[i] = live[q + i - 1]
  <2>. SUFFICES ASSUME NEW i \in 1..Len(B) PROVE q + i - 1 \in p..n /\ B[i] = live[q + i - 1]
    OBVIOUS
  <2>1. i \in 1..n + 1 - q
    BY <1>3
  <2>2. q + i - 1 \in p..n
    BY <1>2, <2>1
  <2>. QED BY <1>3, <2>1, <2>2
<1>18. Only(Waking, 0, P) = told
  <2>1. Only(Waking, 0, live) = Only(Waking, 0, P) \o Only(Waking, 0, F \o B)
    BY <1>3, <1>17, OnlyJoin
  <2>2. Only(Waking, 0, F \o B) = Only(Waking, 0, F) \o Only(Waking, 0, B)
    BY <1>3, OnlyJoin, ZenonT(30)
  <2>3. Only(Waking, 0, F) = <<>>
    <3>1. \A i \in 1..Len(F) : ~Passes(Waking, 0, F[i])
      BY <1>16, <1>23 DEF Passes
    <3>. QED BY <1>3, <3>1, OnlyNone
  <2>4. Only(Waking, 0, B) = <<>>
    <3>1. \A i \in 1..Len(B) : ~Passes(Waking, 0, B[i])
      BY <1>16, <1>24 DEF Passes
    <3>. QED BY <1>3, <3>1, OnlyNone
  <2>5. <<>> \o <<>> = <<>> /\ Only(Waking, 0, P) \o <<>> = Only(Waking, 0, P)
    <3>1. Only(Waking, 0, P) \in Seq(Message) /\ <<>> \in Seq(Message)
      BY <1>3, OnlyType, SmallJoins
    <3>. QED BY <3>1, SmallJoins
  <2>. QED BY <1>6, <2>1, <2>2, <2>3, <2>4, <2>5
<1>19. FramingKept'
  <2>1. Only(Waking, 0, P \o B) = Only(Waking, 0, P) \o Only(Waking, 0, B)
    BY <1>3, OnlyJoin, ZenonT(30)
  <2>3. \A i \in 1..Len(B) : ~Passes(Waking, 0, B[i])
    BY <1>16, <1>24 DEF Passes
  <2>4. Only(Waking, 0, B) = <<>>
    BY <1>3, <2>3, OnlyNone
  <2>5. told \o <<>> = told
    BY <1>1, SmallJoins
  <2>6. Only(Waking, 0, live') = told'
    BY <1>4, <1>18, <2>1, <2>4, <2>5
  <2>. QED BY <2>6 DEF FramingKept
<1>20. Remembers'
  <2>. DEFINE lF == Only(Lived, 0, Rows(F))
              lB == Only(Lived, 0, Rows(B))
  <2>1. /\ Rows(P) \in Seq(Message) /\ Rows(F) \in Seq(Message) /\ Rows(B) \in Seq(Message)
        /\ lF \in Seq(Message) /\ lB \in Seq(Message)
    BY <1>3, RowsAre, OnlyType
  <2>2. Only(Lived, 0, Rows(P)) = told
    <3>1. Rows(P) = P
      BY <1>3, <1>15, RowsSame
    <3>2. \A i \in 1..Len(P) : Passes(Lived, 0, P[i]) <=> Passes(Waking, 0, P[i])
      <4>1. \A i \in 1..Len(P) : P[i].what \in Lived <=> P[i].what \in Waking
        BY <1>15, Kinds
      <4>. QED BY <4>1 DEF Passes
    <3>3. Only(Lived, 0, P) = Only(Waking, 0, P)
      BY <1>3, <3>2, OnlyAgree
    <3>. QED BY <1>18, <3>1, <3>3
  <2>3. Only(Lived, 0, Rows(live)) = told \o (lF \o lB)
    <3>1. Rows(live) = Rows(P) \o Rows(F \o B)
      BY <1>3, <1>17, RowsJoin
    <3>2. Rows(F \o B) = Rows(F) \o Rows(B)
      BY <1>3, RowsJoin
    <3>3. Rows(F) \o Rows(B) \in Seq(Message)
      BY <2>1
    <3>4. Only(Lived, 0, Rows(P) \o (Rows(F) \o Rows(B))) = Only(Lived, 0, Rows(P)) \o Only(Lived, 0, Rows(F) \o Rows(B))
      BY <2>1, <3>3, OnlyJoin
    <3>5. Only(Lived, 0, Rows(F) \o Rows(B)) = lF \o lB
      BY <2>1, OnlyJoin
    <3>. QED BY <2>2, <3>1, <3>2, <3>4, <3>5
  <2>4. Only(Lived, 0, Rows(live')) = told \o lB
    <3>1. Rows(P \o B) = Rows(P) \o Rows(B)
      BY <1>3, RowsJoin
    <3>2. Only(Lived, 0, Rows(P) \o Rows(B)) = Only(Lived, 0, Rows(P)) \o lB
      BY <2>1, OnlyJoin
    <3>. QED BY <1>4, <2>2, <3>1, <3>2
  <2>. HIDE DEF lF, lB
  <2>5. PICK shed \in Seq(Message), rest \in Seq(Message) :
           /\ Memories = told \o (shed \o rest)
           /\ Only(Lived, 0, Rows(live)) = told \o rest
    <3>1. Awake
      BY DEF Awake
    <3>. QED BY <3>1 DEF IInv, Remembers
  <2>6. rest = lF \o lB
    <3>3. told \o (lF \o lB) = told \o rest
      BY <2>3, <2>5
    <3>4. \A a, b \in Seq(Message) : a \o b \in Seq(Message)
      OBVIOUS
    <3>5. lF \in Seq(Message) /\ lB \in Seq(Message)
      BY <2>1
    <3>6. lF \o lB \in Seq(Message)
      BY <3>4, <3>5, Zenon
    <3>1. told \o (lF \o lB) = told \o rest /\ lF \o lB \in Seq(Message)
      BY <3>3, <3>6
    <3>2. \A a, b, c \in Seq(Message) : a \o b = a \o c => b = c
      BY JoinCancels
    <3>. QED BY <1>1, <3>1, <3>2, Zenon
  <2>7. Memories' = Memories
    <3>1. Memories' = Only(Lived, attempt, archive \o Rows(due'))
      BY DEF Memories, Rows, Row
    <3>. QED BY <3>1 DEF Memories
  <2>8. shed \o (lF \o lB) = (shed \o lF) \o lB /\ shed \o lF \in Seq(Message)
    <3>1. shed \in Seq(Message) /\ lF \in Seq(Message) /\ lB \in Seq(Message)
      BY <2>1, <2>5
    <3>2. \A b \in Seq(Message), c \in Seq(Message) : (shed \o b) \o c = shed \o (b \o c)
      BY <3>1, JoinIsAssociative
    <3>3. \A b \in Seq(Message) : shed \o b \in Seq(Message)
      BY <3>1
    <3>4. shed \o (lF \o lB) = (shed \o lF) \o lB
      BY <3>1, <3>2, ZenonT(30)
    <3>5. shed \o lF \in Seq(Message)
      BY <3>1, <3>3, ZenonT(30)
    <3>. QED BY <3>4, <3>5
  <2>9. Memories' = told' \o ((shed \o lF) \o lB) /\ Only(Lived, 0, Rows(live')) = told' \o lB
    BY <2>4, <2>5, <2>6, <2>7, <2>8
  <2>10. Remembers' <=> (Awake' => \E s, r \in Seq(Message) : Memories' = told' \o (s \o r)
                                       /\ Only(Lived, 0, Rows(live')) = told' \o r)
    BY DEF Remembers, Rows, Row
  <2>. QED BY <2>1, <2>8, <2>9, <2>10
<1>21. AtRest' /\ JustKept'
  BY DEF AtRest, JustKept
<1>22. InTurn'
  <2>1. Len(due') = 0
    OBVIOUS
  <2>. QED BY <2>1 DEF IInv, InTurn
<1>. QED BY <1>11, <1>14, <1>19, <1>20, <1>21, <1>22 DEF IInv

\* Compaction forgets whole turns at most, and none that is not remembered.
LEMMA ShedStep ==
    ASSUME IInv, TypeOK', Shed
    PROVE  IInv'
<1>1. /\ pc = "kept" /\ pc' = "step" /\ due = <<>> /\ due' = <<>>
      /\ UNCHANGED <<told, attempt, archive>>
      /\ live' \in Compacts(live)
      /\ mem' = [mem EXCEPT !.step = @ + 1, !.turn = @ + 1]
  BY DEF Shed, Idle, store
<1>2. live \in Seq(Message) /\ TypeOK /\ mem.turn \in Nat /\ Len(live) \in Nat /\ DOMAIN live = 1..Len(live)
  BY TypeIs DEF IInv
<1>3. mem'.turn = mem.turn + 1
  BY <1>1, <1>2, Counters
<1>4. CASE live' = live
  <2>1. Awake
    BY <1>1 DEF Awake
  <2>2. FramingKept' /\ ToldFirst'
    BY <1>1, <1>4, <2>1 DEF IInv, FramingKept, ToldFirst
  <2>3. TurnsWhole'
    <3>. DEFINE k == Len(live) - 1
    <3>1. k \in 1..Len(live) /\ live[k].what = "reply" /\ live[k].turn = mem.turn
      BY <1>1, <1>2 DEF IInv, JustKept
    <3>. HIDE DEF k
    <3>2. live[k].turn >= mem'.turn - 1 /\ live[k].what \in Assistant
      BY <1>2, <1>3, <3>1, Kinds
    <3>3. \A i \in DOMAIN live :
             live[i].what \in Answer =>
               /\ i > 1 /\ live[i - 1].turn = live[i].turn
               /\ live[i - 1].what = IF live[i].what = "observation" THEN "reply" ELSE "refused"
      BY DEF IInv, TurnsWhole
    <3>. QED BY <1>2, <1>4, <3>1, <3>2, <3>3 DEF TurnsWhole
  <2>4. Remembers'
    <3>1. Memories' = Memories
      <4>1. Memories' = Only(Lived, attempt, archive \o Rows(due'))
        BY <1>1 DEF Memories, Rows, Row
      <4>. QED BY <1>1, <4>1 DEF Memories
    <3>2. PICK shed \in Seq(Message), rest \in Seq(Message) :
             /\ Memories = told \o (shed \o rest)
             /\ Only(Lived, 0, Rows(live)) = told \o rest
      BY <2>1 DEF IInv, Remembers
    <3>3. Memories' = told' \o (shed \o rest) /\ Only(Lived, 0, Rows(live')) = told' \o rest
      BY <1>1, <1>4, <3>1, <3>2
    <3>4. Remembers' <=> (Awake' => \E s, r \in Seq(Message) : Memories' = told' \o (s \o r)
                                        /\ Only(Lived, 0, Rows(live')) = told' \o r)
      BY DEF Remembers, Rows, Row
    <3>. QED BY <3>3, <3>4
  <2>5. AtRest' /\ JustKept'
    BY <1>1 DEF AtRest, JustKept
  <2>6. InTurn'
    BY <1>1 DEF IInv, InTurn
  <2>. QED BY <2>2, <2>3, <2>4, <2>5, <2>6 DEF IInv
<1>5. CASE live' # live
  <2>1. live' = Compacted(live)
    BY <1>1, <1>2, <1>5, CompactsType
  <2>2. PICK p \in 1..Len(live) : \E q \in p..Len(live) :
           /\ live[p].what \in Assistant
           /\ \A j \in 1..p - 1 : live[j].what \notin Assistant
           /\ q = p \/ live[q].what \in Assistant \/ live[q - 1].what \notin Assistant
           /\ Compacted(live) = SubSeq(live, 1, p - 1) \o SubSeq(live, q, Len(live))
    BY <1>2, <1>5, <2>1, CompactedIs
  <2>3. PICK q \in p..Len(live) :
           /\ live[p].what \in Assistant
           /\ \A j \in 1..p - 1 : live[j].what \notin Assistant
           /\ q = p \/ live[q].what \in Assistant \/ live[q - 1].what \notin Assistant
           /\ Compacted(live) = SubSeq(live, 1, p - 1) \o SubSeq(live, q, Len(live))
    BY <2>2
  <2>. QED BY <1>1, <1>3, <2>1, <2>3, CutStep
<1>. QED BY <1>4, <1>5

\* Every step keeps the invariant.
LEMMA Kept ==
    ASSUME IInv, [Next]_vars
    PROVE  IInv'
<1>1. TypeOK'
  BY TypeStep DEF IInv
<1>2. CASE UNCHANGED vars
  <2>1. UNCHANGED <<attempt, pc, archive, live, due, told, mem>>
    BY <1>2 DEF vars, store, talk
  <2>2. AtRest' /\ InTurn' /\ ToldFirst' /\ JustKept'
    BY <2>1 DEF IInv, AtRest, InTurn, ToldFirst, JustKept
  <2>3. FramingKept' /\ TurnsWhole'
    BY <2>1 DEF IInv, FramingKept, TurnsWhole, Awake
  <2>4. Remembers'
    BY <2>1 DEF IInv, Remembers, Memories, Awake, Rows, Row
  <2>. QED BY <1>1, <2>2, <2>3, <2>4 DEF IInv
<1>3. CASE Closes \/ Dies
  BY <1>1, <1>3, GoneStep DEF Closes, Dies
<1>. QED BY <1>1, <1>2, <1>3, StartStep, AssembleStep, Append1Step, PonderStep, SpentStep,
            CorrectStep, ActStep, ShedStep, ConcludeStep, SuspendStep DEF Next, Worker

\* What the invariant says of the list and of the archive is what is to be shown.
LEMMA Remembered ==
    ASSUME IInv
    PROVE  WakesWhole /\ LifeIsArchived
<1>1. WakesWhole
  BY DEF IInv, WakesWhole
<1>2. ASSUME Awake
      PROVE  /\ IsPrefix(told, Memories)
             /\ \E k \in Len(told)..Len(Memories) :
                   Only(Lived, 0, Rows(live)) = told \o SubSeq(Memories, k + 1, Len(Memories))
  <2>1. told \in Seq(Message)
    BY TypeIs DEF IInv
  <2>2. PICK shed \in Seq(Message), rest \in Seq(Message) :
           /\ Memories = told \o (shed \o rest)
           /\ Only(Lived, 0, Rows(live)) = told \o rest
    BY <1>2 DEF IInv, Remembers
  <2>. DEFINE more == shed \o rest
              mine == told \o more
              k == Len(told) + Len(shed)
  <2>3. /\ more \in Seq(Message) /\ Len(shed) \in Nat /\ Len(rest) \in Nat
        /\ Len(more) = Len(shed) + Len(rest)
        /\ \A i \in Len(shed) + 1..Len(shed) + Len(rest) : more[i] = rest[i - Len(shed)]
    BY JoinIs
  <2>. HIDE DEF more
  <2>4. /\ mine \in Seq(Message) /\ Len(told) \in Nat
        /\ Len(mine) = Len(told) + Len(shed) + Len(rest)
        /\ \A i \in 1..Len(told) : mine[i] = told[i]
        /\ \A i \in Len(told) + 1..Len(told) + Len(more) : mine[i] = more[i - Len(told)]
    <3>1. /\ mine \in Seq(Message) /\ Len(told) \in Nat
          /\ Len(mine) = Len(told) + Len(more)
          /\ \A i \in 1..Len(told) : mine[i] = told[i]
          /\ \A i \in Len(told) + 1..Len(told) + Len(more) : mine[i] = more[i - Len(told)]
      BY <2>1, <2>3, JoinIs
    <3>. HIDE DEF mine
    <3>. QED BY <2>3, <3>1
  <2>. HIDE DEF mine
  <2>5. k \in Len(told)..Len(mine) /\ k \in Nat /\ Len(mine) \in Nat /\ k + Len(rest) = Len(mine)
    BY <2>3, <2>4
  <2>6. IsPrefix(told, mine)
    <3>. DEFINE whole == SubSeq(told, 1, Len(told))
                front == SubSeq(mine, 1, Len(told))
    <3>1. /\ whole \in Seq(Message) /\ Len(whole) = Len(told) + 1 - 1
          /\ \A i \in 1..Len(told) + 1 - 1 : whole[i] = told[1 + i - 1]
      <4>1. 1 \in 1..Len(told) + 1 /\ Len(told) \in 0..Len(told) /\ 1 <= Len(told) + 1
        BY <2>4
      <4>. QED BY <2>1, <4>1, SubSeqIs
    <3>2. /\ front \in Seq(Message) /\ Len(front) = Len(told) + 1 - 1
          /\ \A i \in 1..Len(told) + 1 - 1 : front[i] = mine[1 + i - 1]
      <4>1. 1 \in 1..Len(mine) + 1 /\ Len(told) \in 0..Len(mine) /\ 1 <= Len(told) + 1
        BY <2>3, <2>4
      <4>. QED BY <2>4, <4>1, SubSeqIs
    <3>. HIDE DEF whole, front
    <3>3. Len(told) + 1 - 1 = Len(told) /\ \A i \in 1..Len(told) : 1 + i - 1 = i
      BY <2>4
    <3>4. \A i \in 1..Len(whole) : whole[i] = front[i]
      BY <2>4, <3>1, <3>2, <3>3
    <3>5. whole = front
      BY <3>1, <3>2, <3>4, SameSeq
    <3>. QED BY <2>3, <2>4, <3>5 DEF IsPrefix, whole, front
  <2>7. rest = SubSeq(mine, k + 1, Len(mine))
    <3>. DEFINE back == SubSeq(mine, k + 1, Len(mine))
    <3>1. /\ back \in Seq(Message) /\ Len(back) = Len(mine) + 1 - (k + 1)
          /\ \A i \in 1..Len(mine) + 1 - (k + 1) : back[i] = mine[(k + 1) + i - 1]
      <4>. HIDE DEF k
      <4>1. k + 1 \in 1..Len(mine) + 1 /\ Len(mine) \in 0..Len(mine) /\ k + 1 <= Len(mine) + 1
        BY <2>3, <2>5
      <4>. QED BY <2>4, <4>1, SubSeqIs
    <3>. HIDE DEF back
    <3>2. Len(back) = Len(rest)
      BY <2>3, <2>4, <3>1
    <3>3. ASSUME NEW i \in 1..Len(rest) PROVE rest[i] = back[i]
      <4>1. /\ i \in 1..Len(mine) + 1 - (k + 1) /\ (k + 1) + i - 1 = k + i
            /\ k + i \in Len(told) + 1..Len(told) + Len(more) /\ k + i - Len(told) = Len(shed) + i
            /\ Len(shed) + i \in Len(shed) + 1..Len(shed) + Len(rest) /\ Len(shed) + i - Len(shed) = i
        BY <2>3, <2>4
      <4>. HIDE DEF k
      <4>2. back[i] = mine[k + i]
        BY <3>1, <4>1
      <4>3. mine[k + i] = more[Len(shed) + i]
        <5>. DEFINE j == k + i
        <5>1. j \in Len(told) + 1..Len(told) + Len(more) /\ j - Len(told) = Len(shed) + i
          BY <2>5, <4>1
        <5>. HIDE DEF j
        <5>2. mine[j] = more[j - Len(told)]
          BY <2>4, <5>1
        <5>3. mine[j] = more[Len(shed) + i]
          BY <5>1, <5>2
        <5>. QED BY <5>3 DEF j
      <4>4. more[Len(shed) + i] = rest[i]
        BY <2>3, <4>1
      <4>. QED BY <4>2, <4>3, <4>4
    <3>4. rest = back
      BY <3>1, <3>2, <3>3, SameSeq
    <3>. QED BY <3>4 DEF back
  <2>8. Memories = mine
    BY <2>2 DEF mine, more
  <2>. HIDE DEF k
  <2>. QED BY <2>2, <2>5, <2>6, <2>7, <2>8
<1>3. LifeIsArchived
  BY <1>2 DEF LifeIsArchived, Memories
<1>. QED BY <1>1, <1>3

\* IInv holds of every state.
LEMMA Inductive == Spec => []IInv
<1>1. Init => IInv
  BY InitInv
<1>2. IInv /\ [Next]_vars => IInv'
  BY Kept
<1>. QED BY <1>1, <1>2, PTL DEF Spec

\* Whatever is shed, corrected or nudged, a seat has in front of it all that its
\* waking told it, and whole turns (assemble_research_context, _cap_tail).
THEOREM WakesUpWhole == Spec => []WakesWhole
<1>1. IInv => WakesWhole
  BY Remembered
<1>. QED BY <1>1, Inductive, PTL

\* All that the seat has lived, what was shed from its list included, is in the
\* archive or about to be written there, in its order (session.append_message,
\* _maybe_compact).
THEOREM Archives == Spec => []LifeIsArchived
<1>1. IInv => LifeIsArchived
  BY Remembered
<1>. QED BY <1>1, Inductive, PTL

--------------------------------------------------------------------------------
(***************************************************************************)
(* The requests: from the judgment that opens one to the epoch it may      *)
(* become.  The scheduler's step is one of many phases here, so the        *)
(* inductive invariant says what a handler knows of its work between two   *)
(* of its transactions.                                                    *)
(***************************************************************************)
\* What a handler knows of its work between two of its transactions.
HandOK ==
    /\ stage # "none" => cur \in Work
    /\ stage = "finish" => cur \in Integrators /\ request[cur[1]] = "open"
    /\ stage \in {"link", "record"} => cur \in Experiments
    /\ stage = "link" => experiment[cur[1]] = "open"

\* A linked experiment belongs to an answered request, and what the resolve phase
\* still has to look at is submitted and linked.
StandingOK ==
    /\ \A r \in linked : request[r] \in {"submitted", "closed", "promoted"}
    /\ phase = "resolve" =>
          \A w \in todo : \E r \in linked : w = Experiment(r) /\ request[r] = "submitted"

RequestInv == IntegrationTypeOK /\ HandOK /\ StandingOK /\ EpochsChain

--------------------------------------------------------------------------------
\* Every step keeps the types; the work in hand decides those of the handlers.
LEMMA RequestTypesStep ==
    ASSUME IntegrationTypeOK, HandOK, [IntegrationNext]_integrationVars
    PROVE  IntegrationTypeOK'
<1>. USE IntegrationConfig DEF integrationVars, requestVars, workVars, envVars,
         schedVars, HandOK, Phases, IntegrationTypeOK, Work, Integrators, Experiments,
         Integrator, Experiment, Statuses, Proposals, Results, Answers,
         Outcomes, NoWork
<1>1. ASSUME NEW r \in Request, InfraFailed(r) PROVE  IntegrationTypeOK'
  BY <1>1 DEF InfraFailed, ExperimentResult, Take, InHand, Goto
<1>2. ASSUME NEW r \in Request, Measured(r) PROVE  IntegrationTypeOK'
  BY <1>2 DEF Measured, ExperimentResult, Take, InHand, Goto
<1>3. ASSUME NEW r \in Request, MeasuredTwice(r) \/ ResultUnread(r) PROVE  IntegrationTypeOK'
  BY <1>3 DEF MeasuredTwice, Stop, ResultUnread, Done
<1>4. ASSUME NEW r \in Request, OpenRequest(r) PROVE  IntegrationTypeOK'
  BY <1>4 DEF OpenRequest, Judging, InHand
<1>5. ASSUME NEW r \in Request, Promote(r) PROVE  IntegrationTypeOK'
  BY <1>5 DEF Promote, Reviewable, Reviewed, Judging, InHand
<1>6. ASSUME NEW r \in Request, Retain(r) PROVE  IntegrationTypeOK'
  BY <1>6 DEF Retain, Reviewable, Reviewed, Judging, InHand
<1>7. ASSUME NEW r \in Request, AnswerRefused(r) PROVE  IntegrationTypeOK'
  BY <1>7 DEF AnswerRefused, Answered, Take, InHand, Goto
<1>8. ASSUME NEW r \in Request, Abstained(r) PROVE  IntegrationTypeOK'
  BY <1>8 DEF Abstained, Answered, Usable, Take, InHand, Goto
<1>9. ASSUME NEW r \in Request, Publish(r) PROVE  IntegrationTypeOK'
  BY <1>9 DEF Publish, Answered, Usable, Take, InHand, Goto
<1>10. ASSUME NEW r \in Request, Drain(r) PROVE  IntegrationTypeOK'
  BY <1>10 DEF Drain, Take, InHand, Goto
<1>11. ASSUME NEW r \in Request, Schedule(r) PROVE  IntegrationTypeOK'
  BY <1>11 DEF Schedule, Take, InHand, Goto
<1>12. ASSUME NEW r \in Request, Resolve(r) PROVE  IntegrationTypeOK'
  BY <1>12 DEF Resolve, Take, InHand, Done
<1>13. ASSUME NEW w \in Work, Resubmit(w) PROVE  IntegrationTypeOK'
  BY <1>13 DEF Resubmit, Startable, Take, InHand, Goto
<1>14. ASSUME NEW w \in Work, ResubmitSkipped(w) PROVE  IntegrationTypeOK'
  BY <1>14 DEF ResubmitSkipped, Take, InHand, Done
<1>15. ASSUME NEW w \in Work, PollMiss(w) PROVE  IntegrationTypeOK'
  BY <1>15 DEF PollMiss, Take, InHand, Done
<1>16. ASSUME NEW w \in Work, WorkerEnds(w) PROVE  IntegrationTypeOK'
  <2>. HIDE DEF Work, Integrators, Experiments, Answers, Outcomes
  <2>1. Says(w) \subseteq Answers \cup Outcomes
    BY DEF Says
  <2>2. file' \in [Work -> {"none", "failed", "torn"} \cup Answers \cup Outcomes]
    BY <1>16, <2>1 DEF WorkerEnds, IntegrationTypeOK
  <2>3. workers' \in [Work -> Nat] /\ faults' \in Nat
    BY <1>16, IntegrationConfig DEF WorkerEnds, IntegrationTypeOK, Fault
  <2>. QED BY <1>16, <2>2, <2>3 DEF WorkerEnds, IntegrationTypeOK, requestVars, workVars, schedVars
<1>17. ASSUME NEW w \in Work, WorkerDies(w) PROVE  IntegrationTypeOK'
  BY <1>17 DEF WorkerDies, Fault
<1>18. CASE Succeed
  BY <1>18 DEF Succeed, Goto
<1>19. CASE Archive
  BY <1>19 DEF Archive, Done
<1>20. CASE Submit
  BY <1>20 DEF Submit, Done
<1>21. CASE Finish
  BY <1>21 DEF Finish, Goto
<1>22. CASE Link
  BY <1>22 DEF Link, Goto
<1>23. CASE RecordAttempt
  BY <1>23 DEF RecordAttempt, Goto
<1>24. CASE Overflow
  BY <1>24 DEF Overflow, Queued, InHand
<1>25. CASE EnterRetry
  BY <1>25 DEF EnterRetry, Enter, InHand
<1>26. CASE EnterGate
  BY <1>26 DEF EnterGate, Enter, InHand
<1>27. CASE EnterSchedule
  <2>1. todo' \subseteq Work
    <3>1. \A r \in Request : Integrator(r) \in Work
      OBVIOUS
    <3>2. \/ todo' = {}
          \/ todo' = {Integrator(r) : r \in {s \in Request :
                           request[s] = "open" /\ Integrator(s) \notin inFlight}}
      BY <1>27 DEF EnterSchedule, Enter
    <3>. HIDE DEF Work, Integrator
    <3>. QED BY <3>1, <3>2
  <2>2. phase' = "schedule" /\ UNCHANGED <<stage, cur, retry, capped>>
    BY <1>27 DEF EnterSchedule, Enter
  <2>3. UNCHANGED <<request, base, epoch, proposal, published, experiment, linked,
                    inFlight, backend, file, ledger, workers, faults>>
    BY <1>27 DEF EnterSchedule, Enter
  <2>. HIDE DEF Work
  <2>. QED BY <2>1, <2>2, <2>3
<1>28. CASE EnterPollIntegrators
  BY <1>28 DEF EnterPollIntegrators, Enter, InHand
<1>29. CASE EnterBound
  BY <1>29 DEF EnterBound, Enter, InHand
<1>30. CASE EnterDrain
  BY <1>30 DEF EnterDrain, Enter, InHand, Oldest, Queued
<1>31. CASE EnterPollExperiments
  BY <1>31 DEF EnterPollExperiments, Enter, InHand
<1>32. CASE EnterResolve
  BY <1>32 DEF EnterResolve, Enter, InHand
<1>33. CASE EndStep
  BY <1>33 DEF EndStep, Enter, InHand
<1>34. CASE ReconcileAll
  BY <1>34 DEF ReconcileAll, Reconcile, InHand, Unfinished, Missing, DeadJobs
<1>35. CASE ReconcileSome
  BY <1>35 DEF ReconcileSome, Reconcile, InHand, Unfinished, Missing,
     DeadJobs
<1>36. CASE ReconcileGhost
  BY <1>36 DEF ReconcileGhost, Reconcile, InHand, Unfinished, Missing,
     DeadJobs, Presumed, Fault
<1>37. CASE Crash
  <2>1. faults' \in Nat
    BY <1>37, IntegrationConfig DEF Crash, IntegrationTypeOK, Fault
  <2>2. /\ phase' \in Phases /\ todo' \subseteq Work /\ retry' \subseteq Work
        /\ capped' \in BOOLEAN /\ stage' = "none" /\ cur' \in Work \cup {NoWork}
    BY <1>37 DEF Crash, Stop, Phases
  <2>. QED BY <1>37, <2>1, <2>2 DEF Crash, IntegrationTypeOK, requestVars, workVars
<1>38. CASE Restart
  BY <1>38 DEF Restart
<1>39. CASE UNCHANGED integrationVars
  BY <1>39
<1>. QED BY <1>1, <1>2, <1>3, <1>4, <1>5, <1>6, <1>7, <1>8, <1>9, <1>10, <1>11,
        <1>12, <1>13, <1>14, <1>15, <1>16, <1>17, <1>18, <1>19, <1>20, <1>21,
        <1>22, <1>23, <1>24, <1>25, <1>26, <1>27, <1>28, <1>29, <1>30, <1>31,
        <1>32, <1>33, <1>34, <1>35, <1>36, <1>37, <1>38, <1>39 DEF IntegrationNext,
        SchedulerStep, Environment, Ingest, Gate, Poll, Stage, PhaseStep

\* A handler's work is of its kind, and what it read still holds when it goes on.
LEMMA HandStep ==
    ASSUME IntegrationTypeOK, HandOK, StandingOK, [IntegrationNext]_integrationVars
    PROVE  HandOK'
<1>. USE DEF integrationVars, requestVars, workVars, envVars, schedVars, HandOK,
         StandingOK, IntegrationTypeOK, Work, Integrators, Experiments, Integrator,
         Experiment, Statuses, Proposals, Results, Answers, Outcomes, NoWork
<1>1. ASSUME NEW r \in Request, InfraFailed(r) PROVE  HandOK'
  BY <1>1 DEF InfraFailed, ExperimentResult, Take, InHand, Goto
<1>2. ASSUME NEW r \in Request, Measured(r) PROVE  HandOK'
  BY <1>2 DEF Measured, ExperimentResult, Take, InHand, Goto
<1>3. ASSUME NEW r \in Request, MeasuredTwice(r) \/ ResultUnread(r) PROVE  HandOK'
  BY <1>3 DEF MeasuredTwice, Stop, ResultUnread, Done
<1>4. ASSUME NEW r \in Request, OpenRequest(r) PROVE  HandOK'
  BY <1>4 DEF OpenRequest, Judging, InHand
<1>5. ASSUME NEW r \in Request, Promote(r) PROVE  HandOK'
  BY <1>5 DEF Promote, Reviewable, Reviewed, Judging, InHand
<1>6. ASSUME NEW r \in Request, Retain(r) PROVE  HandOK'
  BY <1>6 DEF Retain, Reviewable, Reviewed, Judging, InHand
<1>7. ASSUME NEW r \in Request, AnswerRefused(r) PROVE  HandOK'
  BY <1>7 DEF AnswerRefused, Answered, Take, InHand, Goto
<1>8. ASSUME NEW r \in Request, Abstained(r) PROVE  HandOK'
  BY <1>8 DEF Abstained, Answered, Usable, Take, InHand, Goto
<1>9. ASSUME NEW r \in Request, Publish(r) PROVE  HandOK'
  BY <1>9 DEF Publish, Answered, Usable, Take, InHand, Goto
<1>10. ASSUME NEW r \in Request, Drain(r) PROVE  HandOK'
  BY <1>10 DEF Drain, Take, InHand, Goto
<1>11. ASSUME NEW r \in Request, Schedule(r) PROVE  HandOK'
  BY <1>11 DEF Schedule, Take, InHand, Goto
<1>12. ASSUME NEW r \in Request, Resolve(r) PROVE  HandOK'
  BY <1>12 DEF Resolve, Take, InHand, Done
<1>13. ASSUME NEW w \in Work, Resubmit(w) PROVE  HandOK'
  BY <1>13 DEF Resubmit, Startable, Take, InHand, Goto
<1>14. ASSUME NEW w \in Work, ResubmitSkipped(w) PROVE  HandOK'
  BY <1>14 DEF ResubmitSkipped, Take, InHand, Done
<1>15. ASSUME NEW w \in Work, PollMiss(w) PROVE  HandOK'
  BY <1>15 DEF PollMiss, Take, InHand, Done
<1>16. ASSUME NEW w \in Work, WorkerEnds(w) PROVE  HandOK'
  BY <1>16 DEF WorkerEnds, Says, Fault
<1>17. ASSUME NEW w \in Work, WorkerDies(w) PROVE  HandOK'
  BY <1>17 DEF WorkerDies, Fault
<1>18. CASE Succeed
  BY <1>18 DEF Succeed, Goto
<1>19. CASE Archive
  BY <1>19 DEF Archive, Done
<1>20. CASE Submit
  BY <1>20 DEF Submit, Done
<1>21. CASE Finish
  BY <1>21 DEF Finish, Goto
<1>22. CASE Link
  BY <1>22 DEF Link, Goto
<1>23. CASE RecordAttempt
  BY <1>23 DEF RecordAttempt, Goto
<1>24. CASE Overflow
  BY <1>24 DEF Overflow, Queued, InHand
<1>25. CASE EnterRetry
  BY <1>25 DEF EnterRetry, Enter, InHand
<1>26. CASE EnterGate
  BY <1>26 DEF EnterGate, Enter, InHand
<1>27. CASE EnterSchedule
  BY <1>27 DEF EnterSchedule, Enter, InHand
<1>28. CASE EnterPollIntegrators
  BY <1>28 DEF EnterPollIntegrators, Enter, InHand
<1>29. CASE EnterBound
  BY <1>29 DEF EnterBound, Enter, InHand
<1>30. CASE EnterDrain
  BY <1>30 DEF EnterDrain, Enter, InHand, Oldest, Queued
<1>31. CASE EnterPollExperiments
  BY <1>31 DEF EnterPollExperiments, Enter, InHand
<1>32. CASE EnterResolve
  BY <1>32 DEF EnterResolve, Enter, InHand
<1>33. CASE EndStep
  BY <1>33 DEF EndStep, Enter, InHand
<1>34. CASE ReconcileAll
  BY <1>34 DEF ReconcileAll, Reconcile, InHand, Unfinished, Missing, DeadJobs
<1>35. CASE ReconcileSome
  BY <1>35 DEF ReconcileSome, Reconcile, InHand, Unfinished, Missing,
     DeadJobs
<1>36. CASE ReconcileGhost
  BY <1>36 DEF ReconcileGhost, Reconcile, InHand, Unfinished, Missing,
     DeadJobs, Presumed, Fault
<1>37. CASE Crash
  BY <1>37 DEF Crash, Stop, Fault
<1>38. CASE Restart
  BY <1>38 DEF Restart
<1>39. CASE UNCHANGED integrationVars
  BY <1>39
<1>. QED BY <1>1, <1>2, <1>3, <1>4, <1>5, <1>6, <1>7, <1>8, <1>9, <1>10, <1>11,
        <1>12, <1>13, <1>14, <1>15, <1>16, <1>17, <1>18, <1>19, <1>20, <1>21,
        <1>22, <1>23, <1>24, <1>25, <1>26, <1>27, <1>28, <1>29, <1>30, <1>31,
        <1>32, <1>33, <1>34, <1>35, <1>36, <1>37, <1>38, <1>39 DEF IntegrationNext,
        SchedulerStep, Environment, Ingest, Gate, Poll, Stage, PhaseStep

\* A request with a linked experiment stays answered, and the list of the
\* resolve phase stays true.
LEMMA StandingStep ==
    ASSUME IntegrationTypeOK, HandOK, StandingOK, [IntegrationNext]_integrationVars
    PROVE  StandingOK'
<1>. USE DEF integrationVars, requestVars, workVars, envVars, schedVars, HandOK,
         StandingOK, IntegrationTypeOK, Work, Integrators, Experiments, Integrator,
         Experiment, Statuses, Proposals, Results, Answers, Outcomes, NoWork
<1>1. ASSUME NEW r \in Request, InfraFailed(r) PROVE  StandingOK'
  BY <1>1 DEF InfraFailed, ExperimentResult, Take, InHand, Goto
<1>2. ASSUME NEW r \in Request, Measured(r) PROVE  StandingOK'
  BY <1>2 DEF Measured, ExperimentResult, Take, InHand, Goto
<1>3. ASSUME NEW r \in Request, MeasuredTwice(r) \/ ResultUnread(r) PROVE  StandingOK'
  BY <1>3 DEF MeasuredTwice, Stop, ResultUnread, Done
<1>4. ASSUME NEW r \in Request, OpenRequest(r) PROVE  StandingOK'
  BY <1>4 DEF OpenRequest, Judging, InHand
<1>5. ASSUME NEW r \in Request, Promote(r) PROVE  StandingOK'
  BY <1>5 DEF Promote, Reviewable, Reviewed, Judging, InHand
<1>6. ASSUME NEW r \in Request, Retain(r) PROVE  StandingOK'
  BY <1>6 DEF Retain, Reviewable, Reviewed, Judging, InHand
<1>7. ASSUME NEW r \in Request, AnswerRefused(r) PROVE  StandingOK'
  BY <1>7 DEF AnswerRefused, Answered, Take, InHand, Goto
<1>8. ASSUME NEW r \in Request, Abstained(r) PROVE  StandingOK'
  BY <1>8 DEF Abstained, Answered, Usable, Take, InHand, Goto
<1>9. ASSUME NEW r \in Request, Publish(r) PROVE  StandingOK'
  BY <1>9 DEF Publish, Answered, Usable, Take, InHand, Goto
<1>10. ASSUME NEW r \in Request, Drain(r) PROVE  StandingOK'
  BY <1>10 DEF Drain, Take, InHand, Goto
<1>11. ASSUME NEW r \in Request, Schedule(r) PROVE  StandingOK'
  BY <1>11 DEF Schedule, Take, InHand, Goto
<1>12. ASSUME NEW r \in Request, Resolve(r) PROVE  StandingOK'
  BY <1>12 DEF Resolve, Take, InHand, Done
<1>13. ASSUME NEW w \in Work, Resubmit(w) PROVE  StandingOK'
  BY <1>13 DEF Resubmit, Startable, Take, InHand, Goto
<1>14. ASSUME NEW w \in Work, ResubmitSkipped(w) PROVE  StandingOK'
  BY <1>14 DEF ResubmitSkipped, Take, InHand, Done
<1>15. ASSUME NEW w \in Work, PollMiss(w) PROVE  StandingOK'
  BY <1>15 DEF PollMiss, Take, InHand, Done
<1>16. ASSUME NEW w \in Work, WorkerEnds(w) PROVE  StandingOK'
  BY <1>16 DEF WorkerEnds, Says, Fault
<1>17. ASSUME NEW w \in Work, WorkerDies(w) PROVE  StandingOK'
  BY <1>17 DEF WorkerDies, Fault
<1>18. CASE Succeed
  BY <1>18 DEF Succeed, Goto
<1>19. CASE Archive
  BY <1>19 DEF Archive, Done
<1>20. CASE Submit
  BY <1>20 DEF Submit, Done
<1>21. CASE Finish
  BY <1>21 DEF Finish, Goto
<1>22. CASE Link
  BY <1>22 DEF Link, Goto
<1>23. CASE RecordAttempt
  BY <1>23 DEF RecordAttempt, Goto
<1>24. CASE Overflow
  BY <1>24 DEF Overflow, Queued, InHand
<1>25. CASE EnterRetry
  BY <1>25 DEF EnterRetry, Enter, InHand
<1>26. CASE EnterGate
  BY <1>26 DEF EnterGate, Enter, InHand
<1>27. CASE EnterSchedule
  BY <1>27 DEF EnterSchedule, Enter, InHand
<1>28. CASE EnterPollIntegrators
  BY <1>28 DEF EnterPollIntegrators, Enter, InHand
<1>29. CASE EnterBound
  BY <1>29 DEF EnterBound, Enter, InHand
<1>30. CASE EnterDrain
  BY <1>30 DEF EnterDrain, Enter, InHand, Oldest, Queued
<1>31. CASE EnterPollExperiments
  BY <1>31 DEF EnterPollExperiments, Enter, InHand
<1>32. CASE EnterResolve
  BY <1>32 DEF EnterResolve, Enter, InHand
<1>33. CASE EndStep
  BY <1>33 DEF EndStep, Enter, InHand
<1>34. CASE ReconcileAll
  BY <1>34 DEF ReconcileAll, Reconcile, InHand, Unfinished, Missing, DeadJobs
<1>35. CASE ReconcileSome
  BY <1>35 DEF ReconcileSome, Reconcile, InHand, Unfinished, Missing,
     DeadJobs
<1>36. CASE ReconcileGhost
  BY <1>36 DEF ReconcileGhost, Reconcile, InHand, Unfinished, Missing,
     DeadJobs, Presumed, Fault
<1>37. CASE Crash
  BY <1>37 DEF Crash, Stop, Fault
<1>38. CASE Restart
  BY <1>38 DEF Restart
<1>39. CASE UNCHANGED integrationVars
  BY <1>39
<1>. QED BY <1>1, <1>2, <1>3, <1>4, <1>5, <1>6, <1>7, <1>8, <1>9, <1>10, <1>11,
        <1>12, <1>13, <1>14, <1>15, <1>16, <1>17, <1>18, <1>19, <1>20, <1>21,
        <1>22, <1>23, <1>24, <1>25, <1>26, <1>27, <1>28, <1>29, <1>30, <1>31,
        <1>32, <1>33, <1>34, <1>35, <1>36, <1>37, <1>38, <1>39 DEF IntegrationNext,
        SchedulerStep, Environment, Ingest, Gate, Poll, Stage, PhaseStep

\* A result read twice, or one that cannot be read, says nothing of a request.
LEMMA RequestUntouched ==
    ASSUME EpochsChain, NEW r \in Request, MeasuredTwice(r) \/ ResultUnread(r)
    PROVE  EpochsChain'
<1>1. UNCHANGED <<request, base, epoch>>
  <2>1. CASE MeasuredTwice(r)
    BY <2>1 DEF MeasuredTwice, ExperimentResult, Take, requestVars
  <2>2. CASE ResultUnread(r)
    BY <2>2 DEF ResultUnread, requestVars
  <2>. QED BY <2>1, <2>2
<1>. QED BY <1>1 DEF EpochsChain

\* A promotion ends the epoch its request was made in.
LEMMA PromotionExtends ==
    ASSUME EpochsChain, IntegrationTypeOK, NEW r \in Request, Promote(r)
    PROVE  EpochsChain'
<1>1. /\ request \in [Request -> Statuses] /\ base \in [Request -> Nat] /\ epoch \in Nat
      /\ base' = base /\ base[r] = epoch /\ epoch' = epoch + 1
      /\ request' = [request EXCEPT ![r] = "promoted"]
  BY DEF IntegrationTypeOK, Promote, Reviewed
<1>2. \A s \in Request : request'[s] = IF s = r THEN "promoted" ELSE request[s]
  BY <1>1
<1>3. /\ \A s \in Request : request[s] = "promoted" => base[s] < epoch
      /\ \A s, t \in Request :
           request[s] = "promoted" /\ request[t] = "promoted" /\ base[s] = base[t] => s = t
      /\ \A k \in 0..epoch - 1 : \E s \in Request : request[s] = "promoted" /\ base[s] = k
  BY DEF EpochsChain
<1>4. \A s \in Request : request'[s] = "promoted" => base[s] < epoch + 1
  BY <1>1, <1>2, <1>3
<1>5. \A s, t \in Request :
        request'[s] = "promoted" /\ request'[t] = "promoted" /\ base[s] = base[t] => s = t
  BY <1>1, <1>2, <1>3
<1>6. \A k \in 0..(epoch + 1) - 1 : \E s \in Request : request'[s] = "promoted" /\ base[s] = k
  <2>. TAKE k \in 0..(epoch + 1) - 1
  <2>1. CASE k = epoch
    BY <1>1, <1>2, <2>1
  <2>2. CASE k # epoch
    <3>1. k \in 0..epoch - 1
      BY <1>1, <2>2
    <3>. QED BY <1>2, <1>3, <3>1
  <2>. QED BY <2>1, <2>2
<1>. QED BY <1>1, <1>4, <1>5, <1>6 DEF EpochsChain

\* Only a promotion from the current epoch extends the chain.
LEMMA ChainStep ==
    ASSUME IntegrationTypeOK, HandOK, StandingOK, EpochsChain, [IntegrationNext]_integrationVars
    PROVE  EpochsChain'
<1>. USE DEF integrationVars, requestVars, workVars, envVars, schedVars, HandOK,
         EpochsChain, IntegrationTypeOK, Work, Integrators, Experiments, Integrator,
         Experiment, Statuses, Proposals, Results, Answers, Outcomes, NoWork
<1>1. ASSUME NEW r \in Request, InfraFailed(r) PROVE  EpochsChain'
  BY <1>1 DEF InfraFailed, ExperimentResult, Take, InHand, Goto
<1>2. ASSUME NEW r \in Request, Measured(r) PROVE  EpochsChain'
  BY <1>2 DEF Measured, ExperimentResult, Take, InHand, Goto
<1>3. ASSUME NEW r \in Request, MeasuredTwice(r) \/ ResultUnread(r) PROVE  EpochsChain'
  <2>. HIDE DEF EpochsChain, IntegrationTypeOK, HandOK
  <2>. QED BY <1>3, RequestUntouched
<1>4. ASSUME NEW r \in Request, OpenRequest(r) PROVE  EpochsChain'
  BY <1>4, ZenonT(30) DEF OpenRequest, Judging, InHand
<1>5. ASSUME NEW r \in Request, Promote(r) PROVE  EpochsChain'
  <2>. HIDE DEF EpochsChain, IntegrationTypeOK, HandOK
  <2>. QED BY <1>5, PromotionExtends
<1>6. ASSUME NEW r \in Request, Retain(r) PROVE  EpochsChain'
  BY <1>6 DEF Retain, Reviewable, Reviewed, Judging, InHand
<1>7. ASSUME NEW r \in Request, AnswerRefused(r) PROVE  EpochsChain'
  BY <1>7 DEF AnswerRefused, Answered, Take, InHand, Goto
<1>8. ASSUME NEW r \in Request, Abstained(r) PROVE  EpochsChain'
  BY <1>8 DEF Abstained, Answered, Usable, Take, InHand, Goto
<1>9. ASSUME NEW r \in Request, Publish(r) PROVE  EpochsChain'
  BY <1>9 DEF Publish, Answered, Usable, Take, InHand, Goto
<1>10. ASSUME NEW r \in Request, Drain(r) PROVE  EpochsChain'
  BY <1>10 DEF Drain, Take, InHand, Goto
<1>11. ASSUME NEW r \in Request, Schedule(r) PROVE  EpochsChain'
  BY <1>11 DEF Schedule, Take, InHand, Goto
<1>12. ASSUME NEW r \in Request, Resolve(r) PROVE  EpochsChain'
  <2>1. request[r] = "submitted"
    BY <1>12 DEF Resolve, Take, InHand, StandingOK, Experiment
  <2>2. /\ request' = [request EXCEPT ![r] = "closed"] \/ request' = request
        /\ UNCHANGED <<base, epoch>>
    BY <1>12 DEF Resolve
  <2>3. \A s \in Request : (request'[s] = "promoted") <=> (request[s] = "promoted")
    BY <2>1, <2>2 DEF IntegrationTypeOK
  <2>. HIDE DEF IntegrationTypeOK
  <2>. QED BY <2>2, <2>3 DEF EpochsChain
<1>13. ASSUME NEW w \in Work, Resubmit(w) PROVE  EpochsChain'
  BY <1>13 DEF Resubmit, Startable, Take, InHand, Goto
<1>14. ASSUME NEW w \in Work, ResubmitSkipped(w) PROVE  EpochsChain'
  BY <1>14 DEF ResubmitSkipped, Take, InHand, Done
<1>15. ASSUME NEW w \in Work, PollMiss(w) PROVE  EpochsChain'
  BY <1>15 DEF PollMiss, Take, InHand, Done
<1>16. ASSUME NEW w \in Work, WorkerEnds(w) PROVE  EpochsChain'
  BY <1>16 DEF WorkerEnds, Says, Fault
<1>17. ASSUME NEW w \in Work, WorkerDies(w) PROVE  EpochsChain'
  BY <1>17 DEF WorkerDies, Fault
<1>18. CASE Succeed
  BY <1>18 DEF Succeed, Goto
<1>19. CASE Archive
  BY <1>19 DEF Archive, Done
<1>20. CASE Submit
  BY <1>20 DEF Submit, Done
<1>21. CASE Finish
  BY <1>21, ZenonT(30) DEF Finish, Goto
<1>22. CASE Link
  BY <1>22 DEF Link, Goto
<1>23. CASE RecordAttempt
  BY <1>23 DEF RecordAttempt, Goto
<1>24. CASE Overflow
  BY <1>24 DEF Overflow, Queued, InHand
<1>25. CASE EnterRetry
  BY <1>25 DEF EnterRetry, Enter, InHand
<1>26. CASE EnterGate
  BY <1>26 DEF EnterGate, Enter, InHand
<1>27. CASE EnterSchedule
  BY <1>27 DEF EnterSchedule, Enter, InHand
<1>28. CASE EnterPollIntegrators
  BY <1>28 DEF EnterPollIntegrators, Enter, InHand
<1>29. CASE EnterBound
  BY <1>29 DEF EnterBound, Enter, InHand
<1>30. CASE EnterDrain
  BY <1>30 DEF EnterDrain, Enter, InHand, Oldest, Queued
<1>31. CASE EnterPollExperiments
  BY <1>31 DEF EnterPollExperiments, Enter, InHand
<1>32. CASE EnterResolve
  BY <1>32 DEF EnterResolve, Enter, InHand
<1>33. CASE EndStep
  BY <1>33 DEF EndStep, Enter, InHand
<1>34. CASE ReconcileAll
  BY <1>34 DEF ReconcileAll, Reconcile, InHand, Unfinished, Missing, DeadJobs
<1>35. CASE ReconcileSome
  BY <1>35 DEF ReconcileSome, Reconcile, InHand, Unfinished, Missing,
     DeadJobs
<1>36. CASE ReconcileGhost
  BY <1>36 DEF ReconcileGhost, Reconcile, InHand, Unfinished, Missing,
     DeadJobs, Presumed, Fault
<1>37. CASE Crash
  BY <1>37 DEF Crash, Stop, Fault
<1>38. CASE Restart
  BY <1>38 DEF Restart
<1>39. CASE UNCHANGED integrationVars
  BY <1>39
<1>. QED BY <1>1, <1>2, <1>3, <1>4, <1>5, <1>6, <1>7, <1>8, <1>9, <1>10, <1>11,
        <1>12, <1>13, <1>14, <1>15, <1>16, <1>17, <1>18, <1>19, <1>20, <1>21,
        <1>22, <1>23, <1>24, <1>25, <1>26, <1>27, <1>28, <1>29, <1>30, <1>31,
        <1>32, <1>33, <1>34, <1>35, <1>36, <1>37, <1>38, <1>39 DEF IntegrationNext,
        SchedulerStep, Environment, Ingest, Gate, Poll, Stage, PhaseStep

\* Every step is a step of the protocol, or none.
LEMMA ProtocolStep ==
    ASSUME IntegrationTypeOK, HandOK, StandingOK, [IntegrationNext]_integrationVars
    PROVE  [Protocol!Next]_(Protocol!vars)
<1>. USE DEF integrationVars, requestVars, workVars, envVars, schedVars, HandOK,
         StandingOK, Verdict, Protocol!Next, Protocol!vars, Protocol!Open,
         Protocol!Answer, Protocol!Measure, Protocol!Close, Protocol!Promote,
         Protocol!Move, Protocol!Verdicts, IntegrationTypeOK, Work, Integrators,
         Experiments, Integrator, Experiment, Statuses, Proposals, Results,
         Answers, Outcomes, NoWork
<1>1. ASSUME NEW r \in Request, InfraFailed(r) PROVE  [Protocol!Next]_(Protocol!vars)
  <2>. HIDE DEF IntegrationTypeOK, HandOK, StandingOK, Verdict, Work, Integrators, Experiments
  <2>1. \A s \in Request : s # r => Verdict'[s] = Verdict[s]
    BY <1>1 DEF InfraFailed, Verdict, IntegrationTypeOK
  <2>2. r \notin linked => Verdict' = Verdict
    BY <1>1 DEF InfraFailed, Verdict, IntegrationTypeOK
  <2>3. Verdict'[r] \in Protocol!Verdicts
    BY DEF Verdict, Outcomes, Protocol!Verdicts
  <2>4. UNCHANGED <<request, base, epoch>>
    BY <1>1 DEF InfraFailed, requestVars
  <2>5. CASE r \in linked
    <3>1. Verdict' = [Verdict EXCEPT ![r] = Verdict'[r]]
      BY <2>1 DEF Verdict
    <3>2. Protocol!Measure(r)
      BY <2>3, <2>4, <2>5, <3>1 DEF Protocol!Measure, StandingOK
    <3>. QED BY <3>2 DEF Protocol!Next
  <2>. QED BY <2>2, <2>4, <2>5 DEF Protocol!vars
<1>2. ASSUME NEW r \in Request, Measured(r) PROVE  [Protocol!Next]_(Protocol!vars)
  <2>. HIDE DEF IntegrationTypeOK, HandOK, StandingOK, Verdict, Work, Integrators, Experiments
  <2>1. \A s \in Request : s # r => Verdict'[s] = Verdict[s]
    BY <1>2 DEF Measured, Verdict, IntegrationTypeOK
  <2>2. r \notin linked => Verdict' = Verdict
    BY <1>2 DEF Measured, Verdict, IntegrationTypeOK
  <2>3. Verdict'[r] \in Protocol!Verdicts
    BY DEF Verdict, Outcomes, Protocol!Verdicts
  <2>4. UNCHANGED <<request, base, epoch>>
    BY <1>2 DEF Measured, requestVars
  <2>5. CASE r \in linked
    <3>1. Verdict' = [Verdict EXCEPT ![r] = Verdict'[r]]
      BY <2>1 DEF Verdict
    <3>2. Protocol!Measure(r)
      BY <2>3, <2>4, <2>5, <3>1 DEF Protocol!Measure, StandingOK
    <3>. QED BY <3>2 DEF Protocol!Next
  <2>. QED BY <2>2, <2>4, <2>5 DEF Protocol!vars
<1>3. ASSUME NEW r \in Request, MeasuredTwice(r) \/ ResultUnread(r) PROVE  [Protocol!Next]_(Protocol!vars)
  BY <1>3 DEF MeasuredTwice, Stop, ResultUnread, Done
<1>4. ASSUME NEW r \in Request, OpenRequest(r) PROVE  [Protocol!Next]_(Protocol!vars)
  BY <1>4 DEF OpenRequest, Judging, InHand
<1>5. ASSUME NEW r \in Request, Promote(r) PROVE  [Protocol!Next]_(Protocol!vars)
  BY <1>5 DEF Promote, Reviewable, Reviewed, Judging, InHand
<1>6. ASSUME NEW r \in Request, Retain(r) PROVE  [Protocol!Next]_(Protocol!vars)
  BY <1>6 DEF Retain, Reviewable, Reviewed, Judging, InHand
<1>7. ASSUME NEW r \in Request, AnswerRefused(r) PROVE  [Protocol!Next]_(Protocol!vars)
  BY <1>7 DEF AnswerRefused, Answered, Take, InHand, Goto
<1>8. ASSUME NEW r \in Request, Abstained(r) PROVE  [Protocol!Next]_(Protocol!vars)
  BY <1>8 DEF Abstained, Answered, Usable, Take, InHand, Goto
<1>9. ASSUME NEW r \in Request, Publish(r) PROVE  [Protocol!Next]_(Protocol!vars)
  BY <1>9 DEF Publish, Answered, Usable, Take, InHand, Goto
<1>10. ASSUME NEW r \in Request, Drain(r) PROVE  [Protocol!Next]_(Protocol!vars)
  <2>. HIDE DEF IntegrationTypeOK, HandOK, StandingOK, Verdict, Work, Integrators, Experiments
  <2>1. \A s \in Request : s # r => Verdict'[s] = Verdict[s]
    BY <1>10 DEF Drain, Verdict, IntegrationTypeOK
  <2>2. r \notin linked => Verdict' = Verdict
    BY <1>10 DEF Drain, Verdict, IntegrationTypeOK
  <2>3. Verdict'[r] \in Protocol!Verdicts
    BY DEF Verdict, Outcomes, Protocol!Verdicts
  <2>4. UNCHANGED <<request, base, epoch>>
    BY <1>10 DEF Drain, requestVars
  <2>5. CASE r \in linked
    <3>1. Verdict' = [Verdict EXCEPT ![r] = Verdict'[r]]
      BY <2>1 DEF Verdict
    <3>2. Protocol!Measure(r)
      BY <2>3, <2>4, <2>5, <3>1 DEF Protocol!Measure, StandingOK
    <3>. QED BY <3>2 DEF Protocol!Next
  <2>. QED BY <2>2, <2>4, <2>5 DEF Protocol!vars
<1>11. ASSUME NEW r \in Request, Schedule(r) PROVE  [Protocol!Next]_(Protocol!vars)
  BY <1>11 DEF Schedule, Take, InHand, Goto
<1>12. ASSUME NEW r \in Request, Resolve(r) PROVE  [Protocol!Next]_(Protocol!vars)
  BY <1>12 DEF Resolve, Take, InHand, Done
<1>13. ASSUME NEW w \in Work, Resubmit(w) PROVE  [Protocol!Next]_(Protocol!vars)
  BY <1>13 DEF Resubmit, Startable, Take, InHand, Goto
<1>14. ASSUME NEW w \in Work, ResubmitSkipped(w) PROVE  [Protocol!Next]_(Protocol!vars)
  BY <1>14 DEF ResubmitSkipped, Take, InHand, Done
<1>15. ASSUME NEW w \in Work, PollMiss(w) PROVE  [Protocol!Next]_(Protocol!vars)
  BY <1>15 DEF PollMiss, Take, InHand, Done
<1>16. ASSUME NEW w \in Work, WorkerEnds(w) PROVE  [Protocol!Next]_(Protocol!vars)
  BY <1>16 DEF WorkerEnds, Says, Fault
<1>17. ASSUME NEW w \in Work, WorkerDies(w) PROVE  [Protocol!Next]_(Protocol!vars)
  BY <1>17 DEF WorkerDies, Fault
<1>18. CASE Succeed
  BY <1>18 DEF Succeed, Goto
<1>19. CASE Archive
  BY <1>19 DEF Archive, Done
<1>20. CASE Submit
  BY <1>20 DEF Submit, Done
<1>21. CASE Finish
  BY <1>21, ZenonT(30) DEF Finish, Goto
<1>22. CASE Link
  BY <1>22 DEF Link, Goto
<1>23. CASE RecordAttempt
  BY <1>23 DEF RecordAttempt, Goto
<1>24. CASE Overflow
  BY <1>24 DEF Overflow, Queued, InHand
<1>25. CASE EnterRetry
  BY <1>25 DEF EnterRetry, Enter, InHand
<1>26. CASE EnterGate
  BY <1>26 DEF EnterGate, Enter, InHand
<1>27. CASE EnterSchedule
  BY <1>27 DEF EnterSchedule, Enter, InHand
<1>28. CASE EnterPollIntegrators
  BY <1>28 DEF EnterPollIntegrators, Enter, InHand
<1>29. CASE EnterBound
  BY <1>29 DEF EnterBound, Enter, InHand
<1>30. CASE EnterDrain
  BY <1>30 DEF EnterDrain, Enter, InHand, Oldest, Queued
<1>31. CASE EnterPollExperiments
  BY <1>31 DEF EnterPollExperiments, Enter, InHand
<1>32. CASE EnterResolve
  BY <1>32 DEF EnterResolve, Enter, InHand
<1>33. CASE EndStep
  BY <1>33 DEF EndStep, Enter, InHand
<1>34. CASE ReconcileAll
  BY <1>34 DEF ReconcileAll, Reconcile, InHand, Unfinished, Missing, DeadJobs
<1>35. CASE ReconcileSome
  BY <1>35 DEF ReconcileSome, Reconcile, InHand, Unfinished, Missing,
     DeadJobs
<1>36. CASE ReconcileGhost
  BY <1>36 DEF ReconcileGhost, Reconcile, InHand, Unfinished, Missing,
     DeadJobs, Presumed, Fault
<1>37. CASE Crash
  BY <1>37 DEF Crash, Stop, Fault
<1>38. CASE Restart
  BY <1>38 DEF Restart
<1>39. CASE UNCHANGED integrationVars
  BY <1>39
<1>. QED BY <1>1, <1>2, <1>3, <1>4, <1>5, <1>6, <1>7, <1>8, <1>9, <1>10, <1>11,
        <1>12, <1>13, <1>14, <1>15, <1>16, <1>17, <1>18, <1>19, <1>20, <1>21,
        <1>22, <1>23, <1>24, <1>25, <1>26, <1>27, <1>28, <1>29, <1>30, <1>31,
        <1>32, <1>33, <1>34, <1>35, <1>36, <1>37, <1>38, <1>39 DEF IntegrationNext,
        SchedulerStep, Environment, Ingest, Gate, Poll, Stage, PhaseStep

--------------------------------------------------------------------------------
\* The initial state satisfies the invariant and maps to the protocol's.
LEMMA RequestsBegin == IntegrationInit => RequestInv /\ Protocol!Init
<1>. SUFFICES ASSUME IntegrationInit PROVE RequestInv /\ Protocol!Init
  OBVIOUS
<1>1. IntegrationTypeOK
  <2>1. \A w \in Work : file[w] = "none" /\ workers[w] = 0
    BY DEF IntegrationInit
  <2>2. /\ file \in [Work -> {"none", "failed", "torn"} \cup Answers \cup Outcomes]
        /\ workers \in [Work -> Nat]
    BY <2>1 DEF IntegrationInit
  <2>3. /\ request \in [Request -> Statuses] /\ base \in [Request -> Nat]
        /\ proposal \in [Request -> Proposals]
        /\ experiment \in [Request -> Results]
    BY DEF IntegrationInit, Statuses, Proposals, Results
  <2>4. phase \in Phases /\ published \in Seq(Request)
    BY DEF IntegrationInit, Phases
  <2>. QED BY <2>2, <2>3, <2>4 DEF IntegrationInit, IntegrationTypeOK
<1>2. HandOK /\ StandingOK
  BY DEF IntegrationInit, HandOK, StandingOK
<1>3. EpochsChain
  BY DEF IntegrationInit, EpochsChain
<1>4. Protocol!Init
  BY DEF IntegrationInit, Protocol!Init, Verdict
<1>. QED BY <1>1, <1>2, <1>3, <1>4 DEF RequestInv

\* The invariant is inductive.
LEMMA RequestsKeep == RequestInv /\ [IntegrationNext]_integrationVars => RequestInv'
BY RequestTypesStep, HandStep, StandingStep, ChainStep DEF RequestInv

\* Every reachable state satisfies the invariant.
THEOREM Requests == IntegrationSpec => []RequestInv
BY RequestsBegin, RequestsKeep, PTL DEF IntegrationSpec

\* The variables keep their types.
THEOREM RequestTypes == IntegrationSpec => []IntegrationTypeOK
<1>1. RequestInv => IntegrationTypeOK
  BY DEF RequestInv
<1>. QED BY <1>1, Requests, PTL

\* The epochs are a chain, each replaced by one candidate asked for in it.
THEOREM ChainOfEpochs == IntegrationSpec => []EpochsChain
<1>1. RequestInv => EpochsChain
  BY DEF RequestInv
<1>. QED BY <1>1, Requests, PTL

\* Integration implements its protocol, through crashes and late results.
THEOREM Refinement == IntegrationSpec => RefinesProtocol
<1>1. RequestInv /\ [IntegrationNext]_integrationVars => [Protocol!Next]_(Protocol!vars)
  BY ProtocolStep DEF RequestInv
<1>. QED BY <1>1, RequestsBegin, Requests, PTL DEF IntegrationSpec, RefinesProtocol, Protocol!Spec
================================================================================
