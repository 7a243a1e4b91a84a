---------------------------- MODULE Exchange_proofs ----------------------------
(***************************************************************************)
(* What passes between a model and its tools, for every answer, result and  *)
(* history: StructuredToolCallNormalizer reads the calls of an answer as    *)
(* they were sent, in whatever form; a tool's result is bounded and         *)
(* redacted as ToolResultEnvelope::bound promises, whatever tree it is and  *)
(* whatever the limits and the policy are; repair_history keeps the answer  *)
(* of every call, in order of first occurrence.                             *)
(*                                                                         *)
(* Calls: what a list, a message or a pass is read as is the outcome of the *)
(* payloads in it, and the outcome of several lists is that of the payloads *)
(* one after the other.                                                     *)
(*                                                                         *)
(* The envelope rests on three arguments.  The pointer of a path of keys    *)
(* determines the path, and a descendant's pointer is that of a path below: *)
(* by induction over the keys, as no key is spelled with a slash.           *)
(* bound_value does what it should to a value when it does so to its        *)
(* children: by induction over the height of trees.  bound_total_bytes      *)
(* retains a selection that fits: by induction over the parts it tries.     *)
(***************************************************************************)
EXTENDS StructuredCalls, RepairHistory, ToolResultEnvelope, Sums_proofs, SequenceTheorems, TLAPS

----------------------------------------------------------------------------
(* FlattenSeq, by its last sequence                                         *)

\* f is the sequence of the flattenings of the first sequences of seqs.
IsFlat(f, seqs) ==
  f = [i \in 1 .. Len(seqs) |-> IF i = 1 THEN seqs[i] ELSE f[i - 1] \o seqs[i]]

LEMMA FlattenIsFlat ==
  ASSUME NEW seqs, Len(seqs) # 0
  PROVE  FlattenSeq(seqs) = (CHOOSE f : IsFlat(f, seqs))[Len(seqs)]
  BY DEF FlattenSeq, IsFlat

LEMMA FlatExists ==
  ASSUME NEW X, NEW seqs \in Seq(Seq(X))
  PROVE  \E f \in [1 .. Len(seqs) -> Seq(X)] : IsFlat(f, seqs)
<1> DEFINE Flat(f, n) == \A i \in 1 .. n : f[i] = IF i = 1 THEN seqs[i] ELSE f[i - 1] \o seqs[i]
           Some(n) == n <= Len(seqs) => \E f \in [1 .. n -> Seq(X)] : Flat(f, n)
           P == {n \in Nat : Some(n)}
<1>0. Len(seqs) \in Nat /\ \A i \in 1 .. Len(seqs) : seqs[i] \in Seq(X)
  BY LenProperties, ElementOfSeq
<1>1. 0 \in P
  <2>1. <<>> \in [1 .. 0 -> Seq(X)]
    OBVIOUS
  <2>2. Flat(<<>>, 0)
    OBVIOUS
  <2> QED BY <2>1, <2>2
<1>2. ASSUME NEW n \in P PROVE n + 1 \in P
  <2>0. n \in Nat /\ n + 1 \in Nat
    OBVIOUS
  <2>00. Some(n)
    BY Zenon
  <2>1. ASSUME n + 1 <= Len(seqs)
        PROVE  \E g \in [1 .. n + 1 -> Seq(X)] : Flat(g, n + 1)
    <3>0. n <= Len(seqs)
      BY <2>0, <2>1, <1>0
    <3>1. PICK f \in [1 .. n -> Seq(X)] : Flat(f, n)
      BY <2>00, <3>0, Zenon
    <3> DEFINE last == IF n + 1 = 1 THEN seqs[n + 1] ELSE f[n] \o seqs[n + 1]
               g == [i \in 1 .. n + 1 |-> IF i = n + 1 THEN last ELSE f[i]]
    <3>2. last \in Seq(X)
      <4>1. seqs[n + 1] \in Seq(X)
        BY <2>0, <2>1, <1>0
      <4>2. n + 1 # 1 => f[n] \in Seq(X)
        BY <2>0
      <4> QED BY <4>1, <4>2, ConcatProperties
    <3> HIDE DEF last
    <3>3. g \in [1 .. n + 1 -> Seq(X)]
      <4>1. \A i \in 1 .. n + 1 : i # n + 1 => i \in 1 .. n
        BY <2>0
      <4> QED BY <3>2, <4>1
    <3>4. ASSUME NEW i \in 1 .. n + 1
          PROVE  g[i] = IF i = 1 THEN seqs[i] ELSE g[i - 1] \o seqs[i]
      <4>1. i # 1 => g[i - 1] = f[i - 1]
        BY <2>0
      <4>2. CASE i = n + 1
        <5>1. g[i] = last /\ i - 1 = n
          BY <4>2, <2>0
        <5> QED BY <4>1, <4>2, <5>1 DEF last
      <4>3. CASE i # n + 1
        <5>1. i \in 1 .. n /\ g[i] = f[i]
          BY <4>3, <2>0
        <5> QED BY <3>1, <4>1, <5>1
      <4> QED BY <4>2, <4>3
    <3> HIDE DEF g
    <3>5. Flat(g, n + 1)
      BY <3>4
    <3> QED BY <3>3, <3>5, Zenon
  <2>2. Some(n + 1)
    BY <2>1, Zenon
  <2> QED BY <2>0, <2>2, Zenon
<1>3. P \in SUBSET Nat
  OBVIOUS
<1> HIDE DEF P
<1>4. P = Nat
  BY <1>1, <1>2, <1>3, SetInduction
<1>a. Some(Len(seqs))
  BY <1>0, <1>4, Zenon DEF P
<1>b. Len(seqs) <= Len(seqs)
  BY <1>0
<1>5. PICK f \in [1 .. Len(seqs) -> Seq(X)] : Flat(f, Len(seqs))
  BY <1>a, <1>b, Zenon
<1>6. IsFlat(f, seqs)
  BY <1>5 DEF IsFlat
<1> QED BY <1>5, <1>6

\* A flattening of more sequences agrees on the first ones.
LEMMA FlatAgrees ==
  ASSUME NEW seqs, NEW more, Len(seqs) \in Nat, Len(more) \in Nat, Len(seqs) <= Len(more),
         \A i \in 1 .. Len(seqs) : seqs[i] = more[i],
         NEW f, NEW g, IsFlat(f, seqs), IsFlat(g, more)
  PROVE  \A i \in 1 .. Len(seqs) : f[i] = g[i]
<1> DEFINE P == {n \in Nat : n \in 1 .. Len(seqs) => f[n] = g[n]}
<1>1. 0 \in P
  OBVIOUS
<1>2. ASSUME NEW n \in P PROVE n + 1 \in P
  <2>0. n \in Nat
    OBVIOUS
  <2>1. ASSUME n + 1 \in 1 .. Len(seqs) PROVE f[n + 1] = g[n + 1]
    <3> DEFINE m == n + 1
    <3>1. m \in 1 .. Len(seqs) /\ m \in 1 .. Len(more) /\ m - 1 = n
      BY <2>0, <2>1
    <3>2. m # 1 => f[n] = g[n]
      BY <2>0, <2>1
    <3> HIDE DEF m
    <3>3. f[m] = IF m = 1 THEN seqs[m] ELSE f[m - 1] \o seqs[m]
      BY <3>1 DEF IsFlat
    <3>4. g[m] = IF m = 1 THEN more[m] ELSE g[m - 1] \o more[m]
      BY <3>1 DEF IsFlat
    <3>5. f[m] = g[m]
      BY <3>1, <3>2, <3>3, <3>4, Zenon
    <3> QED BY <3>5 DEF m
  <2> QED BY <2>0, <2>1
<1>3. P \in SUBSET Nat
  OBVIOUS
<1> HIDE DEF P
<1>4. P = Nat
  BY <1>1, <1>2, <1>3, SetInduction
<1> QED BY <1>4 DEF P

LEMMA FlattenNothing == FlattenSeq(<<>>) = <<>>
  BY DEF FlattenSeq

\* FlattenSeq of the community modules, one sequence at a time.
LEMMA FlattenAppend ==
  ASSUME NEW X, NEW seqs \in Seq(Seq(X)), NEW s \in Seq(X)
  PROVE  FlattenSeq(Append(seqs, s)) = FlattenSeq(seqs) \o s
<1> DEFINE more == Append(seqs, s)
<1>1. /\ more \in Seq(Seq(X)) /\ Len(seqs) \in Nat /\ Len(more) = Len(seqs) + 1
      /\ \A i \in 1 .. Len(seqs) : seqs[i] = more[i]
      /\ more[Len(more)] = s
  BY AppendProperties, LenProperties
<1>2. seqs = <<>> => more = <<s>>
  OBVIOUS
<1> HIDE DEF more
<1>3. PICK f, g : /\ f = CHOOSE x : IsFlat(x, seqs)
                  /\ g = CHOOSE x : IsFlat(x, more)
                  /\ IsFlat(f, seqs) /\ IsFlat(g, more)
  BY <1>1, FlatExists
<1>3a. IsFlat(f, seqs) /\ IsFlat(g, more)
  BY <1>3
<1>4. Len(more) \in 1 .. Len(more) /\ Len(more) - 1 = Len(seqs)
  BY <1>1
<1>5. g[Len(more)] = IF Len(more) = 1 THEN s ELSE g[Len(seqs)] \o s
  BY <1>1, <1>3a, <1>4 DEF IsFlat
<1>6. FlattenSeq(more) = g[Len(more)]
  BY <1>1, <1>3, FlattenIsFlat
<1>7. CASE Len(seqs) = 0
  <2>1. seqs = <<>>
    BY <1>7, EmptySeq
  <2>2. FlattenSeq(more) = s
    BY <1>1, <1>5, <1>6, <1>7
  <2> QED BY <2>1, <2>2, FlattenNothing, ConcatEmptySeq DEF more
<1>8. CASE Len(seqs) # 0
  <2>1. FlattenSeq(seqs) = f[Len(seqs)]
    BY <1>3, <1>8, FlattenIsFlat
  <2>2. Len(seqs) <= Len(more) /\ Len(seqs) \in 1 .. Len(seqs) /\ Len(more) # 1
    BY <1>1, <1>8
  <2>a. Len(more) \in Nat
    BY <1>1
  <2>3. \A i \in 1 .. Len(seqs) : f[i] = g[i]
    <3>1. Len(seqs) \in Nat /\ Len(seqs) <= Len(more)
      BY <1>1, <2>2
    <3>2. \A i \in 1 .. Len(seqs) : seqs[i] = more[i]
      BY <1>1
    <3>3. IsFlat(f, seqs) /\ IsFlat(g, more)
      BY <1>3a
    <3> HIDE DEF IsFlat
    <3> QED BY ONLY <3>1, <3>2, <3>3, <2>a, FlatAgrees
  <2>4. FlattenSeq(more) = FlattenSeq(seqs) \o s
    BY <1>5, <1>6, <2>1, <2>2, <2>3
  <2> QED BY <2>4 DEF more
<1> QED BY <1>1, <1>7, <1>8

LEMMA FlattenTyped ==
  ASSUME NEW X, NEW seqs \in Seq(Seq(X))
  PROVE  FlattenSeq(seqs) \in Seq(X)
<1>0. Len(seqs) \in Nat
  BY LenProperties
<1>1. CASE Len(seqs) = 0
  <2>1. seqs = <<>>
    BY <1>1, EmptySeq
  <2> QED BY <2>1, FlattenNothing, EmptySeq
<1>2. CASE Len(seqs) # 0
  <2>1. PICK f \in [1 .. Len(seqs) -> Seq(X)] : IsFlat(f, seqs)
    BY FlatExists
  <2> DEFINE g == CHOOSE x : IsFlat(x, seqs)
  <2>2. IsFlat(g, seqs)
    BY <2>1
  <2>3. FlattenSeq(seqs) = g[Len(seqs)]
    BY <1>2, FlattenIsFlat
  <2> HIDE DEF g
  <2>4. Len(seqs) <= Len(seqs) /\ Len(seqs) \in 1 .. Len(seqs)
    BY <1>0, <1>2
  <2>5. \A i \in 1 .. Len(seqs) : f[i] = g[i]
    BY <1>0, <2>1, <2>2, <2>4, FlatAgrees
  <2> QED BY <2>1, <2>3, <2>4, <2>5
<1> QED BY <1>1, <1>2

\* Induction over sequences, for a set of them.
LEMMA SeqInduction ==
  ASSUME NEW X, NEW Q \in SUBSET Seq(X), <<>> \in Q,
         \A s \in Q : \A x \in X : Append(s, x) \in Q
  PROVE  Q = Seq(X)
<1> DEFINE P == {n \in Nat : \A s \in Seq(X) : Len(s) = n => s \in Q}
<1>1. 0 \in P
  <2>1. \A s \in Seq(X) : Len(s) = 0 => s = <<>>
    BY EmptySeq
  <2> QED BY <2>1
<1>2. ASSUME NEW n \in P PROVE n + 1 \in P
  <2>1. ASSUME NEW s \in Seq(X), Len(s) = n + 1
        PROVE  s \in Q
    <3>1. s # <<>>
      BY <2>1, EmptySeq
    <3>2. PICK t \in Seq(X), x \in X : s = Append(t, x)
      BY <3>1, SequenceEmptyOrAppend
    <3>3. Len(s) = Len(t) + 1 /\ Len(t) \in Nat
      BY <3>2, AppendProperties, LenProperties
    <3>4. t \in Q
      BY <2>1, <3>3
    <3> QED BY <3>2, <3>4
  <2> QED BY <2>1
<1>3. P \in SUBSET Nat
  OBVIOUS
<1> HIDE DEF P
<1>4. P = Nat
  BY <1>1, <1>2, <1>3, SetInduction
<1> SUFFICES ASSUME NEW s \in Seq(X) PROVE s \in Q
  OBVIOUS
<1>5. Len(s) \in P
  BY <1>4, LenProperties
<1> QED BY <1>5 DEF P

----------------------------------------------------------------------------
(* Sequences written one after the other for the elements of a sequence     *)

\* What is written for each element of X, in the elements of Y.
Writers(X, Y) == [X -> Seq(Y)]

\* The elements of s, each written as F writes it.
FlatMap(F, s) == FlattenSeq([k \in DOMAIN s |-> F[s[k]]])

LEMMA MapTyped ==
  ASSUME NEW X, NEW Y, NEW F \in [X -> Y], NEW s \in Seq(X)
  PROVE  /\ [k \in DOMAIN s |-> F[s[k]]] \in Seq(Y)
         /\ Len([k \in DOMAIN s |-> F[s[k]]]) = Len(s)
<1>1. Len(s) \in Nat /\ DOMAIN s = 1 .. Len(s) /\ \A k \in 1 .. Len(s) : s[k] \in X
  BY LenProperties, ElementOfSeq
<1>2. [k \in 1 .. Len(s) |-> F[s[k]]] \in [1 .. Len(s) -> Y]
  BY <1>1
<1> QED BY <1>1, <1>2

LEMMA FlatMapNothing ==
  ASSUME NEW F
  PROVE  FlatMap(F, <<>>) = <<>>
<1>1. [k \in DOMAIN <<>> |-> F[<<>>[k]]] = <<>>
  OBVIOUS
<1> QED BY <1>1, FlattenNothing DEF FlatMap

LEMMA FlatMapTyped ==
  ASSUME NEW X, NEW Y, NEW F \in Writers(X, Y), NEW s \in Seq(X)
  PROVE  FlatMap(F, s) \in Seq(Y)
<1>1. [k \in DOMAIN s |-> F[s[k]]] \in Seq(Seq(Y))
  BY MapTyped DEF Writers
<1> QED BY <1>1, FlattenTyped DEF FlatMap

LEMMA FlatMapAppend ==
  ASSUME NEW X, NEW Y, NEW F \in Writers(X, Y), NEW s \in Seq(X), NEW x \in X
  PROVE  FlatMap(F, Append(s, x)) = FlatMap(F, s) \o F[x]
<1> DEFINE t == Append(s, x)
           fs == [k \in DOMAIN s |-> F[s[k]]]
           ft == [k \in DOMAIN t |-> F[t[k]]]
<1>1. /\ Len(s) \in Nat /\ DOMAIN s = 1 .. Len(s) /\ t \in Seq(X) /\ Len(t) = Len(s) + 1
      /\ DOMAIN t = 1 .. Len(s) + 1
      /\ \A k \in 1 .. Len(s) : t[k] = s[k]
      /\ t[Len(s) + 1] = x
  BY AppendProperties, LenProperties
<1>2. fs \in Seq(Seq(Y)) /\ Len(fs) = Len(s) /\ ft \in Seq(Seq(Y)) /\ Len(ft) = Len(t)
  <2> HIDE DEF t
  <2> QED BY <1>1, MapTyped DEF Writers
<1>3. F[x] \in Seq(Y)
  BY DEF Writers
<1>4. /\ Append(fs, F[x]) \in Seq(Seq(Y)) /\ Len(Append(fs, F[x])) = Len(s) + 1
      /\ \A k \in 1 .. Len(s) : Append(fs, F[x])[k] = fs[k]
      /\ Append(fs, F[x])[Len(s) + 1] = F[x]
  <2> HIDE DEF fs
  <2> QED BY <1>2, <1>3, AppendProperties
<1>5. \A k \in 1 .. Len(s) : ft[k] = fs[k]
  BY <1>1
<1>6. ft[Len(s) + 1] = F[x]
  BY <1>1
<1>7. ft = Append(fs, F[x])
  <2> HIDE DEF ft, fs, t
  <2>1. \A k \in 1 .. Len(ft) : ft[k] = Append(fs, F[x])[k]
    BY <1>1, <1>2, <1>4, <1>5, <1>6
  <2> QED BY <1>1, <1>2, <1>4, <2>1, SeqEqual
<1>8. FlattenSeq(Append(fs, F[x])) = FlattenSeq(fs) \o F[x]
  <2> HIDE DEF fs
  <2> QED BY <1>2, <1>3, FlattenAppend
<1> QED BY <1>7, <1>8 DEF FlatMap

LEMMA FlatMapOne ==
  ASSUME NEW X, NEW Y, NEW F \in Writers(X, Y), NEW x \in X
  PROVE  FlatMap(F, <<x>>) = F[x]
<1>1. Append(<<>>, x) = <<x>> /\ <<>> \in Seq(X)
  OBVIOUS
<1>2. FlatMap(F, Append(<<>>, x)) = FlatMap(F, <<>>) \o F[x]
  BY <1>1, FlatMapAppend
<1>3. F[x] \in Seq(Y)
  BY DEF Writers
<1> QED BY <1>1, <1>2, <1>3, FlatMapNothing, ConcatEmptySeq

LEMMA PairIsConcat ==
  ASSUME NEW X, NEW x \in X, NEW y \in X
  PROVE  <<x>> \o <<y>> = <<x, y>> /\ Append(<<x>>, y) = <<x, y>>
<1> DEFINE a == <<x>>
           b == <<y>>
           c == <<x, y>>
<1>1. /\ a \in Seq(X) /\ b \in Seq(X) /\ c \in Seq(X)
      /\ Len(a) = 1 /\ Len(b) = 1 /\ Len(c) = 2
      /\ a[1] = x /\ b[1] = y /\ c[1] = x /\ c[2] = y
  OBVIOUS
<1> HIDE DEF a, b, c
<1>2. /\ a \o b \in Seq(X) /\ Len(a \o b) = Len(a) + Len(b)
      /\ \A i \in 1 .. Len(a) + Len(b) : (a \o b)[i] = IF i <= Len(a) THEN a[i] ELSE b[i - Len(a)]
  BY <1>1, ConcatProperties
<1>3. \A i \in 1 .. Len(a \o b) : (a \o b)[i] = c[i]
  <2>1. (a \o b)[1] = c[1]
    BY <1>1, <1>2
  <2>2. (a \o b)[2] = c[2]
    BY <1>1, <1>2
  <2>3. 1 .. Len(a \o b) = {1, 2}
    BY <1>1, <1>2
  <2> QED BY <2>1, <2>2, <2>3
<1>4. a \o b = c
  BY <1>1, <1>2, <1>3, SeqEqual
<1>5. Append(a, y) = a \o <<y>>
  BY <1>1, AppendIsConcat
<1> QED BY <1>4, <1>5 DEF a, b, c

LEMMA FlatMapTwo ==
  ASSUME NEW X, NEW Y, NEW F \in Writers(X, Y), NEW x \in X, NEW y \in X
  PROVE  FlatMap(F, <<x, y>>) = F[x] \o F[y]
<1>1. Append(<<x>>, y) = <<x, y>> /\ <<x>> \in Seq(X)
  <2>1. <<x>> \in Seq(X)
    OBVIOUS
  <2> QED BY <2>1, PairIsConcat
<1>2. FlatMap(F, Append(<<x>>, y)) = FlatMap(F, <<x>>) \o F[y]
  BY <1>1, FlatMapAppend
<1>3. FlatMap(F, <<x>>) = F[x]
  BY FlatMapOne
<1> QED BY <1>1, <1>2, <1>3

\* Writing two sequences after each other is writing their concatenation.
LEMMA FlatMapConcat ==
  ASSUME NEW X, NEW Y, NEW F \in Writers(X, Y), NEW s \in Seq(X), NEW t \in Seq(X)
  PROVE  FlatMap(F, s \o t) = FlatMap(F, s) \o FlatMap(F, t)
<1>0. \A u \in Seq(X) : FlatMap(F, u) \in Seq(Y)
  BY FlatMapTyped
<1>1. FlatMap(F, s \o <<>>) = FlatMap(F, s) \o FlatMap(F, <<>>)
  <2>1. s \o <<>> = s /\ FlatMap(F, <<>>) = <<>> /\ FlatMap(F, s) \o <<>> = FlatMap(F, s)
    BY <1>0, ConcatEmptySeq, FlatMapNothing
  <2> QED BY <2>1
<1>2. ASSUME NEW u \in Seq(X), FlatMap(F, s \o u) = FlatMap(F, s) \o FlatMap(F, u), NEW x \in X
      PROVE  FlatMap(F, s \o Append(u, x)) = FlatMap(F, s) \o FlatMap(F, Append(u, x))
  <2>1. Append(u, x) \in Seq(X) /\ s \o u \in Seq(X) /\ <<x>> \in Seq(X)
    BY AppendProperties, ConcatProperties
  <2>2. s \o Append(u, x) = Append(s \o u, x)
    <3>1. Append(u, x) = u \o <<x>> /\ Append(s \o u, x) = (s \o u) \o <<x>>
      BY <2>1, AppendIsConcat
    <3> QED BY <2>1, <3>1, ConcatAssociative
  <2>3. FlatMap(F, Append(s \o u, x)) = FlatMap(F, s \o u) \o F[x]
    BY <2>1, FlatMapAppend
  <2>4. FlatMap(F, Append(u, x)) = FlatMap(F, u) \o F[x]
    BY <2>1, FlatMapAppend
  <2>5. (FlatMap(F, s) \o FlatMap(F, u)) \o F[x] = FlatMap(F, s) \o (FlatMap(F, u) \o F[x])
    <3>1. FlatMap(F, s) \in Seq(Y) /\ FlatMap(F, u) \in Seq(Y)
      BY <1>0
    <3>2. F[x] \in Seq(Y)
      BY DEF Writers
    <3>3. \A a, b, c \in Seq(Y) : (a \o b) \o c = a \o (b \o c)
      <4> TAKE a, b, c \in Seq(Y)
      <4> QED BY ConcatAssociative, SMTT(30)
    <3> QED BY <3>1, <3>2, <3>3
  <2> QED BY <1>2, <2>2, <2>3, <2>4, <2>5
<1> DEFINE Q == {u \in Seq(X) : FlatMap(F, s \o u) = FlatMap(F, s) \o FlatMap(F, u)}
<1>3. Q \in SUBSET Seq(X) /\ <<>> \in Q
  BY <1>1, EmptySeq
<1>4. \A u \in Q : \A x \in X : Append(u, x) \in Q
  BY <1>2, AppendProperties
<1> HIDE DEF Q
<1>5. Q = Seq(X)
  BY <1>3, <1>4, SeqInduction
<1> QED BY <1>5 DEF Q

LEMMA MapTypedIn ==
  ASSUME NEW X, NEW Y, NEW F \in Writers(X, Y), NEW s \in Seq(X)
  PROVE  [k \in DOMAIN s |-> F[s[k]]] \in Seq(Seq(Y))
  BY MapTyped DEF Writers

\* Flattening two sequences after each other.
LEMMA FlattenConcat ==
  ASSUME NEW X, NEW a \in Seq(Seq(X)), NEW b \in Seq(Seq(X))
  PROVE  FlattenSeq(a \o b) = FlattenSeq(a) \o FlattenSeq(b)
<1> DEFINE F == [s \in Seq(X) |-> s]
<1>1. F \in Writers(Seq(X), X)
  BY DEF Writers
<1>2. ASSUME NEW s \in Seq(Seq(X)) PROVE FlatMap(F, s) = FlattenSeq(s)
  <2>1. \A k \in DOMAIN s : s[k] \in Seq(X)
    BY ElementOfSeq, LenProperties
  <2>2. [k \in DOMAIN s |-> F[s[k]]] = [k \in DOMAIN s |-> s[k]]
    BY <2>1
  <2>3. [k \in DOMAIN s |-> s[k]] = s
    OBVIOUS
  <2> HIDE DEF F
  <2> QED BY <2>2, <2>3 DEF FlatMap
<1> HIDE DEF F
<1>3. a \o b \in Seq(Seq(X))
  BY ConcatProperties
<1>4. FlatMap(F, a \o b) = FlatMap(F, a) \o FlatMap(F, b)
  BY <1>1, FlatMapConcat
<1> QED BY <1>2, <1>3, <1>4

LEMMA FlattenOne ==
  ASSUME NEW X, NEW s \in Seq(X)
  PROVE  FlattenSeq(<<s>>) = s
<1>1. Append(<<>>, s) = <<s>> /\ <<>> \in Seq(Seq(X))
  OBVIOUS
<1>2. FlattenSeq(Append(<<>>, s)) = FlattenSeq(<<>>) \o s
  BY <1>1, FlattenAppend
<1> QED BY <1>1, <1>2, FlattenNothing, ConcatEmptySeq

Maps(X, Y) == [X -> Y]

Mapped(G, s) == [k \in DOMAIN s |-> G[s[k]]]

LEMMA MappedTyped ==
  ASSUME NEW X, NEW Y, NEW G \in Maps(X, Y), NEW s \in Seq(X)
  PROVE  Mapped(G, s) \in Seq(Y) /\ Len(Mapped(G, s)) = Len(s)
  BY MapTyped DEF Mapped, Maps

LEMMA MappedConcat ==
  ASSUME NEW X, NEW Y, NEW G \in Maps(X, Y), NEW s \in Seq(X), NEW t \in Seq(X)
  PROVE  Mapped(G, s \o t) = Mapped(G, s) \o Mapped(G, t)
<1>1. /\ s \o t \in Seq(X) /\ Len(s \o t) = Len(s) + Len(t) /\ Len(s) \in Nat /\ Len(t) \in Nat
      /\ DOMAIN (s \o t) = 1 .. Len(s) + Len(t) /\ DOMAIN s = 1 .. Len(s) /\ DOMAIN t = 1 .. Len(t)
  BY ConcatProperties, LenProperties
<1>2. /\ Mapped(G, s) \in Seq(Y) /\ Len(Mapped(G, s)) = Len(s)
      /\ Mapped(G, t) \in Seq(Y) /\ Len(Mapped(G, t)) = Len(t)
      /\ Mapped(G, s \o t) \in Seq(Y) /\ Len(Mapped(G, s \o t)) = Len(s) + Len(t)
  <2>1. Mapped(G, s) \in Seq(Y) /\ Len(Mapped(G, s)) = Len(s)
    BY MappedTyped
  <2>2. Mapped(G, t) \in Seq(Y) /\ Len(Mapped(G, t)) = Len(t)
    BY MappedTyped
  <2>3. Mapped(G, s \o t) \in Seq(Y) /\ Len(Mapped(G, s \o t)) = Len(s \o t)
    <3> DEFINE u == s \o t
    <3>1. u \in Seq(X)
      BY <1>1
    <3> HIDE DEF u
    <3>2. Mapped(G, u) \in Seq(Y) /\ Len(Mapped(G, u)) = Len(u)
      BY <3>1, MappedTyped
    <3> QED BY <3>2 DEF u
  <2> QED BY <1>1, <2>1, <2>2, <2>3
<1> DEFINE left == Mapped(G, s \o t)
           right == Mapped(G, s) \o Mapped(G, t)
<1>3. right \in Seq(Y) /\ Len(right) = Len(Mapped(G, s)) + Len(Mapped(G, t))
  BY <1>2, ConcatProperties
<1>4. ASSUME NEW k \in 1 .. Len(s) + Len(t) PROVE left[k] = right[k]
  <2>1. left[k] = G[(s \o t)[k]]
    BY <1>1 DEF Mapped, Maps
  <2>2. CASE k <= Len(s)
    <3>1. k \in DOMAIN s /\ (s \o t)[k] = s[k]
      BY <1>1, <2>2, ConcatProperties
    <3>2. right[k] = Mapped(G, s)[k]
      BY <1>1, <1>2, <2>2, ConcatProperties
    <3>3. Mapped(G, s)[k] = G[s[k]]
      BY <3>1 DEF Mapped
    <3> QED BY <2>1, <3>1, <3>2, <3>3
  <2>3. CASE k > Len(s)
    <3>1. k - Len(s) \in DOMAIN t /\ (s \o t)[k] = t[k - Len(s)]
      BY <1>1, <2>3, ConcatProperties
    <3>2. right[k] = Mapped(G, t)[k - Len(s)]
      BY <1>1, <1>2, <2>3, ConcatProperties
    <3>3. Mapped(G, t)[k - Len(s)] = G[t[k - Len(s)]]
      BY <3>1 DEF Mapped
    <3> QED BY <2>1, <3>1, <3>2, <3>3
  <2> HIDE DEF left, right
  <2> QED BY <1>1, <2>2, <2>3
<1> HIDE DEF left, right
<1>5. left = right
  BY <1>2, <1>3, <1>4, SeqEqual DEF left
<1> QED BY <1>5 DEF left, right

\* Mapping each of the sequences and flattening them.
LEMMA FlattenMapped ==
  ASSUME NEW X, NEW Y, NEW G \in Maps(X, Y), NEW seqs \in Seq(Seq(X))
  PROVE  /\ [k \in DOMAIN seqs |-> Mapped(G, seqs[k])] \in Seq(Seq(Y))
         /\ FlattenSeq([k \in DOMAIN seqs |-> Mapped(G, seqs[k])]) = Mapped(G, FlattenSeq(seqs))
<1> DEFINE F == [s \in Seq(X) |-> Mapped(G, s)]
<1>1. F \in Writers(Seq(X), Y) /\ F \in [Seq(X) -> Seq(Y)]
  <2>1. \A s \in Seq(X) : Mapped(G, s) \in Seq(Y)
    BY MappedTyped
  <2> QED BY <2>1 DEF Writers
<1>2. ASSUME NEW s \in Seq(Seq(X))
      PROVE  [k \in DOMAIN s |-> F[s[k]]] = [k \in DOMAIN s |-> Mapped(G, s[k])]
  <2>1. \A k \in DOMAIN s : s[k] \in Seq(X)
    BY ElementOfSeq, LenProperties
  <2> QED BY <2>1
<1>3. \A s \in Seq(X) : F[s] = Mapped(G, s)
  OBVIOUS
<1> HIDE DEF F
<1>4. [k \in DOMAIN seqs |-> Mapped(G, seqs[k])] \in Seq(Seq(Y))
  BY <1>1, <1>2, MapTypedIn
<1> DEFINE Q == {s \in Seq(Seq(X)) : FlatMap(F, s) = Mapped(G, FlattenSeq(s))}
<1>5. <<>> \in Q
  <2>1. Mapped(G, <<>>) = <<>>
    BY DEF Mapped
  <2> QED BY <2>1, FlatMapNothing, FlattenNothing, EmptySeq
<1>6. ASSUME NEW s \in Q, NEW x \in Seq(X) PROVE Append(s, x) \in Q
  <2>1. FlatMap(F, Append(s, x)) = FlatMap(F, s) \o F[x]
    BY <1>1, FlatMapAppend
  <2>2. FlattenSeq(Append(s, x)) = FlattenSeq(s) \o x
    BY FlattenAppend
  <2>3. FlattenSeq(s) \in Seq(X)
    BY FlattenTyped
  <2>4. Mapped(G, FlattenSeq(s) \o x) = Mapped(G, FlattenSeq(s)) \o Mapped(G, x)
    <3> DEFINE t == FlattenSeq(s)
    <3>1. t \in Seq(X)
      BY <2>3
    <3> HIDE DEF t
    <3>2. Mapped(G, t \o x) = Mapped(G, t) \o Mapped(G, x)
      BY <3>1, MappedConcat
    <3> QED BY <3>2 DEF t
  <2>5. FlatMap(F, s) = Mapped(G, FlattenSeq(s)) /\ Append(s, x) \in Seq(Seq(X))
    BY AppendProperties
  <2> QED BY <1>3, <2>1, <2>2, <2>4, <2>5
<1>7. Q \in SUBSET Seq(Seq(X))
  OBVIOUS
<1> HIDE DEF Q
<1>8. Q = Seq(Seq(X))
  BY <1>5, <1>6, <1>7, SeqInduction
<1>9. FlatMap(F, seqs) = Mapped(G, FlattenSeq(seqs))
  BY <1>8 DEF Q
<1> QED BY <1>2, <1>4, <1>9 DEF FlatMap

\* The sequences of one element each.
LEMMA FlattenSingles ==
  ASSUME NEW X, NEW s \in Seq(X)
  PROVE  /\ [k \in DOMAIN s |-> <<s[k]>>] \in Seq(Seq(X))
         /\ FlattenSeq([k \in DOMAIN s |-> <<s[k]>>]) = s
<1> DEFINE F == [x \in X |-> <<x>>]
<1>1. F \in Writers(X, X) /\ F \in [X -> Seq(X)] /\ \A x \in X : F[x] = <<x>>
  BY DEF Writers
<1>2. ASSUME NEW t \in Seq(X)
      PROVE  [k \in DOMAIN t |-> F[t[k]]] = [k \in DOMAIN t |-> <<t[k]>>]
  <2>1. \A k \in DOMAIN t : t[k] \in X
    BY ElementOfSeq, LenProperties
  <2> QED BY <2>1
<1> HIDE DEF F
<1>3. [k \in DOMAIN s |-> <<s[k]>>] \in Seq(Seq(X))
  <2>1. [k \in DOMAIN s |-> F[s[k]]] \in Seq(Seq(X))
    BY <1>1, MapTypedIn
  <2> QED BY <1>2, <2>1
<1> DEFINE Q == {t \in Seq(X) : FlatMap(F, t) = t}
<1>4. <<>> \in Q /\ Q \in SUBSET Seq(X)
  BY FlatMapNothing, EmptySeq
<1>5. ASSUME NEW t \in Q, NEW x \in X PROVE Append(t, x) \in Q
  <2>1. FlatMap(F, Append(t, x)) = FlatMap(F, t) \o F[x]
    BY <1>1, FlatMapAppend
  <2>2. t \o <<x>> = Append(t, x) /\ Append(t, x) \in Seq(X)
    BY AppendProperties, AppendIsConcat
  <2> QED BY <1>1, <2>1, <2>2
<1> HIDE DEF Q
<1>6. Q = Seq(X)
  BY <1>4, <1>5, SeqInduction
<1>7. FlatMap(F, s) = s
  BY <1>6 DEF Q
<1> QED BY <1>2, <1>3, <1>7 DEF FlatMap

\* What is in a flattening is in one of the sequences.
LEMMA FlattenRange ==
  ASSUME NEW X, NEW seqs \in Seq(Seq(X)), NEW x \in X
  PROVE  (\E k \in DOMAIN FlattenSeq(seqs) : FlattenSeq(seqs)[k] = x)
           <=> \E k \in DOMAIN seqs : \E j \in DOMAIN seqs[k] : seqs[k][j] = x
<1> DEFINE In(s) == \E j \in DOMAIN s : s[j] = x
           Q == {s \in Seq(Seq(X)) : In(FlattenSeq(s)) <=> \E k \in DOMAIN s : In(s[k])}
<1>1. <<>> \in Q
  BY FlattenNothing, EmptySeq
<1>2. ASSUME NEW a \in Seq(X), NEW b \in Seq(X) PROVE In(a \o b) <=> In(a) \/ In(b)
  <2>1. /\ Len(a \o b) = Len(a) + Len(b) /\ Len(a) \in Nat /\ Len(b) \in Nat
        /\ DOMAIN (a \o b) = 1 .. Len(a) + Len(b) /\ DOMAIN a = 1 .. Len(a) /\ DOMAIN b = 1 .. Len(b)
        /\ \A k \in 1 .. Len(a) : (a \o b)[k] = a[k]
        /\ \A k \in 1 .. Len(b) : (a \o b)[Len(a) + k] = b[k]
    BY ConcatProperties, LenProperties
  <2>2. ASSUME In(a \o b) PROVE In(a) \/ In(b)
    <3>1. PICK k \in 1 .. Len(a) + Len(b) : (a \o b)[k] = x
      BY <2>1, <2>2
    <3>2. CASE k <= Len(a)
      <4>1. k \in DOMAIN a /\ a[k] = x
        BY <2>1, <3>1, <3>2
      <4> QED BY <4>1
    <3>3. CASE k > Len(a)
      <4>1. k - Len(a) \in 1 .. Len(b) /\ Len(a) + (k - Len(a)) = k
        BY <2>1, <3>3
      <4> QED BY <2>1, <3>1, <4>1
    <3> QED BY <2>1, <3>2, <3>3
  <2>3. ASSUME In(a) PROVE In(a \o b)
    <3>1. PICK k \in 1 .. Len(a) : a[k] = x
      BY <2>1, <2>3
    <3> QED BY <2>1, <3>1
  <2>4. ASSUME In(b) PROVE In(a \o b)
    <3>1. PICK k \in 1 .. Len(b) : b[k] = x
      BY <2>1, <2>4
    <3>2. Len(a) + k \in 1 .. Len(a) + Len(b)
      BY <2>1
    <3> QED BY <2>1, <3>1, <3>2
  <2> QED BY <2>2, <2>3, <2>4
<1>3. ASSUME NEW s \in Q, NEW t \in Seq(X) PROVE Append(s, t) \in Q
  <2>1. FlattenSeq(Append(s, t)) = FlattenSeq(s) \o t /\ FlattenSeq(s) \in Seq(X)
    BY FlattenAppend, FlattenTyped
  <2>2. /\ Append(s, t) \in Seq(Seq(X)) /\ Len(s) \in Nat /\ DOMAIN s = 1 .. Len(s)
        /\ DOMAIN Append(s, t) = 1 .. Len(s) + 1
        /\ Append(s, t)[Len(s) + 1] = t /\ \A k \in 1 .. Len(s) : Append(s, t)[k] = s[k]
    BY AppendProperties, LenProperties
  <2>3. In(FlattenSeq(s)) <=> \E k \in DOMAIN s : In(s[k])
    OBVIOUS
  <2>4. In(FlattenSeq(Append(s, t))) <=> In(FlattenSeq(s)) \/ In(t)
    <3> DEFINE a == FlattenSeq(s)
    <3>1. a \in Seq(X)
      BY <2>1
    <3> HIDE DEF a
    <3>2. In(a \o t) <=> In(a) \/ In(t)
      BY <1>2, <3>1
    <3> QED BY <2>1, <3>2 DEF a
  <2> DEFINE u == Append(s, t)
  <2> HIDE DEF In, u
  <2>5. (\E k \in DOMAIN u : In(u[k])) <=> (\E k \in DOMAIN s : In(s[k])) \/ In(t)
    <3>1. /\ Len(s) \in Nat /\ DOMAIN s = 1 .. Len(s) /\ DOMAIN u = 1 .. Len(s) + 1
          /\ u[Len(s) + 1] = t /\ \A k \in 1 .. Len(s) : u[k] = s[k]
      BY <2>2 DEF u
    <3>2. 1 .. Len(s) + 1 = 1 .. Len(s) \cup {Len(s) + 1}
      BY <3>1
    <3> QED BY <3>1, <3>2
  <2> QED BY <2>2, <2>3, <2>4, <2>5 DEF u
<1>4. Q \in SUBSET Seq(Seq(X))
  OBVIOUS
<1> HIDE DEF Q
<1>5. Q = Seq(Seq(X))
  BY <1>1, <1>3, <1>4, SeqInduction
<1>6. In(FlattenSeq(seqs)) <=> \E k \in DOMAIN seqs : In(seqs[k])
  BY <1>5 DEF Q
<1> QED BY <1>6

----------------------------------------------------------------------------
(* Keys and pointers                                                        *)

LEMMA CharactersAreThere ==
  "~" \in Characters /\ "/" \in Characters /\ "0" \in Characters /\ "1" \in Characters
  BY CharactersAssumption

\* str::replace, what a character of a key is spelled in a pointer, and what a
\* key adds to one, as writers.
Replacer(old, new) == [char \in Characters |-> IF char = old THEN new ELSE <<char>>]

Speller == [char \in Characters |-> Spelled(char)]

KeySpeller == [key \in Text |-> <<"/">> \o SpelledKey(key)]

LEMMA ReplaceIsFlatMap ==
  ASSUME NEW s \in Text, NEW old, NEW new
  PROVE  Replace(s, old, new) = FlatMap(Replacer(old, new), s)
<1>1. \A k \in DOMAIN s : s[k] \in Characters
  BY ElementOfSeq, LenProperties DEF Text
<1>2. [k \in DOMAIN s |-> IF s[k] = old THEN new ELSE <<s[k]>>] =
      [k \in DOMAIN s |-> Replacer(old, new)[s[k]]]
  BY <1>1 DEF Replacer
<1> QED BY <1>2 DEF Replace, FlatMap

LEMMA SpelledKeyIsFlatMap ==
  ASSUME NEW s \in Text
  PROVE  SpelledKey(s) = FlatMap(Speller, s)
<1>1. \A k \in DOMAIN s : s[k] \in Characters
  BY ElementOfSeq, LenProperties DEF Text
<1>2. [k \in DOMAIN s |-> Spelled(s[k])] = [k \in DOMAIN s |-> Speller[s[k]]]
  BY <1>1 DEF Speller
<1> QED BY <1>2 DEF SpelledKey, FlatMap

LEMMA SpellIsFlatMap ==
  ASSUME NEW path \in Seq(Text)
  PROVE  Spell(path) = FlatMap(KeySpeller, path)
<1>1. \A k \in DOMAIN path : path[k] \in Text
  BY ElementOfSeq, LenProperties
<1>2. [k \in DOMAIN path |-> <<"/">> \o SpelledKey(path[k])] =
      [k \in DOMAIN path |-> KeySpeller[path[k]]]
  BY <1>1 DEF KeySpeller
<1> QED BY <1>2 DEF Spell, FlatMap

LEMMA SpellerTyped ==
  /\ Speller \in Writers(Characters, Characters)
  /\ Speller \in Writers(Characters, Characters \ {"/"})
<1>1. ASSUME NEW char \in Characters
      PROVE  Spelled(char) \in Seq(Characters \ {"/"}) /\ Spelled(char) \in Seq(Characters)
  <2>1. CASE char = "~"
    <3>1. Spelled(char) = <<"~", "0">>
      BY <2>1 DEF Spelled
    <3> QED BY <3>1, CharactersAreThere
  <2>2. CASE char = "/"
    <3>1. Spelled(char) = <<"~", "1">>
      BY <2>2 DEF Spelled
    <3> QED BY <3>1, CharactersAreThere
  <2>3. CASE char # "~" /\ char # "/"
    <3>1. Spelled(char) = <<char>>
      BY <2>3 DEF Spelled
    <3> QED BY <2>3, <3>1
  <2> QED BY <2>1, <2>2, <2>3
<1> QED BY <1>1 DEF Speller, Writers

\* No slash is left in a key that is spelled.
LEMMA SpelledKeyTyped ==
  ASSUME NEW s \in Text
  PROVE  /\ SpelledKey(s) \in Text
         /\ SpelledKey(s) \in Seq(Characters \ {"/"})
<1>0. s \in Seq(Characters)
  BY DEF Text
<1>1. FlatMap(Speller, s) \in Seq(Characters)
  BY <1>0, SpellerTyped, FlatMapTyped
<1>2. FlatMap(Speller, s) \in Seq(Characters \ {"/"})
  BY <1>0, SpellerTyped, FlatMapTyped
<1> QED BY <1>1, <1>2, SpelledKeyIsFlatMap DEF Text

LEMMA KeySpellerTyped == KeySpeller \in Writers(Text, Characters)
<1>1. <<"/">> \in Seq(Characters)
  BY CharactersAreThere
<1>2. \A s \in Text : <<"/">> \o SpelledKey(s) \in Text
  BY <1>1, SpelledKeyTyped, ConcatProperties DEF Text
<1> QED BY <1>2 DEF KeySpeller, Text, Writers

LEMMA SpelledKeyConcat ==
  ASSUME NEW s \in Text, NEW t \in Text
  PROVE  SpelledKey(s \o t) = SpelledKey(s) \o SpelledKey(t)
<1>1. s \o t \in Text
  BY ConcatProperties DEF Text
<1>2. s \in Seq(Characters) /\ t \in Seq(Characters)
  BY DEF Text
<1>3. FlatMap(Speller, s \o t) = FlatMap(Speller, s) \o FlatMap(Speller, t)
  BY <1>2, SpellerTyped, FlatMapConcat
<1> QED BY <1>1, <1>3, SpelledKeyIsFlatMap

LEMMA SpelledKeyOne ==
  ASSUME NEW char \in Characters
  PROVE  SpelledKey(<<char>>) = Spelled(char)
<1>1. <<char>> \in Text
  BY DEF Text
<1>2. FlatMap(Speller, <<char>>) = Speller[char]
  BY SpellerTyped, FlatMapOne
<1> QED BY <1>1, <1>2, SpelledKeyIsFlatMap DEF Speller

LEMMA SpelledKeyNothing == SpelledKey(<<>>) = <<>> /\ <<>> \in Text
<1>1. <<>> \in Text
  BY EmptySeq DEF Text
<1> QED BY <1>1, SpelledKeyIsFlatMap, FlatMapNothing

LEMMA SpellTyped ==
  ASSUME NEW path \in Seq(Text)
  PROVE  Spell(path) \in Text
  BY SpellIsFlatMap, KeySpellerTyped, FlatMapTyped DEF Text

LEMMA SpellNothing == Spell(<<>>) = <<>> /\ <<>> \in Seq(Text)
  BY EmptySeq, SpellIsFlatMap, FlatMapNothing

LEMMA SpellConcat ==
  ASSUME NEW path \in Seq(Text), NEW more \in Seq(Text)
  PROVE  Spell(path \o more) = Spell(path) \o Spell(more)
<1>1. path \o more \in Seq(Text)
  BY ConcatProperties
<1>2. FlatMap(KeySpeller, path \o more) = FlatMap(KeySpeller, path) \o FlatMap(KeySpeller, more)
  BY KeySpellerTyped, FlatMapConcat
<1> QED BY <1>1, <1>2, SpellIsFlatMap

LEMMA SpellOne ==
  ASSUME NEW key \in Text
  PROVE  Spell(<<key>>) = <<"/">> \o SpelledKey(key) /\ <<key>> \in Seq(Text)
<1>1. <<key>> \in Seq(Text)
  OBVIOUS
<1>2. FlatMap(KeySpeller, <<key>>) = KeySpeller[key]
  BY KeySpellerTyped, FlatMapOne DEF Text
<1> QED BY <1>1, <1>2, SpellIsFlatMap DEF KeySpeller

----------------------------------------------------------------------------
(* escape_pointer_segment spells a key                                      *)

\* escape_pointer_segment, by its two replacements.
Escaped(s) == Replace(Replace(s, "~", <<"~", "0">>), "/", <<"~", "1">>)

LEMMA ReplacerTyped ==
  /\ Replacer("~", <<"~", "0">>) \in Writers(Characters, Characters)
  /\ Replacer("/", <<"~", "1">>) \in Writers(Characters, Characters)
<1>1. <<"~", "0">> \in Seq(Characters) /\ <<"~", "1">> \in Seq(Characters)
  BY CharactersAreThere
<1>2. \A char \in Characters : <<char>> \in Seq(Characters)
  OBVIOUS
<1> QED BY <1>1, <1>2 DEF Replacer, Writers

LEMMA EscapedConcat ==
  ASSUME NEW s \in Text, NEW t \in Text
  PROVE  Escaped(s \o t) = Escaped(s) \o Escaped(t)
<1> DEFINE tilde(u) == FlatMap(Replacer("~", <<"~", "0">>), u)
           slash(u) == FlatMap(Replacer("/", <<"~", "1">>), u)
<1>0. Text = Seq(Characters)
  BY DEF Text
<1>1. \A u, v \in Text : u \o v \in Text
  BY <1>0, ConcatProperties
<1>2. \A u \in Text : tilde(u) \in Text /\ slash(u) \in Text
  BY <1>0, ReplacerTyped, FlatMapTyped
<1>3. ASSUME NEW u \in Text, NEW v \in Text
      PROVE  tilde(u \o v) = tilde(u) \o tilde(v) /\ slash(u \o v) = slash(u) \o slash(v)
  <2>1. u \in Seq(Characters) /\ v \in Seq(Characters)
    BY <1>0
  <2>2. ASSUME NEW F \in Writers(Characters, Characters)
        PROVE  FlatMap(F, u \o v) = FlatMap(F, u) \o FlatMap(F, v)
    BY <2>1, FlatMapConcat
  <2> QED BY <2>2, ReplacerTyped
<1>4. \A u \in Text : Escaped(u) = slash(tilde(u))
  BY <1>2, ReplaceIsFlatMap DEF Escaped
<1> HIDE DEF tilde, slash
<1>5. Escaped(s \o t) = slash(tilde(s \o t)) /\ Escaped(s) = slash(tilde(s)) /\ Escaped(t) = slash(tilde(t))
  BY <1>1, <1>4
<1>6. slash(tilde(s) \o tilde(t)) = slash(tilde(s)) \o slash(tilde(t))
  BY <1>2, <1>3
<1>7. tilde(s \o t) = tilde(s) \o tilde(t)
  BY <1>3
<1> QED BY <1>5, <1>6, <1>7

LEMMA EscapedOne ==
  ASSUME NEW char \in Characters
  PROVE  Escaped(<<char>>) = Spelled(char)
<1> DEFINE tilde == Replacer("~", <<"~", "0">>)
           slash == Replacer("/", <<"~", "1">>)
<1>0. Text = Seq(Characters)
  BY DEF Text
<1>1. <<char>> \in Text
  BY <1>0
<1>2. FlatMap(tilde, <<char>>) = tilde[char]
  BY ReplacerTyped, FlatMapOne
<1>3. tilde[char] \in Text
  BY <1>0, ReplacerTyped DEF Writers
<1>4. Escaped(<<char>>) = FlatMap(slash, tilde[char])
  BY <1>1, <1>2, <1>3, ReplaceIsFlatMap DEF Escaped
<1>5. CASE char = "~"
  <2>1. tilde[char] = <<"~", "0">>
    BY <1>5 DEF Replacer
  <2>2. FlatMap(slash, <<"~", "0">>) = slash["~"] \o slash["0"]
    BY CharactersAreThere, ReplacerTyped, FlatMapTwo
  <2>3. slash["~"] = <<"~">> /\ slash["0"] = <<"0">>
    BY CharactersAreThere DEF Replacer
  <2>4. Spelled(char) = <<"~", "0">>
    BY <1>5 DEF Spelled
  <2>5. <<"~">> \o <<"0">> = <<"~", "0">>
    BY CharactersAreThere, PairIsConcat
  <2> HIDE DEF slash, tilde
  <2> QED BY <1>4, <2>1, <2>2, <2>3, <2>4, <2>5
<1>6. CASE char # "~"
  <2>1. tilde[char] = <<char>>
    BY <1>6 DEF Replacer
  <2>2. FlatMap(slash, <<char>>) = slash[char]
    BY ReplacerTyped, FlatMapOne
  <2>3. slash[char] = Spelled(char)
    BY <1>6 DEF Replacer, Spelled
  <2> HIDE DEF slash, tilde
  <2> QED BY <1>4, <2>1, <2>2, <2>3
<1> QED BY <1>5, <1>6

\* escape_pointer_segment writes a key as RFC 6901 spells it.
LEMMA EscapeIsSpelled ==
  ASSUME NEW key \in Text
  PROVE  EscapePointerSegment(key) = SpelledKey(key)
<1> DEFINE Q == {s \in Text : Escaped(s) = SpelledKey(s)}
<1>0. Text = Seq(Characters)
  BY DEF Text
<1>1. <<>> \in Q
  <2>1. \A old, new : Replace(<<>>, old, new) = <<>>
    BY SpelledKeyNothing, ReplaceIsFlatMap, FlatMapNothing
  <2> QED BY <2>1, SpelledKeyNothing DEF Escaped
<1>2. ASSUME NEW s \in Q, NEW char \in Characters
      PROVE  Append(s, char) \in Q
  <2>1. s \in Text /\ <<char>> \in Text /\ Append(s, char) = s \o <<char>> /\ Append(s, char) \in Text
    BY <1>0, AppendIsConcat, AppendProperties
  <2>2. Escaped(s) = SpelledKey(s)
    OBVIOUS
  <2>3. Escaped(s \o <<char>>) = SpelledKey(s \o <<char>>)
    <3>1. Escaped(s \o <<char>>) = Escaped(s) \o Escaped(<<char>>)
      BY <2>1, EscapedConcat
    <3>2. SpelledKey(s \o <<char>>) = SpelledKey(s) \o SpelledKey(<<char>>)
      BY <2>1, SpelledKeyConcat
    <3> QED BY <2>2, <3>1, <3>2, EscapedOne, SpelledKeyOne
  <2> QED BY <2>1, <2>3
<1>3. Q \in SUBSET Text
  OBVIOUS
<1> HIDE DEF Q
<1>4. Q = Text
  BY <1>0, <1>1, <1>2, <1>3, SeqInduction
<1> QED BY <1>4 DEF Q, Escaped, EscapePointerSegment

\* child_pointer is the pointer of the path that is one key longer.
LEMMA ChildPointerSpells ==
  ASSUME NEW path \in Seq(Text), NEW key \in Text
  PROVE  ChildPointer(Spell(path), key) = Spell(Append(path, key))
<1>1. Append(path, key) = path \o <<key>>
  BY AppendIsConcat
<1>2. Spell(path \o <<key>>) = Spell(path) \o (<<"/">> \o SpelledKey(key))
  BY SpellOne, SpellConcat
<1>3. <<"/">> \in Seq(Characters) /\ Spell(path) \in Seq(Characters) /\ SpelledKey(key) \in Seq(Characters)
  BY CharactersAreThere, SpellTyped, SpelledKeyTyped DEF Text
<1>4. Spell(path) \o (<<"/">> \o SpelledKey(key)) = (Spell(path) \o <<"/">>) \o SpelledKey(key)
  BY <1>3, ConcatAssociative
<1> QED BY <1>1, <1>2, <1>4, EscapeIsSpelled DEF ChildPointer

----------------------------------------------------------------------------
(* A pointer spells one path, and a descendant's pointer a longer one       *)

LEMMA Associates ==
  ASSUME NEW X
  PROVE  \A a, b, c \in Seq(X) : (a \o b) \o c = a \o (b \o c)
<1> TAKE a, b, c \in Seq(X)
<1> QED BY ConcatAssociative, SMTT(30)

LEMMA Cancels ==
  ASSUME NEW X, NEW a \in Seq(X), NEW b \in Seq(X), NEW c \in Seq(X), a \o b = a \o c
  PROVE  b = c
  BY ConcatSimplifications

LEMMA FirstAndRest ==
  ASSUME NEW X, NEW s \in Seq(X), s # <<>>
  PROVE  \E x \in X, r \in Seq(X) : s = <<x>> \o r /\ Len(r) = Len(s) - 1
<1> DEFINE x == Head(s)
           r == Tail(s)
           c == <<x>> \o r
<1>1. Len(s) \in Nat \ {0} /\ x = s[1]
  BY EmptySeq
<1>2. x \in X /\ r \in Seq(X) /\ Len(r) = Len(s) - 1 /\ \A i \in 1 .. Len(r) : r[i] = s[i + 1]
  BY HeadTailProperties
<1>3. <<x>> \in Seq(X) /\ Len(<<x>>) = 1 /\ <<x>>[1] = x
  BY <1>2
<1> HIDE DEF x, r
<1>4. /\ c \in Seq(X) /\ Len(c) = Len(<<x>>) + Len(r)
      /\ \A i \in 1 .. Len(<<x>>) + Len(r) :
           c[i] = IF i <= Len(<<x>>) THEN <<x>>[i] ELSE r[i - Len(<<x>>)]
  BY <1>2, <1>3, ConcatProperties
<1> HIDE DEF c
<1>5. Len(c) = Len(s)
  BY <1>1, <1>2, <1>3, <1>4
<1>6. ASSUME NEW i \in 1 .. Len(s) PROVE c[i] = s[i]
  <2>1. CASE i = 1
    BY <2>1, <1>1, <1>2, <1>3, <1>4
  <2>2. CASE i # 1
    <3>1. i \in Nat /\ i - 1 \in 1 .. Len(r) /\ ~ (i <= 1) /\ i - 1 + 1 = i
      BY <2>2, <1>1, <1>2
    <3>2. c[i] = r[i - 1]
      BY <3>1, <1>1, <1>2, <1>3, <1>4
    <3> QED BY <3>1, <3>2, <1>2
  <2> QED BY <2>1, <2>2
<1>7. c = s
  BY <1>4, <1>5, <1>6, SeqEqual
<1> QED BY <1>2, <1>7 DEF c

\* Characters spelled with an escape.
Special(char) == char = "~" \/ char = "/"

LEMMA SpelledFacts ==
  ASSUME NEW char \in Characters
  PROVE  /\ Spelled(char) \in Seq(Characters)
         /\ Len(Spelled(char)) = IF Special(char) THEN 2 ELSE 1
         /\ Spelled(char)[1] = IF Special(char) THEN "~" ELSE char
         /\ Special(char) => Spelled(char)[2] = IF char = "~" THEN "0" ELSE "1"
<1>0. \A x, y \in Characters :
        <<x, y>> \in Seq(Characters) /\ Len(<<x, y>>) = 2 /\ <<x, y>>[1] = x /\ <<x, y>>[2] = y
  OBVIOUS
<1>1. CASE char = "~"
  <2>1. Spelled(char) = <<"~", "0">> /\ Special(char)
    BY <1>1 DEF Spelled, Special
  <2>2. /\ Spelled(char) \in Seq(Characters) /\ Len(Spelled(char)) = 2
        /\ Spelled(char)[1] = "~" /\ Spelled(char)[2] = "0"
    BY <1>0, <2>1, CharactersAreThere
  <2> QED BY <1>1, <2>1, <2>2
<1>2. CASE char = "/"
  <2>1. Spelled(char) = <<"~", "1">> /\ Special(char)
    BY <1>2 DEF Spelled, Special
  <2>2. /\ Spelled(char) \in Seq(Characters) /\ Len(Spelled(char)) = 2
        /\ Spelled(char)[1] = "~" /\ Spelled(char)[2] = "1"
    BY <1>0, <2>1, CharactersAreThere
  <2> QED BY <1>2, <2>1, <2>2
<1>3. CASE char # "~" /\ char # "/"
  <2>1. Spelled(char) = <<char>> /\ ~ Special(char)
    BY <1>3 DEF Spelled, Special
  <2> QED BY <2>1
<1> QED BY <1>1, <1>2, <1>3

\* What a character is spelled starts with it.
LEMMA SpelledTells ==
  ASSUME NEW char \in Characters, NEW rest \in Text, NEW s, s = Spelled(char) \o rest
  PROVE  /\ s # <<>>
         /\ s[1] = IF Special(char) THEN "~" ELSE char
         /\ Special(char) => s[2] = IF char = "~" THEN "0" ELSE "1"
<1> DEFINE x == Spelled(char)
<1>1. /\ x \in Seq(Characters) /\ rest \in Seq(Characters) /\ Len(rest) \in Nat
      /\ Len(x) = IF Special(char) THEN 2 ELSE 1
      /\ x[1] = IF Special(char) THEN "~" ELSE char
      /\ Special(char) => x[2] = IF char = "~" THEN "0" ELSE "1"
  BY SpelledFacts, LenProperties DEF Text
<1> HIDE DEF x
<1>2. /\ Len(x \o rest) = Len(x) + Len(rest)
      /\ \A i \in 1 .. Len(x) + Len(rest) : (x \o rest)[i] = IF i <= Len(x) THEN x[i] ELSE rest[i - Len(x)]
  BY <1>1, ConcatProperties
<1>3. s = x \o rest
  BY DEF x
<1>4. Len(s) # 0 /\ s[1] = x[1] /\ (Special(char) => s[2] = x[2])
  BY <1>1, <1>2, <1>3
<1>5. s # <<>>
  BY <1>4
<1> QED BY <1>1, <1>4, <1>5

\* The first character spelled tells the first character of the key.
LEMMA SpelledApart ==
  ASSUME NEW c \in Characters, NEW d \in Characters, NEW u \in Text, NEW v \in Text,
         Spelled(c) \o u = Spelled(d) \o v
  PROVE  c = d
<1> DEFINE s == Spelled(c) \o u
<1>0. s = Spelled(c) \o u /\ s = Spelled(d) \o v
  OBVIOUS
<1> HIDE DEF s
<1>1. /\ s[1] = IF Special(c) THEN "~" ELSE c
      /\ Special(c) => s[2] = IF c = "~" THEN "0" ELSE "1"
  BY <1>0, SpelledTells
<1>2. /\ s[1] = IF Special(d) THEN "~" ELSE d
      /\ Special(d) => s[2] = IF d = "~" THEN "0" ELSE "1"
  BY <1>0, SpelledTells
<1> QED BY <1>1, <1>2 DEF Special

\* No two keys are spelled alike.
LEMMA SpelledKeyInjective ==
  ASSUME NEW s \in Text, NEW t \in Text, SpelledKey(s) = SpelledKey(t)
  PROVE  s = t
<1> DEFINE Only1(n) == \A x, y \in Text : Len(x) = n /\ SpelledKey(x) = SpelledKey(y) => x = y
           P == {n \in Nat : Only1(n)}
<1>a. Text = Seq(Characters)
  BY DEF Text
<1>b. \A x \in Text : Len(x) \in Nat
  BY <1>a, LenProperties
<1>c. ASSUME NEW y \in Text, y # <<>>
      PROVE  \E d \in Characters, v \in Text :
               y = <<d>> \o v /\ Len(v) = Len(y) - 1 /\ SpelledKey(y) = Spelled(d) \o SpelledKey(v)
  <2>1. PICK d \in Characters, v \in Text : y = <<d>> \o v /\ Len(v) = Len(y) - 1
    BY <1>a, <1>c, FirstAndRest
  <2>2. <<d>> \in Text
    BY <1>a
  <2>3. SpelledKey(<<d>> \o v) = Spelled(d) \o SpelledKey(v)
    BY <2>2, SpelledKeyConcat, SpelledKeyOne
  <2> QED BY <2>1, <2>3
<1>d. \A y \in Text : y # <<>> => SpelledKey(y) # <<>>
  <2> SUFFICES ASSUME NEW y \in Text, y # <<>> PROVE SpelledKey(y) # <<>>
    OBVIOUS
  <2>1. PICK d \in Characters, v \in Text : SpelledKey(y) = Spelled(d) \o SpelledKey(v)
    BY <1>c
  <2>2. SpelledKey(v) \in Text
    BY SpelledKeyTyped
  <2> QED BY <2>1, <2>2, SpelledTells
<1>1. Only1(0)
  <2> SUFFICES ASSUME NEW x \in Text, NEW y \in Text, Len(x) = 0, SpelledKey(x) = SpelledKey(y)
               PROVE  x = y
    OBVIOUS
  <2>1. x = <<>>
    BY <1>a, EmptySeq
  <2> QED BY <2>1, <1>d, SpelledKeyNothing
<1>2. ASSUME NEW n \in Nat, Only1(n) PROVE Only1(n + 1)
  <2> SUFFICES ASSUME NEW x \in Text, NEW y \in Text, Len(x) = n + 1, SpelledKey(x) = SpelledKey(y)
               PROVE  x = y
    OBVIOUS
  <2>1. x # <<>>
    BY EmptySeq
  <2>2. y # <<>>
    BY <2>1, <1>d, SpelledKeyNothing
  <2>3. PICK c \in Characters, u \in Text :
          x = <<c>> \o u /\ Len(u) = Len(x) - 1 /\ SpelledKey(x) = Spelled(c) \o SpelledKey(u)
    BY <1>c, <2>1
  <2>4. PICK d \in Characters, v \in Text :
          y = <<d>> \o v /\ Len(v) = Len(y) - 1 /\ SpelledKey(y) = Spelled(d) \o SpelledKey(v)
    BY <1>c, <2>2
  <2>5. SpelledKey(u) \in Text /\ SpelledKey(v) \in Text
    BY SpelledKeyTyped
  <2>6. c = d
    <3>1. Spelled(c) \o SpelledKey(u) = Spelled(d) \o SpelledKey(v)
      BY <2>3, <2>4
    <3> QED BY <2>5, <3>1, SpelledApart
  <2>7. SpelledKey(u) = SpelledKey(v)
    <3>1. Spelled(c) \in Seq(Characters) /\ SpelledKey(u) \in Seq(Characters) /\ SpelledKey(v) \in Seq(Characters)
      BY <1>a, <2>5, SpelledFacts
    <3> QED BY <2>3, <2>4, <2>6, <3>1, Cancels
  <2>8. Len(u) = n
    BY <2>3
  <2> QED BY <1>2, <2>3, <2>4, <2>6, <2>7, <2>8
<1>3. 0 \in P /\ (\A n \in P : n + 1 \in P) /\ P \in SUBSET Nat
  <2> HIDE DEF Only1
  <2> QED BY <1>1, <1>2
<1> HIDE DEF P
<1>4. P = Nat
  BY <1>3, SetInduction
<1>5. Only1(Len(s))
  BY <1>4, <1>b DEF P
<1> QED BY <1>5

\* What follows a key in a pointer: nothing, or a slash.
Stops(u) == u = <<>> \/ u[1] = "/"

LEMMA KeyNotShorter ==
  ASSUME NEW x \in Seq(Characters \ {"/"}), NEW y \in Seq(Characters \ {"/"}),
         NEW u \in Text, NEW v \in Text, Stops(u), x \o u = y \o v
  PROVE  Len(y) <= Len(x)
<1>1. x \in Seq(Characters) /\ y \in Seq(Characters) /\ u \in Seq(Characters) /\ v \in Seq(Characters)
  BY SeqMonotonic DEF Text
<1>2. /\ Len(x \o u) = Len(x) + Len(u)
      /\ \A i \in 1 .. Len(x) + Len(u) : (x \o u)[i] = IF i <= Len(x) THEN x[i] ELSE u[i - Len(x)]
  BY <1>1, ConcatProperties
<1>3. /\ Len(y \o v) = Len(y) + Len(v)
      /\ \A i \in 1 .. Len(y) + Len(v) : (y \o v)[i] = IF i <= Len(y) THEN y[i] ELSE v[i - Len(y)]
  BY <1>1, ConcatProperties
<1>4. Len(x) \in Nat /\ Len(y) \in Nat /\ Len(u) \in Nat /\ Len(v) \in Nat
  BY <1>1, LenProperties
<1> SUFFICES ASSUME Len(x) < Len(y)
             PROVE  FALSE
  BY <1>4
<1> DEFINE i == Len(x) + 1
<1>5. i \in 1 .. Len(y) /\ i \in 1 .. Len(y) + Len(v) /\ i \in 1 .. Len(x) + Len(u) /\ i - Len(x) = 1
      /\ ~ (i <= Len(x)) /\ i <= Len(y) /\ Len(u) # 0
  BY <1>2, <1>3, <1>4
<1> HIDE DEF i
<1>6. (x \o u)[i] = u[1]
  BY <1>2, <1>5
<1>7. (y \o v)[i] = y[i]
  BY <1>3, <1>5
<1>8. y[i] # "/"
  BY <1>5, ElementOfSeq
<1>9. u # <<>>
  BY <1>5, EmptySeq
<1> QED BY <1>6, <1>7, <1>8, <1>9 DEF Stops

\* Where a key ends in a pointer, as it has no slash.
LEMMA KeyEnds ==
  ASSUME NEW x \in Seq(Characters \ {"/"}), NEW y \in Seq(Characters \ {"/"}),
         NEW u \in Text, NEW v \in Text, Stops(u), Stops(v), x \o u = y \o v
  PROVE  x = y
<1>1. Len(x) <= Len(y) /\ Len(y) <= Len(x)
  BY KeyNotShorter
<1>2. Len(x) \in Nat /\ Len(y) \in Nat /\ Len(u) \in Nat /\ Len(v) \in Nat
  BY LenProperties DEF Text
<1>3. x \in Seq(Characters) /\ y \in Seq(Characters) /\ u \in Seq(Characters) /\ v \in Seq(Characters)
  BY SeqMonotonic DEF Text
<1>4. \A i \in 1 .. Len(x) + Len(u) : (x \o u)[i] = IF i <= Len(x) THEN x[i] ELSE u[i - Len(x)]
  BY <1>3, ConcatProperties
<1>5. \A i \in 1 .. Len(y) + Len(v) : (y \o v)[i] = IF i <= Len(y) THEN y[i] ELSE v[i - Len(y)]
  BY <1>3, ConcatProperties
<1>6. ASSUME NEW i \in 1 .. Len(x) PROVE x[i] = y[i]
  <2>1. i \in 1 .. Len(x) + Len(u) /\ i \in 1 .. Len(y) + Len(v) /\ i <= Len(x) /\ i <= Len(y)
    BY <1>1, <1>2
  <2> QED BY <2>1, <1>4, <1>5
<1>7. Len(x) = Len(y)
  BY <1>1, <1>2
<1> QED BY <1>3, <1>6, <1>7, SeqEqual

\* The pointer of a path, by its first key.
LEMMA SpellFirst ==
  ASSUME NEW path \in Seq(Text), path # <<>>
  PROVE  \E key \in Text, rest \in Seq(Text) :
           /\ path = <<key>> \o rest /\ Len(rest) = Len(path) - 1
           /\ Spell(path) = <<"/">> \o (SpelledKey(key) \o Spell(rest))
<1>1. PICK key \in Text, rest \in Seq(Text) : path = <<key>> \o rest /\ Len(rest) = Len(path) - 1
  BY FirstAndRest
<1>2. Spell(<<key>> \o rest) = (<<"/">> \o SpelledKey(key)) \o Spell(rest)
  BY SpellOne, SpellConcat
<1>3. <<"/">> \in Seq(Characters) /\ SpelledKey(key) \in Seq(Characters) /\ Spell(rest) \in Seq(Characters)
  BY CharactersAreThere, SpelledKeyTyped, SpellTyped DEF Text
<1>4. (<<"/">> \o SpelledKey(key)) \o Spell(rest) = <<"/">> \o (SpelledKey(key) \o Spell(rest))
  BY <1>3, Associates
<1> QED BY <1>1, <1>2, <1>4

LEMMA SlashStarts ==
  ASSUME NEW s \in Seq(Characters)
  PROVE  /\ <<"/">> \o s \in Seq(Characters)
         /\ <<"/">> \o s # <<>>
         /\ (<<"/">> \o s)[1] = "/"
<1>1. <<"/">> \in Seq(Characters) /\ Len(<<"/">>) = 1 /\ <<"/">>[1] = "/" /\ Len(s) \in Nat
  BY CharactersAreThere, LenProperties
<1> DEFINE a == <<"/">>
<1> HIDE DEF a
<1>2. /\ a \o s \in Seq(Characters) /\ Len(a \o s) = Len(a) + Len(s)
      /\ \A i \in 1 .. Len(a) + Len(s) : (a \o s)[i] = IF i <= Len(a) THEN a[i] ELSE s[i - Len(a)]
  BY <1>1, ConcatProperties DEF a
<1>3. Len(a) = 1 /\ a[1] = "/"
  BY <1>1 DEF a
<1>4. Len(a \o s) # 0 /\ (a \o s)[1] = a[1]
  BY <1>1, <1>2, <1>3
<1>5. a \o s # <<>>
  BY <1>4
<1> QED BY <1>2, <1>3, <1>4, <1>5 DEF a

LEMMA SpellStops ==
  ASSUME NEW path \in Seq(Text)
  PROVE  Stops(Spell(path)) /\ (path # <<>> => Spell(path) # <<>>)
<1>1. CASE path = <<>>
  BY <1>1, SpellNothing DEF Stops
<1>2. CASE path # <<>>
  <2>1. PICK key \in Text, rest \in Seq(Text) : Spell(path) = <<"/">> \o (SpelledKey(key) \o Spell(rest))
    BY <1>2, SpellFirst
  <2>2. SpelledKey(key) \o Spell(rest) \in Seq(Characters)
    BY SpelledKeyTyped, SpellTyped, ConcatProperties DEF Text
  <2> QED BY <2>1, <2>2, SlashStarts DEF Stops
<1> QED BY <1>1, <1>2

\* A pointer that starts with that of b, up to a slash, is that of a path below b.
LEMMA SpellTells ==
  ASSUME NEW a \in Seq(Text), NEW b \in Seq(Text), NEW u \in Text, Stops(u),
         Spell(a) = Spell(b) \o u
  PROVE  \E r \in Seq(Text) : a = b \o r
<1> DEFINE Longer(n) == \A x, y \in Seq(Text) :
                          Len(y) = n /\ Spell(x) = Spell(y) \o u => \E r \in Seq(Text) : x = y \o r
           P == {n \in Nat : Longer(n)}
<1>a. Text = Seq(Characters)
  BY DEF Text
<1>1. Longer(0)
  <2> SUFFICES ASSUME NEW x \in Seq(Text), NEW y \in Seq(Text), Len(y) = 0
               PROVE  \E r \in Seq(Text) : x = y \o r
    OBVIOUS
  <2>1. y = <<>>
    BY EmptySeq
  <2>2. x = <<>> \o x
    BY ConcatEmptySeq
  <2> QED BY <2>1, <2>2
<1>2. ASSUME NEW n \in Nat, Longer(n) PROVE Longer(n + 1)
  <2> SUFFICES ASSUME NEW x \in Seq(Text), NEW y \in Seq(Text), Len(y) = n + 1, Spell(x) = Spell(y) \o u
               PROVE  \E r \in Seq(Text) : x = y \o r
    OBVIOUS
  <2>1. y # <<>>
    BY EmptySeq
  <2>2. PICK k \in Text, yr \in Seq(Text) :
          /\ y = <<k>> \o yr /\ Len(yr) = Len(y) - 1
          /\ Spell(y) = <<"/">> \o (SpelledKey(k) \o Spell(yr))
    BY <2>1, SpellFirst
  <2> DEFINE slash == <<"/">>
             sk == SpelledKey(k)
             sy == Spell(yr)
  <2>3. /\ slash \in Seq(Characters) /\ sk \in Seq(Characters) /\ sy \in Seq(Characters)
        /\ u \in Seq(Characters)
    BY <1>a, CharactersAreThere, SpelledKeyTyped, SpellTyped
  <2>a. Spell(x) = (slash \o (sk \o sy)) \o u
    BY <2>2
  <2> HIDE DEF slash, sk, sy
  <2>b. sy \o u \in Seq(Characters) /\ sk \o sy \in Seq(Characters) /\ sk \o (sy \o u) \in Seq(Characters)
    BY <2>3, ConcatProperties
  <2>4. Spell(x) = slash \o (sk \o (sy \o u))
    <3>1. (slash \o (sk \o sy)) \o u = slash \o ((sk \o sy) \o u)
      <4>1. slash \in Seq(Characters) /\ sk \o sy \in Seq(Characters) /\ u \in Seq(Characters)
        BY <2>3, <2>b
      <4> QED BY ONLY <4>1, ConcatAssociative, SMTT(30)
    <3>2. (sk \o sy) \o u = sk \o (sy \o u)
      <4>1. sk \in Seq(Characters) /\ sy \in Seq(Characters) /\ u \in Seq(Characters)
        BY <2>3
      <4> QED BY ONLY <4>1, ConcatAssociative, SMTT(30)
    <3> QED BY <2>a, <3>1, <3>2
  <2>5. x # <<>>
    BY <2>b, <2>4, SlashStarts, SpellNothing DEF slash
  <2>6. PICK l \in Text, xr \in Seq(Text) :
          x = <<l>> \o xr /\ Spell(x) = slash \o (SpelledKey(l) \o Spell(xr))
    BY <2>5, SpellFirst DEF slash
  <2> DEFINE sl == SpelledKey(l)
             sx == Spell(xr)
  <2>c. Spell(x) = slash \o (sl \o sx)
    BY <2>6
  <2>7. sl \in Seq(Characters) /\ sx \in Seq(Characters)
    BY <1>a, SpelledKeyTyped, SpellTyped
  <2> HIDE DEF sl, sx
  <2>d. sl \o sx \in Seq(Characters)
    BY <2>7, ConcatProperties
  <2>8. sk \o (sy \o u) = sl \o sx
    <3>1. slash \o (sk \o (sy \o u)) = slash \o (sl \o sx)
      BY <2>4, <2>c
    <3> QED BY <2>3, <2>b, <2>d, <3>1, Cancels
  <2>9. Stops(sy \o u)
    <3>1. CASE yr = <<>>
      <4>1. sy = <<>>
        BY <3>1, SpellNothing DEF sy
      <4> QED BY <4>1, <2>3, ConcatEmptySeq
    <3>2. CASE yr # <<>>
      <4>1. sy # <<>> /\ sy[1] = "/"
        BY <3>2, SpellStops DEF Stops, sy
      <4>2. Len(sy) \in Nat \ {0} /\ Len(u) \in Nat
        BY <2>3, <4>1, EmptySeq, LenProperties
      <4>3. \A i \in 1 .. Len(sy) + Len(u) : (sy \o u)[i] = IF i <= Len(sy) THEN sy[i] ELSE u[i - Len(sy)]
        BY <2>3, ConcatProperties
      <4>4. (sy \o u)[1] = sy[1]
        BY <4>2, <4>3
      <4> QED BY <4>1, <4>4 DEF Stops
    <3> QED BY <3>1, <3>2
  <2>10. sk = sl
    <3>1. sk \in Seq(Characters \ {"/"}) /\ sl \in Seq(Characters \ {"/"})
      BY SpelledKeyTyped DEF sk, sl
    <3>2. Stops(sx)
      BY SpellStops DEF sx
    <3>3. sy \o u \in Text /\ sx \in Text
      BY <1>a, <2>b, <2>7
    <3> QED BY <2>8, <2>9, <3>1, <3>2, <3>3, KeyEnds
  <2>11. k = l
    BY <2>10, SpelledKeyInjective DEF sk, sl
  <2>12. Spell(xr) = Spell(yr) \o u
    <3>1. sk \o (sy \o u) = sk \o sx
      BY <2>8, <2>10
    <3>2. sy \o u = sx
      BY <2>3, <2>b, <2>7, <3>1, Cancels
    <3> QED BY <3>2 DEF sx, sy
  <2>13. Len(yr) = n
    BY <2>2
  <2>14. PICK r \in Seq(Text) : xr = yr \o r
    BY <1>2, <2>12, <2>13
  <2> DEFINE one == <<k>>
  <2>15. one \in Seq(Text) /\ y = one \o yr /\ x = one \o xr
    BY <2>2, <2>6, <2>11
  <2> HIDE DEF one
  <2>16. (one \o yr) \o r = one \o (yr \o r)
    BY ONLY <2>14, <2>15, Associates
  <2>17. x = y \o r
    BY <2>14, <2>15, <2>16
  <2> QED BY <2>17
<1>3. 0 \in P /\ (\A n \in P : n + 1 \in P) /\ P \in SUBSET Nat
  <2> HIDE DEF Longer
  <2> QED BY <1>1, <1>2
<1> HIDE DEF P
<1>4. P = Nat
  BY <1>3, SetInduction
<1>5. Longer(Len(b))
  <2>1. Len(b) \in P
    BY <1>4, LenProperties
  <2> QED BY <2>1, Zenon DEF P
<1> QED BY <1>5

----------------------------------------------------------------------------
(* Prefixes                                                                 *)

LEMMA PrefixMeans ==
  ASSUME NEW X, NEW s \in Seq(X), NEW t \in Seq(X)
  PROVE  IsPrefix(s, t) <=> Len(s) <= Len(t) /\ \A i \in 1 .. Len(s) : s[i] = t[i]
<1>1. Len(s) \in Nat /\ Len(t) \in Nat /\ SubSeq(s, 1, Len(s)) = s
  BY LenProperties, SubSeqFull
<1>2. ASSUME Len(s) <= Len(t)
      PROVE  SubSeq(t, 1, Len(s)) = s <=> \A i \in 1 .. Len(s) : s[i] = t[i]
  <2> DEFINE p == SubSeq(t, 1, Len(s))
  <2>1. \A i \in 1 .. Len(s) : t[i] \in X
    BY <1>1, <1>2, ElementOfSeq
  <2>2. p \in Seq(X) /\ Len(p) = Len(s) /\ \A i \in 1 .. Len(s) : p[i] = t[i]
    BY <1>1, <1>2, <2>1, SubSeqProperties
  <2> HIDE DEF p
  <2>3. p = s <=> \A i \in 1 .. Len(s) : s[i] = t[i]
    BY <2>2, SeqEqual
  <2> QED BY <2>3 DEF p
<1> QED BY <1>1, <1>2 DEF IsPrefix

LEMMA PrefixOfConcat ==
  ASSUME NEW X, NEW s \in Seq(X), NEW t \in Seq(X)
  PROVE  IsPrefix(s, s \o t)
<1>1. /\ s \o t \in Seq(X) /\ Len(s \o t) = Len(s) + Len(t) /\ Len(s) \in Nat /\ Len(t) \in Nat
      /\ \A i \in 1 .. Len(s) + Len(t) : (s \o t)[i] = IF i <= Len(s) THEN s[i] ELSE t[i - Len(s)]
  BY ConcatProperties, LenProperties
<1>2. Len(s) <= Len(s \o t) /\ \A i \in 1 .. Len(s) : s[i] = (s \o t)[i]
  BY <1>1
<1> QED BY <1>1, <1>2, PrefixMeans

LEMMA PrefixIsConcat ==
  ASSUME NEW X, NEW s \in Seq(X), NEW t \in Seq(X), IsPrefix(s, t)
  PROVE  \E r \in Seq(X) : t = s \o r
<1> DEFINE r == SubSeq(t, Len(s) + 1, Len(t))
           c == s \o r
<1>1. Len(s) \in Nat /\ Len(t) \in Nat /\ Len(s) <= Len(t) /\ \A i \in 1 .. Len(s) : s[i] = t[i]
  BY LenProperties, PrefixMeans
<1>2. \A i \in Len(s) + 1 .. Len(t) : t[i] \in X
  BY <1>1, ElementOfSeq
<1>3. r \in Seq(X) /\ Len(r) = Len(t) - Len(s) /\ \A i \in 1 .. Len(t) - Len(s) : r[i] = t[Len(s) + i]
  <2>1. /\ r \in Seq(X) /\ Len(r) = IF Len(s) + 1 <= Len(t) THEN Len(t) - (Len(s) + 1) + 1 ELSE 0
        /\ \A i \in 1 .. Len(t) - (Len(s) + 1) + 1 : r[i] = t[Len(s) + 1 + i - 1]
    BY <1>1, <1>2, SubSeqProperties
  <2> HIDE DEF r
  <2> QED BY <1>1, <2>1
<1> HIDE DEF r
<1>4. /\ c \in Seq(X) /\ Len(c) = Len(s) + Len(r)
      /\ \A i \in 1 .. Len(s) + Len(r) : c[i] = IF i <= Len(s) THEN s[i] ELSE r[i - Len(s)]
  BY <1>3, ConcatProperties
<1> HIDE DEF c
<1>5. Len(c) = Len(t)
  BY <1>1, <1>3, <1>4
<1>6. ASSUME NEW i \in 1 .. Len(c) PROVE c[i] = t[i]
  <2>1. CASE i <= Len(s)
    BY <2>1, <1>1, <1>3, <1>4
  <2>2. CASE ~ (i <= Len(s))
    <3>1. i - Len(s) \in 1 .. Len(t) - Len(s) /\ Len(s) + (i - Len(s)) = i
      BY <2>2, <1>1, <1>5
    <3>2. r[i - Len(s)] = t[Len(s) + (i - Len(s))]
      BY <1>3, <3>1
    <3> QED BY <2>2, <1>4, <3>1, <3>2
  <2> QED BY <2>1, <2>2
<1>7. c = t
  BY <1>4, <1>5, <1>6, SeqEqual
<1> QED BY <1>3, <1>7 DEF c

\* A pointer is spelled for one path.
LEMMA SpellInjective ==
  ASSUME NEW a \in Seq(Text), NEW b \in Seq(Text), Spell(a) = Spell(b)
  PROVE  a = b
<1>1. Spell(a) \in Seq(Characters) /\ Spell(b) \in Seq(Characters) /\ <<>> \in Text /\ Stops(<<>>)
  BY SpellTyped, SpelledKeyNothing DEF Text, Stops
<1>2. Spell(a) = Spell(b) \o <<>> /\ Spell(b) = Spell(a) \o <<>>
  BY <1>1, ConcatEmptySeq
<1>3. PICK r \in Seq(Text) : a = b \o r
  BY <1>1, <1>2, SpellTells
<1>4. PICK q \in Seq(Text) : b = a \o q
  BY <1>1, <1>2, SpellTells
<1>5. Len(a) = Len(b) + Len(r) /\ Len(b) = Len(a) + Len(q) /\ Len(r) \in Nat /\ Len(q) \in Nat /\ Len(b) \in Nat
  BY <1>3, <1>4, ConcatProperties, LenProperties
<1>6. r = <<>>
  BY <1>5, EmptySeq
<1> QED BY <1>3, <1>6, ConcatEmptySeq

\* A descendant's pointer is that of a path below.
LEMMA DescendantIsBelow ==
  ASSUME NEW a \in Seq(Text), NEW b \in Seq(Text), IsDescendant(Spell(a), Spell(b))
  PROVE  IsPrefix(b, a)
<1>1. CASE Spell(b) = <<>>
  <2>1. b = <<>>
    BY <1>1, SpellStops
  <2>2. a = b \o a
    BY <2>1, ConcatEmptySeq
  <2> QED BY <2>2, PrefixOfConcat
<1>2. CASE Spell(b) # <<>>
  <2>1. IsPrefix(Append(Spell(b), "/"), Spell(a))
    BY <1>2 DEF IsDescendant
  <2>2. /\ Spell(a) \in Seq(Characters) /\ Spell(b) \in Seq(Characters) /\ <<"/">> \in Seq(Characters)
        /\ Append(Spell(b), "/") \in Seq(Characters) /\ Append(Spell(b), "/") = Spell(b) \o <<"/">>
    BY SpellTyped, CharactersAreThere, AppendProperties, AppendIsConcat DEF Text
  <2>3. PICK r \in Seq(Characters) : Spell(a) = Append(Spell(b), "/") \o r
    <3> DEFINE p == Append(Spell(b), "/")
    <3>1. p \in Seq(Characters) /\ IsPrefix(p, Spell(a))
      BY <2>1, <2>2
    <3> HIDE DEF p
    <3>2. \E r \in Seq(Characters) : Spell(a) = p \o r
      <4>1. Spell(a) \in Seq(Characters)
        BY <2>2
      <4> QED BY ONLY <3>1, <4>1, PrefixIsConcat
    <3> QED BY <3>2 DEF p
  <2>4. (Spell(b) \o <<"/">>) \o r = Spell(b) \o (<<"/">> \o r)
    BY <2>2, Associates
  <2>5. <<"/">> \o r \in Text /\ Stops(<<"/">> \o r)
    BY SlashStarts DEF Text, Stops
  <2>6. PICK q \in Seq(Text) : a = b \o q
    BY <2>2, <2>3, <2>4, <2>5, SpellTells
  <2> QED BY <2>6, PrefixOfConcat
<1> QED BY <1>1, <1>2

----------------------------------------------------------------------------
(* Trees                                                                    *)

\* A value in a result, bounded or not.
Known(v) == WellFormed(v) /\ Children(v) \subseteq Values

\* Induction over trees, by their height, for a set of them.
LEMMA TreeInduction ==
  ASSUME NEW Q \in SUBSET Values, \A v \in Values : Children(v) \subseteq Q => v \in Q
  PROVE  Q = Values
<1> DEFINE P == {n \in Nat : \A v \in Values : Height(v) < n => v \in Q}
<1>0. \A v \in Values :
        /\ Height(v) \in Nat /\ Children(v) \subseteq Values
        /\ \A child \in Children(v) : Height(child) < Height(v)
  BY ValuesAssumption
<1>1. 0 \in P
  BY <1>0
<1>2. ASSUME NEW n \in P PROVE n + 1 \in P
  <2>1. ASSUME NEW v \in Values, Height(v) < n + 1 PROVE v \in Q
    <3>1. ASSUME NEW child \in Children(v) PROVE child \in Q
      <4>1. Height(child) < n /\ child \in Values
        BY <1>0, <2>1
      <4> QED BY <4>1
    <3> QED BY <3>1
  <2> QED BY <2>1
<1>3. P \in SUBSET Nat
  OBVIOUS
<1> HIDE DEF P
<1>4. P = Nat
  BY <1>1, <1>2, <1>3, SetInduction
<1>5. ASSUME NEW v \in Values PROVE v \in Q
  <2>1. Height(v) + 1 \in P /\ Height(v) < Height(v) + 1
    BY <1>0, <1>4
  <2> QED BY <2>1 DEF P
<1> QED BY <1>5

LEMMA KnownValues ==
  /\ \A v \in Values : Known(v)
  /\ \A v \in Payloads : Known(v)
  BY ValuesAssumption, PayloadsAssumption DEF Known

\* The parts of a value are a sequence, and those of a container stand under
\* their keys.
LEMMA Parts ==
  ASSUME NEW v, WellFormed(v)
  PROVE  /\ Len(v.parts) \in Nat /\ DOMAIN v.parts = 1 .. Len(v.parts)
         /\ v.parts \in Seq(Range(v.parts))
         /\ v.origin \in Seq(Text)
         /\ v.type = "scalar" => v.parts = <<>> /\ Len(v.parts) = 0
<1>1. v.parts \in Seq(Range(v.parts)) /\ v.origin \in Seq(Text) /\ (v.type = "scalar" => v.parts = <<>>)
  BY DEF WellFormed
<1>2. Len(v.parts) \in Nat /\ DOMAIN v.parts = 1 .. Len(v.parts)
  BY <1>1, LenProperties
<1> QED BY <1>1, <1>2, EmptySeq

LEMMA ChildFacts ==
  ASSUME NEW v, Known(v), Container(v), NEW k \in 1 .. Len(v.parts)
  PROVE  /\ v.parts[k] = Child(v.parts[k].key, v.parts[k].value)
         /\ v.parts[k].key \in Text
         /\ v.parts[k].value \in Children(v)
         /\ v.parts[k].value \in Values
         /\ v.parts[k].value.origin = Append(v.origin, v.parts[k].key)
         /\ v.parts[k].value.origin \in Seq(Text)
         /\ Len(v.parts[k].value.origin) = Len(v.origin) + 1
         /\ ChildPointer(Spell(v.origin), v.parts[k].key) = Spell(v.parts[k].value.origin)
<1>1. k \in DOMAIN v.parts /\ v.origin \in Seq(Text)
  BY Parts DEF Known
<1>2. /\ v.parts[k] = Child(v.parts[k].key, v.parts[k].value)
      /\ v.parts[k].key \in Text
      /\ v.parts[k].value.origin = Append(v.origin, v.parts[k].key)
  BY <1>1 DEF Known, WellFormed
<1>3. v.parts[k].value \in Children(v)
  BY <1>1 DEF Children
<1>4. v.parts[k].value \in Values
  BY <1>3 DEF Known
<1>5. Append(v.origin, v.parts[k].key) \in Seq(Text) /\ Len(Append(v.origin, v.parts[k].key)) = Len(v.origin) + 1
  BY <1>1, <1>2, AppendProperties
<1>6. ChildPointer(Spell(v.origin), v.parts[k].key) = Spell(Append(v.origin, v.parts[k].key))
  BY <1>1, <1>2, ChildPointerSpells
<1> QED BY <1>2, <1>3, <1>4, <1>5, <1>6

\* What is in a value is the value, and what is in its children.
LEMMA WithinIs ==
  ASSUME NEW v, Known(v)
  PROVE  \A part : part \in WithinOf(v) <=>
           \/ part = v
           \/ Container(v) /\ \E k \in 1 .. Len(v.parts) : part \in WithinOf(v.parts[k].value)
<1>1. DOMAIN v.parts = 1 .. Len(v.parts)
  BY Parts DEF Known
<1>2. CASE Container(v)
  <2>1. Children(v) = {v.parts[k].value : k \in 1 .. Len(v.parts)}
    BY <1>1, <1>2 DEF Children
  <2>2. \A k \in 1 .. Len(v.parts) : Within(v.parts[k].value) = WithinOf(v.parts[k].value)
    BY <1>2, ChildFacts, RecursionAssumption
  <2> QED BY <1>2, <2>1, <2>2 DEF WithinOf
<1>3. CASE ~ Container(v)
  <2>1. Children(v) = {}
    BY <1>3 DEF Children
  <2> QED BY <1>3, <2>1 DEF WithinOf
<1> QED BY <1>2, <1>3

----------------------------------------------------------------------------
(* bound_value, case by case                                                *)

\* What is taken of the parts of a string or an array: the first ones, up to the
\* limit.
LEMMA TakenFacts ==
  ASSUME NEW c \in Configs, NEW v, WellFormed(v)
  PROVE  /\ Len(Taken(c, v)) \in Nat /\ DOMAIN Taken(c, v) = 1 .. Len(Taken(c, v))
         /\ Len(Taken(c, v)) <= Len(v.parts)
         /\ Len(Taken(c, v)) <= Limit(c, v)
         /\ \A k \in 1 .. Len(Taken(c, v)) : Taken(c, v)[k] = v.parts[k]
         /\ Taken(c, v) \in Seq(Range(v.parts))
         /\ Excess(c, v) \in Nat
         /\ Excess(c, v) = 0 => Taken(c, v) = v.parts
         /\ v.type \notin {"string", "array"} => Excess(c, v) = 0
<1> DEFINE n == Len(v.parts)
           l == Limit(c, v)
           X == Range(v.parts)
           t == SubSeq(v.parts, 1, l)
<1>1. n \in Nat /\ v.parts \in Seq(X) /\ DOMAIN v.parts = 1 .. n
  BY Parts
<1>2. l \in Nat /\ (v.type \notin {"string", "array"} => l = n)
  BY <1>1, ConfigsAssumption DEF Limit
<1> HIDE DEF n, l, X
<1>3. Excess(c, v) = IF n > l THEN n - l ELSE 0
  BY DEF Excess, n, l
<1>4. Taken(c, v) = IF Excess(c, v) = 0 THEN v.parts ELSE t
  BY DEF Taken, l
<1>5. Excess(c, v) \in Nat
  BY <1>1, <1>2, <1>3
<1>6. CASE Excess(c, v) = 0
  <2>1. n <= l
    BY <1>1, <1>2, <1>3, <1>6
  <2>2. Taken(c, v) = v.parts
    BY <1>4, <1>6
  <2> QED BY <1>1, <1>6, <2>1, <2>2 DEF n, l, X
<1>7. CASE Excess(c, v) # 0
  <2>1. l < n /\ Taken(c, v) = t
    BY <1>1, <1>2, <1>3, <1>4, <1>7
  <2>2. \A k \in 1 .. l : v.parts[k] \in X
    BY <1>1, <1>2, <2>1, ElementOfSeq DEF n
  <2>3. t \in Seq(X) /\ Len(t) = l /\ \A k \in 1 .. l : t[k] = v.parts[k]
    <3>1. /\ t \in Seq(X) /\ Len(t) = IF 1 <= l THEN l - 1 + 1 ELSE 0
          /\ \A k \in 1 .. l - 1 + 1 : t[k] = v.parts[1 + k - 1]
      BY <1>2, <2>2, SubSeqProperties
    <3> HIDE DEF t
    <3> QED BY <1>2, <3>1
  <2> HIDE DEF t
  <2>4. DOMAIN t = 1 .. l
    BY <2>3, LenProperties
  <2>5. v.type \in {"string", "array"}
    BY <1>2, <2>1, <1>1
  <2> QED BY <1>1, <1>2, <1>5, <1>7, <2>1, <2>3, <2>4, <2>5 DEF n, l, X
<1> QED BY <1>6, <1>7

\* What bound_value returns for a child.
Below(c, v, k) == BoundValueOf(c, v.parts[k].value, Spell(v.parts[k].value.origin))

\* The segment bound_value records for the value itself.
Own(c, v) == IF Excess(c, v) > 0 THEN {Spell(v.origin)} ELSE {}

\* What becomes of the children taken.
KeptParts(c, v) == [k \in 1 .. Len(Taken(c, v)) |-> Child(v.parts[k].key, Below(c, v, k).value)]

\* bound_value of a value at its own pointer.
BoundOf(c, v) == BoundValueOf(c, v, Spell(v.origin))

LEMMA BelowIs ==
  ASSUME NEW c \in Configs, NEW v, Known(v), Container(v), NEW k \in 1 .. Len(Taken(c, v))
  PROVE  /\ k \in 1 .. Len(v.parts)
         /\ Taken(c, v)[k] = v.parts[k]
         /\ BoundValue(c, Taken(c, v)[k].value, ChildPointer(Spell(v.origin), Taken(c, v)[k].key))
              = Below(c, v, k)
         /\ Below(c, v, k) = BoundOf(c, v.parts[k].value)
         /\ Below(c, v, k).value \in Values
<1>1. Taken(c, v)[k] = v.parts[k] /\ Len(Taken(c, v)) <= Len(v.parts) /\ Len(v.parts) \in Nat /\ Len(Taken(c, v)) \in Nat
  BY TakenFacts, Parts DEF Known
<1>2. k \in 1 .. Len(v.parts)
  BY <1>1
<1>3. /\ v.parts[k].value \in Values
      /\ ChildPointer(Spell(v.origin), v.parts[k].key) = Spell(v.parts[k].value.origin)
  BY <1>2, ChildFacts
<1>4. BoundValue(c, v.parts[k].value, Spell(v.parts[k].value.origin)) = Below(c, v, k)
  BY <1>3, RecursionAssumption DEF Below
<1>5. BoundValue(c, v.parts[k].value, Spell(v.parts[k].value.origin)).value \in Values
  BY <1>3, RecursionAssumption
<1> QED BY <1>1, <1>2, <1>3, <1>4, <1>5 DEF Below, BoundOf

\* bound_value, case by case.
LEMMA BoundForms ==
  ASSUME NEW c \in Configs, NEW v, Known(v)
  PROVE  /\ Replaced(c, Spell(v.origin)) => BoundOf(c, v) = Result(Redaction(v), 0, {})
         /\ ~ Replaced(c, Spell(v.origin)) /\ ~ Container(v) =>
              BoundOf(c, v) = Result(Rebuild(v, Taken(c, v)), Excess(c, v), Own(c, v))
         /\ ~ Replaced(c, Spell(v.origin)) /\ Container(v) =>
              BoundOf(c, v) =
                Result(Rebuild(v, KeptParts(c, v)),
                       Excess(c, v) + SumFunction([k \in 1 .. Len(Taken(c, v)) |-> Below(c, v, k).omitted]),
                       Own(c, v) \cup UNION {Below(c, v, k).segments : k \in 1 .. Len(Taken(c, v))})
<1> DEFINE parts == Taken(c, v)
           p == Spell(v.origin)
           below == [k \in DOMAIN parts |-> BoundValue(c, parts[k].value, ChildPointer(p, parts[k].key))]
           own == IF Excess(c, v) > 0 THEN {p} ELSE {}
           r == BoundOf(c, v)
<1>1. DOMAIN parts = 1 .. Len(parts)
  BY TakenFacts DEF Known
<1>2. r = IF Replaced(c, p) THEN Result(Redaction(v), 0, {})
          ELSE IF ~ Container(v) THEN Result(Rebuild(v, parts), Excess(c, v), own)
          ELSE Result(Rebuild(v, [k \in DOMAIN parts |-> Child(parts[k].key, below[k].value)]),
                      Excess(c, v) + SumFunction([k \in DOMAIN parts |-> below[k].omitted]),
                      own \cup UNION {below[k].segments : k \in DOMAIN parts})
  BY DEF BoundOf, BoundValueOf
<1>3. own = Own(c, v)
  BY DEF Own
<1>4. CASE Container(v) /\ ~ Replaced(c, p)
  <2>1. \A k \in 1 .. Len(parts) : below[k] = Below(c, v, k) /\ parts[k] = v.parts[k]
    BY <1>1, <1>4, BelowIs
  <2> HIDE DEF below, parts, p, own, r
  <2>2. [k \in DOMAIN parts |-> Child(parts[k].key, below[k].value)] = KeptParts(c, v)
    BY <1>1, <2>1 DEF KeptParts, parts
  <2>3. [k \in DOMAIN parts |-> below[k].omitted] = [k \in 1 .. Len(parts) |-> Below(c, v, k).omitted]
    BY <1>1, <2>1
  <2>4. {below[k].segments : k \in DOMAIN parts} = {Below(c, v, k).segments : k \in 1 .. Len(parts)}
    BY <1>1, <2>1
  <2> QED BY <1>2, <1>3, <1>4, <2>2, <2>3, <2>4 DEF parts, p, r
<1>5. CASE ~ Container(v) \/ Replaced(c, p)
  BY <1>2, <1>3, <1>5
<1> QED BY <1>4, <1>5

\* Every definition of a value and a result, by its fields.
LEMMA Fields ==
  /\ \A a, b, d : Result(a, b, d).value = a /\ Result(a, b, d).omitted = b /\ Result(a, b, d).segments = d
  /\ \A a, b : Child(a, b).key = a /\ Child(a, b).value = b
  /\ \A v : /\ Redaction(v).type = "string" /\ Redaction(v).origin = v.origin
            /\ Redaction(v).redacted = TRUE /\ Redaction(v).parts = Replacement /\ Redaction(v).size = 2
  /\ \A v, parts : /\ Rebuild(v, parts).type = v.type /\ Rebuild(v, parts).origin = v.origin
                   /\ Rebuild(v, parts).redacted = v.redacted /\ Rebuild(v, parts).parts = parts
                   /\ Rebuild(v, parts).size = v.size
  BY DEF Result, Child, Redaction, Rebuild, Value

LEMMA BoundFields ==
  ASSUME NEW c \in Configs, NEW v, Known(v)
  PROVE  /\ Replaced(c, Spell(v.origin)) =>
              /\ BoundOf(c, v).value = Redaction(v)
              /\ BoundOf(c, v).omitted = 0
              /\ BoundOf(c, v).segments = {}
         /\ ~ Replaced(c, Spell(v.origin)) /\ ~ Container(v) =>
              /\ BoundOf(c, v).value = Rebuild(v, Taken(c, v))
              /\ BoundOf(c, v).omitted = Excess(c, v)
              /\ BoundOf(c, v).segments = Own(c, v)
         /\ ~ Replaced(c, Spell(v.origin)) /\ Container(v) =>
              /\ BoundOf(c, v).value = Rebuild(v, KeptParts(c, v))
              /\ BoundOf(c, v).omitted =
                   Excess(c, v) + SumFunction([k \in 1 .. Len(Taken(c, v)) |-> Below(c, v, k).omitted])
              /\ BoundOf(c, v).segments =
                   Own(c, v) \cup UNION {Below(c, v, k).segments : k \in 1 .. Len(Taken(c, v))}
<1> DEFINE r == BoundOf(c, v)
           sum == SumFunction([k \in 1 .. Len(Taken(c, v)) |-> Below(c, v, k).omitted])
           un == UNION {Below(c, v, k).segments : k \in 1 .. Len(Taken(c, v))}
<1>1. /\ Replaced(c, Spell(v.origin)) => r = Result(Redaction(v), 0, {})
      /\ ~ Replaced(c, Spell(v.origin)) /\ ~ Container(v) =>
           r = Result(Rebuild(v, Taken(c, v)), Excess(c, v), Own(c, v))
      /\ ~ Replaced(c, Spell(v.origin)) /\ Container(v) =>
           r = Result(Rebuild(v, KeptParts(c, v)), Excess(c, v) + sum, Own(c, v) \cup un)
  BY BoundForms
<1> HIDE DEF r, sum, un
<1>2. /\ Replaced(c, Spell(v.origin)) => r.value = Redaction(v) /\ r.omitted = 0 /\ r.segments = {}
      /\ ~ Replaced(c, Spell(v.origin)) /\ ~ Container(v) =>
           r.value = Rebuild(v, Taken(c, v)) /\ r.omitted = Excess(c, v) /\ r.segments = Own(c, v)
      /\ ~ Replaced(c, Spell(v.origin)) /\ Container(v) =>
           r.value = Rebuild(v, KeptParts(c, v)) /\ r.omitted = Excess(c, v) + sum /\ r.segments = Own(c, v) \cup un
  BY <1>1 DEF Result
<1> QED BY <1>2 DEF r, sum, un

\* bound_value leaves a value where it stands.
LEMMA OriginKept ==
  ASSUME NEW c \in Configs, NEW v, Known(v)
  PROVE  BoundOf(c, v).value.origin = v.origin
<1>1. \/ BoundOf(c, v).value = Redaction(v)
      \/ \E parts : BoundOf(c, v).value = Rebuild(v, parts)
  BY BoundFields
<1> QED BY <1>1, Fields

\* A value rebuilt from some of its parts, or from its bounded children.
LEMMA RebuiltKnown ==
  ASSUME NEW v, Known(v), NEW X, NEW parts \in Seq(X),
         v.type = "scalar" => parts = <<>>,
         Container(v) => \A k \in 1 .. Len(parts) :
           /\ parts[k] = Child(parts[k].key, parts[k].value)
           /\ parts[k].key \in Text
           /\ parts[k].value \in Values
           /\ parts[k].value.origin = Append(v.origin, parts[k].key)
  PROVE  Known(Rebuild(v, parts))
<1> DEFINE w == Rebuild(v, parts)
<1>1. /\ w.type = v.type /\ w.origin = v.origin /\ w.redacted = v.redacted /\ w.parts = parts /\ w.size = v.size
      /\ w = Value(w.type, w.origin, w.redacted, w.parts, w.size)
  BY DEF Rebuild, Value
<1>2. /\ v.type \in {"scalar", "string", "array", "object"} /\ v.origin \in Seq(Text)
      /\ v.redacted \in BOOLEAN /\ (v.type # "scalar" => v.size = 2)
  BY DEF Known, WellFormed
<1>3. DOMAIN parts = 1 .. Len(parts) /\ parts \in Seq(Range(parts))
  BY LenProperties, SeqOfRange
<1> HIDE DEF w
<1>4. Container(w) <=> Container(v)
  BY <1>1 DEF Container
<1>5. WellFormed(w)
  BY <1>1, <1>2, <1>3, <1>4 DEF WellFormed
<1>6. Children(w) \subseteq Values
  BY <1>1, <1>3, <1>4 DEF Children
<1> QED BY <1>5, <1>6 DEF Known, w

LEMMA RedactionKnown ==
  ASSUME NEW v, Known(v)
  PROVE  Known(Redaction(v)) /\ ~ Container(Redaction(v))
<1> DEFINE w == Redaction(v)
<1>1. /\ w.type = "string" /\ w.origin = v.origin /\ w.redacted = TRUE /\ w.parts = Replacement /\ w.size = 2
      /\ w = Value(w.type, w.origin, w.redacted, w.parts, w.size)
  BY DEF Redaction, Value
<1>2. v.origin \in Seq(Text)
  BY DEF Known, WellFormed
<1>3. Replacement \in Seq(Range(Replacement))
  BY ReplacementAssumption, SeqOfRange
<1> HIDE DEF w
<1>4. ~ Container(w)
  BY <1>1 DEF Container
<1>5. WellFormed(w)
  BY <1>1, <1>2, <1>3, <1>4 DEF WellFormed
<1>6. Children(w) = {}
  BY <1>4 DEF Children
<1> QED BY <1>4, <1>5, <1>6 DEF Known, w

LEMMA KeptPartsFacts ==
  ASSUME NEW c \in Configs, NEW v, Known(v), Container(v)
  PROVE  /\ KeptParts(c, v) \in Seq(Range(KeptParts(c, v)))
         /\ Len(KeptParts(c, v)) = Len(Taken(c, v))
         /\ Len(Taken(c, v)) \in Nat
         /\ \A k \in 1 .. Len(Taken(c, v)) :
              /\ k \in 1 .. Len(v.parts)
              /\ KeptParts(c, v)[k] = Child(v.parts[k].key, BoundOf(c, v.parts[k].value).value)
              /\ KeptParts(c, v)[k].key = v.parts[k].key
              /\ KeptParts(c, v)[k].value = BoundOf(c, v.parts[k].value).value
              /\ KeptParts(c, v)[k].value \in Values
              /\ KeptParts(c, v)[k].value.origin = v.parts[k].value.origin
<1> DEFINE n == Len(Taken(c, v))
           ks == KeptParts(c, v)
<1>1. n \in Nat
  BY TakenFacts DEF Known
<1>2. ks = [k \in 1 .. n |-> Child(v.parts[k].key, Below(c, v, k).value)]
  BY DEF KeptParts
<1> HIDE DEF ks
<1> DEFINE X == Range(ks)
<1>3. ks \in [1 .. n -> X]
  BY <1>2 DEF Range
<1> HIDE DEF X
<1>4. ks \in Seq(X) /\ Len(ks) = n
  BY <1>1, <1>3
<1>5. ASSUME NEW k \in 1 .. n
      PROVE  /\ k \in 1 .. Len(v.parts)
             /\ ks[k] = Child(v.parts[k].key, BoundOf(c, v.parts[k].value).value)
             /\ BoundOf(c, v.parts[k].value).value \in Values
             /\ BoundOf(c, v.parts[k].value).value.origin = v.parts[k].value.origin
  <2>1. k \in 1 .. Len(v.parts) /\ Below(c, v, k) = BoundOf(c, v.parts[k].value) /\ Below(c, v, k).value \in Values
    BY BelowIs
  <2>2. Known(v.parts[k].value)
    BY <2>1, ChildFacts, KnownValues
  <2>3. BoundOf(c, v.parts[k].value).value.origin = v.parts[k].value.origin
    BY <2>2, OriginKept
  <2> QED BY <1>2, <2>1, <2>3
<1> QED BY <1>1, <1>4, <1>5, Fields DEF ks, X

\* bound_value returns a value again.
LEMMA ResultKnown ==
  ASSUME NEW c \in Configs, NEW v, Known(v)
  PROVE  Known(BoundOf(c, v).value)
<1>1. CASE Replaced(c, Spell(v.origin))
  <2>1. BoundOf(c, v).value = Redaction(v)
    BY <1>1, BoundFields
  <2> QED BY <2>1, RedactionKnown
<1>2. CASE ~ Replaced(c, Spell(v.origin)) /\ ~ Container(v)
  <2>1. BoundOf(c, v).value = Rebuild(v, Taken(c, v))
    BY <1>2, BoundFields
  <2>2. Taken(c, v) \in Seq(Range(v.parts)) /\ (v.type = "scalar" => Taken(c, v) = <<>>)
    BY TakenFacts, Parts DEF Known
  <2>3. Known(Rebuild(v, Taken(c, v)))
    BY <1>2, <2>2, RebuiltKnown
  <2> QED BY <2>1, <2>3
<1>3. CASE ~ Replaced(c, Spell(v.origin)) /\ Container(v)
  <2> DEFINE ks == KeptParts(c, v)
  <2>1. BoundOf(c, v).value = Rebuild(v, ks)
    BY <1>3, BoundFields
  <2>2. ks \in Seq(Range(ks)) /\ v.type # "scalar"
    BY <1>3, KeptPartsFacts DEF Container
  <2>3. ASSUME NEW k \in 1 .. Len(ks)
        PROVE  /\ ks[k] = Child(ks[k].key, ks[k].value)
               /\ ks[k].key \in Text
               /\ ks[k].value \in Values
               /\ ks[k].value.origin = Append(v.origin, ks[k].key)
    <3>1. k \in 1 .. Len(Taken(c, v))
      BY <1>3, KeptPartsFacts
    <3>2. /\ k \in 1 .. Len(v.parts)
          /\ ks[k] = Child(v.parts[k].key, ks[k].value)
          /\ ks[k].key = v.parts[k].key
          /\ ks[k].value \in Values
          /\ ks[k].value.origin = v.parts[k].value.origin
      BY <1>3, <3>1, KeptPartsFacts
    <3>3. v.parts[k].key \in Text /\ v.parts[k].value.origin = Append(v.origin, v.parts[k].key)
      BY <1>3, <3>2, ChildFacts
    <3> HIDE DEF ks
    <3> QED BY <3>2, <3>3
  <2> HIDE DEF ks
  <2>4. Known(Rebuild(v, ks))
    BY <1>3, <2>2, <2>3, RebuiltKnown
  <2> QED BY <2>1, <2>4
<1> QED BY <1>1, <1>2, <1>3

\* Everything in a value stands below it.
LEMMA OriginsBelow ==
  ASSUME NEW v, Known(v), NEW part \in WithinOf(v)
  PROVE  part.origin \in Seq(Text) /\ IsPrefix(v.origin, part.origin)
<1> DEFINE Holds(x) == \A y \in WithinOf(x) : y.origin \in Seq(Text) /\ IsPrefix(x.origin, y.origin)
<1>1. ASSUME NEW x, Known(x), \A child \in Children(x) : Holds(child)
      PROVE  Holds(x)
  <2> SUFFICES ASSUME NEW y \in WithinOf(x)
               PROVE  y.origin \in Seq(Text) /\ IsPrefix(x.origin, y.origin)
    OBVIOUS
  <2>1. x.origin \in Seq(Text)
    BY <1>1, Parts DEF Known
  <2>2. CASE y = x
    <3>1. x.origin \o <<>> = x.origin /\ <<>> \in Seq(Text)
      BY <2>1, ConcatEmptySeq, EmptySeq
    <3>2. IsPrefix(x.origin, x.origin)
      BY <2>1, <3>1, PrefixOfConcat
    <3> QED BY <2>1, <2>2, <3>2
  <2>3. CASE y # x
    <3>1. PICK k \in 1 .. Len(x.parts) : Container(x) /\ y \in WithinOf(x.parts[k].value)
      BY <1>1, <2>3, WithinIs
    <3> DEFINE ch == x.parts[k].value
    <3>2. /\ ch \in Children(x) /\ ch.origin = Append(x.origin, x.parts[k].key)
          /\ x.parts[k].key \in Text /\ ch.origin \in Seq(Text)
      BY <1>1, <3>1, ChildFacts
    <3>3. y.origin \in Seq(Text) /\ IsPrefix(ch.origin, y.origin)
      BY <1>1, <3>1, <3>2
    <3> HIDE DEF ch
    <3>4. Len(x.origin) \in Nat /\ Len(ch.origin) = Len(x.origin) + 1 /\ \A i \in 1 .. Len(x.origin) : ch.origin[i] = x.origin[i]
      BY <2>1, <3>2, AppendProperties, LenProperties
    <3>5. Len(ch.origin) <= Len(y.origin) /\ (\A i \in 1 .. Len(ch.origin) : ch.origin[i] = y.origin[i]) /\ Len(y.origin) \in Nat
      <4>1. ch.origin \in Seq(Text)
        BY <3>2
      <4>2. Len(ch.origin) <= Len(y.origin) /\ \A i \in 1 .. Len(ch.origin) : ch.origin[i] = y.origin[i]
        BY <3>3, <4>1, PrefixMeans
      <4> QED BY <3>3, <4>2, LenProperties
    <3>6. Len(x.origin) <= Len(y.origin) /\ \A i \in 1 .. Len(x.origin) : x.origin[i] = y.origin[i]
      BY <3>4, <3>5
    <3> QED BY <2>1, <3>3, <3>6, PrefixMeans
  <2> QED BY <2>2, <2>3
<1> DEFINE Q == {x \in Values : Holds(x)}
<1> HIDE DEF Holds
<1>2. Q = Values
  <2>1. \A x \in Values : Children(x) \subseteq Q => x \in Q
    BY <1>1, KnownValues
  <2> QED BY <2>1, TreeInduction
<1>3. Holds(v)
  BY <1>1, <1>2 DEF Known
<1> QED BY <1>3 DEF Holds

----------------------------------------------------------------------------
(* bound_value accounts for what it leaves out                              *)

\* A count of omissions goes with a segment.
Counted(r) == r.omitted \in Nat /\ (r.omitted > 0 <=> r.segments # {})

LEMMA BoundCounts ==
  ASSUME NEW c \in Configs, NEW v, Known(v)
  PROVE  Counted(BoundOf(c, v))
<1>1. ASSUME NEW x, Known(x), \A child \in Children(x) : Counted(BoundOf(c, child))
      PROVE  Counted(BoundOf(c, x))
  <2>1. Excess(c, x) \in Nat /\ (Excess(c, x) > 0 <=> Own(c, x) # {}) /\ Len(Taken(c, x)) \in Nat
    BY <1>1, TakenFacts DEF Own, Known
  <2>2. CASE Replaced(c, Spell(x.origin)) \/ ~ Container(x)
    <3>1. \/ BoundOf(c, x).omitted = 0 /\ BoundOf(c, x).segments = {}
          \/ BoundOf(c, x).omitted = Excess(c, x) /\ BoundOf(c, x).segments = Own(c, x)
      BY <1>1, <2>2, BoundFields
    <3> QED BY <2>1, <3>1 DEF Counted
  <2>3. CASE ~ Replaced(c, Spell(x.origin)) /\ Container(x)
    <3> DEFINE n == Len(Taken(c, x))
               f == [k \in 1 .. n |-> Below(c, x, k).omitted]
               segs == UNION {Below(c, x, k).segments : k \in 1 .. n}
    <3>1. ASSUME NEW k \in 1 .. n PROVE Counted(Below(c, x, k))
      <4>1. k \in 1 .. Len(x.parts) /\ Below(c, x, k) = BoundOf(c, x.parts[k].value)
        BY <1>1, <2>3, BelowIs
      <4>2. x.parts[k].value \in Children(x)
        BY <1>1, <2>3, <4>1, ChildFacts
      <4> QED BY <1>1, <4>1, <4>2
    <3>2. IsFiniteSet(1 .. n)
      BY <2>1, FS_Interval
    <3>3. f \in [1 .. n -> Nat] /\ \A k \in 1 .. n : f[k] = Below(c, x, k).omitted
      BY <3>1 DEF Counted
    <3>4. segs # {} <=> \E k \in 1 .. n : Below(c, x, k).segments # {}
      OBVIOUS
    <3>5. segs # {} <=> \E k \in 1 .. n : f[k] > 0
      BY <3>1, <3>3, <3>4 DEF Counted
    <3> DEFINE sum == SumFunction(f)
    <3>a. /\ BoundOf(c, x).omitted = Excess(c, x) + sum
          /\ BoundOf(c, x).segments = Own(c, x) \cup segs
      BY <1>1, <2>3, BoundFields
    <3> HIDE DEF f, segs
    <3>6. sum \in Nat /\ \A k \in 1 .. n : f[k] <= sum
      BY <3>2, <3>3, SumBounds
    <3>7. (\A k \in 1 .. n : f[k] = 0) => sum = 0
      <4> SUFFICES ASSUME \A k \in 1 .. n : f[k] = 0 PROVE sum = 0
        OBVIOUS
      <4>1. f \in [1 .. n -> Int]
        BY <3>3
      <4> QED BY <3>2, <4>1, SumOfNothing
    <3> HIDE DEF sum, n
    <3>8. sum > 0 <=> segs # {}
      <4>1. sum > 0 => \E k \in 1 .. n : f[k] > 0
        BY <3>3, <3>6, <3>7
      <4>2. (\E k \in 1 .. n : f[k] > 0) => sum > 0
        BY <3>3, <3>6
      <4> QED BY <3>5, <4>1, <4>2
    <3> QED BY <2>1, <3>a, <3>6, <3>8 DEF Counted
  <2> QED BY <2>2, <2>3
<1> DEFINE Q == {x \in Values : Counted(BoundOf(c, x))}
<1>2. Q = Values
  <2>1. \A x \in Values : Children(x) \subseteq Q => x \in Q
    BY <1>1, KnownValues
  <2> HIDE DEF Q
  <2>2. Q \in SUBSET Values
    BY DEF Q
  <2> QED BY <2>1, <2>2, TreeInduction
<1> QED BY <1>1, <1>2 DEF Known

----------------------------------------------------------------------------
(* bound_value keeps nothing that the policy removes                        *)

\* A policy lets the path of a part through, from the depth n on.
Let(c, path, n) ==
  /\ \E rule \in c.allow : IsPrefix(rule, path) \/ IsPrefix(path, rule)
  /\ \A rule \in c.deny : IsPrefix(rule, path) => Len(rule) < n

\* What is not replaced is let through at its own pointer.
LEMMA NotReplaced ==
  ASSUME NEW c \in Configs, NEW path \in Seq(Text), ~ Replaced(c, Spell(path))
  PROVE  /\ path \notin c.deny
         /\ \E rule \in c.allow : IsPrefix(rule, path) \/ IsPrefix(path, rule)
<1>1. c.deny \subseteq Seq(Text) /\ c.allow \subseteq Seq(Text)
  BY ConfigsAssumption
<1>2. Spell(path) \notin {Spell(rule) : rule \in c.deny} /\ Allowed(c, Spell(path))
  BY DEF Replaced
<1>3. path \notin c.deny
  BY <1>2
<1>4. PICK rule \in c.allow : PointerMatches(Spell(path), Spell(rule))
  BY <1>2 DEF Allowed
<1>5. rule \in Seq(Text)
  BY <1>1
<1>6. CASE Spell(path) = Spell(rule)
  <2>1. path = rule
    BY <1>5, <1>6, SpellInjective
  <2>2. path \o <<>> = path /\ <<>> \in Seq(Text)
    BY ConcatEmptySeq, EmptySeq
  <2>3. IsPrefix(path, path)
    BY <2>2, PrefixOfConcat
  <2> QED BY <1>3, <2>1, <2>3
<1>7. CASE IsDescendant(Spell(path), Spell(rule))
  BY <1>3, <1>5, <1>7, DescendantIsBelow
<1>8. CASE IsDescendant(Spell(rule), Spell(path))
  BY <1>3, <1>5, <1>8, DescendantIsBelow
<1> QED BY <1>4, <1>6, <1>7, <1>8 DEF PointerMatches

\* Two prefixes of a path that are as long as each other are one.
LEMMA PrefixesAgree ==
  ASSUME NEW X, NEW a \in Seq(X), NEW b \in Seq(X), NEW s \in Seq(X),
         IsPrefix(a, s), IsPrefix(b, s), Len(a) = Len(b)
  PROVE  a = b
<1>1. \A i \in 1 .. Len(a) : a[i] = s[i]
  BY PrefixMeans
<1>2. \A i \in 1 .. Len(b) : b[i] = s[i]
  BY PrefixMeans
<1> QED BY <1>1, <1>2, SeqEqual

\* bound_value leaves nothing, unless redacted, that the policy does not let
\* through.
LEMMA RedactionBounds ==
  ASSUME NEW c \in Configs, NEW v, Known(v), NEW part \in WithinOf(BoundOf(c, v).value), ~ part.redacted
  PROVE  Let(c, part.origin, Len(v.origin))
<1> DEFINE Holds(x) == \A y \in WithinOf(BoundOf(c, x).value) : ~ y.redacted => Let(c, y.origin, Len(x.origin))
<1>1. ASSUME NEW x, Known(x), \A child \in Children(x) : Holds(child)
      PROVE  Holds(x)
  <2> DEFINE r == BoundOf(c, x).value
  <2> SUFFICES ASSUME NEW y \in WithinOf(r), ~ y.redacted
               PROVE  Let(c, y.origin, Len(x.origin))
    OBVIOUS
  <2>1. Known(r) /\ r.origin = x.origin /\ x.origin \in Seq(Text) /\ Len(x.origin) \in Nat
    BY <1>1, ResultKnown, OriginKept, Parts, LenProperties DEF Known
  <2>2. y.origin \in Seq(Text) /\ IsPrefix(x.origin, y.origin)
    BY <2>1, OriginsBelow
  <2>3. ~ Replaced(c, Spell(x.origin))
    <3> SUFFICES ASSUME Replaced(c, Spell(x.origin)) PROVE FALSE
      OBVIOUS
    <3>1. r = Redaction(x)
      BY <1>1, BoundFields
    <3>2. y = r
      BY <1>1, <2>1, <3>1, WithinIs, RedactionKnown
    <3> QED BY <3>1, <3>2, Fields
  <2>4. /\ x.origin \notin c.deny
        /\ \E rule \in c.allow : IsPrefix(rule, x.origin) \/ IsPrefix(x.origin, rule)
    BY <2>1, <2>3, NotReplaced
  <2>5. c.deny \subseteq Seq(Text)
    BY ConfigsAssumption
  <2>6. CASE y = r
    <3>1. y.origin = x.origin
      BY <2>1, <2>6
    <3>2. ASSUME NEW rule \in c.deny, IsPrefix(rule, x.origin) PROVE Len(rule) < Len(x.origin)
      <4>1. rule \in Seq(Text) /\ Len(rule) \in Nat
        BY <2>5, LenProperties
      <4>2. Len(rule) <= Len(x.origin)
        BY <2>1, <3>2, <4>1, PrefixMeans
      <4>3. IsPrefix(x.origin, x.origin)
        BY <2>2, <3>1
      <4>4. Len(rule) # Len(x.origin)
        BY <2>1, <2>4, <3>2, <4>1, <4>3, PrefixesAgree
      <4> QED BY <2>1, <4>1, <4>2, <4>4
    <3> QED BY <2>4, <3>1, <3>2 DEF Let
  <2>7. CASE y # r
    <3>1. PICK k \in 1 .. Len(r.parts) : Container(r) /\ y \in WithinOf(r.parts[k].value)
      BY <2>1, <2>7, WithinIs
    <3>2. Container(x)
      <4>1. CASE Container(x)
        BY <4>1
      <4>2. CASE ~ Container(x)
        <5>0. r = Rebuild(x, Taken(c, x))
          BY <1>1, <2>3, <4>2, BoundFields
        <5>1. r.type = x.type
          BY <5>0, Fields
        <5> QED BY <3>1, <4>2, <5>1 DEF Container
      <4> QED BY <4>1, <4>2
    <3>3. r.parts = KeptParts(c, x)
      <4>1. r = Rebuild(x, KeptParts(c, x))
        BY <1>1, <2>3, <3>2, BoundFields
      <4> QED BY <4>1, Fields
    <3>4. /\ k \in 1 .. Len(x.parts)
          /\ r.parts[k].value = BoundOf(c, x.parts[k].value).value
      BY <1>1, <3>2, <3>3, KeptPartsFacts
    <3>5. x.parts[k].value \in Children(x) /\ Len(x.parts[k].value.origin) = Len(x.origin) + 1
      BY <1>1, <3>2, <3>4, ChildFacts
    <3>6. Let(c, y.origin, Len(x.origin) + 1)
      BY <1>1, <3>1, <3>4, <3>5
    <3>7. ASSUME NEW rule \in c.deny, IsPrefix(rule, y.origin) PROVE Len(rule) < Len(x.origin)
      <4>1. rule \in Seq(Text) /\ Len(rule) \in Nat
        BY <2>5, LenProperties
      <4>2. Len(rule) < Len(x.origin) + 1
        BY <3>6, <3>7 DEF Let
      <4>3. Len(rule) # Len(x.origin)
        BY <2>1, <2>2, <2>4, <3>7, <4>1, PrefixesAgree
      <4> QED BY <2>1, <4>1, <4>2, <4>3
    <3> QED BY <3>6, <3>7 DEF Let
  <2> QED BY <2>6, <2>7
<1> DEFINE Q == {x \in Values : Holds(x)}
<1> HIDE DEF Holds
<1>2. Q = Values
  <2>1. \A x \in Values : Children(x) \subseteq Q => x \in Q
    BY <1>1, KnownValues
  <2> QED BY <2>1, TreeInduction
<1>3. Holds(v)
  BY <1>1, <1>2 DEF Known
<1> QED BY <1>3 DEF Holds

----------------------------------------------------------------------------
(* bound_value loses nothing silently                                       *)

\* A part is kept in a bounded value, or was replaced by redaction with what
\* it is in.
KeptIn(part, bounded) ==
  \E kept \in WithinOf(bounded) :
    \/ Container(part) /\ kept.origin = part.origin
    \/ kept = part
    \/ kept.redacted /\ IsPrefix(kept.origin, part.origin)

Recorded(part, segments) == \E path \in Prefixes(part.origin) : Spell(path) \in segments

LEMMA PrefixIsPrefix ==
  ASSUME NEW X, NEW s \in Seq(X), NEW t \in Seq(X), IsPrefix(s, t)
  PROVE  s \in Prefixes(t)
<1>1. Len(s) <= Len(t) /\ SubSeq(s, 1, Len(s)) = SubSeq(t, 1, Len(s))
  BY DEF IsPrefix
<1>2. SubSeq(s, 1, Len(s)) = s /\ Len(s) \in Nat /\ Len(t) \in Nat
  BY SubSeqFull, LenProperties
<1>3. Len(s) \in 0 .. Len(t)
  BY <1>1, <1>2
<1> QED BY <1>1, <1>2, <1>3 DEF Prefixes

\* Whatever bound_value drops lies below a segment it records, or was redacted.
LEMMA BoundLosesNothing ==
  ASSUME NEW c \in Configs, NEW v, Known(v), NEW part \in WithinOf(v)
  PROVE  KeptIn(part, BoundOf(c, v).value) \/ Recorded(part, BoundOf(c, v).segments)
<1> DEFINE Holds(x) == \A y \in WithinOf(x) : KeptIn(y, BoundOf(c, x).value) \/ Recorded(y, BoundOf(c, x).segments)
<1>1. ASSUME NEW x, Known(x), \A child \in Children(x) : Holds(child)
      PROVE  Holds(x)
  <2> DEFINE r == BoundOf(c, x)
  <2> SUFFICES ASSUME NEW y \in WithinOf(x)
               PROVE  KeptIn(y, r.value) \/ Recorded(y, r.segments)
    OBVIOUS
  <2>1. /\ Known(r.value) /\ r.value.origin = x.origin /\ x.origin \in Seq(Text)
        /\ y.origin \in Seq(Text) /\ IsPrefix(x.origin, y.origin)
    BY <1>1, ResultKnown, OriginKept, OriginsBelow, Parts DEF Known
  <2>2. r.value \in WithinOf(r.value)
    BY <2>1, WithinIs
  <2>3. x.origin \in Prefixes(y.origin)
    BY <2>1, PrefixIsPrefix
  <2>4. Excess(c, x) # 0 /\ ~ Replaced(c, Spell(x.origin)) => Recorded(y, r.segments)
    <3>1. Excess(c, x) \in Nat
      BY <1>1, TakenFacts DEF Known
    <3>2. Excess(c, x) # 0 => Spell(x.origin) \in Own(c, x)
      BY <3>1 DEF Own
    <3>3. ~ Replaced(c, Spell(x.origin)) => Own(c, x) \subseteq r.segments
      BY <1>1, BoundFields
    <3> QED BY <2>3, <3>2, <3>3 DEF Recorded
  <2>5. CASE Replaced(c, Spell(x.origin))
    <3>1. r.value = Redaction(x)
      BY <1>1, <2>5, BoundFields
    <3>2. r.value.redacted
      BY <3>1, Fields
    <3> QED BY <2>1, <2>2, <3>2 DEF KeptIn
  <2>6. CASE ~ Replaced(c, Spell(x.origin)) /\ ~ Container(x)
    <3>1. y = x
      BY <1>1, <2>6, WithinIs
    <3>2. CASE Excess(c, x) = 0
      <4>1. Taken(c, x) = x.parts
        BY <1>1, <3>2, TakenFacts DEF Known
      <4>2. r.value = Rebuild(x, x.parts)
        BY <1>1, <2>6, <4>1, BoundFields
      <4>3. x = Rebuild(x, x.parts)
        BY <1>1 DEF Known, WellFormed, Rebuild
      <4> QED BY <2>2, <3>1, <4>2, <4>3 DEF KeptIn
    <3> QED BY <2>4, <2>6, <3>2
  <2>7. CASE ~ Replaced(c, Spell(x.origin)) /\ Container(x)
    <3>1. r.value = Rebuild(x, KeptParts(c, x))
      BY <1>1, <2>7, BoundFields
    <3>2. r.value.parts = KeptParts(c, x) /\ Container(r.value)
      BY <2>7, <3>1, Fields DEF Container
    <3>3. CASE y = x
      BY <2>1, <2>2, <2>7, <3>3 DEF KeptIn
    <3>4. CASE y # x
      <4>1. PICK k \in 1 .. Len(x.parts) : y \in WithinOf(x.parts[k].value)
        BY <1>1, <3>4, WithinIs
      <4> DEFINE n == Len(Taken(c, x))
                 b == BoundOf(c, x.parts[k].value)
      <4>2. n \in Nat /\ n <= Len(x.parts) /\ Len(x.parts) \in Nat
        BY <1>1, TakenFacts, Parts DEF Known
      <4>3. CASE k \in 1 .. n
        <5>1. Len(r.value.parts) = n /\ r.value.parts[k].value = b.value
          BY <1>1, <2>7, <3>2, <4>3, KeptPartsFacts
        <5>2. KeptIn(y, b.value) \/ Recorded(y, b.segments)
          <6>1. x.parts[k].value \in Children(x)
            BY <1>1, <2>7, ChildFacts
          <6> QED BY <1>1, <4>1, <6>1
        <5>3. b.segments \subseteq r.segments
          <6>1. Below(c, x, k) = b
            BY DEF Below, BoundOf
          <6>2. r.segments = Own(c, x) \cup UNION {Below(c, x, j).segments : j \in 1 .. n}
            BY <1>1, <2>7, BoundFields
          <6> HIDE DEF r, b, n
          <6> QED BY <4>3, <6>1, <6>2
        <5>4. WithinOf(b.value) \subseteq WithinOf(r.value)
          <6> HIDE DEF b, r
          <6> QED BY <2>1, <3>2, <4>3, <5>1, WithinIs
        <5> HIDE DEF b, r
        <5> QED BY <5>2, <5>3, <5>4 DEF KeptIn, Recorded
      <4>4. CASE k \notin 1 .. n
        <5>1. Excess(c, x) # 0
          <6> SUFFICES ASSUME Excess(c, x) = 0 PROVE FALSE
            OBVIOUS
          <6>1. Taken(c, x) = x.parts
            BY <1>1, TakenFacts DEF Known
          <6> QED BY <4>4, <6>1
        <5> QED BY <2>4, <2>7, <5>1
      <4> QED BY <4>3, <4>4
    <3> QED BY <3>3, <3>4
  <2> QED BY <2>5, <2>6, <2>7
<1> DEFINE Q == {x \in Values : Holds(x)}
<1> HIDE DEF Holds
<1>2. Q = Values
  <2>1. \A x \in Values : Children(x) \subseteq Q => x \in Q
    BY <1>1, KnownValues
  <2> QED BY <2>1, TreeInduction
<1>3. Holds(v)
  BY <1>1, <1>2 DEF Known
<1> QED BY <1>3 DEF Holds

----------------------------------------------------------------------------
(* Bounding again                                                           *)

\* Without a policy nothing is redacted.
LEMMA NothingReplaced ==
  ASSUME NEW c, NoPolicy(c), NEW path \in Seq(Text)
  PROVE  ~ Replaced(c, Spell(path))
<1>1. PointerMatches(Spell(path), Spell(<<>>))
  BY SpellNothing DEF PointerMatches, IsDescendant
<1> QED BY <1>1 DEF Replaced, Allowed, NoPolicy

\* A value whose children bounding leaves alone, and which is short enough, is
\* left alone.
LEMMA LeftAlone ==
  ASSUME NEW c \in Configs, NoPolicy(c), NEW v, Known(v), Len(v.parts) <= Limit(c, v),
         Container(v) => \A k \in 1 .. Len(v.parts) :
           BoundOf(c, v.parts[k].value) = Result(v.parts[k].value, 0, {})
  PROVE  BoundOf(c, v) = Result(v, 0, {})
<1>1. /\ Len(v.parts) \in Nat /\ v.origin \in Seq(Text) /\ DOMAIN v.parts = 1 .. Len(v.parts)
      /\ v = Rebuild(v, v.parts)
  BY Parts DEF Known, WellFormed, Rebuild
<1>2. ~ Replaced(c, Spell(v.origin))
  BY <1>1, NothingReplaced
<1>3. Limit(c, v) \in Nat
  BY <1>1, ConfigsAssumption DEF Limit
<1>4. Excess(c, v) = 0
  BY <1>1, <1>3 DEF Excess
<1>5. Taken(c, v) = v.parts /\ Own(c, v) = {}
  BY <1>4 DEF Taken, Own
<1>6. CASE ~ Container(v)
  <2>1. BoundOf(c, v) = Result(Rebuild(v, Taken(c, v)), Excess(c, v), Own(c, v))
    BY <1>2, <1>6, BoundForms
  <2> QED BY <1>1, <1>4, <1>5, <2>1
<1>7. CASE Container(v)
  <2> DEFINE n == Len(v.parts)
             f == [k \in 1 .. n |-> Below(c, v, k).omitted]
             segs == UNION {Below(c, v, k).segments : k \in 1 .. n}
  <2>1. \A k \in 1 .. n : /\ Below(c, v, k).value = v.parts[k].value
                          /\ Below(c, v, k).omitted = 0 /\ Below(c, v, k).segments = {}
    BY <1>7, Fields DEF Below, BoundOf
  <2>2. BoundOf(c, v) = Result(Rebuild(v, KeptParts(c, v)), Excess(c, v) + SumFunction(f), Own(c, v) \cup segs)
    BY <1>2, <1>5, <1>7, BoundForms
  <2>3. segs = {}
    BY <2>1
  <2>4. SumFunction(f) = 0
    <3>1. IsFiniteSet(1 .. n)
      <4>1. n \in Nat
        BY <1>1
      <4> HIDE DEF n
      <4> QED BY <4>1, FS_Interval
    <3>2. f \in [1 .. n -> Int] /\ \A k \in 1 .. n : f[k] = 0
      BY <2>1
    <3> HIDE DEF f, n
    <3> QED BY <3>1, <3>2, SumOfNothing
  <2>5. KeptParts(c, v) = v.parts
    <3>1. KeptParts(c, v) = [k \in 1 .. n |-> Child(v.parts[k].key, Below(c, v, k).value)]
      BY <1>5 DEF KeptParts
    <3>2. \A k \in 1 .. n : Child(v.parts[k].key, Below(c, v, k).value) = v.parts[k]
      BY <1>7, <2>1, ChildFacts
    <3>3. v.parts = [k \in 1 .. n |-> v.parts[k]]
      BY <1>1, Parts DEF Known
    <3> QED BY <3>1, <3>2, <3>3
  <2> HIDE DEF f, segs
  <2> QED BY <1>1, <1>4, <1>5, <2>2, <2>3, <2>4, <2>5
<1> QED BY <1>6, <1>7

\* What bound_value returns is within its limits.
LEMMA ResultShort ==
  ASSUME NEW c \in Configs, NoPolicy(c), NEW v, Known(v)
  PROVE  LET r == BoundOf(c, v).value
         IN  /\ r.type = v.type
             /\ Len(r.parts) <= Limit(c, r)
             /\ Container(v) => \A k \in 1 .. Len(r.parts) :
                  /\ k \in 1 .. Len(v.parts)
                  /\ r.parts[k].value = BoundOf(c, v.parts[k].value).value
<1> DEFINE r == BoundOf(c, v).value
           parts == IF Container(v) THEN KeptParts(c, v) ELSE Taken(c, v)
           n == Len(Taken(c, v))
<1>1. ~ Replaced(c, Spell(v.origin))
  BY NothingReplaced, Parts DEF Known
<1>2. r = Rebuild(v, parts)
  BY <1>1, BoundFields
<1>3. r.type = v.type /\ r.parts = parts
  BY <1>2, Fields
<1>4. Len(parts) = n /\ n \in Nat /\ n <= Limit(c, v)
  <2>1. n \in Nat /\ n <= Limit(c, v)
    BY TakenFacts DEF Known
  <2>2. Container(v) => Len(KeptParts(c, v)) = n
    BY KeptPartsFacts
  <2> QED BY <2>1, <2>2
<1>5. n <= Limit(c, r)
  BY <1>3, <1>4 DEF Limit
<1>6. ASSUME Container(v), NEW k \in 1 .. Len(r.parts)
      PROVE  k \in 1 .. Len(v.parts) /\ r.parts[k].value = BoundOf(c, v.parts[k].value).value
  BY <1>3, <1>4, <1>6, KeptPartsFacts
<1> QED BY <1>3, <1>4, <1>5, <1>6

\* Without a policy bound_value leaves its own results alone.
LEMMA BoundTwice ==
  ASSUME NEW c \in Configs, NoPolicy(c), NEW v, Known(v)
  PROVE  BoundOf(c, BoundOf(c, v).value) = Result(BoundOf(c, v).value, 0, {})
<1> DEFINE Holds(x) == BoundOf(c, BoundOf(c, x).value) = Result(BoundOf(c, x).value, 0, {})
<1>1. ASSUME NEW x, Known(x), \A child \in Children(x) : Holds(child)
      PROVE  Holds(x)
  <2> DEFINE r == BoundOf(c, x).value
  <2>1. Known(r)
    BY <1>1, ResultKnown
  <2>2. /\ r.type = x.type
        /\ Len(r.parts) <= Limit(c, r)
        /\ Container(x) => \A k \in 1 .. Len(r.parts) :
             /\ k \in 1 .. Len(x.parts)
             /\ r.parts[k].value = BoundOf(c, x.parts[k].value).value
    BY <1>1, ResultShort
  <2>3. ASSUME Container(r), NEW k \in 1 .. Len(r.parts)
        PROVE  BoundOf(c, r.parts[k].value) = Result(r.parts[k].value, 0, {})
    <3>1. Container(x)
      BY <2>2, <2>3 DEF Container
    <3>2. k \in 1 .. Len(x.parts) /\ r.parts[k].value = BoundOf(c, x.parts[k].value).value
      BY <2>2, <2>3, <3>1
    <3>3. x.parts[k].value \in Children(x)
      BY <1>1, <3>1, <3>2, ChildFacts
    <3> QED BY <1>1, <3>2, <3>3
  <2> HIDE DEF r
  <2>4. BoundOf(c, r) = Result(r, 0, {})
    BY <2>1, <2>2, <2>3, LeftAlone
  <2> QED BY <2>4 DEF r
<1> DEFINE Q == {x \in Values : Holds(x)}
<1> HIDE DEF Holds
<1>2. Q = Values
  <2>1. \A x \in Values : Children(x) \subseteq Q => x \in Q
    BY <1>1, KnownValues
  <2> QED BY <2>1, TreeInduction
<1>3. Holds(v)
  BY <1>1, <1>2 DEF Known
<1> QED BY <1>3 DEF Holds

----------------------------------------------------------------------------
(* bound_total_bytes                                                        *)

\* The parts retained of the first k of a value, as its recursive function says.
IsRetained(f, c, v) ==
  f = [k \in 0 .. Len(v.parts) |->
        IF k = 0 THEN <<>>
        ELSE LET candidate == Append(f[k - 1], v.parts[k])
             IN  IF Fits(c, Rebuild(v, candidate)) THEN candidate ELSE f[k - 1]]

LEMMA RetainedIs ==
  ASSUME NEW c, NEW v
  PROVE  Retained(c, v) = CHOOSE f : IsRetained(f, c, v)
  BY DEF Retained, IsRetained

\* There is such a function.
LEMMA RetainedExists ==
  ASSUME NEW c, NEW v, Len(v.parts) \in Nat
  PROVE  IsRetained(Retained(c, v), c, v)
<1> DEFINE N == Len(v.parts)
           turn(s, k) == IF Fits(c, Rebuild(v, Append(s, v.parts[k]))) THEN Append(s, v.parts[k]) ELSE s
           Some(n) == n <= N => \E f : /\ DOMAIN f = 0 .. n
                                       /\ f = [k \in 0 .. n |-> f[k]]
                                       /\ f[0] = <<>>
                                       /\ \A k \in 1 .. n : f[k] = turn(f[k - 1], k)
           P == {n \in Nat : Some(n)}
<1> HIDE DEF turn
<1>1. Some(0)
  <2> DEFINE f == [k \in 0 .. 0 |-> <<>>]
  <2>1. DOMAIN f = 0 .. 0 /\ f = [k \in 0 .. 0 |-> f[k]] /\ f[0] = <<>>
    OBVIOUS
  <2>2. \A k \in 1 .. 0 : f[k] = turn(f[k - 1], k)
    OBVIOUS
  <2> HIDE DEF f
  <2> QED BY <2>1, <2>2
<1>2. ASSUME NEW n \in Nat, Some(n) PROVE Some(n + 1)
  <2> SUFFICES ASSUME n + 1 <= N
               PROVE  \E f : /\ DOMAIN f = 0 .. n + 1
                             /\ f = [k \in 0 .. n + 1 |-> f[k]]
                             /\ f[0] = <<>>
                             /\ \A k \in 1 .. n + 1 : f[k] = turn(f[k - 1], k)
    OBVIOUS
  <2>0. n <= N
    OBVIOUS
  <2>1. PICK f : /\ DOMAIN f = 0 .. n
                 /\ f[0] = <<>>
                 /\ \A k \in 1 .. n : f[k] = turn(f[k - 1], k)
    BY <1>2, <2>0
  <2> DEFINE last == turn(f[n], n + 1)
             g == [k \in 0 .. n + 1 |-> IF k = n + 1 THEN last ELSE f[k]]
  <2> HIDE DEF last
  <2>2. DOMAIN g = 0 .. n + 1 /\ g = [k \in 0 .. n + 1 |-> g[k]] /\ g[0] = <<>>
    BY <2>1
  <2>3. ASSUME NEW k \in 1 .. n + 1 PROVE g[k] = turn(g[k - 1], k)
    <3>1. k - 1 \in 0 .. n + 1 /\ g[k - 1] = f[k - 1]
      OBVIOUS
    <3>2. CASE k = n + 1
      <4>1. g[k] = last /\ k - 1 = n
        BY <3>2
      <4> QED BY <3>1, <3>2, <4>1 DEF last
    <3>3. CASE k # n + 1
      <4>1. k \in 1 .. n /\ g[k] = f[k]
        BY <3>3
      <4> QED BY <2>1, <3>1, <4>1
    <3> QED BY <3>2, <3>3
  <2> HIDE DEF g
  <2> QED BY <2>2, <2>3
<1>3. 0 \in P /\ (\A n \in P : n + 1 \in P) /\ P \in SUBSET Nat
  <2> HIDE DEF Some
  <2> QED BY <1>1, <1>2
<1>4. Some(N)
  <2> HIDE DEF P
  <2>1. P = Nat
    BY <1>3, SetInduction
  <2>2. N \in P
    BY <2>1
  <2> QED BY <2>2, Zenon DEF P
<1>5. PICK f : /\ f = [k \in 0 .. N |-> f[k]]
               /\ f[0] = <<>>
               /\ \A k \in 1 .. N : f[k] = turn(f[k - 1], k)
  BY <1>4
<1>6. IsRetained(f, c, v)
  <2>1. ASSUME NEW k \in 0 .. N PROVE f[k] = IF k = 0 THEN <<>> ELSE turn(f[k - 1], k)
    <3>1. CASE k = 0
      BY <1>5, <3>1
    <3>2. CASE k # 0
      <4>1. k \in 1 .. N
        BY <3>2
      <4>2. f[k] = turn(f[k - 1], k)
        BY <1>5, <4>1
      <4> QED BY <3>2, <4>2
    <3> QED BY <3>1, <3>2
  <2>2. f = [k \in 0 .. N |-> IF k = 0 THEN <<>> ELSE turn(f[k - 1], k)]
    BY <1>5, <2>1
  <2> QED BY <2>2 DEF IsRetained, turn
<1> QED BY <1>6, RetainedIs

\* The parts retained of the first k.
LEMMA RetainedFacts ==
  ASSUME NEW c, NEW v, WellFormed(v), NEW m \in 0 .. Len(v.parts)
  PROVE  /\ Retained(c, v)[m] \in Seq(Range(v.parts)) /\ Len(Retained(c, v)[m]) <= m
         /\ Retained(c, v)[m] = <<>> \/ Fits(c, Rebuild(v, Retained(c, v)[m]))
         /\ \A j \in 1 .. m : \/ Retained(c, v)[j] = Retained(c, v)[j - 1]
                              \/ \E i \in 1 .. Len(Retained(c, v)[m]) : Retained(c, v)[m][i] = v.parts[j]
         /\ (\A j \in 1 .. m : Retained(c, v)[j] # Retained(c, v)[j - 1]) =>
              Len(Retained(c, v)[m]) = m /\ \A i \in 1 .. m : Retained(c, v)[m][i] = v.parts[i]
<1> DEFINE N == Len(v.parts)
           X == Range(v.parts)
           R == Retained(c, v)
           S(k) == /\ R[k] \in Seq(X) /\ Len(R[k]) <= k
                   /\ R[k] = <<>> \/ Fits(c, Rebuild(v, R[k]))
                   /\ \A j \in 1 .. k : \/ R[j] = R[j - 1]
                                        \/ \E i \in 1 .. Len(R[k]) : R[k][i] = v.parts[j]
                   /\ (\A j \in 1 .. k : R[j] # R[j - 1]) =>
                        Len(R[k]) = k /\ \A i \in 1 .. k : R[k][i] = v.parts[i]
           P == {k \in Nat : k <= N => S(k)}
<1>1. N \in Nat /\ \A k \in 1 .. N : v.parts[k] \in X
  BY Parts, ElementOfSeq
<1>2. IsRetained(R, c, v)
  BY <1>1, RetainedExists
<1>3. R[0] = <<>>
  BY <1>1, <1>2 DEF IsRetained
<1>4. ASSUME NEW k \in 1 .. N
      PROVE  LET candidate == Append(R[k - 1], v.parts[k])
             IN  R[k] = IF Fits(c, Rebuild(v, candidate)) THEN candidate ELSE R[k - 1]
  <2>1. k \in 0 .. N /\ k # 0
    BY <1>1, <1>4
  <2> HIDE DEF R
  <2>2. R[k] = IF k = 0 THEN <<>>
               ELSE LET candidate == Append(R[k - 1], v.parts[k])
                    IN  IF Fits(c, Rebuild(v, candidate)) THEN candidate ELSE R[k - 1]
    BY <1>2, <2>1 DEF IsRetained
  <2> QED BY <2>1, <2>2
<1> HIDE DEF R, X, N
<1>5. S(0)
  BY <1>3, EmptySeq
<1>6. ASSUME NEW k \in Nat, k + 1 <= N, S(k) PROVE S(k + 1)
  <2> DEFINE s == R[k]
             candidate == Append(s, v.parts[k + 1])
  <2>1. k + 1 \in 1 .. N /\ (k + 1) - 1 = k /\ v.parts[k + 1] \in X
    BY <1>1, <1>6
  <2>2. R[k + 1] = IF Fits(c, Rebuild(v, candidate)) THEN candidate ELSE s
    BY <1>4, <2>1
  <2>3. s \in Seq(X) /\ Len(s) <= k /\ Len(s) \in Nat
    BY <1>6, LenProperties
  <2>4. CASE R[k + 1] = s
    <3>1. R[k + 1] = R[(k + 1) - 1]
      BY <2>1, <2>4
    <3>2. ASSUME NEW j \in 1 .. k + 1
          PROVE  R[j] = R[j - 1] \/ \E i \in 1 .. Len(R[k + 1]) : R[k + 1][i] = v.parts[j]
      <4>1. CASE j = k + 1
        BY <3>1, <4>1
      <4>2. CASE j # k + 1
        <5>1. j \in 1 .. k
          BY <1>6, <3>2, <4>2
        <5>2. R[j] = R[j - 1] \/ \E i \in 1 .. Len(R[k]) : R[k][i] = v.parts[j]
          BY <1>6, <5>1
        <5> QED BY <2>4, <5>2
      <4> QED BY <4>1, <4>2
    <3>3. Len(R[k + 1]) <= k + 1 /\ R[k + 1] \in Seq(X)
      BY <2>3, <2>4
    <3>4. R[k + 1] = <<>> \/ Fits(c, Rebuild(v, R[k + 1]))
      BY <1>6, <2>4
    <3>5. \E j \in 1 .. k + 1 : R[j] = R[j - 1]
      BY <3>1
    <3> QED BY <3>2, <3>3, <3>4, <3>5
  <2>5. CASE R[k + 1] # s
    <3>1. R[k + 1] = candidate /\ Fits(c, Rebuild(v, candidate))
      BY <2>2, <2>5
    <3>2. /\ candidate \in Seq(X) /\ Len(candidate) = Len(s) + 1
          /\ \A i \in 1 .. Len(s) : candidate[i] = s[i]
          /\ candidate[Len(s) + 1] = v.parts[k + 1]
      BY <2>1, <2>3, AppendProperties
    <3> HIDE DEF candidate
    <3>3. ASSUME NEW j \in 1 .. k + 1
          PROVE  R[j] = R[j - 1] \/ \E i \in 1 .. Len(candidate) : candidate[i] = v.parts[j]
      <4>1. CASE j = k + 1
        <5>1. Len(s) + 1 \in 1 .. Len(candidate)
          BY <2>3, <3>2
        <5> QED BY <3>2, <4>1, <5>1
      <4>2. CASE j # k + 1
        <5>1. j \in 1 .. k
          BY <4>2
        <5>2. R[j] = R[j - 1] \/ \E i \in 1 .. Len(s) : s[i] = v.parts[j]
          BY <1>6, <5>1
        <5>3. \A i \in 1 .. Len(s) : i \in 1 .. Len(candidate) /\ candidate[i] = s[i]
          BY <2>3, <3>2
        <5> QED BY <5>2, <5>3
      <4> QED BY <4>1, <4>2
    <3>4. Len(candidate) <= k + 1
      BY <2>3, <3>2
    <3>5. ASSUME \A j \in 1 .. k + 1 : R[j] # R[j - 1]
          PROVE  Len(candidate) = k + 1 /\ \A i \in 1 .. k + 1 : candidate[i] = v.parts[i]
      <4>1. Len(s) = k /\ \A i \in 1 .. k : s[i] = v.parts[i]
        <5>1. \A j \in 1 .. k : j \in 1 .. k + 1
          OBVIOUS
        <5> QED BY <1>6, <3>5, <5>1
      <4> HIDE DEF s
      <4>2. ASSUME NEW i \in 1 .. k + 1 PROVE candidate[i] = v.parts[i]
        <5>1. CASE i = k + 1
          BY <3>2, <4>1, <5>1
        <5>2. CASE i # k + 1
          <6>1. i \in 1 .. k
            BY <5>2
          <6> QED BY <3>2, <4>1, <6>1
        <5> QED BY <5>1, <5>2
      <4> QED BY <3>2, <4>1, <4>2
    <3> QED BY <3>1, <3>2, <3>3, <3>4, <3>5
  <2> QED BY <2>4, <2>5
<1>7. 0 \in P /\ (\A n \in P : n + 1 \in P) /\ P \in SUBSET Nat
  <2> HIDE DEF S
  <2>1. \A n \in P : n + 1 <= N => n <= N
    BY <1>1
  <2> QED BY <1>5, <1>6, <2>1
<1>8. S(m)
  <2> HIDE DEF P
  <2>1. P = Nat
    BY <1>7, SetInduction
  <2>2. m \in P /\ m <= N
    BY <1>1, <2>1 DEF N
  <2> HIDE DEF S
  <2> QED BY <2>2 DEF P
<1> QED BY <1>8 DEF R, X

\* The parts bound_total_bytes leaves out, the pointer it records for one, and
\* what is left of the value.
LeftOut(c, v) == {k \in DOMAIN v.parts : Retained(c, v)[k] = Retained(c, v)[k - 1]}

LeftPointer(v, k) == IF Container(v) THEN ChildPointer(<<>>, v.parts[k].key) ELSE <<>>

Cut(c, v) == Rebuild(v, Retained(c, v)[Len(v.parts)])

\* bound_total_bytes, case by case.
LEMMA TotalForms ==
  ASSUME NEW c, NEW b
  PROVE  /\ Fits(c, b.value) => BoundTotalBytes(c, b) = b
         /\ ~ Fits(c, b.value) /\ b.value.type = "scalar" =>
              /\ BoundTotalBytes(c, b).value = b.value
              /\ BoundTotalBytes(c, b).omitted = b.omitted + 1
              /\ BoundTotalBytes(c, b).segments = b.segments \cup {<<>>}
         /\ ~ Fits(c, b.value) /\ b.value.type # "scalar" =>
              /\ BoundTotalBytes(c, b).value = Cut(c, b.value)
              /\ BoundTotalBytes(c, b).omitted = b.omitted + Cardinality(LeftOut(c, b.value))
              /\ BoundTotalBytes(c, b).segments =
                   b.segments \cup {LeftPointer(b.value, k) : k \in LeftOut(c, b.value)}
<1> DEFINE r == BoundTotalBytes(c, b)
           cut == Cut(c, b.value)
           omitted == b.omitted + Cardinality(LeftOut(c, b.value))
           segments == b.segments \cup {LeftPointer(b.value, k) : k \in LeftOut(c, b.value)}
<1>1. r = IF Fits(c, b.value) THEN b
          ELSE IF b.value.type = "scalar" THEN Result(b.value, b.omitted + 1, b.segments \cup {<<>>})
          ELSE Result(cut, omitted, segments)
  BY DEF BoundTotalBytes, Cut, LeftOut, LeftPointer
<1> HIDE DEF r, cut, omitted, segments
<1>2. /\ Fits(c, b.value) => r = b
      /\ ~ Fits(c, b.value) /\ b.value.type = "scalar" =>
           r.value = b.value /\ r.omitted = b.omitted + 1 /\ r.segments = b.segments \cup {<<>>}
      /\ ~ Fits(c, b.value) /\ b.value.type # "scalar" =>
           r.value = cut /\ r.omitted = omitted /\ r.segments = segments
  BY <1>1 DEF Result
<1> QED BY <1>2 DEF r, cut, omitted, segments

\* What is retained of a value, at the end.
LEMMA CutFacts ==
  ASSUME NEW c, NEW v, Known(v), v.type # "scalar"
  PROVE  /\ Cut(c, v).type = v.type /\ Cut(c, v).origin = v.origin
         /\ Cut(c, v).redacted = v.redacted /\ Cut(c, v).size = v.size
         /\ Cut(c, v).parts \in Seq(Range(v.parts)) /\ Len(Cut(c, v).parts) <= Len(v.parts)
         /\ Len(Cut(c, v).parts) \in Nat
         /\ Cut(c, v).parts = <<>> \/ Fits(c, Cut(c, v))
         /\ \A i \in 1 .. Len(Cut(c, v).parts) :
              \E j \in 1 .. Len(v.parts) : Cut(c, v).parts[i] = v.parts[j]
         /\ \A j \in 1 .. Len(v.parts) :
              j \in LeftOut(c, v) \/ \E i \in 1 .. Len(Cut(c, v).parts) : Cut(c, v).parts[i] = v.parts[j]
         /\ LeftOut(c, v) = {} => Cut(c, v) = v
         /\ Known(Cut(c, v))
<1> DEFINE n == Len(v.parts)
           s == Retained(c, v)[n]
           X == Range(v.parts)
<1>1. WellFormed(v) /\ n \in Nat /\ DOMAIN v.parts = 1 .. n
  BY Parts DEF Known
<1>2. Cut(c, v) = Rebuild(v, s)
  BY DEF Cut
<1>3. /\ s \in Seq(X) /\ Len(s) <= n
      /\ s = <<>> \/ Fits(c, Rebuild(v, s))
      /\ \A j \in 1 .. n : \/ Retained(c, v)[j] = Retained(c, v)[j - 1]
                           \/ \E i \in 1 .. Len(s) : s[i] = v.parts[j]
      /\ (\A j \in 1 .. n : Retained(c, v)[j] # Retained(c, v)[j - 1]) =>
           Len(s) = n /\ \A i \in 1 .. n : s[i] = v.parts[i]
  <2>1. n \in 0 .. Len(v.parts)
    BY <1>1
  <2>2. PICK m \in 0 .. Len(v.parts) : m = n
    BY <2>1
  <2>3. /\ Retained(c, v)[m] \in Seq(Range(v.parts)) /\ Len(Retained(c, v)[m]) <= m
        /\ Retained(c, v)[m] = <<>> \/ Fits(c, Rebuild(v, Retained(c, v)[m]))
        /\ \A j \in 1 .. m : \/ Retained(c, v)[j] = Retained(c, v)[j - 1]
                             \/ \E i \in 1 .. Len(Retained(c, v)[m]) : Retained(c, v)[m][i] = v.parts[j]
        /\ (\A j \in 1 .. m : Retained(c, v)[j] # Retained(c, v)[j - 1]) =>
             Len(Retained(c, v)[m]) = m /\ \A i \in 1 .. m : Retained(c, v)[m][i] = v.parts[i]
    BY ONLY <1>1, m \in 0 .. Len(v.parts), RetainedFacts
  <2> QED BY <2>2, <2>3
<1>4. X = {v.parts[j] : j \in 1 .. n}
  BY <1>1 DEF Range
<1> HIDE DEF s, X
<1>5. /\ Cut(c, v).type = v.type /\ Cut(c, v).origin = v.origin
      /\ Cut(c, v).redacted = v.redacted /\ Cut(c, v).size = v.size
      /\ Cut(c, v).parts = s
  BY <1>2, Fields
<1>6. ASSUME NEW i \in 1 .. Len(s) PROVE \E j \in 1 .. n : s[i] = v.parts[j]
  <2>1. s[i] \in X
    BY <1>3, ElementOfSeq
  <2> QED BY <2>1, <1>4
<1>7. \A j \in 1 .. n : j \in LeftOut(c, v) \/ \E i \in 1 .. Len(s) : s[i] = v.parts[j]
  BY <1>1, <1>3 DEF LeftOut
<1>8. Len(s) \in Nat
  BY <1>3, LenProperties
<1>9. Known(Rebuild(v, s))
  <2>1. ASSUME Container(v), NEW i \in 1 .. Len(s)
        PROVE  /\ s[i] = Child(s[i].key, s[i].value)
               /\ s[i].key \in Text
               /\ s[i].value \in Values
               /\ s[i].value.origin = Append(v.origin, s[i].key)
    <3>1. PICK j \in 1 .. n : s[i] = v.parts[j]
      BY <1>6
    <3> QED BY <2>1, <3>1, ChildFacts
  <2> QED BY <1>3, <2>1, RebuiltKnown
<1>10. Cut(c, v).parts = <<>> \/ Fits(c, Cut(c, v))
  BY <1>2, <1>3, <1>5
<1>11. ASSUME LeftOut(c, v) = {} PROVE Cut(c, v) = v
  <2>1. \A j \in 1 .. n : Retained(c, v)[j] # Retained(c, v)[j - 1]
    BY <1>1, <1>11 DEF LeftOut
  <2>2. Len(s) = n /\ \A i \in 1 .. n : s[i] = v.parts[i]
    BY <1>3, <2>1
  <2>3. v.parts \in Seq(X)
    BY <1>1, Parts DEF X
  <2>4. s = v.parts
    BY <1>3, <2>2, <2>3, SeqEqual
  <2>5. v = Rebuild(v, v.parts)
    BY <1>1 DEF WellFormed, Rebuild
  <2> QED BY <1>2, <2>4, <2>5
<1> QED BY <1>2, <1>3, <1>5, <1>6, <1>7, <1>8, <1>9, <1>10, <1>11 DEF X

\* bound_value and bound_total_bytes.
Total(c, v) == BoundTotalBytes(c, BoundOf(c, v))

LEMMA TotalShape ==
  ASSUME NEW c \in Configs, NEW v, Known(v)
  PROVE  \/ Fits(c, BoundOf(c, v).value) /\ Total(c, v) = BoundOf(c, v)
         \/ /\ ~ Fits(c, BoundOf(c, v).value) /\ BoundOf(c, v).value.type = "scalar"
            /\ Total(c, v).value = BoundOf(c, v).value
         \/ /\ ~ Fits(c, BoundOf(c, v).value) /\ BoundOf(c, v).value.type # "scalar"
            /\ Total(c, v).value = Cut(c, BoundOf(c, v).value)
  BY TotalForms DEF Total

LEMMA TotalKnown ==
  ASSUME NEW c \in Configs, NEW v, Known(v)
  PROVE  Known(Total(c, v).value) /\ Total(c, v).value.origin = v.origin
<1>1. Known(BoundOf(c, v).value) /\ BoundOf(c, v).value.origin = v.origin
  BY ResultKnown, OriginKept
<1> QED BY <1>1, TotalShape, CutFacts

\* What an empty string, array or object weighs.
LEMMA EmptyFits ==
  ASSUME NEW c \in Configs, c.maxTotal >= 2, NEW v, v.parts = <<>>, v.size = 2
  PROVE  Fits(c, v)
<1>1. DOMAIN v.parts = {}
  OBVIOUS
<1>2. \A f : DOMAIN f = {} /\ f \in [{} -> Int] => SumFunction(f) = 0
  <2> SUFFICES ASSUME NEW f \in [{} -> Int] PROVE SumFunction(f) = 0
    OBVIOUS
  <2> QED BY FS_EmptySet, SumOfNothing
<1>3. SerializedLenOf(v) = 2 + 0 + 0
  <2> DEFINE size(part) == IF v.type = "string" THEN part
                           ELSE SerializedLen(part.value) + IF v.type = "object" THEN KeyLen(part.key) ELSE 0
             f == [k \in DOMAIN v.parts |-> size(v.parts[k])]
             commas == IF Container(v) /\ v.parts # <<>> THEN Len(v.parts) - 1 ELSE 0
  <2>1. SerializedLenOf(v) = v.size + commas + SumFunction(f)
    BY DEF SerializedLenOf
  <2>2. DOMAIN f = {} /\ f \in [{} -> Int]
    BY <1>1
  <2>3. commas = 0
    OBVIOUS
  <2> HIDE DEF f, commas
  <2>4. SumFunction(f) = 0
    BY <1>2, <2>2
  <2> QED BY <2>1, <2>3, <2>4
<1> QED BY <1>3, ConfigsAssumption DEF Fits

\* The total budget is kept.
LEMMA TotalFits ==
  ASSUME NEW c \in Configs, c.maxTotal >= 2, NEW v, Known(v), Total(c, v).value.type # "scalar"
  PROVE  Fits(c, Total(c, v).value)
<1> DEFINE b == BoundOf(c, v).value
<1>1. Known(b)
  BY ResultKnown
<1>2. CASE Fits(c, b)
  <2>1. Total(c, v).value = b
    BY <1>2, TotalShape
  <2> QED BY <1>2, <2>1
<1>3. CASE ~ Fits(c, b)
  <2>1. b.type # "scalar" /\ Total(c, v).value = Cut(c, b)
    BY <1>3, TotalShape
  <2> HIDE DEF b
  <2>2. Cut(c, b).parts = <<>> \/ Fits(c, Cut(c, b))
    BY <1>1, <2>1, CutFacts
  <2>3. Cut(c, b).size = 2
    BY <1>1, <2>1, CutFacts DEF Known, WellFormed
  <2> QED BY <2>1, <2>2, <2>3, EmptyFits
<1> QED BY <1>2, <1>3

LEMMA TotalCounts ==
  ASSUME NEW c \in Configs, NEW v, Known(v)
  PROVE  Counted(Total(c, v))
<1> DEFINE b == BoundOf(c, v)
           t == Total(c, v)
           left == LeftOut(c, b.value)
           pointers == {LeftPointer(b.value, k) : k \in left}
<1>1. Counted(b) /\ Known(b.value)
  BY BoundCounts, ResultKnown
<1>2. IsFiniteSet(left)
  <2>1. DOMAIN b.value.parts = 1 .. Len(b.value.parts) /\ Len(b.value.parts) \in Nat
    BY <1>1, Parts DEF Known
  <2>2. IsFiniteSet(1 .. Len(b.value.parts))
    <3>1. \A m \in Nat : IsFiniteSet(1 .. m)
      BY FS_Interval
    <3> QED BY <2>1, <3>1
  <2>3. left \subseteq 1 .. Len(b.value.parts)
    BY <2>1 DEF LeftOut
  <2> HIDE DEF left, b
  <2> QED BY <2>2, <2>3, FS_Subset
<1>3. pointers # {} <=> left # {}
  OBVIOUS
<1>4. \/ t = b
      \/ t.omitted = b.omitted + 1 /\ t.segments = b.segments \cup {<<>>}
      \/ t.omitted = b.omitted + Cardinality(left) /\ t.segments = b.segments \cup pointers
  BY TotalForms DEF Total
<1> HIDE DEF b, t, left, pointers
<1>5. Cardinality(left) \in Nat /\ (Cardinality(left) = 0 <=> left = {})
  BY <1>2, FS_CardinalityType, FS_EmptySet
<1>6. CASE t = b
  BY <1>1, <1>6 DEF t
<1>7. CASE t.omitted = b.omitted + 1 /\ t.segments = b.segments \cup {<<>>}
  <2>1. Counted(t)
    BY <1>1, <1>7 DEF Counted
  <2> QED BY <2>1 DEF t
<1>8. CASE t.omitted = b.omitted + Cardinality(left) /\ t.segments = b.segments \cup pointers
  <2>1. Counted(t)
    BY <1>1, <1>3, <1>5, <1>8 DEF Counted
  <2> QED BY <2>1 DEF t
<1> QED BY <1>4, <1>6, <1>7, <1>8

\* What is in a cut value was in the value, or is the value itself.
LEMMA CutWithin ==
  ASSUME NEW c, NEW v, Known(v), v.type # "scalar", NEW y \in WithinOf(Cut(c, v))
  PROVE  y = Cut(c, v) \/ y \in WithinOf(v)
<1> DEFINE w == Cut(c, v)
<1>1. /\ Known(w) /\ w.type = v.type
      /\ \A i \in 1 .. Len(w.parts) : \E j \in 1 .. Len(v.parts) : w.parts[i] = v.parts[j]
  BY CutFacts
<1> HIDE DEF w
<1>2. CASE y # w
  <2>1. PICK i \in 1 .. Len(w.parts) : Container(w) /\ y \in WithinOf(w.parts[i].value)
    BY <1>1, <1>2, WithinIs DEF w
  <2>2. PICK j \in 1 .. Len(v.parts) : w.parts[i] = v.parts[j]
    BY <1>1, <2>1
  <2>3. Container(v)
    BY <1>1, <2>1 DEF Container
  <2> QED BY <2>1, <2>2, <2>3, WithinIs
<1> QED BY <1>2 DEF w

\* Whatever bounding drops lies below a segment it records, or was redacted.
LEMMA TotalLosesNothing ==
  ASSUME NEW c \in Configs, NEW v, Known(v), v.origin = <<>>, NEW part \in WithinOf(v)
  PROVE  KeptIn(part, Total(c, v).value) \/ Recorded(part, Total(c, v).segments)
<1> DEFINE b == BoundOf(c, v)
           t == Total(c, v)
<1>1. KeptIn(part, b.value) \/ Recorded(part, b.segments)
  BY BoundLosesNothing
<1>2. Known(b.value) /\ b.value.origin = <<>> /\ part.origin \in Seq(Text)
  BY ResultKnown, OriginKept, OriginsBelow
<1>3. b.segments \subseteq t.segments
  BY TotalForms DEF Total
<1>4. CASE t.value = b.value
  BY <1>1, <1>3, <1>4 DEF Recorded
<1>5. CASE t.value # b.value
  <2> DEFINE w == b.value
  <2>1. ~ Fits(c, w) /\ w.type # "scalar"
    BY <1>5, TotalShape
  <2>2. /\ t.value = Cut(c, w)
        /\ t.segments = b.segments \cup {LeftPointer(w, k) : k \in LeftOut(c, w)}
    BY <2>1, TotalForms DEF Total
  <2>3. LeftOut(c, w) # {}
    BY <1>2, <1>5, <2>1, <2>2, CutFacts
  <2>4. Cut(c, w) \in WithinOf(Cut(c, w)) /\ Cut(c, w).origin = w.origin /\ Cut(c, w).redacted = w.redacted
    BY <1>2, <2>1, CutFacts, WithinIs
  <2> HIDE DEF b, t
  <2>5. ASSUME KeptIn(part, w) PROVE KeptIn(part, t.value) \/ Recorded(part, t.segments)
    <3>1. PICK kept \in WithinOf(w) : \/ Container(part) /\ kept.origin = part.origin
                                      \/ kept = part
                                      \/ kept.redacted /\ IsPrefix(kept.origin, part.origin)
      BY <2>5 DEF KeptIn
    <3>2. CASE kept = w
      <4>1. CASE \/ Container(part) /\ kept.origin = part.origin
                 \/ kept.redacted /\ IsPrefix(kept.origin, part.origin)
        BY <2>2, <2>4, <3>2, <4>1 DEF KeptIn
      <4>2. CASE kept = part /\ Container(part)
        BY <2>2, <2>4, <3>2, <4>2 DEF KeptIn
      <4>3. CASE kept = part /\ ~ Container(part)
        <5>1. <<>> \in t.segments
          BY <2>2, <2>3, <3>2, <4>3 DEF LeftPointer
        <5>2. <<>> \in Prefixes(part.origin)
          <6>1. part.origin = <<>>
            BY <1>2, <3>2, <4>3
          <6>2. IsPrefix(<<>>, <<>> \o <<>>) /\ <<>> \o <<>> = <<>> /\ <<>> \in Seq(Text)
            BY EmptySeq, ConcatEmptySeq, PrefixOfConcat
          <6> QED BY <6>1, <6>2, PrefixIsPrefix
        <5> QED BY <5>1, <5>2, SpellNothing DEF Recorded
      <4>4. (Container(part) /\ kept.origin = part.origin) \/ kept = part
            \/ (kept.redacted /\ IsPrefix(kept.origin, part.origin))
        BY <3>1
      <4>5. Container(part) \/ ~ Container(part)
        OBVIOUS
      <4> QED BY ONLY <4>1, <4>2, <4>3, <4>4, <4>5
    <3>3. CASE kept # w
      <4>1. PICK j \in 1 .. Len(w.parts) : Container(w) /\ kept \in WithinOf(w.parts[j].value)
        BY <1>2, <3>3, WithinIs
      <4>2. CASE j \in LeftOut(c, w)
        <5> DEFINE child == w.parts[j].value
        <5>1. /\ Known(child) /\ child.origin \in Seq(Text)
              /\ LeftPointer(w, j) = Spell(child.origin)
          <6>1. /\ child \in Values /\ child.origin \in Seq(Text)
                /\ ChildPointer(Spell(w.origin), w.parts[j].key) = Spell(child.origin)
            BY <1>2, <4>1, ChildFacts
          <6> QED BY <1>2, <4>1, <6>1, KnownValues, SpellNothing DEF LeftPointer
        <5>2. kept.origin \in Seq(Text) /\ IsPrefix(child.origin, kept.origin)
          BY <4>1, <5>1, OriginsBelow
        <5> HIDE DEF child
        <5>3. IsPrefix(kept.origin, part.origin)
          <6>1. IsPrefix(part.origin, part.origin)
            <7>1. part.origin \o <<>> = part.origin /\ <<>> \in Seq(Text)
              BY <1>2, ConcatEmptySeq, EmptySeq
            <7> QED BY <1>2, <7>1, PrefixOfConcat
          <6> QED BY <3>1, <6>1
        <5>4. IsPrefix(child.origin, part.origin)
          <6>1. /\ Len(child.origin) \in Nat /\ Len(kept.origin) \in Nat /\ Len(part.origin) \in Nat
                /\ Len(child.origin) <= Len(kept.origin)
                /\ \A i \in 1 .. Len(child.origin) : child.origin[i] = kept.origin[i]
            BY <1>2, <5>1, <5>2, PrefixMeans, LenProperties
          <6>2. /\ Len(kept.origin) <= Len(part.origin)
                /\ \A i \in 1 .. Len(kept.origin) : kept.origin[i] = part.origin[i]
            BY <1>2, <5>2, <5>3, PrefixMeans
          <6>3. /\ Len(child.origin) <= Len(part.origin)
                /\ \A i \in 1 .. Len(child.origin) : child.origin[i] = part.origin[i]
            BY <6>1, <6>2
          <6> QED BY <1>2, <5>1, <6>3, PrefixMeans
        <5>5. child.origin \in Prefixes(part.origin)
          BY <1>2, <5>1, <5>4, PrefixIsPrefix
        <5>6. Spell(child.origin) \in t.segments
          BY <2>2, <4>2, <5>1
        <5> QED BY <5>5, <5>6 DEF Recorded
      <4>3. CASE j \notin LeftOut(c, w)
        <5>1. PICK i \in 1 .. Len(Cut(c, w).parts) : Cut(c, w).parts[i] = w.parts[j]
          BY <1>2, <2>1, <4>3, CutFacts
        <5>2. Known(Cut(c, w)) /\ Container(Cut(c, w))
          BY <1>2, <2>1, <4>1, CutFacts DEF Container
        <5>3. kept \in WithinOf(Cut(c, w))
          BY <4>1, <5>1, <5>2, WithinIs
        <5> QED BY <2>2, <3>1, <5>3 DEF KeptIn
      <4> QED BY <4>2, <4>3
    <3> QED BY <3>2, <3>3
  <2> QED BY <1>1, <1>3, <2>5 DEF Recorded, b, t
<1> QED BY <1>4, <1>5

\* Cutting the bounded value brings back nothing that was redacted.
LEMMA TotalRedacts ==
  ASSUME NEW c \in Configs, NEW v, Known(v), NEW y \in WithinOf(Total(c, v).value), ~ y.redacted
  PROVE  Let(c, y.origin, Len(v.origin))
<1> DEFINE b == BoundOf(c, v).value
<1>1. Known(b) /\ b \in WithinOf(b)
  BY ResultKnown, WithinIs
<1>2. CASE y \in WithinOf(b)
  BY <1>2, RedactionBounds
<1>3. CASE y \notin WithinOf(b)
  <2>1. b.type # "scalar" /\ Total(c, v).value = Cut(c, b)
    BY <1>3, TotalShape
  <2> HIDE DEF b
  <2>2. y = Cut(c, b)
    BY <1>1, <1>3, <2>1, CutWithin
  <2>3. y.origin = b.origin /\ ~ b.redacted
    BY <1>1, <2>1, <2>2, CutFacts
  <2>4. Let(c, b.origin, Len(v.origin))
    BY <1>1, <2>3, RedactionBounds DEF b
  <2> QED BY <2>3, <2>4
<1> QED BY <1>2, <1>3

\* Bounding a bounded value, without a policy, finds nothing to do.
LEMMA TotalTwice ==
  ASSUME NEW c \in Configs, NoPolicy(c), c.maxTotal >= 2, NEW v, Known(v),
         Total(c, v).value.type # "scalar"
  PROVE  Total(c, Total(c, v).value) = Result(Total(c, v).value, 0, {})
<1> DEFINE b == BoundOf(c, v).value
           t == Total(c, v).value
<1>1. Known(t) /\ Fits(c, t) /\ Known(b)
  BY TotalKnown, TotalFits, ResultKnown
<1>2. /\ b.type = v.type
      /\ Len(b.parts) <= Limit(c, b)
      /\ Container(v) => \A k \in 1 .. Len(b.parts) :
           /\ k \in 1 .. Len(v.parts)
           /\ b.parts[k].value = BoundOf(c, v.parts[k].value).value
  BY ResultShort
<1>3. /\ t.type = b.type
      /\ Len(t.parts) <= Len(b.parts)
      /\ \A k \in 1 .. Len(t.parts) : \E j \in 1 .. Len(b.parts) : t.parts[k] = b.parts[j]
  <2>1. CASE t = b
    <3>1. Len(b.parts) \in Nat
      BY <1>1, Parts DEF Known
    <3> HIDE DEF b, t
    <3> QED BY <2>1, <3>1
  <2>2. CASE t # b
    <3>1. b.type # "scalar" /\ t = Cut(c, b)
      BY <2>2, TotalShape
    <3> HIDE DEF b, t
    <3> QED BY <1>1, <3>1, CutFacts
  <2> QED BY <2>1, <2>2
<1> HIDE DEF b, t
<1>4. Len(t.parts) \in Nat /\ Len(b.parts) \in Nat
  BY <1>1, Parts DEF Known
<1>5. Len(t.parts) <= Limit(c, t)
  BY <1>2, <1>3, <1>4, ConfigsAssumption DEF Limit
<1>6. ASSUME Container(t), NEW k \in 1 .. Len(t.parts)
      PROVE  BoundOf(c, t.parts[k].value) = Result(t.parts[k].value, 0, {})
  <2>1. Container(v)
    BY <1>2, <1>3, <1>6 DEF Container
  <2>2. PICK j \in 1 .. Len(b.parts) : t.parts[k] = b.parts[j]
    BY <1>3, <1>6
  <2>3. j \in 1 .. Len(v.parts) /\ b.parts[j].value = BoundOf(c, v.parts[j].value).value
    BY <1>2, <2>1
  <2>4. Known(v.parts[j].value)
    BY <2>1, <2>3, ChildFacts, KnownValues
  <2> QED BY <2>2, <2>3, <2>4, BoundTwice
<1>7. BoundOf(c, t) = Result(t, 0, {})
  BY <1>1, <1>5, <1>6, LeftAlone
<1>8. Total(c, t) = Result(t, 0, {})
  BY <1>1, <1>7, TotalForms, Fields DEF Total
<1> QED BY <1>8 DEF t

----------------------------------------------------------------------------
(* The envelope                                                             *)

LEMMA BoundedIs ==
  ASSUME NEW c, NEW v, v.origin = <<>>
  PROVE  /\ Bounded(c, v).payload = Total(c, v).value
         /\ Bounded(c, v).truncated = (Total(c, v).omitted > 0)
         /\ Bounded(c, v).segments = Total(c, v).segments
  BY SpellNothing DEF Bounded, Total, BoundOf

\* The envelope is the bounded payload.  Bounded again, the payload is the one of
\* an earlier envelope, and there was no policy.
EnvelopeInv ==
  /\ config \in Configs
  /\ phase \in {"given", "bounded", "again"}
  /\ phase \in {"given", "bounded"} => payload \in Payloads
  /\ phase \in {"bounded", "again"} => envelope = Bounded(config, payload)
  /\ phase = "again" => NoPolicy(config) /\ \E v \in Payloads : payload = Bounded(config, v).payload

LEMMA EnvelopeInductive == EnvelopeSpec => []EnvelopeInv
<1>1. EnvelopeInit => EnvelopeInv
  BY DEF EnvelopeInit, EnvelopeInv
<1>2. EnvelopeInv /\ [EnvelopeNext]_envelopeVars => EnvelopeInv'
  <2> SUFFICES ASSUME EnvelopeInv, [EnvelopeNext]_envelopeVars PROVE EnvelopeInv'
    OBVIOUS
  <2>1. CASE Bound
    BY <2>1 DEF Bound, EnvelopeInv
  <2>2. CASE BoundAgain
    BY <2>2 DEF BoundAgain, EnvelopeInv, NoPolicy
  <2>3. CASE UNCHANGED envelopeVars
    BY <2>3 DEF envelopeVars, EnvelopeInv, NoPolicy
  <2> QED BY <2>1, <2>2, <2>3 DEF EnvelopeNext
<1> QED BY <1>1, <1>2, PTL DEF EnvelopeSpec

\* For every result, limit and policy, the bounded payload fits max_total_bytes.
THEOREM BudgetIsKept == EnvelopeSpec => []BudgetKept
<1>1. EnvelopeInv => BudgetKept
  <2> SUFFICES ASSUME EnvelopeInv, phase = "bounded", config.maxTotal >= 2, envelope.payload.type # "scalar"
               PROVE  SerializedLenOf(envelope.payload) <= config.maxTotal
    BY DEF BudgetKept, IsBounded, RoomForEmpty
  <2>1. Known(payload) /\ payload.origin = <<>> /\ config \in Configs
    BY KnownValues, PayloadsAssumption DEF EnvelopeInv
  <2>2. envelope.payload = Total(config, payload).value
    BY <2>1, BoundedIs DEF EnvelopeInv
  <2>3. Fits(config, Total(config, payload).value)
    BY <2>1, <2>2, TotalFits
  <2> QED BY <2>2, <2>3 DEF Fits
<1> QED BY <1>1, EnvelopeInductive, PTL

\* For every result and policy, whatever characters the keys are made of, nothing
\* denied and nothing outside the allow-list is left by ToolResultEnvelope::bound.
THEOREM RedactionIsKept == EnvelopeSpec => []RedactionHolds
<1>1. EnvelopeInv => RedactionHolds
  <2> SUFFICES ASSUME EnvelopeInv, phase = "bounded",
                      NEW part \in WithinOf(envelope.payload), ~ part.redacted
               PROVE  /\ \E path \in config.allow : IsPrefix(path, part.origin) \/ IsPrefix(part.origin, path)
                      /\ \A path \in config.deny : ~ IsPrefix(path, part.origin)
    BY DEF RedactionHolds, IsBounded
  <2>1. Known(payload) /\ payload.origin = <<>> /\ config \in Configs
    BY KnownValues, PayloadsAssumption DEF EnvelopeInv
  <2>2. envelope.payload = Total(config, payload).value
    BY <2>1, BoundedIs DEF EnvelopeInv
  <2>3. Let(config, part.origin, Len(payload.origin))
    BY <2>1, <2>2, TotalRedacts
  <2>4. Len(payload.origin) = 0
    BY <2>1
  <2>5. \A path \in config.deny : Len(path) \in Nat
    BY <2>1, ConfigsAssumption, LenProperties
  <2> QED BY <2>3, <2>4, <2>5 DEF Let
<1> QED BY <1>1, EnvelopeInductive, PTL

\* For every result, whatever is missing after ToolResultEnvelope::bound was
\* redacted or lies at or below a recorded segment, and `truncated` says so.
THEOREM LossIsAccounted == EnvelopeSpec => []NothingLostSilently
<1>1. EnvelopeInv => NothingLostSilently
  <2> SUFFICES ASSUME EnvelopeInv, phase = "bounded"
               PROVE  /\ envelope.truncated = (envelope.segments # {})
                      /\ \A part \in WithinOf(payload) :
                           KeptIn(part, envelope.payload) \/ Recorded(part, envelope.segments)
    BY DEF NothingLostSilently, IsBounded, KeptIn, Recorded
  <2>1. Known(payload) /\ payload.origin = <<>> /\ config \in Configs
    BY KnownValues, PayloadsAssumption DEF EnvelopeInv
  <2>2. /\ envelope.payload = Total(config, payload).value
        /\ envelope.truncated = (Total(config, payload).omitted > 0)
        /\ envelope.segments = Total(config, payload).segments
    BY <2>1, BoundedIs DEF EnvelopeInv
  <2>3. Counted(Total(config, payload))
    BY <2>1, TotalCounts
  <2>4. envelope.truncated = (envelope.segments # {})
    BY <2>2, <2>3 DEF Counted
  <2>5. \A part \in WithinOf(payload) : KeptIn(part, envelope.payload) \/ Recorded(part, envelope.segments)
    BY <2>1, <2>2, TotalLosesNothing
  <2> QED BY <2>4, <2>5
<1> QED BY <1>1, EnvelopeInductive, PTL

\* For every result, bounding a bounded payload without a policy leaves it as it
\* is and omits nothing.
THEOREM BoundingIsIdempotent == EnvelopeSpec => []BoundingSettles
<1>1. EnvelopeInv => BoundingSettles
  <2> SUFFICES ASSUME EnvelopeInv, phase = "again", config.maxTotal >= 2, payload.type # "scalar"
               PROVE  envelope.payload = payload /\ ~ envelope.truncated
    BY DEF BoundingSettles, RoomForEmpty
  <2>1. config \in Configs /\ NoPolicy(config) /\ envelope = Bounded(config, payload)
    BY DEF EnvelopeInv
  <2>2. PICK v \in Payloads : payload = Bounded(config, v).payload
    BY DEF EnvelopeInv
  <2>3. Known(v) /\ v.origin = <<>>
    BY KnownValues, PayloadsAssumption
  <2>4. payload = Total(config, v).value
    BY <2>2, <2>3, BoundedIs
  <2>5. payload.origin = <<>>
    BY <2>1, <2>3, <2>4, TotalKnown
  <2>6. Total(config, payload) = Result(payload, 0, {})
    BY <2>1, <2>3, <2>4, TotalTwice
  <2>7. envelope.payload = Total(config, payload).value /\ envelope.truncated = (Total(config, payload).omitted > 0)
    BY <2>1, <2>5, BoundedIs
  <2>8. Result(payload, 0, {}).value = payload /\ Result(payload, 0, {}).omitted = 0
    BY DEF Result
  <2>9. Total(config, payload).value = payload /\ Total(config, payload).omitted = 0
    BY ONLY <2>6, <2>8
  <2>10. ~ (0 > 0)
    OBVIOUS
  <2> QED BY ONLY <2>7, <2>9, <2>10
<1> QED BY <1>1, EnvelopeInductive, PTL

----------------------------------------------------------------------------
(* What the payloads of an answer say                                       *)

\* The invocations of the payloads, and what stands for one that says nothing.
Sayings == {Said[call] : call \in CallPayloads} \cup {Failed}

\* What reading these comes to.
OutcomeOf(sayings) ==
  IF \E k \in DOMAIN sayings : sayings[k] = Failed THEN Failed ELSE Calls(sayings)

SaidIn(payloads) == Mapped(Said, payloads)

LEMMA SaidTyped ==
  ASSUME NEW payloads \in Seq(CallPayloads)
  PROVE  /\ SaidIn(payloads) \in Seq(Sayings)
         /\ DOMAIN SaidIn(payloads) = DOMAIN payloads
         /\ \A k \in DOMAIN payloads : SaidIn(payloads)[k] = Said[payloads[k]]
<1> DEFINE G == [call \in CallPayloads |-> Said[call]]
<1>1. G \in Maps(CallPayloads, Sayings)
  BY DEF Maps, Sayings
<1>2. \A k \in DOMAIN payloads : payloads[k] \in CallPayloads
  BY ElementOfSeq, LenProperties
<1>3. Mapped(G, payloads) = SaidIn(payloads)
  BY <1>2 DEF Mapped, SaidIn
<1> HIDE DEF G
<1>4. Mapped(G, payloads) \in Seq(Sayings)
  BY <1>1, MappedTyped
<1> QED BY <1>3, <1>4 DEF SaidIn, Mapped

LEMMA SaidOfFlattened ==
  ASSUME NEW sent \in Seq(Seq(CallPayloads))
  PROVE  /\ [k \in DOMAIN sent |-> SaidIn(sent[k])] \in Seq(Seq(Sayings))
         /\ FlattenSeq([k \in DOMAIN sent |-> SaidIn(sent[k])]) = SaidIn(FlattenSeq(sent))
<1> DEFINE G == [call \in CallPayloads |-> Said[call]]
<1>1. G \in Maps(CallPayloads, Sayings)
  BY DEF Maps, Sayings
<1>2. ASSUME NEW payloads \in Seq(CallPayloads) PROVE Mapped(G, payloads) = SaidIn(payloads)
  <2>1. \A k \in DOMAIN payloads : payloads[k] \in CallPayloads
    BY ElementOfSeq, LenProperties
  <2> QED BY <2>1 DEF Mapped, SaidIn
<1> HIDE DEF G
<1>3. \A k \in DOMAIN sent : sent[k] \in Seq(CallPayloads)
  BY ElementOfSeq, LenProperties
<1>4. [k \in DOMAIN sent |-> Mapped(G, sent[k])] = [k \in DOMAIN sent |-> SaidIn(sent[k])]
  BY <1>2, <1>3
<1>5. FlattenSeq(sent) \in Seq(CallPayloads)
  BY FlattenTyped
<1>6. /\ [k \in DOMAIN sent |-> Mapped(G, sent[k])] \in Seq(Seq(Sayings))
      /\ FlattenSeq([k \in DOMAIN sent |-> Mapped(G, sent[k])]) = Mapped(G, FlattenSeq(sent))
  BY <1>1, FlattenMapped
<1> QED BY <1>2, <1>4, <1>5, <1>6

LEMMA OutcomeNothing == OutcomeOf(<<>>) = Calls(<<>>) /\ SaidIn(<<>>) = <<>>
  BY DEF OutcomeOf, SaidIn, Mapped

LEMMA FailedIsNoCalls == \A calls : Calls(calls) # Failed
  BY DEF Calls, Failed

LEMMA OutcomeOfOne ==
  ASSUME NEW saying
  PROVE  OutcomeOf(<<saying>>) = One(saying)
  BY DEF OutcomeOf, One

LEMMA SaidInOne ==
  ASSUME NEW call \in CallPayloads
  PROVE  SaidIn(<<call>>) = <<Said[call]>>
  BY DEF SaidIn, Mapped

\* `collect` and flatten_invocations, of what was read of several.
LEMMA CollectedOutcomes ==
  ASSUME NEW parts \in Seq(Seq(Sayings)), NEW results, DOMAIN results = DOMAIN parts,
         results = [k \in DOMAIN results |-> results[k]],
         \A k \in DOMAIN parts : results[k] = OutcomeOf(parts[k])
  PROVE  Collect(results) = OutcomeOf(FlattenSeq(parts))
<1>1. Failed \in Sayings
  BY DEF Sayings
<1>2. (\E k \in DOMAIN FlattenSeq(parts) : FlattenSeq(parts)[k] = Failed)
        <=> \E k \in DOMAIN parts : \E j \in DOMAIN parts[k] : parts[k][j] = Failed
  BY <1>1, FlattenRange
<1>3. \A k \in DOMAIN parts :
        results[k] = Failed <=> \E j \in DOMAIN parts[k] : parts[k][j] = Failed
  BY FailedIsNoCalls DEF OutcomeOf
<1>4. CASE \E k \in DOMAIN results : results[k] = Failed
  BY <1>2, <1>3, <1>4 DEF Collect, OutcomeOf
<1>5. CASE ~ \E k \in DOMAIN results : results[k] = Failed
  <2>1. \A k \in DOMAIN parts : results[k] = Calls(parts[k])
    BY <1>5 DEF OutcomeOf
  <2>2. \A k \in DOMAIN results : results[k].calls = parts[k]
    BY <2>1 DEF Calls
  <2>3. [k \in DOMAIN results |-> results[k].calls] = [k \in DOMAIN parts |-> parts[k]]
    BY <2>2
  <2>4. [k \in DOMAIN parts |-> parts[k]] = parts
    OBVIOUS
  <2>5. Collect(results) = Calls(FlattenSeq(parts))
    BY <1>5, <2>3, <2>4 DEF Collect
  <2> QED BY <1>2, <1>3, <1>5, <2>5 DEF OutcomeOf
<1> QED BY <1>4, <1>5

\* Payloads after each other come to what the first do, and then the others.
LEMMA OutcomeConcat ==
  ASSUME NEW a \in Seq(Sayings), NEW b \in Seq(Sayings)
  PROVE  /\ OutcomeOf(a) = Failed \/ OutcomeOf(b) = Failed => OutcomeOf(a \o b) = Failed
         /\ OutcomeOf(a) # Failed /\ OutcomeOf(b) # Failed => OutcomeOf(a \o b) = Calls(a \o b)
         /\ OutcomeOf(a) # Failed => OutcomeOf(a) = Calls(a)
         /\ OutcomeOf(b) # Failed => OutcomeOf(b) = Calls(b)
<1>1. /\ Len(a \o b) = Len(a) + Len(b) /\ Len(a) \in Nat /\ Len(b) \in Nat
      /\ DOMAIN (a \o b) = 1 .. Len(a) + Len(b) /\ DOMAIN a = 1 .. Len(a) /\ DOMAIN b = 1 .. Len(b)
      /\ \A k \in 1 .. Len(a) + Len(b) : (a \o b)[k] = IF k <= Len(a) THEN a[k] ELSE b[k - Len(a)]
  BY ConcatProperties, LenProperties
<1> DEFINE Fails(s) == \E k \in DOMAIN s : s[k] = Failed
<1>2. ASSUME Fails(a) PROVE Fails(a \o b)
  <2>1. PICK k \in 1 .. Len(a) : a[k] = Failed
    BY <1>1, <1>2
  <2> QED BY <1>1, <2>1
<1>3. ASSUME Fails(b) PROVE Fails(a \o b)
  <2>1. PICK k \in 1 .. Len(b) : b[k] = Failed
    BY <1>1, <1>3
  <2>2. Len(a) + k \in 1 .. Len(a) + Len(b) /\ ~ Len(a) + k <= Len(a) /\ (Len(a) + k) - Len(a) = k
    BY <1>1
  <2> QED BY <1>1, <2>1, <2>2
<1>4. ASSUME Fails(a \o b) PROVE Fails(a) \/ Fails(b)
  <2>1. PICK k \in 1 .. Len(a) + Len(b) : (a \o b)[k] = Failed
    BY <1>1, <1>4
  <2>2. k <= Len(a) => k \in 1 .. Len(a)
    OBVIOUS
  <2>3. ~ k <= Len(a) => k - Len(a) \in 1 .. Len(b)
    BY <1>1
  <2> QED BY <1>1, <2>1, <2>2, <2>3
<1>5. Fails(a \o b) <=> Fails(a) \/ Fails(b)
  BY <1>2, <1>3, <1>4
<1>6. /\ OutcomeOf(a) = IF Fails(a) THEN Failed ELSE Calls(a)
      /\ OutcomeOf(b) = IF Fails(b) THEN Failed ELSE Calls(b)
      /\ OutcomeOf(a \o b) = IF Fails(a \o b) THEN Failed ELSE Calls(a \o b)
  BY DEF OutcomeOf
<1> HIDE DEF Fails
<1> QED BY <1>5, <1>6, FailedIsNoCalls

----------------------------------------------------------------------------
(* What is read of one call                                                 *)

LEMMA NullIsNoString == Null.type # "string" /\ Record(<<>>) # Failed
  BY DEF Null, Record, Failed

\* A call's fields may hold more than the payload.
LEMMA ParseCallSays ==
  ASSUME NEW call \in CallPayloads, NEW fields,
         \A field \in {"name", "arguments"} :
           /\ field \in DOMAIN fields <=> field \in DOMAIN call
           /\ field \in DOMAIN call => fields[field] = call[field]
  PROVE  ParseCall(fields) = Said[call]
<1> DEFINE args == IF "arguments" \in DOMAIN fields THEN ParseStandardArguments(fields.arguments)
                                                   ELSE Record(<<>>)
           named == /\ "name" \in DOMAIN call /\ call.name.type = "string"
                    /\ call.name.text \in Names
<1>1. /\ "name" \in DOMAIN fields <=> "name" \in DOMAIN call
      /\ "name" \in DOMAIN call => fields.name = call.name
      /\ "arguments" \in DOMAIN fields <=> "arguments" \in DOMAIN call
      /\ "arguments" \in DOMAIN call => fields.arguments = call.arguments
  OBVIOUS
<1>2. ParseCall(fields) = IF named /\ args # Failed THEN Invocation(call.name.text, args) ELSE Failed
  BY <1>1 DEF ParseCall
<1>3. CASE Garbled(call)
  <2>1. Said[call] = Failed
    BY <1>3, SaidAssumption
  <2>2. ~ named \/ args = Failed
    BY <1>1, <1>3 DEF Garbled, ParseStandardArguments
  <2> QED BY <1>2, <2>1, <2>2
<1>4. CASE ~ Garbled(call)
  <2> DEFINE said == Said[call].args
  <2>1. /\ Said[call] = Invocation(call.name.text, said) /\ ArgumentsSay(call, said)
        /\ "arguments" \in DOMAIN call => call.arguments # Failed
    BY <1>4, SaidAssumption
  <2>2. named
    BY <1>4 DEF Garbled
  <2> HIDE DEF said, named
  <2>3. args = said /\ args # Failed
    <3>1. CASE "arguments" \notin DOMAIN call
      BY <1>1, <2>1, <3>1, NullIsNoString DEF ArgumentsSay
    <3>2. CASE "arguments" \in DOMAIN call /\ call.arguments = Null
      <4>1. args = Record(<<>>)
        BY <1>1, <3>2, NullIsNoString DEF ParseStandardArguments
      <4> QED BY <2>1, <3>2, <4>1, NullIsNoString DEF ArgumentsSay
    <3>3. CASE "arguments" \in DOMAIN call /\ call.arguments # Null /\ call.arguments.type # "string"
      <4>1. args = call.arguments
        BY <1>1, <3>3 DEF ParseStandardArguments
      <4> QED BY <2>1, <3>3, <4>1 DEF ArgumentsSay
    <3>4. CASE "arguments" \in DOMAIN call /\ call.arguments # Null /\ call.arguments.type = "string"
      <4> DEFINE text == call.arguments.text
      <4>1. \/ text \in BlankTexts /\ said = Record(<<>>)
            \/ text \in DOMAIN JsonTexts /\ said = JsonTexts[text]
        BY <2>1, <3>4 DEF ArgumentsSay
      <4>2. ~ (text \in BlankTexts /\ text \in DOMAIN JsonTexts)
        BY JsonTextsAssumption
      <4>3. args = IF text \in BlankTexts THEN Record(<<>>)
                   ELSE IF text \in DOMAIN JsonTexts THEN JsonTexts[text] ELSE Failed
        BY <1>1, <3>4 DEF ParseStandardArguments
      <4>4. text \in DOMAIN JsonTexts => JsonTexts[text] # Failed
        BY JsonTextsAssumption
      <4> HIDE DEF text, args
      <4> QED BY <4>1, <4>2, <4>3, <4>4, NullIsNoString
    <3> QED BY <3>1, <3>2, <3>3, <3>4
  <2> QED BY <1>2, <2>1, <2>2, <2>3
<1> QED BY <1>3, <1>4

----------------------------------------------------------------------------
(* What is read of the Responses interface                                  *)

LEMMA ItemReads ==
  ASSUME NEW item, NEW payloads \in Seq(CallPayloads), ItemSends(item, payloads)
  PROVE  NormalizeResponsesOutputItem(item) = OutcomeOf(SaidIn(payloads))
<1>1. CASE payloads = <<>> /\ ~ IsResponsesFunctionCall(item)
  BY <1>1, OutcomeNothing DEF NormalizeResponsesOutputItem
<1>2. CASE Len(payloads) = 1 /\ item = ResponsesItem(payloads[1])
  <2>1. PICK call \in CallPayloads : payloads = <<call>>
    BY <1>2
  <2>2. item = ResponsesItem(call)
    BY <1>2, <2>1
  <2> DEFINE fields == [field \in DOMAIN call \cup {"type"} |->
                         IF field = "type" THEN JsonString("function_call") ELSE call[field]]
  <2>3. item.type = "object" /\ item.fields = fields
    BY <2>2 DEF ResponsesItem, Record
  <2>4. IsResponsesFunctionCall(item)
    BY <2>3 DEF IsResponsesFunctionCall, Has, IsObject
  <2>5. \A field \in {"name", "arguments"} :
          /\ field \in DOMAIN fields <=> field \in DOMAIN call
          /\ field \in DOMAIN call => fields[field] = call[field]
    OBVIOUS
  <2> HIDE DEF fields
  <2>6. ParseCall(fields) = Said[call]
    BY <2>5, ParseCallSays
  <2>7. NormalizeResponsesOutputItem(item) = One(Said[call])
    BY <2>3, <2>4, <2>6 DEF NormalizeResponsesOutputItem
  <2> QED BY <2>1, <2>7, SaidInOne, OutcomeOfOne
<1> QED BY <1>1, <1>2 DEF ItemSends

\* Several items, of which each was read as its payloads come to.
LEMMA ItemsRead ==
  ASSUME NEW sent \in Seq(Seq(CallPayloads)), NEW results, DOMAIN results = DOMAIN sent,
         results = [k \in DOMAIN results |-> results[k]],
         \A k \in DOMAIN sent : results[k] = OutcomeOf(SaidIn(sent[k]))
  PROVE  Collect(results) = OutcomeOf(SaidIn(FlattenSeq(sent)))
<1> DEFINE parts == [k \in DOMAIN sent |-> SaidIn(sent[k])]
<1>1. parts \in Seq(Seq(Sayings)) /\ FlattenSeq(parts) = SaidIn(FlattenSeq(sent))
  BY SaidOfFlattened
<1>2. DOMAIN results = DOMAIN parts /\ \A k \in DOMAIN parts : results[k] = OutcomeOf(parts[k])
  OBVIOUS
<1> HIDE DEF parts
<1> QED BY <1>1, <1>2, CollectedOutcomes

LEMMA OnlyOne ==
  ASSUME NEW X, NEW s \in Seq(Seq(X)), Len(s) = 1
  PROVE  s[1] \in Seq(X) /\ FlattenSeq(s) = s[1]
<1>1. s[1] \in Seq(X) /\ s = <<s[1]>>
  OBVIOUS
<1> QED BY <1>1, FlattenOne

LEMMA OutputReads ==
  ASSUME NEW value, NEW sent \in Seq(Seq(CallPayloads)), OutputSends(value, sent)
  PROVE  NormalizeResponsesOutput(value) = OutcomeOf(SaidIn(FlattenSeq(sent)))
<1>1. CASE /\ IsArray(value) /\ DOMAIN value.items = DOMAIN sent
           /\ \A k \in DOMAIN sent : ItemSends(value.items[k], sent[k])
  <2> DEFINE results == [k \in DOMAIN value.items |-> NormalizeResponsesOutputItem(value.items[k])]
  <2>1. \A k \in DOMAIN sent : sent[k] \in Seq(CallPayloads)
    BY ElementOfSeq, LenProperties
  <2>2. \A k \in DOMAIN sent : results[k] = OutcomeOf(SaidIn(sent[k]))
    BY <1>1, <2>1, ItemReads
  <2>3. DOMAIN results = DOMAIN sent /\ results = [k \in DOMAIN results |-> results[k]]
    BY <1>1
  <2>4. NormalizeResponsesOutput(value) = Collect(results)
    BY <1>1 DEF NormalizeResponsesOutput
  <2> HIDE DEF results
  <2> QED BY <2>2, <2>3, <2>4, ItemsRead
<1>2. CASE ~ IsArray(value) /\ Len(sent) = 1 /\ ItemSends(value, sent[1])
  <2>1. sent[1] \in Seq(CallPayloads) /\ FlattenSeq(sent) = sent[1]
    BY <1>2, OnlyOne
  <2>2. NormalizeResponsesOutputItem(value) = OutcomeOf(SaidIn(sent[1]))
    BY <1>2, <2>1, ItemReads
  <2> QED BY <1>2, <2>1, <2>2 DEF NormalizeResponsesOutput
<1> QED BY <1>1, <1>2 DEF OutputSends

LEMMA ResponsesRead ==
  ASSUME NEW value, NEW sent \in Seq(Seq(CallPayloads)), ResponsesSend(value, sent)
  PROVE  NormalizeOpenaiResponses(value) = OutcomeOf(SaidIn(FlattenSeq(sent)))
  BY OutputReads DEF ResponsesSend, NormalizeOpenaiResponses

----------------------------------------------------------------------------
(* What is read of the Chat Completions interface                           *)

LEMMA ChatItemReads ==
  ASSUME NEW item, NEW call \in CallPayloads, ChatItemSends(item, call)
  PROVE  NormalizeChatToolCall(item) = One(Said[call])
<1>1. CASE Has(item, "function") /\ item.fields.function = Record(call)
  <2>1. IsObject(item.fields.function) /\ item.fields.function.fields = call
    BY <1>1 DEF Record, IsObject
  <2>2. ParseCall(call) = Said[call]
    BY ParseCallSays
  <2> QED BY <1>1, <2>1, <2>2 DEF NormalizeChatToolCall, IsChatToolCall, ParseChatToolCall
<1>2. CASE Garbled(call) /\ ~ (Has(item, "function") /\ IsObject(item.fields.function))
  <2>1. Said[call] = Failed
    BY <1>2, SaidAssumption
  <2>2. NormalizeChatToolCall(item) = Failed
    BY <1>2 DEF NormalizeChatToolCall, IsChatToolCall, ParseChatToolCall, One
  <2> QED BY <2>1, <2>2 DEF One
<1> QED BY <1>1, <1>2 DEF ChatItemSends

LEMMA ToolCallsRead ==
  ASSUME NEW value, NEW payloads \in Seq(CallPayloads), ToolCallsSend(value, payloads)
  PROVE  NormalizeChatToolCalls(value) = OutcomeOf(SaidIn(payloads))
<1>1. CASE /\ IsArray(value) /\ DOMAIN value.items = DOMAIN payloads
           /\ \A k \in DOMAIN payloads : ChatItemSends(value.items[k], payloads[k])
  <2> DEFINE results == [k \in DOMAIN value.items |-> NormalizeChatToolCall(value.items[k])]
             says == SaidIn(payloads)
             parts == [k \in DOMAIN says |-> <<says[k]>>]
  <2>1. \A k \in DOMAIN payloads : payloads[k] \in CallPayloads
    BY ElementOfSeq, LenProperties
  <2>2. \A k \in DOMAIN payloads : results[k] = One(Said[payloads[k]])
    BY <1>1, <2>1, ChatItemReads
  <2>3. /\ says \in Seq(Sayings) /\ DOMAIN says = DOMAIN payloads
        /\ \A k \in DOMAIN payloads : says[k] = Said[payloads[k]]
    BY SaidTyped
  <2>4. DOMAIN results = DOMAIN payloads /\ results = [k \in DOMAIN results |-> results[k]]
    BY <1>1
  <2>5. NormalizeChatToolCalls(value) = Collect(results)
    BY <1>1 DEF NormalizeChatToolCalls
  <2> HIDE DEF results, says
  <2>6. parts \in Seq(Seq(Sayings)) /\ FlattenSeq(parts) = says
    BY <2>3, FlattenSingles
  <2>7. DOMAIN results = DOMAIN parts
    BY <2>3, <2>4
  <2>8. \A k \in DOMAIN parts : results[k] = OutcomeOf(parts[k])
    <3>1. \A k \in DOMAIN parts : parts[k] = <<says[k]>>
      OBVIOUS
    <3>2. \A k \in DOMAIN parts : k \in DOMAIN payloads
      BY <2>3
    <3> HIDE DEF parts
    <3> QED BY <2>2, <2>3, <3>1, <3>2, OutcomeOfOne
  <2> HIDE DEF parts
  <2>9. Collect(results) = OutcomeOf(FlattenSeq(parts))
    BY <2>4, <2>6, <2>7, <2>8, CollectedOutcomes
  <2> QED BY <2>5, <2>6, <2>9 DEF says
<1>2. CASE Len(payloads) = 1 /\ Has(value, "function") /\ ChatItemSends(value, payloads[1])
  <2>1. PICK call \in CallPayloads : payloads = <<call>>
    BY <1>2
  <2>2. NormalizeChatToolCall(value) = One(Said[call])
    BY <1>2, <2>1, ChatItemReads
  <2>3. ~ IsArray(value) /\ IsChatToolCall(value)
    BY <1>2 DEF Has, IsObject, IsArray, IsChatToolCall
  <2> QED BY <2>1, <2>2, <2>3, SaidInOne, OutcomeOfOne DEF NormalizeChatToolCalls
<1>3. CASE payloads = <<>> /\ ~ IsArray(value) /\ ~ Has(value, "function")
  BY <1>3, OutcomeNothing DEF NormalizeChatToolCalls, IsChatToolCall
<1> QED BY <1>1, <1>2, <1>3 DEF ToolCallsSend

LEMMA MessageReads ==
  ASSUME NEW message, NEW payloads \in Seq(CallPayloads), MessageSends(message, payloads)
  PROVE  NormalizeOpenaiChatCompletions(message) = OutcomeOf(SaidIn(payloads))
  BY ToolCallsRead DEF MessageSends, NormalizeOpenaiChatCompletions

LEMMA ChatRead ==
  ASSUME NEW a \in Answers, NEW sent \in Seq(Seq(CallPayloads)), ChatSend(a.value, sent)
  PROVE  NormalizeOpenaiChatCompletions(a.value) = OutcomeOf(SaidIn(FlattenSeq(sent)))
<1> DEFINE choices == a.value.fields.choices
<1>1. CASE /\ Has(a.value, "choices") /\ IsArray(choices)
           /\ DOMAIN choices.items = DOMAIN sent
           /\ \A k \in DOMAIN sent : ChoiceSends(choices.items[k], sent[k])
  <2> DEFINE results == [k \in DOMAIN choices.items |-> NormalizeChatChoice(choices.items[k])]
  <2>1. \A k \in DOMAIN sent : sent[k] \in Seq(CallPayloads)
    BY ElementOfSeq, LenProperties
  <2>2. ASSUME NEW k \in DOMAIN sent PROVE results[k] = OutcomeOf(SaidIn(sent[k]))
    <3> DEFINE choice == choices.items[k]
    <3>1. results[k] = NormalizeChatChoice(choice) /\ ChoiceSends(choice, sent[k])
      BY <1>1
    <3>2. Has(choice, "message") =>
            NormalizeMessage(choice.fields.message) = NormalizeOpenaiChatCompletions(choice.fields.message)
      BY <1>1, MessagesAssumption
    <3> HIDE DEF choice, results
    <3>3. CASE Has(choice, "message") /\ MessageSends(choice.fields.message, sent[k])
      <4>1. NormalizeOpenaiChatCompletions(choice.fields.message) = OutcomeOf(SaidIn(sent[k]))
        BY <2>1, <3>3, MessageReads
      <4> QED BY <3>1, <3>2, <3>3, <4>1 DEF NormalizeChatChoice
    <3>4. CASE ~ Has(choice, "message") /\ sent[k] = <<>>
      BY <3>1, <3>4, OutcomeNothing DEF NormalizeChatChoice
    <3> QED BY <3>1, <3>3, <3>4 DEF ChoiceSends
  <2>3. DOMAIN results = DOMAIN sent /\ results = [k \in DOMAIN results |-> results[k]]
    BY <1>1
  <2>4. NormalizeOpenaiChatCompletions(a.value) = Collect(results)
    BY <1>1 DEF NormalizeOpenaiChatCompletions, NormalizeChatChoices
  <2> HIDE DEF results
  <2> QED BY <2>2, <2>3, <2>4, ItemsRead
<1>2. CASE /\ Has(a.value, "choices") /\ ~ IsArray(choices)
           /\ Len(sent) = 1 /\ Len(sent[1]) = 1 /\ Garbled(sent[1][1])
  <2>1. sent[1] \in Seq(CallPayloads) /\ FlattenSeq(sent) = sent[1]
    BY <1>2, OnlyOne
  <2>2. PICK call \in CallPayloads : sent[1] = <<call>>
    BY <1>2, <2>1
  <2>3. Said[call] = Failed
    BY <1>2, <2>2, SaidAssumption
  <2>4. OutcomeOf(SaidIn(FlattenSeq(sent))) = Failed
    BY <2>1, <2>2, <2>3, SaidInOne, OutcomeOfOne DEF One
  <2> QED BY <1>2, <2>4 DEF NormalizeOpenaiChatCompletions, NormalizeChatChoices
<1>3. CASE Len(sent) = 1 /\ MessageSends(a.value, sent[1])
  <2>1. sent[1] \in Seq(CallPayloads) /\ FlattenSeq(sent) = sent[1]
    BY <1>3, OnlyOne
  <2> QED BY <1>3, <2>1, MessageReads
<1> QED BY <1>1, <1>2, <1>3 DEF ChatSend

----------------------------------------------------------------------------
(* The inductive invariant                                                  *)

Outcome(sent) == OutcomeOf(SaidIn(FlattenSeq(sent)))

First(n) == SubSeq(answer.sent, 1, n)
Others(n) == SubSeq(answer.sent, n + 1, Len(answer.sent))

\* What was read so far is what the first items say, and the others are still to be read;
\* an answer that is to be refused is not done.
ReadSoFar ==
  /\ reading = "responses" => answer.reader # "chat" /\ invocations = <<>>
  /\ reading = "chat" =>
       \/ Refused
       \/ \E n \in 0 .. Len(answer.sent) :
            Outcome(First(n)) = Calls(invocations) /\ ChatSend(answer.value, Others(n))
  /\ reading = "done" => ~ Refused /\ Outcome(answer.sent) = Calls(invocations)
  /\ reading = "failed" => Refused \/ Outcome(answer.sent) = Failed

StructuredInv ==
  /\ answer \in Answers
  /\ reading \in {"responses", "chat", "done", "failed"}
  /\ ReadSoFar

LEMMA Split ==
  ASSUME NEW X, NEW s \in Seq(X), NEW n \in 0 .. Len(s)
  PROVE  /\ SubSeq(s, 1, n) \in Seq(X) /\ SubSeq(s, n + 1, Len(s)) \in Seq(X)
         /\ SubSeq(s, 1, n) \o SubSeq(s, n + 1, Len(s)) = s
<1>1. Len(s) \in Nat /\ \A i \in 1 .. Len(s) : s[i] \in X
  BY LenProperties, ElementOfSeq
<1>2. SubSeq(s, 1, n) \in Seq(X)
  BY <1>1, SubSeqProperties
<1>3. SubSeq(s, n + 1, Len(s)) \in Seq(X)
  BY <1>1, SubSeqProperties
<1>4. SubSeq(s, 1, n) \o SubSeq(s, n + 1, Len(s)) = SubSeq(s, 1, Len(s))
  <2>1. 1 \in 1 .. Len(s) + 1 /\ n \in 1 - 1 .. Len(s) /\ Len(s) \in n .. Len(s)
    BY <1>1
  <2> QED BY <2>1, ConcatAdjacentSubSeq
<1> QED BY <1>2, <1>3, <1>4, SubSeqFull

\* The outcome of items and others after them.
LEMMA OutcomeAfter ==
  ASSUME NEW first \in Seq(Seq(CallPayloads)), NEW others \in Seq(Seq(CallPayloads))
  PROVE  /\ Outcome(first) = Failed \/ Outcome(others) = Failed => Outcome(first \o others) = Failed
         /\ Outcome(first) # Failed /\ Outcome(others) # Failed =>
              Outcome(first \o others) = Calls(Outcome(first).calls \o Outcome(others).calls)
<1> DEFINE a == SaidIn(FlattenSeq(first))
           b == SaidIn(FlattenSeq(others))
<1>2. a \in Seq(Sayings) /\ b \in Seq(Sayings)
  BY FlattenTyped, SaidTyped
<1>3. SaidIn(FlattenSeq(first \o others)) = a \o b
  <2> DEFINE p == FlattenSeq(first)
             q == FlattenSeq(others)
             G == [call \in CallPayloads |-> Said[call]]
  <2>1. FlattenSeq(first \o others) = p \o q
    BY FlattenConcat
  <2>2. p \in Seq(CallPayloads) /\ q \in Seq(CallPayloads)
    BY FlattenTyped
  <2> HIDE DEF p, q
  <2>3. p \o q \in Seq(CallPayloads)
    BY <2>2
  <2>4. ASSUME NEW t \in Seq(CallPayloads) PROVE Mapped(G, t) = SaidIn(t)
    <3>1. \A k \in DOMAIN t : t[k] \in CallPayloads
      BY ElementOfSeq, LenProperties
    <3> QED BY <3>1 DEF Mapped, SaidIn
  <2>5. G \in Maps(CallPayloads, Sayings)
    BY DEF Maps, Sayings
  <2> HIDE DEF G
  <2>6. Mapped(G, p \o q) = Mapped(G, p) \o Mapped(G, q)
    BY <2>2, <2>5, MappedConcat
  <2>7. SaidIn(p \o q) = SaidIn(p) \o SaidIn(q)
    BY <2>2, <2>3, <2>4, <2>6
  <2> QED BY <2>1, <2>7 DEF p, q
<1>4. Outcome(first) = OutcomeOf(a) /\ Outcome(others) = OutcomeOf(b) /\ Outcome(first \o others) = OutcomeOf(a \o b)
  BY <1>3 DEF Outcome
<1> HIDE DEF a, b
<1>5. \A calls : Calls(calls).calls = calls
  BY DEF Calls
<1>6. /\ OutcomeOf(a) = Failed \/ OutcomeOf(b) = Failed => OutcomeOf(a \o b) = Failed
      /\ OutcomeOf(a) # Failed /\ OutcomeOf(b) # Failed => OutcomeOf(a \o b) = Calls(a \o b)
      /\ OutcomeOf(a) # Failed => OutcomeOf(a) = Calls(a)
      /\ OutcomeOf(b) # Failed => OutcomeOf(b) = Calls(b)
  BY <1>2, OutcomeConcat
<1> QED BY <1>4, <1>5, <1>6

LEMMA AnswerTyped ==
  ASSUME NEW a \in Answers
  PROVE  /\ a.sent \in Seq(Seq(CallPayloads)) /\ Len(a.sent) \in Nat
         /\ a.reader \in {"responses", "chat", "structured"}
         /\ a.reader = "responses" => ResponsesSend(a.value, a.sent)
         /\ a.reader = "chat" => ChatSend(a.value, a.sent)
         /\ a.reader = "structured" /\ ~ BareResponses(a.value) =>
              \E n \in 0 .. Len(a.sent) :
                /\ ResponsesSend(a.value, SubSeq(a.sent, 1, n))
                /\ ChatSend(a.value, SubSeq(a.sent, n + 1, Len(a.sent)))
<1>1. /\ a.sent \in Seq(Seq(CallPayloads)) /\ a.reader \in {"responses", "chat", "structured"}
      /\ AnswerSends(a.reader, a.value, a.sent)
  BY AnswersAssumption
<1>2. Len(a.sent) \in Nat
  BY <1>1, LenProperties
<1> QED BY <1>1, <1>2 DEF AnswerSends

\* The Chat Completions pass over an array of output items by itself.
LEMMA BareRefused ==
  ASSUME NEW value, BareResponses(value)
  PROVE  NormalizeOpenaiChatCompletions(value) = Failed
<1> DEFINE results == [k \in DOMAIN value.items |-> NormalizeChatToolCall(value.items[k])]
<1>1. IsArray(value) /\ ~ Has(value, "choices") /\ ~ Has(value, "tool_calls")
  BY DEF BareResponses, IsArray, IsObject, Has
<1>2. NormalizeOpenaiChatCompletions(value) = Collect(results)
  BY <1>1 DEF NormalizeOpenaiChatCompletions, NormalizeChatToolCalls
<1>3. PICK k \in DOMAIN value.items : ~ Has(value.items[k], "function")
  BY DEF BareResponses
<1>4. k \in DOMAIN results /\ results[k] = Failed
  BY <1>3 DEF NormalizeChatToolCall, IsChatToolCall
<1> HIDE DEF results
<1> QED BY <1>2, <1>4 DEF Collect

\* The outcome of an answer, by its first items and the others.
LEMMA OutcomeOfAnswer ==
  ASSUME answer \in Answers, NEW n \in 0 .. Len(answer.sent)
  PROVE  /\ Outcome(First(n)) = Failed => Outcome(answer.sent) = Failed
         /\ Outcome(Others(n)) = Failed => Outcome(answer.sent) = Failed
         /\ Outcome(First(n)) # Failed /\ Outcome(Others(n)) # Failed =>
              Outcome(answer.sent) = Calls(Outcome(First(n)).calls \o Outcome(Others(n)).calls)
<1> DEFINE s == answer.sent
           first == First(n)
           others == Others(n)
<1>1. s \in Seq(Seq(CallPayloads)) /\ n \in 0 .. Len(s)
  BY AnswerTyped
<1>2. /\ first \in Seq(Seq(CallPayloads)) /\ others \in Seq(Seq(CallPayloads))
      /\ first \o others = s
  BY <1>1, Split DEF First, Others
<1> HIDE DEF s, first, others
<1>3. /\ Outcome(first) = Failed \/ Outcome(others) = Failed => Outcome(s) = Failed
      /\ Outcome(first) # Failed /\ Outcome(others) # Failed =>
           Outcome(s) = Calls(Outcome(first).calls \o Outcome(others).calls)
  BY <1>2, OutcomeAfter
<1> QED BY <1>3 DEF s, first, others

LEMMA StructuredInvInit == StructuredInit => StructuredInv
<1> SUFFICES ASSUME StructuredInit PROVE StructuredInv
  OBVIOUS
<1>1. /\ answer \in Answers /\ invocations = <<>>
      /\ reading = IF answer.reader = "chat" THEN "chat" ELSE "responses"
  BY DEF StructuredInit
<1>2. ASSUME answer.reader = "chat"
      PROVE  0 \in 0 .. Len(answer.sent) /\ Outcome(First(0)) = Calls(<<>>) /\ ChatSend(answer.value, Others(0))
  <2>1. First(0) = <<>>
    BY SubSeqEmpty DEF First
  <2>2. Others(0) = answer.sent
    BY <1>1, AnswerTyped, SubSeqFull DEF Others
  <2> QED BY <1>1, <1>2, <2>1, <2>2, AnswerTyped, FlattenNothing, OutcomeNothing DEF Outcome
<1>3. ReadSoFar
  BY <1>1, <1>2 DEF ReadSoFar
<1> QED BY <1>1, <1>3 DEF StructuredInv

LEMMA StructuredInvStep == StructuredInv /\ [StructuredNext]_structuredVars => StructuredInv'
<1> SUFFICES ASSUME StructuredInv, [StructuredNext]_structuredVars PROVE StructuredInv'
  OBVIOUS
<1> DEFINE sent == answer.sent
<1>0. /\ answer \in Answers /\ ReadSoFar /\ sent \in Seq(Seq(CallPayloads)) /\ Len(sent) \in Nat
      /\ reading \in {"responses", "chat", "done", "failed"}
  BY AnswerTyped DEF StructuredInv
<1>c. \A calls : Calls(calls).calls = calls /\ Calls(calls) # Failed
  BY FailedIsNoCalls DEF Calls
<1>t. ASSUME NEW s PROVE Outcome(s) # Failed => Outcome(s) = Calls(SaidIn(FlattenSeq(s)))
  BY DEF Outcome, OutcomeOf
<1>1. CASE ReadResponses
  <2> DEFINE result == NormalizeOpenaiResponses(answer.value)
  <2>1. /\ reading = "responses" /\ invocations = <<>> /\ answer.reader # "chat" /\ answer' = answer
        /\ result = Failed => reading' = "failed"
        /\ result # Failed => /\ reading' = IF answer.reader = "structured" THEN "chat" ELSE "done"
                              /\ invocations' = <<>> \o result.calls
    BY <1>0, <1>1 DEF ReadResponses, Take, ReadSoFar
  <2>2. CASE answer.reader = "responses"
    <3>1. result = Outcome(sent)
      BY <1>0, <2>2, AnswerTyped, ResponsesRead DEF Outcome
    <3>2. CASE result = Failed
      BY <1>0, <2>1, <3>1, <3>2 DEF StructuredInv, ReadSoFar
    <3>3. CASE result # Failed
      <4>1. SaidIn(FlattenSeq(sent)) \in Seq(Sayings)
        BY <1>0, FlattenTyped, SaidTyped
      <4>2. invocations' = SaidIn(FlattenSeq(sent)) /\ reading' = "done"
        BY <1>c, <1>t, <2>1, <2>2, <3>1, <3>3, <4>1, ConcatEmptySeq
      <4> QED BY <1>0, <1>t, <2>1, <2>2, <3>1, <3>3, <4>2 DEF StructuredInv, ReadSoFar, Refused
    <3> QED BY <3>2, <3>3
  <2>4. CASE Refused
    <3>1. reading' \in {"chat", "failed"} /\ Refused'
      BY <2>1, <2>4 DEF Refused
    <3> QED BY <1>0, <2>1, <3>1 DEF StructuredInv, ReadSoFar
  <2>3. CASE answer.reader = "structured" /\ ~ Refused
    <3>1. PICK n \in 0 .. Len(sent) : ResponsesSend(answer.value, First(n)) /\ ChatSend(answer.value, Others(n))
      BY <1>0, <2>3, AnswerTyped DEF First, Others, Refused
    <3>2. First(n) \in Seq(Seq(CallPayloads))
      BY <1>0, Split DEF First
    <3>3. result = Outcome(First(n))
      BY <3>1, <3>2, ResponsesRead DEF Outcome
    <3>4. CASE result = Failed
      <4>1. Outcome(sent) = Failed
        BY <1>0, <3>3, <3>4, OutcomeOfAnswer
      <4> QED BY <1>0, <2>1, <3>4, <4>1 DEF StructuredInv, ReadSoFar
    <3>5. CASE result # Failed
      <4>1. SaidIn(FlattenSeq(First(n))) \in Seq(Sayings)
        BY <3>2, FlattenTyped, SaidTyped
      <4>2. invocations' = SaidIn(FlattenSeq(First(n))) /\ reading' = "chat"
        BY <1>c, <1>t, <2>1, <2>3, <3>3, <3>5, <4>1, ConcatEmptySeq
      <4>3. Outcome(First(n)) = Calls(invocations')
        BY <1>t, <3>3, <3>5, <4>2
      <4>4. First(n)' = First(n) /\ Others(n)' = Others(n) /\ sent' = sent
        BY <2>1 DEF First, Others
      <4> QED BY <1>0, <2>1, <3>1, <4>2, <4>3, <4>4 DEF StructuredInv, ReadSoFar, Outcome
    <3> QED BY <3>4, <3>5
  <2> QED BY <1>0, <2>1, <2>2, <2>3, <2>4, AnswerTyped
<1>2. CASE ReadChat
  <2> DEFINE result == NormalizeOpenaiChatCompletions(answer.value)
  <2>1. /\ reading = "chat" /\ answer' = answer
        /\ result = Failed => reading' = "failed"
        /\ result # Failed => reading' = "done" /\ invocations' = invocations \o result.calls
    BY <1>2 DEF ReadChat, Take
  <2>r. CASE Refused
    <3>1. reading' = "failed" /\ Refused'
      BY <2>1, <2>r, BareRefused DEF Refused
    <3> QED BY <1>0, <2>1, <3>1 DEF StructuredInv, ReadSoFar
  <2> SUFFICES ASSUME ~ Refused PROVE StructuredInv'
    BY <2>r
  <2>s. ~ Refused'
    BY <2>1 DEF Refused
  <2>2. PICK n \in 0 .. Len(sent) : Outcome(First(n)) = Calls(invocations) /\ ChatSend(answer.value, Others(n))
    BY <1>0, <2>1 DEF ReadSoFar
  <2>3. Others(n) \in Seq(Seq(CallPayloads))
    BY <1>0, Split DEF Others
  <2>4. result = Outcome(Others(n))
    BY <1>0, <2>2, <2>3, ChatRead DEF Outcome
  <2>5. /\ Outcome(Others(n)) = Failed => Outcome(sent) = Failed
        /\ Outcome(Others(n)) # Failed => Outcome(sent) = Calls(invocations \o Outcome(Others(n)).calls)
    BY <1>0, <1>c, <2>2, OutcomeOfAnswer
  <2> HIDE DEF result
  <2>6. CASE result = Failed
    BY <1>0, <2>1, <2>4, <2>5, <2>6 DEF StructuredInv, ReadSoFar
  <2>7. CASE result # Failed
    BY <1>0, <2>1, <2>4, <2>5, <2>7, <2>s DEF StructuredInv, ReadSoFar
  <2> QED BY <2>6, <2>7
<1>3. CASE UNCHANGED structuredVars
  BY <1>3 DEF structuredVars, StructuredInv, ReadSoFar, First, Others, Refused
<1> QED BY <1>1, <1>2, <1>3 DEF StructuredNext

LEMMA StructuredInvHolds == StructuredSpec => []StructuredInv
  BY StructuredInvInit, StructuredInvStep, PTL DEF StructuredSpec

\* StructuredToolCallNormalizer, on any answer in any of the providers' forms: a pass
\* that ends has read what is said in it, in the order sent, and one that fails was
\* sent a call that cannot be read, or is `normalize` on an array of output items by
\* itself, on which it never ends well.
THEOREM FormsAgree == StructuredSpec => []ProviderFormsAgree
<1>1. StructuredInv => ProviderFormsAgree
  <2> SUFFICES ASSUME StructuredInv PROVE ProviderFormsAgree
    OBVIOUS
  <2> DEFINE p == FlattenSeq(answer.sent)
             says == SaidIn(p)
  <2>1. says = Written(answer.sent)
    BY DEF Written, SaidIn, Mapped
  <2>2. CASE reading = "done"
    <3>1. OutcomeOf(says) = Calls(invocations) /\ ~ Refused
      BY <2>2 DEF StructuredInv, ReadSoFar, Outcome
    <3> HIDE DEF says
    <3>2. (\A k \in DOMAIN says : says[k] # Failed) /\ Calls(says) = Calls(invocations)
      BY <3>1, FailedIsNoCalls DEF OutcomeOf
    <3>3. says = invocations
      BY <3>2 DEF Calls
    <3> QED BY <2>1, <2>2, <3>1, <3>2, <3>3 DEF ProviderFormsAgree, Range
  <2>3. CASE reading = "failed" /\ ~ Refused
    <3>1. OutcomeOf(says) = Failed
      BY <2>3 DEF StructuredInv, ReadSoFar, Outcome
    <3> HIDE DEF says
    <3>2. \E k \in DOMAIN says : says[k] = Failed
      BY <3>1, FailedIsNoCalls DEF OutcomeOf
    <3> QED BY <2>1, <2>3, <3>2 DEF ProviderFormsAgree, Range
  <2>4. CASE reading = "failed" /\ Refused
    BY <2>4 DEF ProviderFormsAgree
  <2> QED BY <2>2, <2>3, <2>4 DEF ProviderFormsAgree
<1> QED BY <1>1, StructuredInvHolds, PTL

----------------------------------------------------------------------------
(* repair_history                                                           *)

\* `chosen` and `order` know the same calls, and `has_completed` holds those
\* whose chosen entry is a completion.
LocalsAgree ==
  /\ \A c \in Fingerprints : chosen[c] # Vacant <=> \E k \in 1 .. Len(order) : order[k] = c
  /\ \A c \in Fingerprints :
       c \in hasCompleted <=> chosen[c] # Vacant /\ entries[chosen[c]].completed

\* No call has two entries in a history.
OneEach(h) == \A j, k \in 1 .. Len(h) : h[j].call = h[k].call => j = k

\* A repaired history has one entry per call, so the loop of the second repair
\* meets every call for the first time and chooses its only entry.
SecondRepair ==
  /\ pass = 2 \/ pc = "done" => OneEach(output)
  /\ pass = 2 =>
       /\ entries = output
       /\ Len(order) = next - 1
       /\ \A k \in 1 .. next - 1 : order[k] = entries[k].call /\ chosen[order[k]] = k
  /\ pass = 2 /\ pc = "done" => next = Len(entries) + 1

IInv == TypeOK /\ KeepsTheAnswer /\ FirstOccurrenceOrder /\ LocalsAgree /\ SecondRepair

USE DEF Vacant

----------------------------------------------------------------------------

LEMMA InitInv == Init => IInv
<1> SUFFICES ASSUME Init PROVE IInv
  OBVIOUS
<1>1. PICK n \in 0 .. MaxEntries :
        \E calls \in [1 .. n -> Fingerprints], outcomes \in [1 .. n -> BOOLEAN] :
          entries = [i \in 1 .. n |->
                      [call |-> calls[i], completed |-> outcomes[i], payload |-> i]]
  BY DEF Init
<1>2. PICK calls \in [1 .. n -> Fingerprints], outcomes \in [1 .. n -> BOOLEAN] :
        entries = [i \in 1 .. n |->
                    [call |-> calls[i], completed |-> outcomes[i], payload |-> i]]
  BY <1>1
<1>3. n \in Nat /\ \A i \in 1 .. n : i \in 1 .. MaxEntries
  BY MaxEntriesAssumption
<1>4. \A i \in 1 .. n : entries[i] \in HistoryEntry
  BY <1>2, <1>3 DEF HistoryEntry
<1>5. entries \in Seq(HistoryEntry) /\ Len(entries) = n
  BY <1>2, <1>3, <1>4
<1>6. TypeOK
  BY <1>3, <1>5 DEF Init, TypeOK
<1>7. KeepsTheAnswer /\ FirstOccurrenceOrder /\ LocalsAgree /\ SecondRepair
  BY DEF Init, KeepsTheAnswer, FirstOccurrenceOrder, LocalsAgree, SecondRepair
<1> QED BY <1>6, <1>7 DEF IInv

\* What every turn of the loop finds, whatever the entry is.
LEMMA VisitFacts ==
  ASSUME IInv, Visit
  PROVE  /\ next \in 1 .. Len(entries) /\ next \in Nat /\ Len(entries) \in Nat
         /\ entries[next] \in HistoryEntry
         /\ entries[next].call \in Fingerprints
         /\ entries[next].completed \in BOOLEAN
         /\ order \in Seq(Fingerprints)
         /\ chosen \in [Fingerprints -> 0 .. Len(entries)]
         /\ next' = next + 1 /\ pass' = pass /\ pc' = pc /\ pc = "loop"
         /\ output' = output /\ entries' = entries
<1>1. /\ next \in 1 .. Len(entries) /\ entries \in Seq(HistoryEntry)
      /\ order \in Seq(Fingerprints) /\ chosen \in [Fingerprints -> 0 .. Len(entries)]
      /\ next \in Nat /\ Len(entries) \in Nat
  BY DEF IInv, TypeOK, Visit
<1>2. entries[next] \in HistoryEntry
  BY <1>1
<1>3. entries[next].call \in Fingerprints /\ entries[next].completed \in BOOLEAN
  BY <1>2 DEF HistoryEntry
<1> QED BY <1>1, <1>2, <1>3 DEF Visit

LEMMA VisitType == IInv /\ Visit => TypeOK'
<1> SUFFICES ASSUME IInv, Visit PROVE TypeOK'
  OBVIOUS
<1> DEFINE e == entries[next]
<1>1. next \in 1 .. Len(entries) /\ e \in HistoryEntry /\ e.call \in Fingerprints
  BY VisitFacts
<1>2. /\ order' = order \/ order' = Append(order, e.call)
      /\ chosen' = chosen \/ chosen' = [chosen EXCEPT ![e.call] = next]
      /\ hasCompleted' = hasCompleted \/ hasCompleted' = hasCompleted \cup {e.call}
  BY DEF Visit, FirstSeen, LaterCompletion, LaterFailure, Choose
<1>3. order' \in Seq(Fingerprints)
  <2>1. order \in Seq(Fingerprints) /\ e.call \in Fingerprints
    BY VisitFacts
  <2> QED BY <1>2, <2>1
<1>4. chosen' \in [Fingerprints -> 0 .. Len(entries)]
  BY <1>1, <1>2 DEF IInv, TypeOK
<1>5. hasCompleted' \subseteq Fingerprints
  BY <1>1, <1>2 DEF IInv, TypeOK
<1>6. next' \in 1 .. Len(entries) + 1
  BY <1>1 DEF IInv, TypeOK, Visit
<1> QED BY <1>3, <1>4, <1>5, <1>6 DEF IInv, TypeOK, Visit

\* A completion that is kept stays kept when one more entry is seen.
LEMMA CompletionStays ==
  ASSUME NEW h, NEW n \in Nat, n >= 1, NEW i \in 1 .. n - 1, h[i].completed, Kept(h, n - 1, i)
  PROVE  Kept(h, n, i)
<1> SUFFICES ASSUME NEW j \in 1 .. n, h[j].call = h[i].call, h[j].completed
             PROVE  i <= j
  BY DEF Kept
<1>1. CASE j \in 1 .. n - 1
  BY <1>1 DEF Kept
<1>2. CASE j = n
  BY <1>2
<1> QED BY <1>1, <1>2

\* The latest entry of a call without a completion is kept.
LEMMA LatestKept ==
  ASSUME NEW h, NEW n \in Nat, n >= 1, NEW i \in 1 .. n - 1, h[i].call = h[n].call,
         ~ h[i].completed, Kept(h, n - 1, i)
  PROVE  Kept(h, n, n)
<1>1. ASSUME NEW j \in 1 .. n - 1, h[j].call = h[n].call
      PROVE  ~ h[j].completed
  BY <1>1 DEF Kept
<1>2. \A j \in 1 .. n : j <= n /\ (j \in 1 .. n - 1 \/ j = n)
  OBVIOUS
<1> QED BY <1>1, <1>2 DEF Kept

LEMMA VisitKeeps == IInv /\ Visit => KeepsTheAnswer'
<1> SUFFICES ASSUME IInv, Visit,
                    NEW c \in Fingerprints
             PROVE  \/ chosen'[c] = Vacant /\ \A i \in 1 .. next : entries[i].call # c
                    \/ /\ chosen'[c] \in 1 .. next
                       /\ entries[chosen'[c]].call = c
                       /\ Kept(entries, next, chosen'[c])
  BY VisitFacts DEF KeepsTheAnswer, Kept
<1> DEFINE e == entries[next]
<1>1. /\ next \in 1 .. Len(entries) /\ next' = next + 1 /\ next \in Nat /\ Len(entries) \in Nat
      /\ e \in HistoryEntry /\ e.call \in Fingerprints /\ e.completed \in BOOLEAN
  BY VisitFacts
<1>2. chosen \in [Fingerprints -> 0 .. Len(entries)]
  BY DEF IInv, TypeOK
<1>3. \/ chosen[c] = Vacant /\ \A i \in 1 .. next - 1 : entries[i].call # c
      \/ /\ chosen[c] \in 1 .. next - 1 /\ entries[chosen[c]].call = c
         /\ Kept(entries, next - 1, chosen[c])
  BY DEF IInv, KeepsTheAnswer
<1>4. c \in hasCompleted <=> chosen[c] # Vacant /\ entries[chosen[c]].completed
  BY DEF IInv, LocalsAgree
<1>5. CASE c # e.call
  <2>1. chosen'[c] = chosen[c]
    BY <1>2, <1>5 DEF Visit, FirstSeen, LaterCompletion, LaterFailure, Choose
  <2> QED BY <2>1, <1>1, <1>3, <1>5 DEF Kept
<1>6. CASE c = e.call /\ FirstSeen(e)
  <2>1. chosen'[c] = next /\ chosen[c] = Vacant
    BY <1>2, <1>6 DEF FirstSeen, Choose
  <2> QED BY <2>1, <1>1, <1>3, <1>6 DEF Kept
<1>7. CASE c = e.call /\ chosen[c] # Vacant /\ (LaterCompletion(e) \/ LaterFailure(e))
  <2>1. /\ chosen[c] \in 1 .. next - 1 /\ entries[chosen[c]].call = c
        /\ Kept(entries, next - 1, chosen[c])
    BY <1>3, <1>7
  <2>2. next >= 1 /\ next \in 1 .. next /\ (chosen[c] \in 1 .. next)
    BY <1>1, <2>1
  <2>3. CASE c \notin hasCompleted
    <3>1. chosen'[c] = next
      BY <1>2, <1>7, <2>3 DEF LaterCompletion, LaterFailure, Choose
    <3>2. ~ entries[chosen[c]].completed
      BY <1>4, <1>7, <2>3
    <3>3. Kept(entries, next, next)
      BY <1>1, <1>7, <2>1, <2>2, <3>2, LatestKept
    <3> QED BY <1>7, <2>2, <3>1, <3>3
  <2>4. CASE c \in hasCompleted
    <3>1. chosen'[c] = chosen[c]
      BY <1>7, <2>4 DEF LaterCompletion, LaterFailure
    <3>2. Kept(entries, next, chosen[c])
      BY <1>1, <1>4, <2>1, <2>2, <2>4, CompletionStays
    <3> QED BY <2>1, <2>2, <3>1, <3>2
  <2> QED BY <2>3, <2>4
<1>8. Visit => FirstSeen(e) \/ (chosen[e.call] # Vacant /\ (LaterCompletion(e) \/ LaterFailure(e)))
  BY DEF Visit, LaterCompletion, LaterFailure
<1> QED BY <1>5, <1>6, <1>7, <1>8

LEMMA VisitOrder == IInv /\ Visit => FirstOccurrenceOrder'
<1> SUFFICES ASSUME IInv, Visit PROVE FirstOccurrenceOrder'
  OBVIOUS
<1> DEFINE e == entries[next]
<1>1. /\ next \in 1 .. Len(entries) /\ next' = next + 1 /\ next \in Nat
      /\ order \in Seq(Fingerprints) /\ e.call \in Fingerprints
  BY VisitFacts
<1>2. FirstOccurrenceOrder
  BY DEF IInv
<1>3. CASE order' = order
  BY <1>1, <1>2, <1>3 DEF FirstOccurrenceOrder, Visit
<1>4. CASE FirstSeen(e)
  <2>1. order' = Append(order, e.call) /\ chosen[e.call] = Vacant
    BY <1>4 DEF FirstSeen
  <2>2. \A i \in 1 .. next - 1 : entries[i].call # e.call
    BY <1>1, <2>1 DEF IInv, KeepsTheAnswer
  <2>3. SUFFICES ASSUME NEW j \in DOMAIN order', NEW k \in DOMAIN order', j < k
                 PROVE  \E i \in 1 .. next' - 1 :
                          /\ entries[i].call = order'[j]
                          /\ \A p \in 1 .. i : entries[p].call # order'[k]
    BY DEF FirstOccurrenceOrder, Visit
  <2>4. j \in 1 .. Len(order) /\ order'[j] = order[j]
    BY <1>1, <2>1, <2>3
  <2>5. CASE k \in 1 .. Len(order)
    <3>1. order'[k] = order[k]
      BY <1>1, <2>1, <2>5
    <3>2. PICK i \in 1 .. next - 1 :
            /\ entries[i].call = order[j]
            /\ \A p \in 1 .. i : entries[p].call # order[k]
      BY <1>1, <1>2, <2>3, <2>4, <2>5 DEF FirstOccurrenceOrder
    <3> QED BY <1>1, <2>4, <3>1, <3>2
  <2>6. CASE k = Len(order) + 1
    <3>1. order'[k] = e.call
      BY <1>1, <2>1, <2>6
    <3>2. order[j] \in Fingerprints /\ chosen[order[j]] # Vacant
      BY <1>1, <2>4 DEF IInv, LocalsAgree
    <3>3. PICK i \in 1 .. next - 1 : entries[i].call = order[j]
      BY <3>2 DEF IInv, KeepsTheAnswer
    <3> QED BY <1>1, <2>2, <2>4, <3>1, <3>3
  <2>7. k \in 1 .. Len(order) \/ k = Len(order) + 1
    BY <1>1, <2>1
  <2> QED BY <2>5, <2>6, <2>7
<1> QED BY <1>3, <1>4 DEF Visit, LaterCompletion, LaterFailure

LEMMA VisitAgree == IInv /\ Visit => LocalsAgree'
<1> SUFFICES ASSUME IInv, Visit, NEW c \in Fingerprints
             PROVE  /\ chosen'[c] # Vacant <=> \E k \in 1 .. Len(order') : order'[k] = c
                    /\ c \in hasCompleted' <=> chosen'[c] # Vacant /\ entries[chosen'[c]].completed
  BY DEF LocalsAgree, Visit
<1> DEFINE e == entries[next]
<1>1. /\ next \in 1 .. Len(entries) /\ order \in Seq(Fingerprints)
      /\ chosen \in [Fingerprints -> 0 .. Len(entries)] /\ e.call \in Fingerprints
      /\ e.completed \in BOOLEAN
  BY VisitFacts
<1>2. /\ chosen[c] # Vacant <=> \E k \in 1 .. Len(order) : order[k] = c
      /\ c \in hasCompleted <=> chosen[c] # Vacant /\ entries[chosen[c]].completed
  BY DEF IInv, LocalsAgree
<1>3. CASE FirstSeen(e)
  <2>1. /\ order' = Append(order, e.call)
        /\ chosen' = [chosen EXCEPT ![e.call] = next] /\ chosen[e.call] = Vacant
        /\ hasCompleted' = IF e.completed THEN hasCompleted \cup {e.call} ELSE hasCompleted
    BY <1>3 DEF FirstSeen, Choose
  <2>2. /\ Len(order') = Len(order) + 1 /\ order'[Len(order) + 1] = e.call
        /\ \A k \in 1 .. Len(order) : order'[k] = order[k]
    BY <1>1, <2>1
  <2>3. chosen'[c] = IF c = e.call THEN next ELSE chosen[c]
    BY <1>1, <2>1
  <2>4. chosen'[c] # Vacant <=> \E k \in 1 .. Len(order') : order'[k] = c
    <3>1. Len(order) \in Nat /\ next # Vacant
      BY <1>1
    <3>2. CASE c = e.call
      BY <2>2, <2>3, <3>1, <3>2
    <3>3. CASE c # e.call
      BY <1>2, <2>2, <2>3, <3>1, <3>3
    <3> QED BY <3>2, <3>3
  <2>5. c \in hasCompleted' <=> chosen'[c] # Vacant /\ entries[chosen'[c]].completed
    BY <1>1, <1>2, <2>1, <2>3
  <2> QED BY <2>4, <2>5
<1>4. CASE LaterCompletion(e)
  BY <1>1, <1>2, <1>4 DEF LaterCompletion, Choose
<1>5. CASE LaterFailure(e)
  BY <1>1, <1>2, <1>5 DEF LaterFailure, Choose
<1> QED BY <1>3, <1>4, <1>5 DEF Visit

LEMMA VisitSecond == IInv /\ Visit => SecondRepair'
<1> SUFFICES ASSUME IInv, Visit PROVE SecondRepair'
  OBVIOUS
<1> DEFINE e == entries[next]
<1>1. /\ next \in 1 .. Len(entries) /\ next' = next + 1 /\ pass' = pass /\ pc' = pc
      /\ pc = "loop" /\ output' = output /\ entries' = entries /\ next \in Nat
      /\ order \in Seq(Fingerprints) /\ e.call \in Fingerprints
      /\ chosen \in [Fingerprints -> 0 .. Len(entries)]
  BY VisitFacts
<1>2. SUFFICES ASSUME pass = 2
               PROVE  /\ Len(order') = next
                      /\ \A k \in 1 .. next : order'[k] = entries[k].call /\ chosen'[order'[k]] = k
  BY <1>1 DEF IInv, SecondRepair
<1>3. /\ OneEach(entries) /\ Len(order) = next - 1
      /\ \A k \in 1 .. next - 1 : order[k] = entries[k].call /\ chosen[order[k]] = k
  BY <1>2 DEF IInv, SecondRepair
<1>4. \A k \in 1 .. next - 1 : entries[k].call # e.call
  BY <1>1, <1>3 DEF OneEach
<1>5. chosen[e.call] = Vacant
  BY <1>1, <1>4 DEF IInv, KeepsTheAnswer
<1>6. order' = Append(order, e.call) /\ chosen' = [chosen EXCEPT ![e.call] = next]
  BY <1>5 DEF Visit, FirstSeen, LaterCompletion, LaterFailure, Choose
<1>7. /\ Len(order') = next /\ order'[next] = e.call
      /\ \A k \in 1 .. next - 1 : order'[k] = order[k]
  BY <1>1, <1>3, <1>6
<1>8. chosen'[e.call] = next /\ \A k \in 1 .. next - 1 : chosen'[entries[k].call] = k
  BY <1>1, <1>3, <1>4, <1>6
<1> QED BY <1>1, <1>3, <1>7, <1>8

\* What is emitted has one entry per call.
LEMMA EmittedOneEach ==
  ASSUME IInv
  PROVE  /\ Emitted \in Seq(HistoryEntry)
         /\ Len(Emitted) = Len(order)
         /\ \A k \in 1 .. Len(order) : Emitted[k].call = order[k]
         /\ OneEach(Emitted)
<1>1. /\ order \in Seq(Fingerprints) /\ entries \in Seq(HistoryEntry) /\ next \in 1 .. Len(entries) + 1
      /\ chosen \in [Fingerprints -> 0 .. Len(entries)]
  BY DEF IInv, TypeOK
<1>2. ASSUME NEW k \in 1 .. Len(order)
      PROVE  /\ entries[chosen[order[k]]] \in HistoryEntry
             /\ entries[chosen[order[k]]].call = order[k]
  <2>1. order[k] \in Fingerprints /\ chosen[order[k]] # Vacant
    BY <1>1 DEF IInv, LocalsAgree
  <2>2. chosen[order[k]] \in 1 .. next - 1 /\ entries[chosen[order[k]]].call = order[k]
    BY <2>1 DEF IInv, KeepsTheAnswer
  <2> QED BY <1>1, <2>2
<1>3. Emitted \in Seq(HistoryEntry) /\ Len(Emitted) = Len(order)
  BY <1>1, <1>2 DEF Emitted
<1>4. \A k \in 1 .. Len(order) : Emitted[k].call = order[k]
  BY <1>1, <1>2 DEF Emitted
<1>5. \A j, k \in 1 .. Len(order) : order[j] = order[k] => j = k
  <2>1. ASSUME NEW j \in 1 .. Len(order), NEW k \in 1 .. Len(order), j < k
        PROVE  order[j] # order[k]
    <3>1. DOMAIN order = 1 .. Len(order) /\ FirstOccurrenceOrder
      BY <1>1 DEF IInv
    <3>2. PICK i \in 1 .. next - 1 :
            /\ entries[i].call = order[j]
            /\ \A p \in 1 .. i : entries[p].call # order[k]
      BY <2>1, <3>1 DEF FirstOccurrenceOrder
    <3> QED BY <1>1, <3>2
  <2> QED BY <1>1, <2>1
<1> QED BY <1>3, <1>4, <1>5 DEF OneEach

LEMMA ReturnInv == IInv /\ Return => IInv'
<1> SUFFICES ASSUME IInv, Return PROVE IInv'
  OBVIOUS
<1>1. output' = Emitted /\ pc' = "done" /\ pc = "loop" /\ next = Len(entries) + 1
      /\ UNCHANGED <<entries, next, order, chosen, hasCompleted, pass>>
  BY DEF Return, IInv, TypeOK
<1>2. /\ Emitted \in Seq(HistoryEntry) /\ Len(Emitted) = Len(order)
      /\ \A k \in 1 .. Len(order) : Emitted[k].call = order[k] /\ OneEach(Emitted)
      /\ OneEach(Emitted)
  BY EmittedOneEach
<1>3. TypeOK'
  BY <1>1, <1>2 DEF IInv, TypeOK
<1>4. KeepsTheAnswer' /\ FirstOccurrenceOrder' /\ LocalsAgree'
  BY <1>1 DEF IInv, KeepsTheAnswer, Kept, FirstOccurrenceOrder, LocalsAgree
<1>5. SecondRepair'
  <2>1. SUFFICES ASSUME pass = 2 PROVE entries = Emitted
    BY <1>1, <1>2 DEF IInv, SecondRepair, OneEach
  <2>2. /\ entries \in Seq(HistoryEntry) /\ Len(order) = Len(entries)
        /\ \A k \in 1 .. Len(order) : chosen[order[k]] = k
    BY <1>1, <2>1 DEF IInv, SecondRepair, TypeOK
  <2>3. \A k \in 1 .. Len(order) : Emitted[k] = entries[k]
    BY <2>2 DEF Emitted
  <2> QED BY <1>2, <2>2, <2>3
<1> QED BY <1>3, <1>4, <1>5 DEF IInv

LEMMA AgainInv == IInv /\ Again => IInv'
<1> SUFFICES ASSUME IInv, Again PROVE IInv'
  OBVIOUS
<1>1. OneEach(output) /\ output \in Seq(HistoryEntry)
  BY DEF IInv, SecondRepair, Again, TypeOK
<1>2. TypeOK'
  BY <1>1 DEF Again, TypeOK
<1>3. KeepsTheAnswer' /\ FirstOccurrenceOrder' /\ LocalsAgree'
  BY DEF Again, KeepsTheAnswer, FirstOccurrenceOrder, LocalsAgree
<1>4. SecondRepair'
  BY <1>1 DEF Again, SecondRepair, OneEach
<1> QED BY <1>2, <1>3, <1>4 DEF IInv

LEMMA NextInv == IInv /\ [Next]_vars => IInv'
<1> SUFFICES ASSUME IInv, [Next]_vars PROVE IInv'
  OBVIOUS
<1>1. CASE Visit
  BY <1>1, VisitType, VisitKeeps, VisitOrder, VisitAgree, VisitSecond DEF IInv
<1>2. CASE Return
  BY <1>2, ReturnInv
<1>3. CASE Again
  BY <1>3, AgainInv
<1>4. CASE UNCHANGED vars
  BY <1>4 DEF vars, IInv, TypeOK, KeepsTheAnswer, Kept, FirstOccurrenceOrder, LocalsAgree,
              SecondRepair, OneEach
<1> QED BY <1>1, <1>2, <1>3, <1>4 DEF Next

\* The loop of repair_history always satisfies its invariant.
THEOREM Invariance == Spec => []IInv
  BY InitInv, NextInv, PTL DEF Spec

----------------------------------------------------------------------------

\* Rules 2 and 3 of repair_history hold of any history: the entry chosen for a
\* call is its first completion or, without one, its last failure.
THEOREM AnswersKept == Spec => []KeepsTheAnswer
<1>1. IInv => KeepsTheAnswer
  BY DEF IInv
<1> QED BY <1>1, Invariance, PTL

\* Rule 4 holds of any history: calls are emitted by first occurrence, once.
THEOREM OrderKept == Spec => []FirstOccurrenceOrder
<1>1. IInv => FirstOccurrenceOrder
  BY DEF IInv
<1> QED BY <1>1, Invariance, PTL

\* The documented repair_history(repair_history(x)) = repair_history(x), for
\* every history x.
THEOREM RepairIsIdempotent == Spec => []Idempotent
<1>1. IInv => Idempotent
  BY DEF IInv, SecondRepair, Idempotent
<1> QED BY <1>1, Invariance, PTL

\* Once the loop has met a completion of a call, no later entry changes the
\* choice.
THEOREM AnswersStand == Spec => AnswerStands
<1>1. IInv /\ [Next]_vars => [pc = "loop" => \A c \in hasCompleted : chosen'[c] = chosen[c]]_vars
  <2> SUFFICES ASSUME IInv, Next, pc = "loop", NEW c \in hasCompleted
               PROVE  chosen'[c] = chosen[c]
    BY DEF vars
  <2>1. c \in Fingerprints /\ chosen[c] # Vacant
    BY DEF IInv, TypeOK, LocalsAgree
  <2>2. CASE Visit
    <3> DEFINE e == entries[next]
    <3>1. chosen \in [Fingerprints -> 0 .. Len(entries)] /\ e.call \in Fingerprints
      BY <2>2, VisitFacts
    <3> QED BY <2>1, <2>2, <3>1 DEF Visit, FirstSeen, LaterCompletion, LaterFailure, Choose
  <2>3. CASE Return
    BY <2>3 DEF Return
  <2> QED BY <2>2, <2>3 DEF Next, Again
<1> QED BY <1>1, Invariance, PTL DEF Spec, AnswerStands
=============================================================================
