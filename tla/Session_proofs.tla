--------------------------- MODULE Session_proofs ---------------------------
(***************************************************************************)
(* The proofs about Session.  First, facts about what its definitions are  *)
(* built from: the positions a pass consumes (Upto, Reaching), rows        *)
(* written over a buffer (Over), the state a layer carries (Feed,          *)
(* Advance), and what of all this serial decode holds after one run of ids *)
(* and then another.  Upto is a recursive function; the lemmas follow it   *)
(* position by position with the least-element principle of NumberFacts.   *)
(* Then the inductive invariant, and the properties that follow from it.   *)
(***************************************************************************)
EXTENDS SessionInv, NumberFacts, SequenceTheorems, FiniteSetTheorems

(***************************************************************************)
(* What a pass consumes.                                                   *)
(***************************************************************************)
UptoOf(depth, p, ids, g) ==
  g = [n \in 0 .. Len(ids) |->
         IF n = 0 THEN <<>> ELSE Consume(depth, p, g[n - 1], ids[n])]

LEMMA UptoExists ==
  ASSUME NEW depth, NEW p, NEW ids \in Seq(Id)
  PROVE  UptoOf(depth, p, ids, Upto(depth, p, ids))
  <1> DEFINE Step(h, m) == Consume(depth, p, h[m - 1], ids[m])
             Good(m, h) == h = [n \in 0 .. m |-> IF n = 0 THEN <<>> ELSE Step(h, n)]
             G == {m \in Nat : \E h : Good(m, h)}
  <1>1. Len(ids) \in Nat
    OBVIOUS
  <1>2. 0 \in G
    <2> DEFINE g == [n \in 0 .. 0 |-> <<>>]
    <2>1. Good(0, g)
      OBVIOUS
    <2>2. QED
      BY <2>1
  <1>3. ASSUME NEW m \in Nat, m \in G
        PROVE  m + 1 \in G
    <2>1. PICK h : Good(m, h)
      BY <1>3
    <2> DEFINE g == [n \in 0 .. m + 1 |-> IF n = m + 1 THEN Step(h, m + 1) ELSE h[n]]
    <2>2. ASSUME NEW n \in 0 .. m + 1
          PROVE  g[n] = IF n = 0 THEN <<>> ELSE Step(g, n)
      <3>1. CASE n = m + 1
        <4>1. g[n - 1] = h[n - 1]
          BY <3>1
        <4>2. QED
          BY <3>1, <4>1
      <3>2. CASE n # m + 1
        <4>1. n \in 0 .. m /\ g[n] = h[n]
          BY <3>2
        <4>2. h[n] = IF n = 0 THEN <<>> ELSE Step(h, n)
          BY <2>1, <4>1
        <4>3. n # 0 => g[n - 1] = h[n - 1]
          BY <3>2
        <4>4. QED
          BY <4>1, <4>2, <4>3
      <3>3. QED
        BY <3>1, <3>2
    <2>3. DOMAIN g = 0 .. m + 1 /\ g = [n \in 0 .. m + 1 |-> g[n]]
      OBVIOUS
    <2> HIDE DEF g, Step
    <2>4. Good(m + 1, g)
      BY <2>2, <2>3
    <2>5. QED
      BY <2>4
  <1>4. Len(ids) \in G
    <2> HIDE DEF G
    <2>1. \A n \in 0 .. Len(ids) : n \in G
      BY <1>1, <1>2, <1>3, Upwards
    <2>2. QED
      BY <1>1, <2>1
  <1>5. \E h : UptoOf(depth, p, ids, h)
    BY <1>4 DEF UptoOf
  <1>6. QED
    BY <1>5, Zenon DEF Upto, UptoOf

LEMMA UptoSteps ==
  ASSUME NEW depth, NEW p, NEW ids \in Seq(Id)
  PROVE  /\ Upto(depth, p, ids)[0] = <<>>
         /\ \A n \in 1 .. Len(ids) :
              Upto(depth, p, ids)[n] = Consume(depth, p, Upto(depth, p, ids)[n - 1], ids[n])
  <1> DEFINE g == Upto(depth, p, ids)
  <1>1. UptoOf(depth, p, ids, g)
    BY UptoExists
  <1> HIDE DEF g
  <1>2. Len(ids) \in Nat
    OBVIOUS
  <1>3. g[0] = <<>> /\ \A n \in 1 .. Len(ids) : g[n] = Consume(depth, p, g[n - 1], ids[n])
    BY <1>1, <1>2 DEF UptoOf
  <1>4. QED
    BY <1>3 DEF g

LEMMA ConsumeType ==
  ASSUME NEW depth, NEW p, NEW fed \in Seq(Id), NEW x \in Id
  PROVE  /\ Consume(depth, p, fed, x) \in Seq(Id)
         /\ depth[x] >= p => Len(Consume(depth, p, fed, x)) = Len(fed) + 1
         /\ ~(depth[x] >= p) => Len(Consume(depth, p, fed, x)) = Len(fed)
         /\ Len(Consume(depth, p, fed, x)) \in Len(fed) .. Len(fed) + 1
  BY AppendProperties DEF Consume

LEMMA UptoType ==
  ASSUME NEW depth, NEW p, NEW ids \in Seq(Id)
  PROVE  \A n \in 0 .. Len(ids) :
           Upto(depth, p, ids)[n] \in Seq(Id) /\ Len(Upto(depth, p, ids)[n]) <= n
  <1> DEFINE g == Upto(depth, p, ids)
             G == {n \in 0 .. Len(ids) : g[n] \in Seq(Id) /\ Len(g[n]) <= n}
  <1>1. /\ g[0] = <<>>
        /\ \A n \in 1 .. Len(ids) : g[n] = Consume(depth, p, g[n - 1], ids[n])
    BY UptoSteps
  <1> HIDE DEF g
  <1>2. Len(ids) \in Nat /\ \A n \in 1 .. Len(ids) : ids[n] \in Id
    OBVIOUS
  <1>3. 0 \in G
    <2>1. g[0] = <<>>
      BY <1>1
    <2>2. g[0] \in Seq(Id) /\ Len(g[0]) = 0
      BY <2>1, EmptySeq
    <2>3. QED
      BY <1>2, <2>2
  <1>4. ASSUME NEW n \in 0 .. Len(ids) - 1, n \in G
        PROVE  n + 1 \in G
    <2>1. /\ g[n] \in Seq(Id) /\ Len(g[n]) <= n /\ Len(g[n]) \in Nat
          /\ n + 1 \in 1 .. Len(ids) /\ (n + 1) - 1 = n /\ ids[n + 1] \in Id
      BY <1>2, <1>4
    <2>2. g[n + 1] = Consume(depth, p, g[n], ids[n + 1])
      BY <1>1, <2>1
    <2>3. Consume(depth, p, g[n], ids[n + 1]) \in Seq(Id)
      BY <2>1, ConsumeType, Zenon
    <2>4. Len(Consume(depth, p, g[n], ids[n + 1])) \in Len(g[n]) .. Len(g[n]) + 1
      BY <2>1, ConsumeType, Zenon
    <2>5. QED
      BY <2>1, <2>2, <2>3, <2>4
  <1>5. \A n \in 0 .. Len(ids) : n \in G
    <2> HIDE DEF G
    <2>1. QED
      BY <1>2, <1>3, <1>4, Upwards
  <1>6. QED
    BY <1>5 DEF g

(* It depends on the ids read so far only, and goes on from there.         *)
LEMMA UptoSame ==
  ASSUME NEW depth, NEW p, NEW s \in Seq(Id), NEW t \in Seq(Id), NEW m \in Nat,
         m <= Len(s), m <= Len(t), \A i \in 1 .. m : s[i] = t[i]
  PROVE  Upto(depth, p, s)[m] = Upto(depth, p, t)[m]
  <1> DEFINE f == Upto(depth, p, s)
             g == Upto(depth, p, t)
             G == {n \in 0 .. m : f[n] = g[n]}
  <1>1. Len(s) \in Nat /\ Len(t) \in Nat
    OBVIOUS
  <1>2. /\ f[0] = <<>> /\ g[0] = <<>>
        /\ \A n \in 1 .. Len(s) : f[n] = Consume(depth, p, f[n - 1], s[n])
        /\ \A n \in 1 .. Len(t) : g[n] = Consume(depth, p, g[n - 1], t[n])
    BY UptoSteps
  <1> HIDE DEF f, g
  <1>3. 0 \in G
    BY <1>2
  <1>4. ASSUME NEW n \in 0 .. m - 1, n \in G
        PROVE  n + 1 \in G
    <2>1. f[n] = g[n] /\ n + 1 \in 1 .. Len(s) /\ n + 1 \in 1 .. Len(t) /\ s[n + 1] = t[n + 1]
          /\ (n + 1) - 1 = n
      BY <1>1, <1>4
    <2>2. f[n + 1] = g[n + 1]
      BY <1>2, <2>1
    <2>3. QED
      BY <2>2
  <1>5. \A n \in 0 .. m : n \in G
    <2> HIDE DEF G
    <2>1. QED
      BY <1>3, <1>4, Upwards
  <1>6. QED
    BY <1>5 DEF f, g

LEMMA ConcatConsume ==
  ASSUME NEW depth, NEW p, NEW s \in Seq(Id), NEW t \in Seq(Id), NEW x \in Id
  PROVE  Consume(depth, p, s \o t, x) = s \o Consume(depth, p, t, x)
  <1>1. s \o t \in Seq(Id) /\ <<x>> \in Seq(Id)
    BY ConcatProperties
  <1>2. Append(s \o t, x) = (s \o t) \o <<x>> /\ Append(t, x) = t \o <<x>>
    BY <1>1, AppendIsConcat
  <1>3. Append(s \o t, x) = s \o Append(t, x)
    BY <1>1, <1>2, ConcatAssociative
  <1>4. QED
    BY <1>3 DEF Consume

LEMMA UptoConcat ==
  ASSUME NEW depth, NEW p, NEW s \in Seq(Id), NEW t \in Seq(Id)
  PROVE  \A n \in 0 .. Len(t) :
           Upto(depth, p, s \o t)[Len(s) + n] =
             Upto(depth, p, s)[Len(s)] \o Upto(depth, p, t)[n]
  <1> DEFINE f == Upto(depth, p, s)[Len(s)]
             g == Upto(depth, p, t)
             u == s \o t
             h == Upto(depth, p, u)
             G == {n \in 0 .. Len(t) : h[Len(s) + n] = f \o g[n]}
  <1>1. /\ Len(s) \in Nat /\ Len(t) \in Nat
        /\ Len(u) = Len(s) + Len(t)
        /\ \A i \in 1 .. Len(s) : u[i] = s[i]
        /\ \A i \in 1 .. Len(t) : u[Len(s) + i] = t[i] /\ t[i] \in Id
    OBVIOUS
  <1>2. u \in Seq(Id)
    OBVIOUS
  <1> HIDE DEF u
  <1>3. /\ g[0] = <<>>
        /\ \A n \in 1 .. Len(t) : g[n] = Consume(depth, p, g[n - 1], t[n])
    BY UptoSteps
  <1>4. \A n \in 1 .. Len(u) : h[n] = Consume(depth, p, h[n - 1], u[n])
    BY <1>2, UptoSteps, Zenon
  <1>5. f \in Seq(Id)
    <2>1. Len(s) \in 0 .. Len(s)
      BY <1>1
    <2>2. QED
      BY <2>1, UptoType, Zenon
  <1>6. \A n \in 0 .. Len(t) : g[n] \in Seq(Id)
    BY UptoType
  <1>7. h[Len(s)] = f
    <2>1. PICK z \in Seq(Id) : z = u
      BY <1>2, Zenon
    <2>2. PICK m \in Nat : m = Len(s)
      BY <1>1, Zenon
    <2>3. m <= Len(z) /\ m <= Len(s) /\ \A i \in 1 .. m : z[i] = s[i]
      BY <1>1, <2>1, <2>2
    <2>4. Upto(depth, p, z)[m] = Upto(depth, p, s)[m]
      BY <2>3, UptoSame
    <2>5. QED
      BY <2>1, <2>2, <2>4, Zenon
  <1> HIDE DEF f, g, h
  <1>8. 0 \in G
    <2>1. f \o <<>> = f
      BY <1>5, ConcatEmptySeq
    <2>2. h[Len(s)] = f \o g[0]
      BY <1>3, <1>7, <2>1
    <2>3. Len(s) + 0 = Len(s) /\ 0 \in 0 .. Len(t)
      BY <1>1
    <2>4. QED
      BY <2>2, <2>3
  <1>9. ASSUME NEW n \in 0 .. Len(t) - 1, n \in G
        PROVE  n + 1 \in G
    <2>1. /\ n + 1 \in 1 .. Len(t) /\ (n + 1) - 1 = n
          /\ Len(s) + (n + 1) \in 1 .. Len(u) /\ Len(s) + (n + 1) - 1 = Len(s) + n
          /\ u[Len(s) + (n + 1)] = t[n + 1] /\ t[n + 1] \in Id
          /\ n \in 0 .. Len(t) /\ n + 1 \in 0 .. Len(t)
      BY <1>1
    <2>2. h[Len(s) + n] = f \o g[n] /\ g[n] \in Seq(Id)
      BY <1>6, <1>9, <2>1
    <2>3. h[Len(s) + (n + 1)] = Consume(depth, p, f \o g[n], t[n + 1])
      <3>1. h[Len(s) + (n + 1)] = Consume(depth, p, h[Len(s) + (n + 1) - 1], u[Len(s) + (n + 1)])
        BY <1>4, <2>1
      <3>2. QED
        BY <2>1, <2>2, <3>1, Zenon
    <2>4. g[n + 1] = Consume(depth, p, g[n], t[n + 1])
      BY <1>3, <2>1, Zenon
    <2>5. h[Len(s) + (n + 1)] = f \o g[n + 1]
      <3>1. Consume(depth, p, f \o g[n], t[n + 1]) = f \o Consume(depth, p, g[n], t[n + 1])
        BY <1>5, <2>1, <2>2, ConcatConsume, ZenonT(40)
      <3>2. QED
        BY <2>3, <2>4, <3>1, Zenon
    <2>6. QED
      BY <2>1, <2>5
  <1>10. \A n \in 0 .. Len(t) : n \in G
    <2> HIDE DEF G
    <2>1. QED
      BY <1>1, <1>8, <1>9, Upwards
  <1>11. QED
    BY <1>10 DEF f, g, h, u

LEMMA Reached ==
  ASSUME NEW depth, NEW p, NEW ids \in Seq(Id)
  PROVE  /\ Reach(depth, p, ids) \in Seq(Id)
         /\ Len(Reach(depth, p, ids)) <= Len(ids)
         /\ Reach(depth, p, <<>>) = <<>>
  <1>1. Len(ids) \in 0 .. Len(ids) /\ <<>> \in Seq(Id) /\ Len(<<>>) = 0
    BY EmptySeq
  <1>2. Upto(depth, p, <<>>)[0] = <<>>
    BY <1>1, UptoSteps, Zenon
  <1>3. Upto(depth, p, ids)[Len(ids)] \in Seq(Id) /\ Len(Upto(depth, p, ids)[Len(ids)]) <= Len(ids)
    BY <1>1, UptoType, Zenon
  <1>4. QED
    BY <1>1, <1>2, <1>3, Zenon DEF Reach

LEMMA ReachConcat ==
  ASSUME NEW depth, NEW p, NEW s \in Seq(Id), NEW t \in Seq(Id)
  PROVE  Reach(depth, p, s \o t) = Reach(depth, p, s) \o Reach(depth, p, t)
  <1>1. Len(t) \in 0 .. Len(t) /\ Len(s \o t) = Len(s) + Len(t)
    OBVIOUS
  <1>2. Upto(depth, p, s \o t)[Len(s) + Len(t)] =
          Upto(depth, p, s)[Len(s)] \o Upto(depth, p, t)[Len(t)]
    BY <1>1, UptoConcat, ZenonT(40)
  <1>3. QED
    BY <1>1, <1>2, Zenon DEF Reach

LEMMA ReachStart ==
  ASSUME NEW depth, NEW p, NEW ids \in Seq(Id), NEW n \in 0 .. Len(ids)
  PROVE  /\ SubSeq(ids, 1, n) \in Seq(Id) /\ Len(SubSeq(ids, 1, n)) = n
         /\ \A i \in 1 .. n : SubSeq(ids, 1, n)[i] = ids[i]
         /\ Reach(depth, p, SubSeq(ids, 1, n)) = Upto(depth, p, ids)[n]
  <1> DEFINE s == SubSeq(ids, 1, n)
  <1>1. /\ Len(ids) \in Nat /\ n \in Nat /\ n <= Len(ids)
        /\ s \in Seq(Id) /\ Len(s) = n /\ \A i \in 1 .. n : s[i] = ids[i]
    OBVIOUS
  <1> HIDE DEF s
  <1>2. Upto(depth, p, s)[n] = Upto(depth, p, ids)[n]
    BY <1>1, UptoSame
  <1>3. QED
    BY <1>1, <1>2 DEF s, Reach

(* Every position runs the first pass.                                     *)
LEMMA ReachAll ==
  ASSUME NEW depth \in [Id -> Passes], NEW ids \in Seq(Id)
  PROVE  Reach(depth, 1, ids) = ids
  <1> DEFINE g == Upto(depth, 1, ids)
             G == {n \in 0 .. Len(ids) : Len(g[n]) = n /\ \A i \in 1 .. n : g[n][i] = ids[i]}
  <1>1. g[0] = <<>> /\ \A n \in 1 .. Len(ids) : g[n] = Consume(depth, 1, g[n - 1], ids[n])
    BY UptoSteps
  <1>2. \A n \in 0 .. Len(ids) : g[n] \in Seq(Id)
    BY UptoType
  <1> HIDE DEF g
  <1>3. Len(ids) \in Nat
    OBVIOUS
  <1>4. 0 \in G
    <2>1. g[0] = <<>>
      BY <1>1
    <2>2. Len(g[0]) = 0
      BY <2>1, EmptySeq
    <2>3. QED
      BY <1>3, <2>2
  <1>5. ASSUME NEW n \in 0 .. Len(ids) - 1, n \in G
        PROVE  n + 1 \in G
    <2> DEFINE x == ids[n + 1]
               y == g[n]
    <2>1. /\ n + 1 \in 1 .. Len(ids) /\ (n + 1) - 1 = n /\ n \in 0 .. Len(ids)
          /\ x \in Id /\ depth[x] >= 1
      BY <1>3 DEF Passes
    <2>2. g[n + 1] = Consume(depth, 1, y, x)
      BY <1>1, <2>1
    <2>3. y \in Seq(Id) /\ Len(y) = n /\ \A i \in 1 .. n : y[i] = ids[i]
      BY <1>2, <1>5, <2>1
    <2>4. n + 1 \in 0 .. Len(ids)
      BY <1>3
    <2>5. \A i \in 1 .. n + 1 : i \in 1 .. n \/ i = n + 1
      OBVIOUS
    <2>6. x = ids[n + 1]
      OBVIOUS
    <2> HIDE DEF x, y
    <2>7. g[n + 1] = Append(y, x)
      BY <2>1, <2>2 DEF Consume
    <2>8. Len(Append(y, x)) = n + 1 /\ \A i \in 1 .. n : Append(y, x)[i] = y[i]
          /\ Append(y, x)[n + 1] = x
      BY <2>1, <2>3, AppendProperties
    <2>9. \A i \in 1 .. n + 1 : g[n + 1][i] = ids[i]
      BY <2>3, <2>5, <2>6, <2>7, <2>8
    <2>10. QED
      BY <2>4, <2>7, <2>8, <2>9
  <1>6. \A n \in 0 .. Len(ids) : n \in G
    <2> HIDE DEF G
    <2>1. QED
      BY <1>3, <1>4, <1>5, Upwards
  <1>7. Len(g[Len(ids)]) = Len(ids) /\ \A i \in 1 .. Len(ids) : g[Len(ids)][i] = ids[i]
    BY <1>3, <1>6
  <1>8. g[Len(ids)] = ids
    <2> DEFINE y == g[Len(ids)]
    <2>1. y \in Seq(Id) /\ Len(y) = Len(ids) /\ \A i \in 1 .. Len(y) : y[i] = ids[i]
      BY <1>2, <1>3, <1>7
    <2> HIDE DEF y
    <2>2. y = ids
      BY <2>1, SeqEqual
    <2>3. QED
      BY <2>2 DEF y
  <1>9. QED
    BY <1>8 DEF g, Reach

(* What spec_commit counts: the positions of a sweep that reach a pass.    *)
LEMMA ReachCount ==
  ASSUME NEW depth \in [Id -> Passes], NEW p \in Passes, NEW ids \in Seq(Id)
  PROVE  \A n \in 0 .. Len(ids) :
           Len(Upto(depth, p, ids)[n]) = Cardinality({i \in 1 .. n : depth[ids[i]] >= p})
  <1> DEFINE g == Upto(depth, p, ids)
             At(n) == {i \in 1 .. n : depth[ids[i]] >= p}
             G == {n \in 0 .. Len(ids) : IsFiniteSet(At(n)) /\ Len(g[n]) = Cardinality(At(n))}
  <1>1. g[0] = <<>> /\ \A n \in 1 .. Len(ids) : g[n] = Consume(depth, p, g[n - 1], ids[n])
    BY UptoSteps
  <1>2. \A n \in 0 .. Len(ids) : g[n] \in Seq(Id)
    BY UptoType
  <1> HIDE DEF g
  <1>3. Len(ids) \in Nat
    OBVIOUS
  <1>4. 0 \in G
    <2>1. g[0] = <<>> /\ At(0) = {}
      BY <1>1
    <2>2. Len(g[0]) = 0 /\ IsFiniteSet(At(0)) /\ Cardinality(At(0)) = 0
      BY <2>1, EmptySeq, FS_EmptySet
    <2>3. QED
      BY <1>3, <2>2
  <1>5. ASSUME NEW n \in 0 .. Len(ids) - 1, n \in G
        PROVE  n + 1 \in G
    <2> DEFINE x == ids[n + 1]
               y == g[n]
    <2>1. /\ n + 1 \in 1 .. Len(ids) /\ (n + 1) - 1 = n /\ n \in 0 .. Len(ids)
          /\ n + 1 \in 0 .. Len(ids) /\ x \in Id
      BY <1>3
    <2>2. g[n + 1] = Consume(depth, p, y, x)
      BY <1>1, <2>1
    <2>3. y \in Seq(Id) /\ IsFiniteSet(At(n)) /\ Len(y) = Cardinality(At(n))
      BY <1>2, <1>5, <2>1
    <2>4. depth[x] >= p => At(n + 1) = At(n) \cup {n + 1} /\ n + 1 \notin At(n)
      OBVIOUS
    <2>5. ~(depth[x] >= p) => At(n + 1) = At(n)
      OBVIOUS
    <2> HIDE DEF x, y, At
    <2>6. IsFiniteSet(At(n + 1)) /\ Cardinality(At(n + 1)) =
            Cardinality(At(n)) + (IF depth[x] >= p THEN 1 ELSE 0)
      <3>1. Cardinality(At(n)) \in Nat
        BY <2>3, FS_CardinalityType
      <3>2. QED
        BY <2>3, <2>4, <2>5, <3>1, FS_AddElement
    <2>7. Len(Consume(depth, p, y, x)) = Len(y) + (IF depth[x] >= p THEN 1 ELSE 0)
      <3>1. Len(y) \in Nat
        BY <2>3
      <3>2. QED
        BY <2>1, <2>3, <3>1, ConsumeType
    <2>8. QED
      BY <2>1, <2>2, <2>3, <2>6, <2>7
  <1>6. \A n \in 0 .. Len(ids) : n \in G
    <2> HIDE DEF G
    <2>1. QED
      BY <1>3, <1>4, <1>5, Upwards
  <1>7. QED
    BY <1>6 DEF g

-----------------------------------------------------------------------------
(***************************************************************************)
(* Sequences: cutting, prefixes, writing over.                             *)
(***************************************************************************)
LEMMA Cut ==
  ASSUME NEW S, NEW s \in Seq(S), NEW m \in 1 .. Len(s) + 1, NEW n \in 0 .. Len(s), m <= n + 1
  PROVE  /\ SubSeq(s, m, n) \in Seq(S) /\ Len(SubSeq(s, m, n)) = n - m + 1
         /\ \A i \in 1 .. n - m + 1 : SubSeq(s, m, n)[i] = s[m + i - 1]
  <1>1. Len(s) \in Nat /\ m \in Int /\ n \in Int
    OBVIOUS
  <1>2. \A i \in m .. n : i \in 1 .. Len(s)
    BY <1>1
  <1>3. \A i \in m .. n : s[i] \in S
    BY <1>2, ElementOfSeq
  <1>4. /\ SubSeq(s, m, n) \in Seq(S)
        /\ Len(SubSeq(s, m, n)) = IF m <= n THEN n - m + 1 ELSE 0
        /\ \A i \in 1 .. n - m + 1 : SubSeq(s, m, n)[i] = s[m + i - 1]
    BY <1>1, <1>3, SubSeqProperties
  <1>5. QED
    BY <1>1, <1>4

LEMMA CutConcat ==
  ASSUME NEW S, NEW s \in Seq(S), NEW m \in 0 .. Len(s), NEW n \in m .. Len(s)
  PROVE  SubSeq(s, 1, m) \o SubSeq(s, m + 1, n) = SubSeq(s, 1, n)
  <1>1. Len(s) \in Nat /\ 1 \in 1 .. Len(s) + 1 /\ m \in 1 - 1 .. Len(s)
    OBVIOUS
  <1>2. QED
    BY <1>1, ConcatAdjacentSubSeq

LEMMA PrefixIff ==
  ASSUME NEW S, NEW s \in Seq(S), NEW t \in Seq(S)
  PROVE  IsPrefix(s, t) <=> Len(s) <= Len(t) /\ \A i \in 1 .. Len(s) : s[i] = t[i]
  <1>1. Len(s) \in Nat /\ Len(t) \in Nat
    OBVIOUS
  <1>2. SubSeq(s, 1, Len(s)) = s
    BY SubSeqFull
  <1>3. SUFFICES ASSUME Len(s) <= Len(t)
                 PROVE  s = SubSeq(t, 1, Len(s)) <=> \A i \in 1 .. Len(s) : s[i] = t[i]
    BY <1>2 DEF IsPrefix
  <1> DEFINE u == SubSeq(t, 1, Len(s))
  <1>4. u \in Seq(S) /\ Len(u) = Len(s) /\ \A i \in 1 .. Len(s) : u[i] = t[i]
    <2>1. 1 \in 1 .. Len(t) + 1 /\ Len(s) \in 0 .. Len(t) /\ 1 <= Len(s) + 1
      BY <1>1, <1>3
    <2>2. /\ u \in Seq(S) /\ Len(u) = Len(s) - 1 + 1
          /\ \A i \in 1 .. Len(s) - 1 + 1 : u[i] = t[1 + i - 1]
      BY <2>1, Cut, Zenon
    <2> HIDE DEF u
    <2>3. QED
      BY <1>1, <2>2
  <1> HIDE DEF u
  <1>5. s = u <=> \A i \in 1 .. Len(s) : s[i] = t[i]
    BY <1>4, SeqEqual
  <1>6. QED
    BY <1>5 DEF u

LEMMA CutFirst ==
  ASSUME NEW S, NEW s \in Seq(S), NEW n \in 0 .. Len(s)
  PROVE  /\ SubSeq(s, 1, n) \in Seq(S) /\ Len(SubSeq(s, 1, n)) = n
         /\ \A i \in 1 .. n : SubSeq(s, 1, n)[i] = s[i]
  <1>1. Len(s) \in Nat /\ 1 \in 1 .. Len(s) + 1 /\ 1 <= n + 1 /\ n - 1 + 1 = n
    OBVIOUS
  <1>2. \A i \in 1 .. n : 1 + i - 1 = i
    OBVIOUS
  <1>3. QED
    BY <1>1, <1>2, Cut

(* Ids written over a buffer from some row on.                             *)
LEMMA OverType ==
  ASSUME NEW S, NEW r \in Seq(S), NEW x \in Seq(S), NEW at \in Nat
  PROVE  /\ Over(r, at, x) \in Seq(S) /\ Len(Over(r, at, x)) = Len(r)
         /\ \A i \in 1 .. Len(r) : Over(r, at, x)[i] =
              IF i > at /\ i - at <= Len(x) THEN x[i - at] ELSE r[i]
  <1> DEFINE o == Over(r, at, x)
  <1>1. Len(r) \in Nat /\ Len(x) \in Nat /\ DOMAIN r = 1 .. Len(r)
    OBVIOUS
  <1>2. o = [i \in 1 .. Len(r) |-> IF i > at /\ i - at <= Len(x) THEN x[i - at] ELSE r[i]]
    BY <1>1 DEF Over
  <1>3. \A i \in 1 .. Len(r) : (IF i > at /\ i - at <= Len(x) THEN x[i - at] ELSE r[i]) \in S
    <2>1. ASSUME NEW i \in 1 .. Len(r)
          PROVE  (IF i > at /\ i - at <= Len(x) THEN x[i - at] ELSE r[i]) \in S
      <3>1. r[i] \in S
        BY ElementOfSeq
      <3>2. i > at /\ i - at <= Len(x) => i - at \in 1 .. Len(x)
        BY <1>1
      <3>3. i > at /\ i - at <= Len(x) => x[i - at] \in S
        BY <3>2, ElementOfSeq
      <3>4. QED
        BY <3>1, <3>3
    <2>2. QED
      BY <2>1
  <1> HIDE DEF o
  <1>4. o \in [1 .. Len(r) -> S]
    BY <1>2, <1>3
  <1>5. o \in Seq(S) /\ Len(o) = Len(r)
    BY <1>1, <1>4
  <1>6. QED
    BY <1>2, <1>5 DEF o

LEMMA BlankType ==
  ASSUME NEW S, NoId \in S, NEW n \in Nat
  PROVE  Blank(n) \in Seq(S) /\ Len(Blank(n)) = n /\ \A i \in 1 .. n : Blank(n)[i] = NoId
  BY DEF Blank

(* Writing twice in a row is writing once.                                 *)
LEMMA OverTwice ==
  ASSUME NEW S, NEW r \in Seq(S), NEW x \in Seq(S), NEW y \in Seq(S)
  PROVE  Over(Over(r, 0, x), Len(x), y) = Over(r, 0, x \o y)
  <1> DEFINE a == Over(r, 0, x)
             b == Over(a, Len(x), y)
             z == x \o y
             c == Over(r, 0, z)
  <1>1. Len(r) \in Nat /\ Len(x) \in Nat /\ Len(y) \in Nat
    OBVIOUS
  <1>2. z \in Seq(S) /\ Len(z) = Len(x) + Len(y)
        /\ \A i \in 1 .. Len(x) + Len(y) : z[i] = IF i <= Len(x) THEN x[i] ELSE y[i - Len(x)]
    BY ConcatProperties
  <1> HIDE DEF z
  <1>3. a \in Seq(S) /\ Len(a) = Len(r)
        /\ \A i \in 1 .. Len(r) : a[i] = IF i > 0 /\ i - 0 <= Len(x) THEN x[i - 0] ELSE r[i]
    BY OverType
  <1> HIDE DEF a
  <1>4. b \in Seq(S) /\ Len(b) = Len(r)
        /\ \A i \in 1 .. Len(r) :
             b[i] = IF i > Len(x) /\ i - Len(x) <= Len(y) THEN y[i - Len(x)] ELSE a[i]
    BY <1>1, <1>3, OverType
  <1>5. c \in Seq(S) /\ Len(c) = Len(r)
        /\ \A i \in 1 .. Len(r) : c[i] = IF i > 0 /\ i - 0 <= Len(z) THEN z[i - 0] ELSE r[i]
    BY <1>2, OverType
  <1> HIDE DEF b, c
  <1>6. ASSUME NEW i \in 1 .. Len(r)
        PROVE  b[i] = c[i]
    <2>1. i - 0 = i /\ i > 0
      OBVIOUS
    <2>2. CASE i <= Len(x)
      BY <1>1, <1>2, <1>3, <1>4, <1>5, <2>1, <2>2
    <2>3. CASE i > Len(x) /\ i - Len(x) <= Len(y)
      <3>1. b[i] = y[i - Len(x)]
        BY <1>4, <2>3
      <3>2. i <= Len(z) /\ i \in 1 .. Len(x) + Len(y) /\ ~(i <= Len(x))
        BY <1>1, <1>2, <2>3
      <3>3. c[i] = z[i] /\ z[i] = y[i - Len(x)]
        BY <1>2, <1>5, <2>1, <3>2
      <3>4. QED
        BY <3>1, <3>3
    <2>4. CASE i > Len(x) /\ i - Len(x) > Len(y)
      <3>1. ~(i - Len(x) <= Len(y)) /\ ~(i <= Len(x)) /\ ~(i - 0 <= Len(z))
        BY <1>1, <1>2, <2>4
      <3>2. b[i] = a[i] /\ a[i] = r[i]
        BY <1>3, <1>4, <2>1, <3>1
      <3>3. c[i] = r[i]
        BY <1>5, <3>1
      <3>4. QED
        BY <3>2, <3>3
    <2>5. QED
      BY <1>1, <2>2, <2>3, <2>4
  <1>7. b = c
    BY <1>1, <1>4, <1>5, <1>6, SeqEqual
  <1>8. QED
    BY <1>7 DEF a, b, c, z

(* A prefix stays when something is written behind it, and grows by it.    *)
LEMMA OverBehind ==
  ASSUME NEW S, NEW r \in Seq(S), NEW x \in Seq(S), NEW y \in Seq(S),
         IsPrefix(x, r), Len(x) + Len(y) <= Len(r)
  PROVE  IsPrefix(x \o y, Over(r, Len(x), y))
  <1> DEFINE z == x \o y
             b == Over(r, Len(x), y)
  <1>1. Len(r) \in Nat /\ Len(x) \in Nat /\ Len(y) \in Nat
    OBVIOUS
  <1>2. z \in Seq(S) /\ Len(z) = Len(x) + Len(y)
        /\ \A i \in 1 .. Len(x) + Len(y) : z[i] = IF i <= Len(x) THEN x[i] ELSE y[i - Len(x)]
    BY ConcatProperties
  <1>3. b \in Seq(S) /\ Len(b) = Len(r)
        /\ \A i \in 1 .. Len(r) :
             b[i] = IF i > Len(x) /\ i - Len(x) <= Len(y) THEN y[i - Len(x)] ELSE r[i]
    BY <1>1, OverType
  <1>4. \A i \in 1 .. Len(x) : x[i] = r[i]
    BY PrefixIff
  <1> HIDE DEF z, b
  <1>5. \A i \in 1 .. Len(z) : z[i] = b[i]
    BY <1>1, <1>2, <1>3, <1>4
  <1>6. IsPrefix(z, b)
    BY <1>1, <1>2, <1>3, <1>5, PrefixIff
  <1>7. QED
    BY <1>6 DEF z, b

LEMMA PrefixConcat ==
  ASSUME NEW S, NEW x \in Seq(S), NEW y \in Seq(S), NEW r \in Seq(S), IsPrefix(x \o y, r)
  PROVE  IsPrefix(x, r)
  <1> DEFINE z == x \o y
  <1>1. z \in Seq(S) /\ Len(z) = Len(x) + Len(y)
        /\ \A i \in 1 .. Len(x) + Len(y) : z[i] = IF i <= Len(x) THEN x[i] ELSE y[i - Len(x)]
    BY ConcatProperties
  <1>2. IsPrefix(z, r)
    OBVIOUS
  <1> HIDE DEF z
  <1>3. Len(z) <= Len(r) /\ \A i \in 1 .. Len(z) : z[i] = r[i]
    BY <1>1, <1>2, PrefixIff
  <1>4. Len(x) \in Nat /\ Len(y) \in Nat /\ Len(r) \in Nat
    OBVIOUS
  <1>5. Len(x) <= Len(r) /\ \A i \in 1 .. Len(x) : x[i] = r[i]
    BY <1>1, <1>3, <1>4
  <1>6. QED
    BY <1>5, PrefixIff

LEMMA PrefixCut ==
  ASSUME NEW S, NEW x \in Seq(S), NEW r \in Seq(S), IsPrefix(x, r), NEW n \in 0 .. Len(x)
  PROVE  SubSeq(r, 1, n) = SubSeq(x, 1, n)
  <1>1. Len(x) \in Nat /\ Len(r) \in Nat /\ Len(x) <= Len(r) /\ \A i \in 1 .. Len(x) : x[i] = r[i]
    BY PrefixIff
  <1>2. n \in 0 .. Len(r) /\ n \in Nat /\ \A i \in 1 .. n : i \in 1 .. Len(x)
    BY <1>1
  <1> DEFINE a == SubSeq(r, 1, n)
             b == SubSeq(x, 1, n)
  <1>3. a \in Seq(S) /\ Len(a) = n /\ \A i \in 1 .. n : a[i] = r[i]
    BY <1>2, CutFirst
  <1>4. b \in Seq(S) /\ Len(b) = n /\ \A i \in 1 .. n : b[i] = x[i]
    BY CutFirst
  <1> HIDE DEF a, b
  <1>5. \A i \in 1 .. n : a[i] = b[i]
    BY <1>1, <1>2, <1>3, <1>4
  <1>6. a = b
    BY <1>3, <1>4, <1>5, SeqEqual
  <1>7. QED
    BY <1>6 DEF a, b
-----------------------------------------------------------------------------
(***************************************************************************)
(* What a layer carries: fed twice is fed once.                            *)
(***************************************************************************)
Convs == [1 .. Hist -> Cell]

LEMMA ConvTwice ==
  ASSUME NEW conv \in Convs, NEW xs \in Seq(Id), NEW ys \in Seq(Id)
  PROVE  /\ ConvAfter(conv, xs, Len(xs)) \in Convs
         /\ ConvAfter(ConvAfter(conv, xs, Len(xs)), ys, Len(ys)) =
              ConvAfter(conv, xs \o ys, Len(xs \o ys))
  <1> DEFINE n == Len(xs)
             m == Len(ys)
             z == xs \o ys
             c == ConvAfter(conv, xs, n)
             e == ConvAfter(c, ys, m)
             f == ConvAfter(conv, z, Len(z))
  <1>1. n \in Nat /\ m \in Nat /\ Hist \in Nat
    BY SessionAssumption
  <1>2. z \in Seq(Id) /\ Len(z) = n + m
        /\ \A i \in 1 .. n + m : z[i] = IF i <= n THEN xs[i] ELSE ys[i - n]
    BY ConcatProperties
  <1>3. \A i \in 1 .. n : xs[i] \in Cell
    BY ElementOfSeq DEF Cell
  <1> HIDE DEF n, m, z
  <1>4. c = [j \in 1 .. Hist |-> IF n + j <= Hist THEN conv[n + j] ELSE xs[n + j - Hist]]
    BY DEF ConvAfter
  <1>5. e = [j \in 1 .. Hist |-> IF m + j <= Hist THEN c[m + j] ELSE ys[m + j - Hist]]
    BY DEF ConvAfter
  <1>6. f = [j \in 1 .. Hist |-> IF Len(z) + j <= Hist THEN conv[Len(z) + j] ELSE z[Len(z) + j - Hist]]
    BY DEF ConvAfter
  <1> HIDE DEF c, e, f
  <1>7. \A j \in 1 .. Hist : n + j <= Hist => n + j \in 1 .. Hist
    BY <1>1
  <1>8. \A j \in 1 .. Hist : ~(n + j <= Hist) => n + j - Hist \in 1 .. n
    BY <1>1
  <1>9. c \in Convs
    BY <1>3, <1>4, <1>7, <1>8 DEF Convs
  <1>10. ASSUME NEW j \in 1 .. Hist
         PROVE  e[j] = f[j]
    <2>1. CASE n + m + j <= Hist
      <3>1. m + j <= Hist /\ m + j \in 1 .. Hist /\ n + (m + j) <= Hist /\ n + (m + j) = Len(z) + j
        BY <1>1, <1>2, <2>1
      <3>2. e[j] = c[m + j] /\ c[m + j] = conv[n + (m + j)] /\ f[j] = conv[Len(z) + j]
        BY <1>4, <1>5, <1>6, <3>1
      <3>3. QED
        BY <3>1, <3>2
    <2>2. CASE ~(n + m + j <= Hist) /\ m + j <= Hist
      <3>1. /\ m + j \in 1 .. Hist /\ ~(n + (m + j) <= Hist) /\ ~(Len(z) + j <= Hist)
            /\ n + (m + j) - Hist = Len(z) + j - Hist /\ Len(z) + j - Hist \in 1 .. n + m
            /\ Len(z) + j - Hist <= n
        BY <1>1, <1>2, <2>2
      <3>2. e[j] = c[m + j] /\ c[m + j] = xs[n + (m + j) - Hist] /\ f[j] = z[Len(z) + j - Hist]
        BY <1>4, <1>5, <1>6, <2>2, <3>1
      <3>3. z[Len(z) + j - Hist] = xs[Len(z) + j - Hist]
        BY <1>2, <3>1
      <3>4. QED
        BY <3>1, <3>2, <3>3
    <2>3. CASE ~(m + j <= Hist)
      <3>1. /\ ~(Len(z) + j <= Hist) /\ Len(z) + j - Hist \in 1 .. n + m
            /\ ~(Len(z) + j - Hist <= n) /\ Len(z) + j - Hist - n = m + j - Hist
        BY <1>1, <1>2, <2>3
      <3>2. e[j] = ys[m + j - Hist] /\ f[j] = z[Len(z) + j - Hist]
        BY <1>5, <1>6, <2>3, <3>1
      <3>3. z[Len(z) + j - Hist] = ys[Len(z) + j - Hist - n]
        <4>1. PICK k \in 1 .. n + m : k = Len(z) + j - Hist
          BY <3>1
        <4>2. ~(k <= n)
          BY <3>1, <4>1
        <4>3. z[k] = ys[k - n]
          BY <1>2, <4>2
        <4>4. k - n = Len(z) + j - Hist - n
          BY <1>1, <1>2, <4>1
        <4>5. QED
          BY <4>1, <4>3, <4>4
      <3>4. QED
        BY <3>1, <3>2, <3>3
    <2>4. QED
      BY <1>1, <2>1, <2>2, <2>3
  <1>11. e = f
    BY <1>5, <1>6, <1>10
  <1>12. QED
    BY <1>9, <1>11 DEF n, m, z, c, e, f

LayerStates == [fed : Seq(Id), conv : Convs]

LEMMA ZeroIsState == ZeroState \in LayerStates /\ ZeroState.fed = <<>>
  <1>1. [j \in 1 .. Hist |-> NoId] \in Convs
    BY DEF Convs, Cell
  <1>2. QED
    BY <1>1, EmptySeq DEF ZeroState, LayerStates

LEMMA FeedTwice ==
  ASSUME NEW st \in LayerStates, NEW xs \in Seq(Id), NEW ys \in Seq(Id)
  PROVE  /\ Feed(st, xs) \in LayerStates
         /\ Feed(st, xs).fed = st.fed \o xs
         /\ Feed(Feed(st, xs), ys) = Feed(st, xs \o ys)
  <1>1. st.fed \in Seq(Id) /\ st.conv \in Convs
    BY DEF LayerStates
  <1>2. /\ ConvAfter(st.conv, xs, Len(xs)) \in Convs
        /\ ConvAfter(ConvAfter(st.conv, xs, Len(xs)), ys, Len(ys)) =
             ConvAfter(st.conv, xs \o ys, Len(xs \o ys))
    BY <1>1, ConvTwice
  <1>3. st.fed \o xs \in Seq(Id) /\ (st.fed \o xs) \o ys = st.fed \o (xs \o ys)
    <2> DEFINE y == st.fed
    <2>1. y \in Seq(Id)
      BY <1>1
    <2> HIDE DEF y
    <2>2. y \o xs \in Seq(Id) /\ (y \o xs) \o ys = y \o (xs \o ys)
      BY <2>1, ConcatProperties, ConcatAssociative
    <2>3. QED
      BY <2>2 DEF y
  <1> DEFINE f == Feed(st, xs)
  <1>4. f = [fed |-> st.fed \o xs, conv |-> ConvAfter(st.conv, xs, Len(xs))]
    BY DEF Feed
  <1>5. f \in LayerStates /\ f.fed = st.fed \o xs /\ f.conv = ConvAfter(st.conv, xs, Len(xs))
    BY <1>2, <1>3, <1>4 DEF LayerStates
  <1> HIDE DEF f
  <1>6. Feed(f, ys) = [fed |-> f.fed \o ys, conv |-> ConvAfter(f.conv, ys, Len(ys))]
    BY DEF Feed
  <1>7. Feed(st, xs \o ys) = [fed |-> st.fed \o (xs \o ys),
                              conv |-> ConvAfter(st.conv, xs \o ys, Len(xs \o ys))]
    BY DEF Feed
  <1>8. Feed(f, ys) = Feed(st, xs \o ys)
    BY <1>2, <1>3, <1>5, <1>6, <1>7
  <1>9. QED
    BY <1>5, <1>8 DEF f

(* k3_kda_advance by the first n rows of a log that holds xs.              *)
LEMMA AdvanceIsFeed ==
  ASSUME NEW st \in LayerStates, NEW xs \in Seq(Id), NEW r \in Seq(Cell), IsPrefix(xs, r),
         NEW n \in 0 .. Len(xs)
  PROVE  Advance(st, r, n) = Feed(st, SubSeq(xs, 1, n))
  <1>1. xs \in Seq(Cell)
    BY SeqMonotonic DEF Cell
  <1>2. SubSeq(r, 1, n) = SubSeq(xs, 1, n)
    BY <1>1, PrefixCut
  <1>3. QED
    BY <1>2 DEF Advance

LEMMA RecordIsOver ==
  ASSUME NEW r, NEW at, NEW x
  PROVE  Record(r, at, x) = Over(r, at, x)
  BY DEF Record, Over

-----------------------------------------------------------------------------
(***************************************************************************)
(* Serial decode, position by position.                                    *)
(***************************************************************************)
LEMMA Model ==
  ASSUME Constants
  PROVE  /\ world.depth \in [Id -> Passes]
         /\ cmd.chunk \in Nat \ {0} /\ cmd.pause_after \in Nat /\ cmd.ckpt \in BOOLEAN
         /\ cmd.spec_n \in Nat /\ cmd.gen \in Nat /\ cmd.stop \subseteq Id
         /\ cmd.hybrid \in BOOLEAN /\ (cmd.hybrid => cmd.spec_n > 0)
         /\ RMax \in Nat \ {0} /\ 1 \in Passes
  BY SessionAssumption DEF Constants, Passes

LEMMA GreedyType ==
  ASSUME Constants, NEW ctx \in Seq(Id)
  PROVE  Greedy(ctx) \in Id
  <1>1. world.next \in [[1 .. Window -> Id \cup {NoId}] -> Id] /\ Window \in Nat
    BY SessionAssumption DEF Constants
  <1>2. LastIds(ctx) \in [1 .. Window -> Id \cup {NoId}]
    <2>1. ASSUME NEW j \in 1 .. Window, Len(ctx) - Window + j > 0
          PROVE  ctx[Len(ctx) - Window + j] \in Id
      <3>1. Len(ctx) - Window + j \in 1 .. Len(ctx)
        BY <1>1, <2>1
      <3>2. QED
        BY <3>1, ElementOfSeq
    <2>2. QED
      BY <2>1 DEF LastIds
  <1>3. QED
    BY <1>1, <1>2 DEF Greedy

LEMMA Reaches ==
  ASSUME Constants, NEW p \in Passes, NEW ids \in Seq(Id)
  PROVE  /\ Reaching(p, ids) \in Seq(Id) /\ Reaching(p, ids) \in Seq(Cell)
         /\ Len(Reaching(p, ids)) \in 0 .. Len(ids)
         /\ Reaching(p, <<>>) = <<>>
         /\ p = 1 => Reaching(p, ids) = ids
  <1>1. world.depth \in [Id -> Passes]
    BY Model
  <1>2. /\ Reaching(p, ids) \in Seq(Id)
        /\ Len(Reaching(p, ids)) <= Len(ids)
        /\ Reaching(p, <<>>) = <<>>
    BY Reached, Zenon DEF Reaching
  <1>3. Reaching(p, ids) \in Seq(Cell)
    BY <1>2, SeqMonotonic DEF Cell
  <1>4. p = 1 => Reaching(p, ids) = ids
    BY <1>1, ReachAll, Zenon DEF Reaching
  <1>5. Len(Reaching(p, ids)) \in Nat /\ Len(ids) \in Nat
    BY <1>2
  <1>6. QED
    BY <1>2, <1>3, <1>4, <1>5

LEMMA ReachesOn ==
  ASSUME Constants, NEW p \in Passes, NEW s \in Seq(Id), NEW t \in Seq(Id)
  PROVE  Reaching(p, s \o t) = Reaching(p, s) \o Reaching(p, t)
  BY ReachConcat, Zenon DEF Reaching

LEMMA SerialStates ==
  ASSUME Constants, NEW s \in Seq(Id), NEW t \in Seq(Id)
  PROVE  /\ \A p \in Passes : StateAfter(s)[p] \in LayerStates
         /\ StateAfter(s)[1].fed = s
         /\ [p \in Passes |-> Feed(StateAfter(s)[p], Reaching(p, t))] = StateAfter(s \o t)
  <1>1. \A p \in Passes : StateAfter(s)[p] = Feed(ZeroState, Reaching(p, s))
    BY DEF StateAfter
  <1>2. \A p \in Passes : Reaching(p, s) \in Seq(Id) /\ Reaching(p, t) \in Seq(Id)
    BY Reaches
  <1>3. ASSUME NEW p \in Passes
        PROVE  /\ StateAfter(s)[p] \in LayerStates
               /\ Feed(StateAfter(s)[p], Reaching(p, t)) = Feed(ZeroState, Reaching(p, s \o t))
    <2>1. Reaching(p, s \o t) = Reaching(p, s) \o Reaching(p, t)
      BY ReachesOn
    <2>2. /\ Feed(ZeroState, Reaching(p, s)) \in LayerStates
          /\ Feed(Feed(ZeroState, Reaching(p, s)), Reaching(p, t)) =
               Feed(ZeroState, Reaching(p, s) \o Reaching(p, t))
      BY <1>2, ZeroIsState, FeedTwice
    <2>3. QED
      BY <1>1, <2>1, <2>2, Zenon
  <1>4. StateAfter(s)[1].fed = s
    <2>1. 1 \in Passes
      BY Model
    <2>2. Reaching(1, s) = s
      BY <2>1, Reaches
    <2>3. Feed(ZeroState, s).fed = ZeroState.fed \o s
      BY ZeroIsState, FeedTwice
    <2>4. QED
      BY <1>1, <2>1, <2>2, <2>3, ZeroIsState, ConcatEmptySeq
  <1>5. [p \in Passes |-> Feed(StateAfter(s)[p], Reaching(p, t))] =
          [p \in Passes |-> Feed(ZeroState, Reaching(p, s \o t))]
    BY <1>3
  <1>6. QED
    BY <1>3, <1>4, <1>5 DEF StateAfter

LEMMA SerialRows ==
  ASSUME Constants, NEW s \in Seq(Id), NEW t \in Seq(Id), NEW cap \in Nat
  PROVE  /\ RowsAfter(s, cap) \in [Passes -> Seq(Cell)]
         /\ \A p \in Passes : Len(RowsAfter(s, cap)[p]) = cap
         /\ [p \in Passes |-> Over(RowsAfter(s, cap)[p], Len(Reaching(p, s)), Reaching(p, t))] =
              RowsAfter(s \o t, cap)
  <1>1. \A p \in Passes : RowsAfter(s, cap)[p] = Over(Blank(cap), 0, Reaching(p, s))
    BY DEF RowsAfter
  <1>2. \A p \in Passes : Reaching(p, s) \in Seq(Cell) /\ Reaching(p, t) \in Seq(Cell)
    BY Reaches
  <1>3. Blank(cap) \in Seq(Cell) /\ Len(Blank(cap)) = cap
    BY BlankType DEF Cell
  <1>4. ASSUME NEW p \in Passes
        PROVE  /\ RowsAfter(s, cap)[p] \in Seq(Cell) /\ Len(RowsAfter(s, cap)[p]) = cap
               /\ Over(RowsAfter(s, cap)[p], Len(Reaching(p, s)), Reaching(p, t)) =
                    Over(Blank(cap), 0, Reaching(p, s \o t))
    <2>1. Reaching(p, s \o t) = Reaching(p, s) \o Reaching(p, t)
      BY ReachesOn
    <2>2. 0 \in Nat
      OBVIOUS
    <2>3. Over(Blank(cap), 0, Reaching(p, s)) \in Seq(Cell)
          /\ Len(Over(Blank(cap), 0, Reaching(p, s))) = cap
      BY <1>2, <1>3, <2>2, OverType, Zenon
    <2>4. Over(Over(Blank(cap), 0, Reaching(p, s)), Len(Reaching(p, s)), Reaching(p, t)) =
            Over(Blank(cap), 0, Reaching(p, s) \o Reaching(p, t))
      BY <1>2, <1>3, OverTwice, ZenonT(40)
    <2>5. QED
      BY <1>1, <2>1, <2>3, <2>4, Zenon
  <1>5. [p \in Passes |-> Over(RowsAfter(s, cap)[p], Len(Reaching(p, s)), Reaching(p, t))] =
          [p \in Passes |-> Over(Blank(cap), 0, Reaching(p, s \o t))]
    BY <1>4, Zenon
  <1>6. RowsAfter(s, cap) \in [Passes -> Seq(Cell)]
    BY <1>1, <1>4 DEF RowsAfter
  <1>7. QED
    BY <1>4, <1>5, <1>6, Zenon DEF RowsAfter

LEMMA SerialCounts ==
  ASSUME Constants, NEW s \in Seq(Id), NEW t \in Seq(Id)
  PROVE  /\ \A p \in 2 .. RMax : CountsAfter(s)[p] = Len(Reaching(p, s))
         /\ [p \in 2 .. RMax |-> CountsAfter(s)[p] + Len(Reaching(p, t))] = CountsAfter(s \o t)
  <1>1. \A p \in 2 .. RMax : p \in Passes
    BY DEF Passes
  <1>2. \A p \in 2 .. RMax : CountsAfter(s)[p] = Len(Reaching(p, s))
    BY DEF CountsAfter
  <1>3. ASSUME NEW p \in 2 .. RMax
        PROVE  CountsAfter(s)[p] + Len(Reaching(p, t)) = Len(Reaching(p, s \o t))
    <2>1. Reaching(p, s \o t) = Reaching(p, s) \o Reaching(p, t)
      BY <1>1, ReachesOn
    <2>2. Reaching(p, s) \in Seq(Id) /\ Reaching(p, t) \in Seq(Id)
      BY <1>1, Reaches
    <2>3. QED
      <3>1. PICK x \in Seq(Id) : x = Reaching(p, s)
        BY <2>2
      <3>2. PICK y \in Seq(Id) : y = Reaching(p, t)
        BY <2>2
      <3>3. Len(x \o y) = Len(x) + Len(y)
        BY ConcatProperties
      <3>4. QED
        BY <1>2, <2>1, <3>1, <3>2, <3>3
  <1>4. QED
    BY <1>2, <1>3 DEF CountsAfter

Depths == 0 .. RMax

LEMMA DepthsType ==
  ASSUME Constants, NEW s \in Seq(Id)
  PROVE  /\ DepthsOf(s) \in Seq(Depths) /\ Len(DepthsOf(s)) = Len(s)
         /\ \A i \in 1 .. Len(s) : DepthsOf(s)[i] = world.depth[s[i]]
  <1>1. \A i \in 1 .. Len(s) : s[i] \in Id
    BY ElementOfSeq
  <1>2. \A i \in 1 .. Len(s) : world.depth[s[i]] \in Depths
    BY <1>1, Model DEF Passes, Depths
  <1>3. Len(s) \in Nat /\ DOMAIN s = 1 .. Len(s)
    OBVIOUS
  <1> DEFINE f == DepthsOf(s)
  <1>4. f = [i \in 1 .. Len(s) |-> world.depth[s[i]]]
    BY <1>3 DEF DepthsOf
  <1>5. f \in [1 .. Len(s) -> Depths]
    BY <1>2, <1>4
  <1> HIDE DEF f
  <1>6. f \in Seq(Depths) /\ Len(f) = Len(s)
    BY <1>3, <1>5
  <1>7. QED
    BY <1>4, <1>6 DEF f

LEMMA DepthsOn ==
  ASSUME Constants, NEW s \in Seq(Id), NEW t \in Seq(Id)
  PROVE  DepthsOf(s \o t) = DepthsOf(s) \o DepthsOf(t)
  <1> DEFINE u == s \o t
             a == DepthsOf(s)
             b == DepthsOf(t)
             c == DepthsOf(u)
             e == a \o b
  <1>1. Len(s) \in Nat /\ Len(t) \in Nat
    OBVIOUS
  <1>2. u \in Seq(Id) /\ Len(u) = Len(s) + Len(t)
        /\ \A i \in 1 .. Len(s) + Len(t) : u[i] = IF i <= Len(s) THEN s[i] ELSE t[i - Len(s)]
    BY ConcatProperties
  <1> HIDE DEF u
  <1>3. /\ a \in Seq(Depths) /\ Len(a) = Len(s) /\ \A i \in 1 .. Len(s) : a[i] = world.depth[s[i]]
        /\ b \in Seq(Depths) /\ Len(b) = Len(t) /\ \A i \in 1 .. Len(t) : b[i] = world.depth[t[i]]
        /\ c \in Seq(Depths) /\ Len(c) = Len(u) /\ \A i \in 1 .. Len(u) : c[i] = world.depth[u[i]]
    BY <1>2, DepthsType
  <1> HIDE DEF a, b, c
  <1>4. e \in Seq(Depths) /\ Len(e) = Len(a) + Len(b)
        /\ \A i \in 1 .. Len(a) + Len(b) : e[i] = IF i <= Len(a) THEN a[i] ELSE b[i - Len(a)]
    <2>1. a \in Seq(Depths) /\ b \in Seq(Depths)
      BY <1>3
    <2>2. QED
      BY <2>1, ConcatProperties
  <1> HIDE DEF e
  <1>5. ASSUME NEW i \in 1 .. Len(s) + Len(t)
        PROVE  c[i] = e[i]
    <2>1. i \in 1 .. Len(u) /\ i \in 1 .. Len(a) + Len(b)
      BY <1>2, <1>3
    <2>2. c[i] = world.depth[u[i]]
      BY <1>3, <2>1
    <2>3. CASE i <= Len(s)
      <3>1. u[i] = s[i] /\ i \in 1 .. Len(s)
        BY <1>1, <1>2, <2>3
      <3>2. e[i] = a[i] /\ a[i] = world.depth[s[i]]
        BY <1>3, <1>4, <2>1, <2>3, <3>1
      <3>3. QED
        BY <2>2, <3>1, <3>2
    <2>4. CASE ~(i <= Len(s))
      <3>1. i - Len(s) \in 1 .. Len(t) /\ u[i] = t[i - Len(s)]
        BY <1>1, <1>2, <2>4
      <3>2. e[i] = b[i - Len(s)]
        BY <1>3, <1>4, <2>1, <2>4
      <3>3. b[i - Len(s)] = world.depth[t[i - Len(s)]]
        BY <1>3, <3>1
      <3>4. QED
        BY <2>2, <3>1, <3>2, <3>3
    <2>5. QED
      BY <2>3, <2>4
  <1>6. c = e
    BY <1>1, <1>2, <1>3, <1>4, <1>5, SeqEqual
  <1>7. QED
    BY <1>6 DEF a, b, c, e, u

LEMMA SerialPasses ==
  ASSUME Constants, NEW s \in Seq(Id), NEW t \in Seq(Id), NEW cap \in Nat
  PROVE  /\ Over(Blank(cap), 0, DepthsOf(s)) \in Seq(Depths)
         /\ Len(Over(Blank(cap), 0, DepthsOf(s))) = cap
         /\ Over(Over(Blank(cap), 0, DepthsOf(s)), Len(s), DepthsOf(t)) =
              Over(Blank(cap), 0, DepthsOf(s \o t))
  <1>1. Blank(cap) \in Seq(Depths) /\ Len(Blank(cap)) = cap
    <2>1. NoId \in Depths
      BY SessionAssumption DEF Depths, NoId
    <2>2. QED
      BY <2>1, BlankType
  <1>2. DepthsOf(s) \in Seq(Depths) /\ DepthsOf(t) \in Seq(Depths) /\ Len(DepthsOf(s)) = Len(s)
    BY DepthsType
  <1>3. DepthsOf(s \o t) = DepthsOf(s) \o DepthsOf(t)
    BY DepthsOn
  <1>4. 0 \in Nat
    OBVIOUS
  <1>5. Over(Blank(cap), 0, DepthsOf(s)) \in Seq(Depths)
        /\ Len(Over(Blank(cap), 0, DepthsOf(s))) = cap
    BY <1>1, <1>2, <1>4, OverType, Zenon
  <1>6. Over(Over(Blank(cap), 0, DepthsOf(s)), Len(DepthsOf(s)), DepthsOf(t)) =
          Over(Blank(cap), 0, DepthsOf(s) \o DepthsOf(t))
    BY <1>1, <1>2, OverTwice, ZenonT(40)
  <1>7. QED
    BY <1>2, <1>3, <1>5, <1>6, Zenon

(***************************************************************************)
(* What a step decides from ids and numbers alone.                         *)
(***************************************************************************)
LEMMA LeastOfTwo ==
  ASSUME NEW a \in Nat, NEW b \in Nat
  PROVE  Min({a, b}) \in {a, b} /\ Min({a, b}) <= a /\ Min({a, b}) <= b
  <1>1. \E x \in {a, b} : \A y \in {a, b} : x <= y
    OBVIOUS
  <1>2. QED
    BY <1>1 DEF Min

(* The output loop keeps what fits, and ends early only at a stop id.      *)
LEMMA Keeps ==
  ASSUME NEW emit \in Seq(Id), NEW left \in Nat, NEW space \in Nat, NEW stop
  PROVE  LET k == EmitKeep(emit, left, space, stop)
         IN /\ k \in 0 .. Len(emit) /\ k <= left /\ k <= space
            /\ \A i \in 1 .. k - 1 : emit[i] \notin stop
            /\ emit # <<>> /\ left > 0 /\ space > 0 => k > 0
  <1> DEFINE S == {k \in 0 .. Len(emit) : /\ k <= left /\ k <= space
                                          /\ \A i \in 1 .. k - 1 : emit[i] \notin stop}
             k == EmitKeep(emit, left, space, stop)
  <1>1. Len(emit) \in Nat /\ (emit # <<>> => Len(emit) > 0)
    BY EmptySeq
  <1>2. S \in SUBSET Nat /\ 0 \in S /\ \A x \in S : x <= left
    BY <1>1
  <1>3. Max(S) \in S /\ \A x \in S : x <= Max(S)
    BY <1>2, Greatest
  <1>4. k = Max(S)
    BY DEF EmitKeep
  <1>5. emit # <<>> /\ left > 0 /\ space > 0 => 1 \in S
    BY <1>1
  <1>6. emit # <<>> /\ left > 0 /\ space > 0 => k > 0
    <2>1. k \in Nat
      BY <1>2, <1>3, <1>4
    <2> HIDE DEF S, k
    <2>2. QED
      BY <1>3, <1>4, <1>5, <2>1
  <1>7. QED
    BY <1>3, <1>4, <1>6

LEMMA Accepts ==
  ASSUME NEW ids \in Seq(Id), NEW arg
  PROVE  LET m == Accepted(ids, arg)
         IN m \in 0 .. Len(ids) /\ \A i \in 1 .. m : arg[i] = ids[i]
  <1> DEFINE S == {m \in 0 .. Len(ids) : \A i \in 1 .. m : arg[i] = ids[i]}
  <1>1. S \in SUBSET Nat /\ 0 \in S /\ Len(ids) \in Nat /\ \A x \in S : x <= Len(ids)
    OBVIOUS
  <1>2. Max(S) \in S
    BY <1>1, Greatest
  <1>3. QED
    BY <1>2 DEF Accepted

(* The n-gram drafter proposes ids of the sequence, at most cap of them.   *)
LEMMA Continues ==
  ASSUME NEW s \in Seq(Id), NEW n \in Nat, NEW cap \in Nat
  PROVE  Continuation(s, n, cap) \in Seq(Id) /\ Len(Continuation(s, n, cap)) \in 0 .. cap
  <1> DEFINE ms == Matches(s, n)
             m1 == Max(ms)
             ms2 == ms \ {m1}
             Agrees(i) == /\ m1 + n + i < Len(s)
                          /\ ms2 # {} => LET m2 == Max(ms2)
                                         IN /\ m2 + n + i < m1
                                            /\ s[m2 + n + i + 1] = s[m1 + n + i + 1]
             S == {k \in 0 .. cap : \A i \in 0 .. k - 1 : Agrees(i)}
             nd == Max(S)
             c == SubSeq(s, m1 + n + 1, m1 + n + nd)
  <1>1. CASE ms = {}
    <2>1. Continuation(s, n, cap) = <<>>
      BY <1>1 DEF Continuation
    <2>2. QED
      BY <2>1, EmptySeq
  <1>2. CASE ms # {}
    <2>1. Len(s) \in Nat
      OBVIOUS
    <2>2. ms \in SUBSET (0 .. Len(s) - n - 1)
      BY DEF Matches
    <2> HIDE DEF ms
    <2>3. ms \in SUBSET Nat /\ \A x \in ms : x <= Len(s) /\ x <= Len(s) - n - 1
      BY <2>1, <2>2
    <2>4. m1 \in ms
      BY <1>2, <2>1, <2>3, Greatest
    <2> HIDE DEF m1, ms2
    <2>5. m1 \in Nat /\ m1 + n + 1 <= Len(s)
      BY <2>1, <2>3, <2>4
    <2>6. \A i : Agrees(i) => m1 + n + i < Len(s)
      OBVIOUS
    <2> HIDE DEF Agrees
    <2>7. S \in SUBSET Nat /\ 0 \in S /\ \A x \in S : x <= cap
      OBVIOUS
    <2>8. nd \in S
      BY <2>7, Greatest
    <2>9. nd \in 0 .. cap /\ (nd > 0 => Agrees(nd - 1))
      BY <2>8
    <2> HIDE DEF S, nd
    <2>10. nd \in Nat /\ m1 + n + nd <= Len(s)
      BY <2>1, <2>5, <2>6, <2>9
    <2>11. /\ m1 + n + 1 \in 1 .. Len(s) + 1 /\ m1 + n + nd \in 0 .. Len(s)
           /\ m1 + n + 1 <= m1 + n + nd + 1 /\ (m1 + n + nd) - (m1 + n + 1) + 1 = nd
      BY <2>1, <2>5, <2>10
    <2>12. c \in Seq(Id) /\ Len(c) = nd
      BY <2>11, Cut
    <2>13. Continuation(s, n, cap) = c
      BY <1>2, Zenon DEF Continuation, ms, m1, ms2, S, nd, Agrees
    <2>14. QED
      BY <2>9, <2>12, <2>13
  <1>3. QED
    BY <1>1, <1>2

LEMMA Drafts ==
  ASSUME NEW s \in Seq(Id), NEW cap \in Nat
  PROVE  SpecDraft(s, cap) \in Seq(Id) /\ Len(SpecDraft(s, cap)) \in 0 .. cap
  BY Continues DEF SpecDraft

-----------------------------------------------------------------------------
(***************************************************************************)
(* What the invariant says of a state, in the terms the steps need.        *)
(***************************************************************************)
LEMMA Counters ==
  ASSUME SInv
  PROVE  /\ T \in Nat /\ cached \in 0 .. T /\ nout \in 0 .. cmd.gen
         /\ seq \in Seq(Id) /\ d \in Seq(Id)
         /\ Fed \in Seq(Id) /\ Len(Fed) = cached
         /\ \A i \in 1 .. cached : Fed[i] = seq[i]
         /\ pc \in Running => /\ Tmax = T - nout + cmd.gen + 1
                              /\ Tmax \in Nat /\ T < Tmax /\ cached < Tmax
  <1>1. /\ cmd.gen \in Nat /\ seq \in Seq(Id) /\ d \in Seq(Id)
        /\ cached \in 0 .. T /\ nout \in 0 .. cmd.gen
    BY Model DEF SInv, SessionTypeOK
  <1>2. T \in Nat /\ cached \in 0 .. Len(seq)
    BY <1>1 DEF T
  <1>3. Fed \in Seq(Id) /\ Len(Fed) = cached /\ \A i \in 1 .. cached : Fed[i] = seq[i]
    BY <1>1, <1>2, CutFirst DEF Fed
  <1>4. ASSUME pc \in Running
        PROVE  Tmax = T - nout + cmd.gen + 1
    BY <1>4 DEF SInv, Buffers
  <1>5. QED
    BY <1>1, <1>2, <1>3, <1>4

(* Where the rows of a pass end: what it has consumed.                     *)
RowsEnd(p) == IF p = 1 THEN cached ELSE pcached[p]

LEMMA RowsEnds ==
  ASSUME SInv, pc # "commit", NEW p \in Passes
  PROVE  /\ RowsEnd(p) = Len(Reaching(p, Fed)) /\ Reaching(p, Fed) \in Seq(Cell)
         /\ RowsEnd(p) \in 0 .. cached
         /\ IsPrefix(Reaching(p, Fed), rows[p])
  <1>1. Fed \in Seq(Id) /\ Len(Fed) = cached /\ Constants
    BY Counters DEF SInv
  <1>2. pcached = CountsAfter(Fed) /\ IsPrefix(Reaching(p, Fed), rows[p])
    BY DEF SInv, CarriedIsSerial
  <1>3. /\ Reaching(p, Fed) \in Seq(Cell) /\ Len(Reaching(p, Fed)) \in 0 .. Len(Fed)
        /\ p = 1 => Reaching(p, Fed) = Fed
    BY <1>1, Reaches
  <1>4. \A x \in 2 .. RMax : CountsAfter(Fed)[x] = Len(Reaching(x, Fed))
    BY <1>1, SerialCounts, EmptySeq
  <1>5. p = 1 \/ p \in 2 .. RMax
    BY <1>1, Model DEF Passes
  <1> HIDE DEF Fed
  <1>6. RowsEnd(p) = Len(Reaching(p, Fed))
    BY <1>1, <1>2, <1>3, <1>4, <1>5 DEF RowsEnd
  <1>7. QED
    BY <1>1, <1>2, <1>3, <1>6

(* What a state says of the next one when model and command stay.          *)
LEMMA Fixed ==
  ASSUME world' = world, cmd' = cmd
  PROVE  /\ StateAfter(Fed)' = StateAfter(Fed') /\ CountsAfter(Fed)' = CountsAfter(Fed')
         /\ RowsAfter(Fed, Tmax)' = RowsAfter(Fed', Tmax')
         /\ \A p : Reaching(p, Fed)' = Reaching(p, Fed')
         /\ DepthsOf(Fed)' = DepthsOf(Fed')
         /\ Constants => Constants'
  <1>1. \A p : Reaching(p, Fed)' = Reaching(p, Fed')
    BY DEF Reaching
  <1>2. StateAfter(Fed)' = StateAfter(Fed')
    BY <1>1 DEF StateAfter
  <1>3. RowsAfter(Fed, Tmax)' = RowsAfter(Fed', Tmax')
    BY <1>1 DEF RowsAfter
  <1>4. CountsAfter(Fed)' = CountsAfter(Fed')
    BY <1>1 DEF CountsAfter
  <1>5. DepthsOf(Fed)' = DepthsOf(Fed')
    BY DEF DepthsOf
  <1>6. Constants => Constants'
    BY DEF Constants
  <1>7. QED
    BY <1>1, <1>2, <1>3, <1>4, <1>5, <1>6

-----------------------------------------------------------------------------
(***************************************************************************)
(* Memory when no run holds any.                                           *)
(***************************************************************************)
LEMMA Nothing ==
  ASSUME Constants
  PROVE  /\ SubSeq(<<>>, 1, 0) = <<>> /\ DepthsOf(<<>>) = <<>>
         /\ \A p \in Passes : /\ IsPrefix(Reaching(p, <<>>), RowsAfter(<<>>, 0)[p])
                              /\ RowsAfter(<<>>, 0)[p] \in Seq(Cell)
  <1>1. <<>> \in Seq(Id) /\ Len(<<>>) = 0
    BY EmptySeq
  <1>2. SubSeq(<<>>, 1, 0) \in Seq(Id) /\ Len(SubSeq(<<>>, 1, 0)) = 0
    BY <1>1, CutFirst
  <1>3. DepthsOf(<<>>) \in Seq(Depths) /\ Len(DepthsOf(<<>>)) = 0
    BY <1>1, DepthsType
  <1>4. ASSUME NEW p \in Passes
        PROVE  /\ IsPrefix(Reaching(p, <<>>), RowsAfter(<<>>, 0)[p])
               /\ RowsAfter(<<>>, 0)[p] \in Seq(Cell)
    <2>1. RowsAfter(<<>>, 0) \in [Passes -> Seq(Cell)]
      BY <1>1, SerialRows
    <2>2. Reaching(p, <<>>) = <<>>
      BY <1>1, Reaches
    <2> DEFINE r == RowsAfter(<<>>, 0)[p]
    <2>3. r \in Seq(Cell) /\ <<>> \in Seq(Cell)
      BY <2>1, EmptySeq
    <2> HIDE DEF r
    <2>4. IsPrefix(<<>>, r)
      <3>1. Len(r) \in Nat /\ Len(<<>>) <= Len(r) /\ \A i \in 1 .. Len(<<>>) : <<>>[i] = r[i]
        BY <1>1, <2>3
      <3>2. QED
        BY <2>3, <3>1, PrefixIff
    <2>5. QED
      BY <2>2, <2>3, <2>4 DEF r
  <1>5. QED
    BY <1>2, <1>3, <1>4, EmptySeq

(* A state without memory keeps the invariant if its files do.             *)
EmptyMemory ==
  /\ seq = <<>> /\ nout = 0 /\ cached = 0 /\ d = <<>> /\ written \in Nat
  /\ ks = StateAfter(<<>>) /\ rows = RowsAfter(<<>>, 0)
  /\ passes = <<>> /\ pcached = CountsAfter(<<>>) /\ sigint = "default"
  /\ dw = [cached |-> 0, ks |-> ZeroState, row |-> 0]

Parts == \A f \in {"ckpt", "tmp", "state"} : disk[f].parts \in -1 .. Whole

EmptyState ==
  /\ Constants /\ Records /\ EmptyMemory /\ Files /\ SavedIsSerial /\ Parts
  /\ pc \in {"idle", "over"} /\ turn \in 1 .. 3 /\ faults \in 0 .. MaxFaults
  /\ pc = "idle" => turn \in 1 .. 2

LEMMA Emptied == EmptyState => SInv
  <1> SUFFICES ASSUME EmptyState PROVE SInv
    OBVIOUS
  <1> USE DEF EmptyState
  <1>1. <<>> \in Seq(Id) /\ Len(<<>>) = 0 /\ cmd.gen \in Nat
    BY EmptySeq, Model
  <1>2. pc \notin Running /\ pc \notin Reading /\ pc \notin Drafting /\ pc # "commit"
        /\ pc \notin Saving /\ pc \notin Decoding
    BY DEF Running, Reading, Decoding, Drafting, Saving
  <1>3. T = 0 /\ seq = <<>> /\ cached = 0 /\ nout = 0
    BY <1>1 DEF EmptyMemory, T
  <1>4. SessionTypeOK
    BY <1>1, <1>3 DEF SessionTypeOK, EmptyMemory, Parts
  <1>5. Idle
    BY DEF Idle, EmptyMemory
  <1>6. CarriedIsSerial
    <2>1. Fed = <<>>
      BY <1>3, Nothing DEF Fed
    <2>2. SubSeq(passes, 1, cached) = DepthsOf(Fed)
      BY <2>1, <1>3, Nothing DEF EmptyMemory
    <2>3. ks = StateAfter(Fed) /\ CountsAfter(Fed) = pcached
      BY <2>1 DEF EmptyMemory
    <2>4. \A p \in Passes : IsPrefix(Reaching(p, Fed), rows[p])
      BY <2>1, Nothing DEF EmptyMemory
    <2>5. QED
      BY <1>2, <2>2, <2>3, <2>4 DEF CarriedIsSerial
  <1>7. SerialOutput
    BY <1>3 DEF SerialOutput
  <1>8. Tentative
    BY <1>2 DEF Tentative
  <1>9. Draft
    BY DEF Draft, Drafting
  <1>10. Buffers /\ ReadIn /\ Saved
    BY <1>2 DEF Buffers, ReadIn, Saved
  <1>11. QED
    BY <1>4, <1>5, <1>6, <1>7, <1>8, <1>9, <1>10 DEF SInv

LEMMA InitSInv == Init => SInv
  <1> SUFFICES ASSUME Init PROVE SInv
    OBVIOUS
  <1>1. Constants /\ EmptyMemory /\ pc = "idle" /\ turn = 1 /\ faults = 0
    BY DEF Init, Constants, EmptyMemory
  <1>2. MaxFaults \in Nat
    BY SessionAssumption
  <1>3. PICK f \in Found :
          disk = [ckpt |-> IF f = NoFile THEN f
                           ELSE [FileAfter(f.ids, f.cached, f.layout) EXCEPT !.parts = f.parts],
                  tmp |-> NoFile, state |-> NoFile]
    BY DEF Init
  <1>4. Records /\ disk.tmp = NoFile /\ disk.state = NoFile
    BY <1>1, <1>3 DEF Records, EmptyMemory
  <1>5. disk.state.parts = -1 /\ disk.tmp.parts = -1
    BY <1>4 DEF NoFile
  <1>6. /\ f = NoFile => disk.ckpt = NoFile
        /\ f # NoFile => disk.ckpt = [FileAfter(f.ids, f.cached, f.layout) EXCEPT !.parts = f.parts]
    BY <1>3
  <1>7. f # NoFile => /\ f.ids \in Seq(Id) /\ f.cached \in 0 .. Len(f.ids)
                      /\ f.parts \in 0 .. Whole
    BY SessionAssumption
  <1>8. ASSUME f # NoFile
        PROVE  /\ disk.ckpt.ids = f.ids /\ disk.ckpt.cached = f.cached
               /\ disk.ckpt.layout = f.layout /\ disk.ckpt.parts = f.parts
    BY <1>6, <1>8 DEF FileAfter
  <1>9. disk.ckpt.parts \in -1 .. Whole
    BY <1>6, <1>7, <1>8 DEF NoFile, Whole
  <1>10. Files
    BY <1>1, <1>5, <1>6, <1>7, <1>8 DEF Files, Whole
  <1>11. SavedIsSerial
    BY <1>5 DEF SavedIsSerial, Whole
  <1>12. Parts
    BY <1>5, <1>9 DEF Parts, Whole
  <1>13. QED
    BY <1>1, <1>2, <1>4, <1>10, <1>11, <1>12, Emptied DEF EmptyState

LEMMA EmptiedNext == EmptyState' => SInv'
  BY Emptied, PTL

-----------------------------------------------------------------------------
(***************************************************************************)
(* The steps that end a run.                                               *)
(***************************************************************************)
LEMMA FixedFiles ==
  ASSUME world' = world
  PROVE  /\ FileAfter(disk.ckpt.ids, disk.ckpt.cached, disk.ckpt.layout)' =
              FileAfter(disk'.ckpt.ids, disk'.ckpt.cached, disk'.ckpt.layout)
         /\ FileAfter(disk.state.ids, disk.state.cached, world.layout)' =
              FileAfter(disk'.state.ids, disk'.state.cached, world'.layout)
  <1>1. \A p, x : Reaching(p, x)' = Reaching(p, x)
    BY DEF Reaching
  <1>2. \A x : StateAfter(x)' = StateAfter(x)
    BY <1>1 DEF StateAfter
  <1>3. \A x, n : RowsAfter(x, n)' = RowsAfter(x, n)
    BY <1>1 DEF RowsAfter
  <1>4. \A x : CountsAfter(x)' = CountsAfter(x) /\ DepthsOf(x)' = DepthsOf(x)
    BY <1>1 DEF CountsAfter, DepthsOf
  <1>5. \A x, n, l : FileAfter(x, n, l)' = FileAfter(x, n, l)
    BY <1>2, <1>3, <1>4 DEF FileAfter
  <1>6. QED
    BY <1>5 

(* Files that a step leaves alone stay as the invariant has them.          *)
LEMMA SameCheckpoint ==
  ASSUME SInv, world' = world, disk'.ckpt = disk.ckpt
  PROVE  (disk.ckpt # NoFile =>
            /\ disk.ckpt.ids \in Seq(Id) /\ disk.ckpt.cached \in 0 .. Len(disk.ckpt.ids)
            /\ disk.ckpt.parts \in 0 .. Whole
            /\ disk.ckpt = [FileAfter(disk.ckpt.ids, disk.ckpt.cached, disk.ckpt.layout)
                              EXCEPT !.parts = disk.ckpt.parts])'
  <1>1. FileAfter(disk.ckpt.ids, disk.ckpt.cached, disk.ckpt.layout)' =
          FileAfter(disk.ckpt.ids, disk.ckpt.cached, disk.ckpt.layout)
    BY FixedFiles
  <1>2. QED
    BY <1>1 DEF SInv, Files

LEMMA SameState ==
  ASSUME SInv, world' = world, disk'.state = disk.state
  PROVE  /\ SavedIsSerial'
         /\ (disk.state.parts = Whole =>
               /\ disk.state.ids \in Seq(Id) \ {<<>>}
               /\ disk.state.cached \in Nat
               /\ Len(disk.state.ids) \in disk.state.cached .. disk.state.cached + 1)'
  <1>1. FileAfter(disk.state.ids, disk.state.cached, world.layout)' =
          FileAfter(disk.state.ids, disk.state.cached, world.layout)
    BY FixedFiles
  <1>2. QED
    BY <1>1 DEF SInv, SavedIsSerial, Files

LEMMA NoMemoryIsEmpty ==
  ASSUME NoMemory, world' = world
  PROVE  EmptyMemory'
  <1>1. \A p, x : Reaching(p, x)' = Reaching(p, x)
    BY DEF Reaching
  <1>2. \A x : StateAfter(x)' = StateAfter(x)
    BY <1>1 DEF StateAfter
  <1>3. \A x, n : RowsAfter(x, n)' = RowsAfter(x, n)
    BY <1>1 DEF RowsAfter
  <1>4. \A x : CountsAfter(x)' = CountsAfter(x)
    BY <1>1 DEF CountsAfter
  <1>5. QED
    BY <1>2, <1>3, <1>4 DEF EmptyMemory, NoMemory

LEMMA RunningTurn ==
  ASSUME SInv, pc \notin {"idle", "over"}
  PROVE  pc \in Running /\ turn \in 1 .. 2
  <1>1. pc \in Running
    BY DEF SInv, SessionTypeOK, Running, Reading, Decoding, Drafting, Saving
  <1>2. QED
    BY <1>1 DEF SInv, Buffers

LEMMA CrashSInv ==
  ASSUME SInv, Crash
  PROVE  SInv'
  <1>1. turn \in 1 .. 2 /\ faults \in 0 .. MaxFaults /\ MaxFaults \in Nat
    BY RunningTurn, SessionAssumption DEF Crash, SInv, SessionTypeOK
  <1>2. world' = world /\ cmd' = cmd /\ disk' = disk /\ turn' = turn /\ pc' = "idle"
        /\ faults' = faults + 1 /\ faults < MaxFaults
    BY DEF Crash, fixed
  <1>3. EmptyMemory'
    BY <1>2, NoMemoryIsEmpty DEF Crash
  <1>4. Constants' /\ Records' /\ Parts'
    BY <1>2, <1>3 DEF SInv, Constants, Records, SessionTypeOK, Parts, EmptyMemory
  <1>5. Files' /\ SavedIsSerial'
    BY <1>2, SameCheckpoint, SameState DEF Files
  <1>6. QED
    BY <1>1, <1>2, <1>3, <1>4, <1>5, EmptiedNext DEF EmptyState

LEMMA SaveFailsSInv ==
  ASSUME SInv, SaveFails
  PROVE  SInv'
  <1>1. turn \in 1 .. 2 /\ faults \in 0 .. MaxFaults /\ MaxFaults \in Nat
    BY RunningTurn, SessionAssumption DEF SaveFails, SInv, SessionTypeOK
  <1>2. /\ world' = world /\ cmd' = cmd /\ disk' = disk /\ turn' = turn + 1
        /\ pc' = IF turn = 1 THEN "idle" ELSE "over"
        /\ faults' = faults + 1 /\ faults < MaxFaults
    BY DEF SaveFails, EndRun, fixed
  <1>3. EmptyMemory'
    BY <1>2, NoMemoryIsEmpty DEF SaveFails, EndRun
  <1>4. Constants' /\ Records' /\ Parts'
    BY <1>2, <1>3 DEF SInv, Constants, Records, SessionTypeOK, Parts, EmptyMemory
  <1>5. Files' /\ SavedIsSerial'
    BY <1>2, SameCheckpoint, SameState DEF Files
  <1>6. pc' \in {"idle", "over"} /\ turn' \in 1 .. 3 /\ (pc' = "idle" => turn' \in 1 .. 2)
    BY <1>1, <1>2
  <1>7. QED
    BY <1>1, <1>2, <1>3, <1>4, <1>5, <1>6, EmptiedNext DEF EmptyState

-----------------------------------------------------------------------------
(***************************************************************************)
(* The read-in: rows and passes hold what was fed and nothing after it.    *)
(***************************************************************************)
LEMMA CutAll ==
  ASSUME NEW S, NEW s \in Seq(S)
  PROVE  SubSeq(s, 1, Len(s)) = s
  <1> DEFINE c == SubSeq(s, 1, Len(s))
  <1>1. Len(s) \in 0 .. Len(s)
    OBVIOUS
  <1>2. c \in Seq(S) /\ Len(c) = Len(s) /\ \A i \in 1 .. Len(s) : c[i] = s[i]
    BY <1>1, CutFirst
  <1> HIDE DEF c
  <1>3. c = s
    BY <1>2, SeqEqual
  <1>4. QED
    BY <1>3 DEF c

LEMMA OverNothing ==
  ASSUME NEW S, NoId \in S, NEW cap \in Nat, NEW x \in Seq(S), NEW n \in Len(x) .. cap
  PROVE  /\ Over(Blank(cap), 0, x) \in Seq(S) /\ Len(Over(Blank(cap), 0, x)) = cap
         /\ \A i \in 1 .. cap : Over(Blank(cap), 0, x)[i] = IF i <= Len(x) THEN x[i] ELSE NoId
         /\ IsPrefix(x, Over(Blank(cap), 0, x))
         /\ SubSeq(Over(Blank(cap), 0, x), 1, n) = Over(Blank(n), 0, x)
         /\ Over(Blank(cap), 0, Over(Blank(n), 0, x)) = Over(Blank(cap), 0, x)
  <1>1. Len(x) \in Nat /\ n \in Nat /\ Len(x) <= n /\ n <= cap
    OBVIOUS
  <1> DEFINE b == Blank(cap)
             c == Blank(n)
             r == Over(b, 0, x)
             q == Over(c, 0, x)
             u == SubSeq(r, 1, n)
             v == Over(b, 0, q)
  <1>2. b \in Seq(S) /\ Len(b) = cap /\ \A i \in 1 .. cap : b[i] = NoId
    BY BlankType
  <1>3. c \in Seq(S) /\ Len(c) = n /\ \A i \in 1 .. n : c[i] = NoId
    BY <1>1, BlankType
  <1> HIDE DEF b, c
  <1>4. r \in Seq(S) /\ Len(r) = Len(b)
        /\ \A i \in 1 .. Len(b) : r[i] = IF i > 0 /\ i - 0 <= Len(x) THEN x[i - 0] ELSE b[i]
    BY <1>2, OverType
  <1>5. q \in Seq(S) /\ Len(q) = n
        /\ \A i \in 1 .. n : q[i] = IF i > 0 /\ i - 0 <= Len(x) THEN x[i - 0] ELSE c[i]
    BY <1>3, OverType
  <1> HIDE DEF r, q
  <1>6. \A i \in 1 .. cap : r[i] = IF i <= Len(x) THEN x[i] ELSE NoId
    BY <1>2, <1>4
  <1>7. \A i \in 1 .. n : q[i] = IF i <= Len(x) THEN x[i] ELSE NoId
    BY <1>3, <1>5
  <1>8. IsPrefix(x, r)
    <2>1. Len(x) <= Len(r) /\ \A i \in 1 .. Len(x) : x[i] = r[i]
      BY <1>1, <1>2, <1>4, <1>6
    <2>2. QED
      BY <2>1, <1>4, PrefixIff
  <1>9. u \in Seq(S) /\ Len(u) = n /\ \A i \in 1 .. n : u[i] = r[i]
    BY <1>1, <1>2, <1>4, CutFirst
  <1>10. v \in Seq(S) /\ Len(v) = Len(b)
         /\ \A i \in 1 .. Len(b) : v[i] = IF i > 0 /\ i - 0 <= Len(q) THEN q[i - 0] ELSE b[i]
    BY <1>2, <1>5, OverType
  <1> HIDE DEF u, v
  <1>11. u = q
    <2>1. \A i \in 1 .. n : u[i] = q[i]
      BY <1>1, <1>6, <1>7, <1>9
    <2>2. QED
      BY <2>1, <1>5, <1>9, SeqEqual
  <1>12. v = r
    <2>1. \A i \in 1 .. cap : v[i] = r[i]
      BY <1>1, <1>2, <1>5, <1>6, <1>7, <1>10
    <2>2. QED
      BY <2>1, <1>2, <1>4, <1>10, SeqEqual
  <1>13. QED
    BY <1>2, <1>4, <1>6, <1>8, <1>11, <1>12 DEF b, c, r, q, u, v

ReadState ==
  /\ Constants /\ Records /\ SessionTypeOK /\ SavedIsSerial /\ Files
  /\ pc \in Reading /\ turn \in 1 .. 2 /\ T > 0 /\ d = <<>>
  /\ Tmax = T - nout + cmd.gen + 1
  /\ log \in [Passes -> Seq(Cell)] /\ \A p \in Passes : Len(log[p]) = cmd.spec_n + 1
  /\ dlog \in Seq(Cell) /\ Len(dlog) = cmd.spec_n + 1
  /\ ks = StateAfter(Fed) /\ pcached = CountsAfter(Fed)
  /\ ReadIn

LEMMA ReadKeeps == ReadState => SInv
  <1> SUFFICES ASSUME ReadState PROVE SInv
    OBVIOUS
  <1>1. /\ pc \in Running /\ pc \in Reading /\ pc \notin Drafting /\ pc \notin Saving
        /\ pc \notin Decoding /\ pc # "step" /\ pc # "commit"
    BY DEF ReadState, Running, Reading, Drafting, Saving, Decoding
  <1>2. /\ rows = RowsAfter(Fed, Tmax) /\ passes = Over(Blank(Tmax), 0, DepthsOf(Fed))
        /\ nout = 0 /\ cmd.gen \in Nat
    BY <1>1, Model DEF ReadState, ReadIn
  <1>3. T \in Nat /\ T = Len(seq) /\ seq \in Seq(Id) /\ cached \in 0 .. T
    BY DEF ReadState, SessionTypeOK, T
  <1>4. Tmax \in Nat /\ cached <= Tmax
    BY <1>2, <1>3 DEF ReadState
  <1>5. Fed \in Seq(Id) /\ Len(Fed) = cached
    BY <1>3, CutFirst DEF Fed
  <1> HIDE DEF Fed
  <1>6. DepthsOf(Fed) \in Seq(Depths) /\ Len(DepthsOf(Fed)) = cached
    BY <1>5, DepthsType DEF ReadState
  <1>7. /\ passes \in Seq(Depths) /\ Len(passes) = Tmax
        /\ SubSeq(passes, 1, cached) = DepthsOf(Fed)
    <2> DEFINE y == DepthsOf(Fed)
    <2>1. NoId \in Depths
      BY Model DEF NoId, Depths, ReadState
    <2>2. y \in Seq(Depths) /\ Len(y) = cached
      BY <1>6
    <2> HIDE DEF y
    <2>3. passes = Over(Blank(Tmax), 0, y)
      BY <1>2 DEF y
    <2>4. Len(y) \in Len(y) .. Tmax
      BY <1>3, <1>4, <2>2
    <2>5. passes \in Seq(Depths) /\ Len(passes) = Tmax /\ IsPrefix(y, passes)
      BY <1>4, <2>1, <2>2, <2>3, <2>4, OverNothing
    <2>6. SubSeq(passes, 1, cached) = SubSeq(y, 1, cached)
      BY <1>3, <2>2, <2>5, PrefixCut
    <2>7. SubSeq(y, 1, Len(y)) = y
      BY <2>2, CutAll
    <2>8. QED
      BY <2>2, <2>5, <2>6, <2>7 DEF y
  <1>8. /\ rows \in [Passes -> Seq(Cell)] /\ \A p \in Passes : Len(rows[p]) = Tmax
        /\ \A p \in Passes : IsPrefix(Reaching(p, Fed), rows[p])
    <2>1. rows \in [Passes -> Seq(Cell)] /\ \A p \in Passes : Len(rows[p]) = Tmax
      BY <1>2, <1>4, <1>5, SerialRows, EmptySeq DEF ReadState
    <2>2. ASSUME NEW p \in Passes
          PROVE  IsPrefix(Reaching(p, Fed), rows[p])
      <3> DEFINE x == Reaching(p, Fed)
      <3>1. x \in Seq(Cell) /\ Len(x) \in 0 .. cached
        BY <1>5, Reaches DEF ReadState
      <3>2. rows[p] = Over(Blank(Tmax), 0, x)
        BY <1>2 DEF RowsAfter
      <3> HIDE DEF x
      <3>3. NoId \in Cell /\ Len(x) \in Len(x) .. Tmax
        BY <1>3, <1>4, <3>1 DEF Cell
      <3>4. IsPrefix(x, rows[p])
        BY <1>4, <3>1, <3>2, <3>3, OverNothing
      <3>5. QED
        BY <3>4 DEF x
    <2>3. QED
      BY <2>1, <2>2
  <1>9. Buffers
    BY <1>2, <1>7, <1>8 DEF Buffers, ReadState, Depths
  <1>10. CarriedIsSerial
    BY <1>1, <1>7, <1>8 DEF CarriedIsSerial, ReadState, Saving, Drafting
  <1>11. SerialOutput
    BY <1>1, <1>2, <1>3 DEF SerialOutput, Drafting, Saving
  <1>12. Tentative
    BY <1>1 DEF Tentative, ReadState
  <1>13. Draft
    BY <1>1 DEF Draft, Saving
  <1>14. Idle /\ Saved
    BY <1>1 DEF Idle, Saved, Saving
  <1>15. QED
    BY <1>9, <1>10, <1>11, <1>12, <1>13, <1>14 DEF SInv, ReadState

LEMMA ReadKeepsNext == ReadState' => SInv'
  BY ReadKeeps, PTL

LEMMA ReadingState ==
  ASSUME SInv, pc \in Reading
  PROVE  ReadState
  <1>1. pc \in Running /\ pc \notin Drafting /\ pc # "commit"
    BY DEF Running, Reading, Drafting
  <1>2. ks = StateAfter(Fed) /\ pcached = CountsAfter(Fed)
    BY <1>1 DEF SInv, CarriedIsSerial
  <1>3. d = <<>>
    BY <1>1 DEF SInv, Tentative
  <1>4. T > 0
    BY <1>1, Counters DEF SInv, Buffers
  <1>5. QED
    BY <1>1, <1>2, <1>3, <1>4 DEF SInv, ReadState, Buffers

LEMMA Written ==
  ASSUME Records, dw' = dw, NEW f
  PROVE  /\ disk' = [disk EXCEPT !["tmp"] = f] =>
              Records' /\ disk'.ckpt = disk.ckpt /\ disk'.state = disk.state /\ disk'.tmp = f
         /\ disk' = [disk EXCEPT !["state"] = f] =>
              Records' /\ disk'.ckpt = disk.ckpt /\ disk'.tmp = disk.tmp /\ disk'.state = f
  BY DEF Records

LEMMA OpenTmpSInv ==
  ASSUME SInv, OpenTmp
  PROVE  SInv'
  <1>1. ReadState /\ pc = "open"
    BY ReadingState DEF OpenTmp, Reading
  <1>2. /\ world' = world /\ cmd' = cmd /\ turn' = turn /\ faults' = faults /\ pc' = "write"
        /\ seq' = seq /\ nout' = nout /\ cached' = cached /\ Tmax' = Tmax
        /\ ks' = ks /\ rows' = rows /\ passes' = passes /\ pcached' = pcached
        /\ log' = log /\ d' = d /\ dw' = dw /\ dlog' = dlog /\ written' = written /\ sigint' = sigint
    BY DEF OpenTmp, fixed, decoded, carried, tentative, drafts
  <1>3. /\ Records' /\ disk'.ckpt = disk.ckpt /\ disk'.state = disk.state
        /\ disk'.tmp = Memory(cached, 0)
    BY <1>2, Written DEF OpenTmp, CkptTarget, SInv
  <1>4. disk'.tmp.parts = 0 /\ disk'.tmp = Memory(cached, 0)'
    <2>1. \A p, x : Reaching(p, x)' = Reaching(p, x)
      BY <1>2 DEF Reaching
    <2>2. Memory(cached, 0)' = Memory(cached, 0)
      BY <1>2, <2>1 DEF Memory, StateAfter
    <2>3. QED
      BY <1>3, <2>2 DEF Memory
  <1>5. T' = T /\ Fed' = Fed
    BY <1>2 DEF T, Fed
  <1>6. SessionTypeOK'
    BY <1>1, <1>2, <1>3, <1>4, <1>5 DEF ReadState, SessionTypeOK, Whole
  <1>7. Files' /\ SavedIsSerial'
    BY <1>2, <1>3, <1>4, SameCheckpoint, SameState DEF Files, Whole
  <1>8. ReadIn'
    BY <1>1, <1>2, <1>3, <1>5, Fixed DEF ReadState, ReadIn, Reading, Checkpointing
  <1>9. Constants' /\ pc' \in Reading /\ (ks = StateAfter(Fed) /\ pcached = CountsAfter(Fed))'
    BY <1>1, <1>2, <1>5, Fixed DEF Constants, ReadState, Reading
  <1>10. ReadState'
    BY <1>1, <1>2, <1>3, <1>5, <1>6, <1>7, <1>8, <1>9 DEF ReadState
  <1>11. QED
    BY <1>10, ReadKeepsNext

LEMMA WriteTmpSInv ==
  ASSUME SInv, WriteTmp
  PROVE  SInv'
  <1>1. ReadState /\ pc = "write"
    BY ReadingState DEF WriteTmp, Reading
  <1>4. PICK k \in 1 .. Whole : k = disk.tmp.parts + 1
    BY <1>1 DEF ReadState, Files, Whole
  <1>2. /\ world' = world /\ cmd' = cmd /\ turn' = turn /\ faults' = faults
        /\ pc' = IF k = Whole THEN "rename" ELSE "write"
        /\ seq' = seq /\ nout' = nout /\ cached' = cached /\ Tmax' = Tmax
        /\ ks' = ks /\ rows' = rows /\ passes' = passes /\ pcached' = pcached
        /\ log' = log /\ d' = d /\ dw' = dw /\ dlog' = dlog /\ written' = written /\ sigint' = sigint
    BY <1>4 DEF WriteTmp, CkptTarget, fixed, decoded, carried, tentative, drafts
  <1>3. /\ Records' /\ disk'.ckpt = disk.ckpt /\ disk'.state = disk.state
        /\ disk'.tmp = Memory(cached, k)
    <2>1. disk' = [disk EXCEPT !["tmp"] = Memory(cached, k)]
      BY <1>4 DEF WriteTmp, CkptTarget
    <2>2. QED
      BY <1>2, <2>1, Written DEF SInv
  <1>5. disk'.tmp.parts = k /\ disk'.tmp = Memory(cached, disk.tmp.parts)'
    <2>1. \A p, x : Reaching(p, x)' = Reaching(p, x)
      BY <1>2 DEF Reaching
    <2>2. disk'.tmp.parts = k
      BY <1>3 DEF Memory
    <2>3. \A j : Memory(cached, j)' = Memory(cached, j)
      BY <1>2, <2>1 DEF Memory, StateAfter
    <2>4. QED
      BY <1>2, <1>3, <2>2, <2>3
  <1>6. T' = T /\ Fed' = Fed
    BY <1>2 DEF T, Fed
  <1>7. SessionTypeOK'
    <2>1. \A f \in {"ckpt", "tmp", "state"} : disk'[f].parts \in -1 .. Whole
      BY <1>1, <1>3, <1>4, <1>5 DEF ReadState, SessionTypeOK, Whole
    <2>2. pc' \in {"rename", "write"}
      BY <1>2
    <2>3. QED
      BY <1>1, <1>2, <1>6, <2>1, <2>2 DEF ReadState, SessionTypeOK
  <1>8. Files' /\ SavedIsSerial'
    BY <1>2, <1>3, <1>4, <1>5, SameCheckpoint, SameState DEF Files, Whole
  <1>9. ReadIn'
    BY <1>1, <1>2, <1>3, <1>6, Fixed DEF ReadState, ReadIn, Reading, Checkpointing
  <1>10. Constants' /\ pc' \in Reading /\ (ks = StateAfter(Fed) /\ pcached = CountsAfter(Fed))'
    BY <1>1, <1>2, <1>6, Fixed DEF Constants, ReadState, Reading
  <1>11. ReadState'
    BY <1>1, <1>2, <1>3, <1>6, <1>7, <1>8, <1>9, <1>10 DEF ReadState
  <1>12. QED
    BY <1>11, ReadKeepsNext

LEMMA InterruptSInv ==
  ASSUME SInv, Interrupt
  PROVE  SInv'
  <1>1. ReadState
    BY ReadingState DEF Interrupt, Reading
  <1>2. /\ world' = world /\ cmd' = cmd /\ turn' = turn /\ faults' = faults /\ pc' = pc
        /\ disk' = disk /\ seq' = seq /\ nout' = nout /\ cached' = cached /\ Tmax' = Tmax
        /\ ks' = ks /\ rows' = rows /\ passes' = passes /\ pcached' = pcached
        /\ log' = log /\ d' = d /\ dw' = dw /\ dlog' = dlog /\ written' = written
        /\ sigint' = "requested"
    BY DEF Interrupt, fixed, decoded, carried, tentative, drafts
  <1>3. T' = T /\ Fed' = Fed
    BY <1>2 DEF T, Fed
  <1>4. SessionTypeOK'
    BY <1>1, <1>2, <1>3 DEF ReadState, SessionTypeOK
  <1>5. Files' /\ SavedIsSerial'
    <2>1. \A p, x : Reaching(p, x)' = Reaching(p, x)
      BY <1>2 DEF Reaching
    <2>2. Memory(cached, Whole)' = Memory(cached, Whole)
          /\ Memory(cached, disk.tmp.parts)' = Memory(cached, disk.tmp.parts)
      BY <1>2, <2>1 DEF Memory, StateAfter
    <2>3. pc # "saving"
      BY DEF Interrupt
    <2>4. QED
      BY <1>1, <1>2, <2>2, <2>3, SameCheckpoint, SameState DEF ReadState, Files
  <1>6. ReadIn'
    BY <1>1, <1>2, <1>3, Fixed DEF ReadState, ReadIn, Checkpointing
  <1>7. Constants' /\ Records' /\ (ks = StateAfter(Fed) /\ pcached = CountsAfter(Fed))'
    BY <1>1, <1>2, <1>3, Fixed DEF Constants, Records, ReadState
  <1>8. ReadState'
    BY <1>1, <1>2, <1>3, <1>4, <1>5, <1>6, <1>7 DEF ReadState
  <1>9. QED
    BY <1>8, ReadKeepsNext

(* A checkpoint is the file serial decode would write.                     *)
LEMMA CheckpointIsSerial ==
  ASSUME SInv, pc \in Reading
  PROVE  Memory(cached, Whole) = FileAfter(Fed, cached, world.layout)
  <1>1. ReadState
    BY ReadingState
  <1>2. /\ ks = StateAfter(Fed) /\ pcached = CountsAfter(Fed)
        /\ rows = RowsAfter(Fed, Tmax) /\ passes = Over(Blank(Tmax), 0, DepthsOf(Fed))
        /\ Constants
    BY <1>1 DEF ReadState, ReadIn
  <1>3. /\ Fed \in Seq(Id) /\ Len(Fed) = cached /\ cached \in Nat /\ Tmax \in Nat
        /\ cached <= Tmax /\ Fed = SubSeq(seq, 1, cached)
    <2>1. pc \in Running
      BY DEF Running
    <2>2. QED
      BY <2>1, Counters DEF Fed
  <1> HIDE DEF Fed
  <1>4. SubSeq(Fed, 1, cached) = Fed
    BY <1>3, CutAll
  <1>5. [p \in Passes |-> SubSeq(rows[p], 1, cached)] = RowsAfter(Fed, cached)
    <2>1. ASSUME NEW p \in Passes
          PROVE  SubSeq(rows[p], 1, cached) = Over(Blank(cached), 0, Reaching(p, Fed))
      <3> DEFINE x == Reaching(p, Fed)
      <3>1. x \in Seq(Cell) /\ Len(x) \in 0 .. cached
        BY <1>2, <1>3, Reaches
      <3>2. rows[p] = Over(Blank(Tmax), 0, x)
        BY <1>2 DEF RowsAfter
      <3> HIDE DEF x
      <3>3. NoId \in Cell /\ cached \in Len(x) .. Tmax
        BY <1>3, <3>1 DEF Cell
      <3>4. SubSeq(rows[p], 1, cached) = Over(Blank(cached), 0, x)
        BY <1>3, <3>1, <3>2, <3>3, OverNothing
      <3>5. QED
        BY <3>4 DEF x
    <2>2. QED
      BY <2>1 DEF RowsAfter
  <1>6. SubSeq(passes, 1, cached) = Over(Blank(cached), 0, DepthsOf(Fed))
    <2> DEFINE y == DepthsOf(Fed)
    <2>1. NoId \in Depths
      BY <1>2, Model DEF NoId, Depths
    <2>2. y \in Seq(Depths) /\ Len(y) = cached
      BY <1>2, <1>3, DepthsType
    <2>3. passes = Over(Blank(Tmax), 0, y)
      BY <1>2
    <2> HIDE DEF y
    <2>4. cached \in Len(y) .. Tmax
      BY <1>3, <2>2
    <2>5. SubSeq(passes, 1, cached) = Over(Blank(cached), 0, y)
      BY <1>3, <2>1, <2>2, <2>3, <2>4, OverNothing
    <2>6. QED
      BY <2>5 DEF y
  <1>7. /\ Memory(cached, Whole) =
             [parts |-> Whole, ids |-> Fed, cached |-> cached, layout |-> world.layout,
              ks |-> ks, rows |-> RowsAfter(Fed, cached),
              passes |-> Over(Blank(cached), 0, DepthsOf(Fed)), pcached |-> pcached]
    BY <1>3, <1>5, <1>6 DEF Memory
  <1>8. FileAfter(Fed, cached, world.layout) =
             [parts |-> Whole, ids |-> Fed, cached |-> cached, layout |-> world.layout,
              ks |-> StateAfter(Fed), rows |-> RowsAfter(Fed, cached),
              passes |-> Over(Blank(cached), 0, DepthsOf(Fed)), pcached |-> CountsAfter(Fed)]
    BY <1>3, <1>4 DEF FileAfter
  <1>9. QED
    BY <1>2, <1>7, <1>8

LEMMA RenameSInv ==
  ASSUME SInv, Rename
  PROVE  SInv'
  <1>1. ReadState /\ pc = "rename" /\ pc \in Reading
    BY ReadingState DEF Rename, Reading
  <1>2. Fed \in Seq(Id) /\ Len(Fed) = cached /\ cached \in Nat
    BY Counters
  <1>3. PICK m : m = FileAfter(Fed, cached, world.layout)
    OBVIOUS
  <1>4. disk'.ckpt = m /\ disk'.tmp = NoFile /\ disk'.state = disk.state
        /\ disk' = [ckpt |-> disk'.ckpt, tmp |-> disk'.tmp, state |-> disk'.state]
    <2>1. disk.tmp = m
      BY <1>1, <1>3, CheckpointIsSerial DEF ReadState, Files
    <2>2. disk' = [disk EXCEPT !.ckpt = disk.tmp, !.tmp = NoFile]
      BY DEF Rename, CkptTarget
    <2>3. QED
      BY <1>1, <2>1, <2>2 DEF ReadState, Records
  <1>5. /\ world' = world /\ cmd' = cmd /\ turn' = turn /\ faults' = faults
        /\ PauseNow(written + 1) => pc' = "idle" /\ NoMemory
        /\ ~PauseNow(written + 1) =>
             /\ pc' = "read" /\ written' = written + 1
             /\ seq' = seq /\ nout' = nout /\ cached' = cached /\ Tmax' = Tmax
             /\ ks' = ks /\ rows' = rows /\ passes' = passes /\ pcached' = pcached
             /\ log' = log /\ d' = d /\ dw' = dw /\ dlog' = dlog /\ sigint' = sigint
    BY DEF Rename, fixed, decoded, carried, tentative, drafts
  <1> DEFINE f == disk'.ckpt
  <1>6. /\ f.ids = Fed /\ f.cached = cached /\ f.layout = world.layout
        /\ f.parts = Whole /\ f = [f EXCEPT !.parts = Whole]
    BY <1>3, <1>4 DEF FileAfter
  <1>7. (disk.ckpt # NoFile =>
            /\ disk.ckpt.ids \in Seq(Id) /\ disk.ckpt.cached \in 0 .. Len(disk.ckpt.ids)
            /\ disk.ckpt.parts \in 0 .. Whole
            /\ disk.ckpt = [FileAfter(disk.ckpt.ids, disk.ckpt.cached, disk.ckpt.layout)
                              EXCEPT !.parts = disk.ckpt.parts])'
    <2>1. FileAfter(disk.ckpt.ids, disk.ckpt.cached, disk.ckpt.layout)' = f
      BY <1>3, <1>4, <1>5, <1>6, FixedFiles
    <2>2. QED
      BY <1>2, <1>6, <2>1 DEF Whole
  <1>8. Files' /\ SavedIsSerial'
    BY <1>4, <1>5, <1>7, SameState DEF Files
  <1>9. Constants' /\ Parts'
    BY <1>1, <1>4, <1>5, <1>6 DEF ReadState, Constants, Parts, SessionTypeOK, NoFile, Whole
  <1>10. CASE PauseNow(written + 1)
    <2>1. EmptyMemory' /\ pc' = "idle"
      BY <1>5, <1>10, NoMemoryIsEmpty
    <2>2. turn' \in 1 .. 2 /\ faults' \in 0 .. MaxFaults
      BY <1>1, <1>5 DEF ReadState, SessionTypeOK
    <2>3. QED
      BY <1>4, <1>8, <1>9, <2>1, <2>2, EmptiedNext DEF EmptyState, EmptyMemory, Records
  <1>11. CASE ~PauseNow(written + 1)
    <2>1. T' = T /\ Fed' = Fed
      BY <1>5, <1>11 DEF T, Fed
    <2>2. SessionTypeOK'
      BY <1>1, <1>5, <1>9, <1>11, <2>1 DEF ReadState, SessionTypeOK, Parts
    <2>3. ReadIn'
      BY <1>1, <1>2, <1>5, <1>6, <1>11, <2>1, Fixed DEF ReadState, ReadIn, Reading, Checkpointing
    <2>4. Records' /\ pc' \in Reading /\ (ks = StateAfter(Fed) /\ pcached = CountsAfter(Fed))'
      BY <1>1, <1>4, <1>5, <1>11, <2>1, Fixed DEF ReadState, Reading, Records
    <2>5. ReadState'
      BY <1>1, <1>4, <1>5, <1>8, <1>9, <1>11, <2>1, <2>2, <2>3, <2>4 DEF ReadState
    <2>6. QED
      BY <2>5, ReadKeepsNext
  <1>12. QED
    BY <1>10, <1>11

LEMMA ReadChunkSInv ==
  ASSUME SInv, ReadChunk
  PROVE  SInv'
  <1>1. ReadState /\ pc = "read" /\ pc \in Reading /\ pc \in Running
    BY ReadingState DEF ReadChunk, Reading, Running
  <1>2. /\ T \in Nat /\ cached \in Nat /\ cached < T /\ T = Len(seq) /\ seq \in Seq(Id)
        /\ Fed \in Seq(Id) /\ Len(Fed) = cached /\ Tmax \in Nat /\ T < Tmax
        /\ Constants /\ cmd.chunk \in Nat \ {0} /\ Left \in Nat \ {0} /\ cached + Left = T
    <2>1. /\ T \in Nat /\ cached \in 0 .. T /\ seq \in Seq(Id) /\ Fed \in Seq(Id)
          /\ Len(Fed) = cached /\ Tmax \in Nat /\ T < Tmax
      BY <1>1, Counters
    <2>2. cached < T /\ Constants
      BY <1>1 DEF ReadState, ReadIn
    <2>3. Left \in Nat \ {0} /\ cached + Left = T
      BY <2>1, <2>2 DEF Left
    <2>4. T = Len(seq) /\ cmd.chunk \in Nat \ {0}
      BY <2>2, Model DEF T
    <2>5. QED
      BY <2>1, <2>2, <2>3, <2>4
  <1>3. PICK c \in 1 .. Left : c = Chunk
    BY <1>2, LeastOfTwo DEF Chunk
  <1>4. PICK ids : ids = SubSeq(seq, cached + 1, cached + c)
    OBVIOUS
  <1>5. PICK s : s = SubSeq(seq, 1, cached + c)
    OBVIOUS
  <1>6. ids \in Seq(Id) /\ s \in Seq(Id) /\ Len(s) = cached + c /\ s = Fed \o ids
    <2>1. cached \in 0 .. Len(seq) /\ cached + c \in cached .. Len(seq)
      BY <1>2, <1>3
    <2>2. s \in Seq(Id) /\ Len(s) = cached + c
      BY <1>2, <1>5, <2>1, CutFirst
    <2>3. cached + 1 \in 1 .. Len(seq) + 1 /\ cached + c \in 0 .. Len(seq) /\ cached + 1 <= cached + c + 1
      BY <1>2, <1>3
    <2>4. ids \in Seq(Id)
      BY <1>2, <1>4, <2>3, Cut
    <2>5. Fed \o ids = s
      BY <1>2, <1>4, <1>5, <2>1, CutConcat DEF Fed
    <2>6. QED
      BY <2>2, <2>4, <2>5
  <1>7. /\ world' = world /\ cmd' = cmd /\ disk' = disk /\ turn' = turn /\ faults' = faults
        /\ seq' = seq /\ nout' = nout /\ Tmax' = Tmax /\ cached' = cached + c
        /\ pc' = IF c = Left THEN "first" ELSE IF Checkpointing THEN "open" ELSE "read"
        /\ log' = log /\ d' = d /\ dw' = dw /\ dlog' = dlog /\ written' = written /\ sigint' = sigint
    BY <1>3 DEF ReadChunk, fixed, tentative, drafts
  <1>8. T' = T /\ Fed' = s /\ cached' \in 1 .. T /\ cached < cached'
        /\ (c = Left => cached' = T) /\ (c # Left => cached' < T)
    BY <1>2, <1>3, <1>5, <1>7 DEF T, Fed
  <1>9. /\ ks = StateAfter(Fed) /\ pcached = CountsAfter(Fed)
        /\ rows = RowsAfter(Fed, Tmax) /\ passes = Over(Blank(Tmax), 0, DepthsOf(Fed))
    BY <1>1 DEF ReadState, ReadIn
  <1>10. ks' = StateAfter(s)
    <2>1. ks' = [p \in Passes |-> Feed(ks[p], Reaching(p, ids))]
      BY <1>3, <1>4 DEF ReadChunk, Forward
    <2>2. QED
      BY <1>2, <1>6, <1>9, <2>1, SerialStates
  <1>11. pcached' = CountsAfter(s)
    <2>1. pcached' = [p \in 2 .. RMax |-> pcached[p] + Len(Reaching(p, ids))]
      BY <1>3, <1>4 DEF ReadChunk, Forward
    <2>2. QED
      BY <1>2, <1>6, <1>9, <2>1, SerialCounts
  <1>12. rows' = RowsAfter(s, Tmax)
    <2>1. rows' = [p \in Passes |-> Over(rows[p], RowsEnd(p), Reaching(p, ids))]
      BY <1>3, <1>4 DEF ReadChunk, Forward, RowsEnd
    <2>2. \A p \in Passes : RowsEnd(p) = Len(Reaching(p, Fed))
      BY <1>1, RowsEnds
    <2>3. rows' = [p \in Passes |-> Over(RowsAfter(Fed, Tmax)[p], Len(Reaching(p, Fed)),
                                         Reaching(p, ids))]
      BY <1>9, <2>1, <2>2
    <2>4. QED
      BY <1>2, <1>6, <2>3, SerialRows
  <1>13. passes' = Over(Blank(Tmax), 0, DepthsOf(s))
    <2>1. passes' = Over(passes, cached, DepthsOf(ids))
      BY <1>3, <1>4 DEF ReadChunk, Forward
    <2>2. QED
      BY <1>2, <1>6, <1>9, <2>1, SerialPasses
  <1>14. Constants' /\ pc' \in Reading /\ pc' \notin {"write", "rename", "saving"}
    BY <1>2, <1>7 DEF Constants, Reading
  <1>15. SessionTypeOK'
    BY <1>1, <1>7, <1>8 DEF ReadState, SessionTypeOK
  <1>16. Records' /\ Files' /\ SavedIsSerial'
    BY <1>1, <1>7, <1>14, SameCheckpoint, SameState DEF ReadState, Records, Files
  <1>17. ReadIn'
    <2>1. (rows = RowsAfter(Fed, Tmax) /\ passes = Over(Blank(Tmax), 0, DepthsOf(Fed)) /\ nout = 0)'
      BY <1>1, <1>7, <1>8, <1>12, <1>13, Fixed DEF ReadState, ReadIn
    <2>2. (IF pc = "first" THEN cached = T ELSE cached < T)'
      BY <1>7, <1>8
    <2>3. (turn = 1 => seq = Prompt)'
      BY <1>1, <1>7 DEF ReadState, ReadIn
    <2>4. (pc \in {"open", "write", "rename"} => Checkpointing /\ cached > 0)'
      BY <1>7, <1>8 DEF Checkpointing
    <2>5. Checkpointing /\ disk.ckpt # NoFile =>
            disk.ckpt.cached <= cached /\ disk.ckpt.cached \in Nat
      BY <1>1 DEF ReadState, ReadIn, Files
    <2>6. (Checkpointing /\ disk.ckpt # NoFile =>
            IF pc = "read" THEN disk.ckpt.cached <= cached
            ELSE pc # "first" => disk.ckpt.cached < cached)'
      BY <1>2, <1>3, <1>7, <2>5 DEF Checkpointing
    <2>7. QED
      BY <2>1, <2>2, <2>3, <2>4, <2>6 DEF ReadIn
  <1>18. (ks = StateAfter(Fed) /\ pcached = CountsAfter(Fed))'
    BY <1>7, <1>8, <1>10, <1>11, Fixed
  <1>19. ReadState'
    BY <1>1, <1>7, <1>8, <1>14, <1>15, <1>16, <1>17, <1>18 DEF ReadState
  <1>20. QED
    BY <1>19, ReadKeepsNext

-----------------------------------------------------------------------------
(***************************************************************************)
(* The start of a run, from nothing or from a file.                        *)
(***************************************************************************)
LEMMA Allocates ==
  ASSUME Constants, NEW cap, Alloc(cap)
  PROVE  /\ Tmax' = cap /\ nout' = 0 /\ written' = 0 /\ d' = <<>>
         /\ log' \in [Passes -> Seq(Cell)]
         /\ \A p \in Passes : Len(log'[p]) = cmd.spec_n + 1
         /\ dlog' \in Seq(Cell) /\ Len(dlog') = cmd.spec_n + 1
         /\ sigint' \in {"default", "armed"}
         /\ dw' = [cached |-> 0, ks |-> ZeroState, row |-> 0]
  <1>1. cmd.spec_n + 1 \in Nat /\ NoId \in Cell
    BY Model DEF Cell
  <1> DEFINE b == NoRows(cmd.spec_n + 1)
  <1>2. b = Blank(cmd.spec_n + 1)
    BY DEF NoRows, Blank
  <1>3. b \in Seq(Cell) /\ Len(b) = cmd.spec_n + 1
    BY <1>1, <1>2, BlankType
  <1>4. /\ log' = [p \in Passes |-> b] /\ dlog' = b
        /\ Tmax' = cap /\ nout' = 0 /\ written' = 0 /\ d' = <<>>
        /\ sigint' \in {"default", "armed"}
        /\ dw' = [cached |-> 0, ks |-> ZeroState, row |-> 0]
    BY DEF Alloc
  <1> HIDE DEF b
  <1>5. QED
    BY <1>3, <1>4

(* A run that starts with s carried, in the rows serial decode leaves.     *)
StartsAt(s) ==
  /\ Constants' /\ world' = world /\ cmd' = cmd /\ disk' = disk
  /\ turn' = turn /\ faults' = faults /\ turn \in 1 .. 2 /\ pc' = "read"
  /\ Alloc(Tmax') /\ Tmax' = Len(seq') + cmd.gen + 1
  /\ seq' \in Seq(Id) /\ cached' \in 0 .. Len(seq') /\ cached' < Len(seq')
  /\ Fed' = s
  /\ ks' = StateAfter(s) /\ pcached' = CountsAfter(s)
  /\ rows' = RowsAfter(s, Tmax') /\ passes' = Over(Blank(Tmax'), 0, DepthsOf(s))
  /\ turn = 1 => seq' = Prompt
  /\ Checkpointing /\ disk.ckpt # NoFile => disk.ckpt.cached <= cached'

LEMMA StartsSInv ==
  ASSUME SInv, NEW s, StartsAt(s)
  PROVE  SInv'
  <1>1. /\ Constants' /\ world' = world /\ cmd' = cmd /\ disk' = disk
        /\ turn' = turn /\ faults' = faults /\ turn \in 1 .. 2 /\ pc' = "read"
        /\ Tmax' = Len(seq') + cmd.gen + 1
        /\ seq' \in Seq(Id) /\ cached' \in 0 .. Len(seq') /\ cached' < Len(seq')
        /\ Constants
    BY DEF StartsAt, SInv
  <1>2. /\ nout' = 0 /\ written' = 0 /\ d' = <<>>
        /\ log' \in [Passes -> Seq(Cell)]
        /\ \A p \in Passes : Len(log'[p]) = cmd.spec_n + 1
        /\ dlog' \in Seq(Cell) /\ Len(dlog') = cmd.spec_n + 1
        /\ sigint' \in {"default", "armed"}
        /\ dw' = [cached |-> 0, ks |-> ZeroState, row |-> 0]
    BY <1>1, Allocates DEF StartsAt
  <1>3. T' = Len(seq') /\ T' \in Nat /\ T' > 0 /\ cmd.gen \in Nat
    BY <1>1, Model DEF T
  <1>4. SessionTypeOK'
    BY <1>1, <1>2, <1>3, EmptySeq DEF SInv, SessionTypeOK
  <1>5. pc' \in Reading /\ pc' \notin {"write", "rename", "saving", "open", "first"}
    BY <1>1 DEF Reading
  <1>6. Records' /\ Files' /\ SavedIsSerial'
    BY <1>1, <1>2, <1>5, SameCheckpoint, SameState DEF SInv, Records, Files
  <1>7. /\ ks' = StateAfter(Fed') /\ pcached' = CountsAfter(Fed')
        /\ rows' = RowsAfter(Fed', Tmax') /\ passes' = Over(Blank(Tmax'), 0, DepthsOf(Fed'))
        /\ Fed' = s
    BY DEF StartsAt
  <1>8. /\ (ks = StateAfter(Fed) /\ pcached = CountsAfter(Fed))'
        /\ (rows = RowsAfter(Fed, Tmax))'
    BY <1>1, <1>7, Fixed
  <1>9. (passes = Over(Blank(Tmax), 0, DepthsOf(Fed)))'
    BY <1>1, <1>7, Fixed
  <1>10. ReadIn'
    BY <1>1, <1>2, <1>3, <1>5, <1>8, <1>9 DEF ReadIn, Checkpointing, StartsAt
  <1>11. (Tmax = T - nout + cmd.gen + 1)'
    BY <1>1, <1>2, <1>3
  <1>12. ReadState'
    BY <1>1, <1>2, <1>3, <1>4, <1>5, <1>6, <1>8, <1>10, <1>11 DEF ReadState
  <1>13. QED
    BY <1>12, ReadKeepsNext

LEMMA StartFreshSInv ==
  ASSUME SInv, StartFresh
  PROVE  SInv'
  <1>1. /\ world' = world /\ cmd' = cmd /\ disk' = disk /\ turn' = turn /\ faults' = faults
        /\ pc' = "read" /\ seq' = Given /\ cached' = 0
        /\ Constants /\ Constants' /\ pc = "idle" /\ ~Loading
    BY DEF StartFresh, fixed, SInv, Constants
  <1>2. turn = 1
    <2>1. turn \in 1 .. 2
      BY <1>1 DEF SInv, Idle, Running, Reading, Decoding, Drafting, Saving
    <2>2. QED
      BY <1>1, <2>1 DEF Loading
  <1>3. Given = Prompt /\ Given \in Seq(Id) /\ Given # <<>>
    BY <1>2, SessionAssumption DEF Given
  <1>4. Len(Given) \in Nat \ {0} /\ cmd.gen \in Nat
    BY <1>1, <1>3, Model, EmptySeq
  <1>5. Alloc(Len(Given) + cmd.gen + 1) /\ Tmax' = Len(Given) + cmd.gen + 1
    <2>1. Ceiling(0, Len(Given)) = Len(Given) + cmd.gen + 1
      BY <1>4 DEF Ceiling
    <2>2. QED
      BY <2>1 DEF StartFresh, Alloc
  <1>6. Fed' = <<>>
    <2>1. Fed' = SubSeq(Given, 1, 0)
      BY <1>1 DEF Fed
    <2>2. SubSeq(Given, 1, 0) \in Seq(Id) /\ Len(SubSeq(Given, 1, 0)) = 0
      BY <1>3, <1>4, CutFirst
    <2>3. QED
      BY <2>1, <2>2, EmptySeq
  <1>7. passes' = Over(Blank(Tmax'), 0, DepthsOf(<<>>))
    <2>1. DepthsOf(<<>>) = <<>>
      BY <1>1, Nothing
    <2> DEFINE b == Blank(Tmax')
               r == Over(b, 0, <<>>)
    <2>2. Tmax' \in Nat /\ NoId \in Cell /\ <<>> \in Seq(Cell) /\ Len(<<>>) = 0
      BY <1>4, <1>5, EmptySeq DEF Cell
    <2>3. b \in Seq(Cell) /\ Len(b) = Tmax' /\ \A i \in 1 .. Tmax' : b[i] = NoId
      BY <2>2, BlankType
    <2>4. r \in Seq(Cell) /\ Len(r) = Tmax'
          /\ \A i \in 1 .. Tmax' : r[i] = IF i <= Len(<<>>) THEN <<>>[i] ELSE NoId
      <3>1. Tmax' \in Len(<<>>) .. Tmax'
        BY <2>2
      <3>2. QED
        BY <2>2, <3>1, OverNothing
    <2> HIDE DEF b, r
    <2>5. \A i \in 1 .. Tmax' : r[i] = b[i]
      BY <2>2, <2>3, <2>4
    <2>6. r = b
      BY <2>3, <2>4, <2>5, SeqEqual
    <2>7. passes' = b
      BY DEF StartFresh, b
    <2>8. QED
      BY <2>1, <2>6, <2>7 DEF r, b
  <1>8. /\ ks' = StateAfter(<<>>) /\ pcached' = CountsAfter(<<>>)
        /\ rows' = RowsAfter(<<>>, Tmax')
    BY DEF StartFresh
  <1>9. Checkpointing /\ disk.ckpt # NoFile => disk.ckpt.cached <= cached'
    BY <1>1 DEF Loading
  <1>10. StartsAt(<<>>)
    BY <1>1, <1>2, <1>3, <1>4, <1>5, <1>6, <1>7, <1>8, <1>9 DEF StartsAt
  <1>11. QED
    BY <1>10, StartsSInv

(* A file that loads is the one serial decode writes.                      *)
LEMMA LoadableIsSerial ==
  ASSUME SInv, pc = "idle", Loading, Acceptable
  PROVE  /\ Source = FileAfter(Source.ids, Source.cached, world.layout)
         /\ Source.ids \in Seq(Id) /\ Source.cached \in 0 .. Len(Source.ids)
         /\ turn = 1 => Source = disk.ckpt
         /\ turn \in 1 .. 2
  <1>1. turn \in 1 .. 2
    BY DEF SInv, Idle, Running, Reading, Decoding, Drafting, Saving
  <1>2. /\ Source # NoFile /\ Source.parts = Whole /\ Source.layout = world.layout
        /\ Source.cached <= Len(Source.ids)
    BY DEF Acceptable, Loads
  <1>3. CASE turn = 1
    <2>1. Source = disk.ckpt
      BY <1>3 DEF Source
    <2>2. /\ Source.ids \in Seq(Id) /\ Source.cached \in 0 .. Len(Source.ids)
          /\ Source = [FileAfter(Source.ids, Source.cached, Source.layout)
                         EXCEPT !.parts = Source.parts]
      BY <1>2, <2>1 DEF SInv, Files
    <2> HIDE DEF Source
    <2>3. PICK f : f = FileAfter(Source.ids, Source.cached, Source.layout)
      OBVIOUS
    <2>4. f = [f EXCEPT !.parts = Whole]
      BY <2>3 DEF FileAfter
    <2>5. QED
      BY <1>1, <1>2, <2>1, <2>2, <2>3, <2>4
  <1>4. CASE turn = 2
    <2>1. Source = disk.state
      BY <1>4 DEF Source
    <2>2. /\ Source = FileAfter(Source.ids, Source.cached, world.layout)
          /\ Source.ids \in Seq(Id) /\ Source.cached \in Nat
      BY <1>2, <2>1 DEF SInv, Files, SavedIsSerial
    <2> HIDE DEF Source
    <2>3. Source.cached \in 0 .. Len(Source.ids)
      BY <1>2, <2>2
    <2>4. QED
      BY <1>1, <1>4, <2>2, <2>3
  <1>5. QED
    BY <1>1, <1>3, <1>4

LEMMA StartLoadedSInv ==
  ASSUME SInv, StartLoaded
  PROVE  SInv'
  <1>1. /\ world' = world /\ cmd' = cmd /\ disk' = disk /\ turn' = turn /\ faults' = faults
        /\ pc' = "read" /\ pc = "idle" /\ Loading /\ Acceptable
        /\ Constants /\ Constants'
    BY DEF StartLoaded, fixed, SInv, Constants
  <1>2. /\ Source = FileAfter(Source.ids, Source.cached, world.layout)
        /\ Source.ids \in Seq(Id) /\ Source.cached \in 0 .. Len(Source.ids)
        /\ turn = 1 => Source = disk.ckpt
        /\ turn \in 1 .. 2
    BY <1>1, LoadableIsSerial
  <1>3. PICK ids : ids = Source.ids
    OBVIOUS
  <1>4. PICK n : n = Source.cached
    OBVIOUS
  <1>5. PICK new : new = NewIds
    OBVIOUS
  <1>6. PICK s : s = SubSeq(ids, 1, n)
    OBVIOUS
  <1>7. /\ ids \in Seq(Id) /\ n \in Nat /\ n <= Len(ids) /\ Len(ids) \in Nat
        /\ s \in Seq(Id) /\ Len(s) = n /\ \A i \in 1 .. n : s[i] = ids[i]
    BY <1>2, <1>3, <1>4, <1>6, CutFirst
  <1>8. /\ new \in Seq(Id) /\ Len(new) \in Nat
        /\ n < Len(ids) + Len(new) /\ (turn = 1 => ids \o new = Prompt)
    <2>1. CASE turn = 1
      <3>1. Given = Prompt /\ Given \in Seq(Id)
        BY <2>1, SessionAssumption DEF Given
      <3>2. /\ Len(ids) <= Len(Prompt) /\ n < Len(Prompt) /\ IsPrefix(ids, Prompt)
        BY <1>1, <1>3, <1>4, <2>1, <3>1 DEF Acceptable, IsReadIn
      <3>3. new = SubSeq(Prompt, Len(ids) + 1, Len(Prompt))
        BY <1>3, <1>5, <2>1, <3>1 DEF NewIds
      <3>4. Len(ids) + 1 \in 1 .. Len(Prompt) + 1 /\ Len(Prompt) \in 0 .. Len(Prompt)
            /\ Len(ids) + 1 <= Len(Prompt) + 1 /\ Prompt \in Seq(Id)
        BY <1>7, <3>1, <3>2
      <3>5. new \in Seq(Id) /\ Len(new) = Len(Prompt) - (Len(ids) + 1) + 1
        BY <3>3, <3>4, Cut
      <3>6. ids = SubSeq(Prompt, 1, Len(ids))
        <4>1. \A i \in 1 .. Len(ids) : ids[i] = Prompt[i]
          BY <1>7, <3>2, <3>4, PrefixIff
        <4> DEFINE c == SubSeq(Prompt, 1, Len(ids))
        <4>2. Len(ids) \in 0 .. Len(Prompt)
          BY <1>7, <3>2
        <4>3. c \in Seq(Id) /\ Len(c) = Len(ids) /\ \A i \in 1 .. Len(ids) : c[i] = Prompt[i]
          BY <3>4, <4>2, CutFirst
        <4> HIDE DEF c
        <4>4. \A i \in 1 .. Len(ids) : ids[i] = c[i]
          BY <4>1, <4>3
        <4>5. ids = c
          BY <1>7, <4>3, <4>4, SeqEqual
        <4>6. QED
          BY <4>5 DEF c
      <3>7. SubSeq(Prompt, 1, Len(ids)) \o SubSeq(Prompt, Len(ids) + 1, Len(Prompt)) = Prompt
        <4>1. Len(ids) \in 0 .. Len(Prompt) /\ Len(Prompt) \in Len(ids) .. Len(Prompt)
          BY <1>7, <3>2, <3>4
        <4>2. SubSeq(Prompt, 1, Len(Prompt)) = Prompt
          BY <3>4, CutAll
        <4>3. QED
          BY <3>4, <4>1, <4>2, CutConcat
      <3>8. ids \o new = Prompt
        BY <3>3, <3>6, <3>7
      <3>9. QED
        BY <1>7, <3>2, <3>4, <3>5, <3>8
    <2>2. CASE turn = 2
      <3>1. new = Again /\ new \in Seq(Id) /\ new # <<>>
        BY <1>5, <2>2, SessionAssumption DEF NewIds, Given
      <3>2. Len(new) \in Nat \ {0}
        BY <3>1, EmptySeq
      <3>3. QED
        BY <1>7, <2>2, <3>1, <3>2
    <2>3. QED
      BY <1>2, <2>1, <2>2
  <1>9. seq' = ids \o new /\ cached' = n
    BY <1>3, <1>4, <1>5 DEF StartLoaded
  <1>10. seq' \in Seq(Id) /\ Len(seq') = Len(ids) + Len(new)
         /\ \A i \in 1 .. Len(ids) : seq'[i] = ids[i]
    <2> DEFINE z == ids \o new
    <2>1. z \in Seq(Id) /\ Len(z) = Len(ids) + Len(new)
          /\ \A i \in 1 .. Len(ids) + Len(new) :
               z[i] = IF i <= Len(ids) THEN ids[i] ELSE new[i - Len(ids)]
      BY <1>7, <1>8, ConcatProperties
    <2> HIDE DEF z
    <2>2. z \in Seq(Id) /\ Len(z) = Len(ids) + Len(new) /\ \A i \in 1 .. Len(ids) : z[i] = ids[i]
      BY <1>7, <1>8, <2>1
    <2>3. QED
      BY <1>9, <2>2 DEF z
  <1>11. Fed' = s
    <2> DEFINE c == SubSeq(seq', 1, n)
    <2>1. n \in 0 .. Len(seq')
      BY <1>7, <1>8, <1>10
    <2>2. c \in Seq(Id) /\ Len(c) = n /\ \A i \in 1 .. n : c[i] = seq'[i]
      BY <1>10, <2>1, CutFirst
    <2>3. Fed' = c
      BY <1>9 DEF Fed
    <2> HIDE DEF c
    <2>4. \A i \in 1 .. n : c[i] = s[i]
      <3>1. \A i \in 1 .. n : i \in 1 .. Len(ids)
        BY <1>7
      <3>2. \A i \in 1 .. Len(ids) : seq'[i] = ids[i]
        BY <1>10
      <3>3. \A i \in 1 .. n : s[i] = ids[i]
        BY <1>7
      <3>4. \A i \in 1 .. n : c[i] = seq'[i]
        BY <2>2
      <3>5. QED
        BY <3>1, <3>2, <3>3, <3>4, Zenon
    <2>5. c = s
      BY <1>7, <2>2, <2>4, SeqEqual
    <2>6. QED
      BY <2>3, <2>5
  <1>12. /\ Alloc(Tmax') /\ Tmax' = Len(seq') + cmd.gen + 1 /\ Tmax' \in Nat
    <2>1. Alloc(Ceiling(Len(ids), Len(new)))
      BY <1>3, <1>5 DEF StartLoaded
    <2>2. Tmax' = Ceiling(Len(ids), Len(new))
      BY <2>1 DEF Alloc
    <2>3. cmd.gen \in Nat
      BY <1>1, Model
    <2>4. QED
      BY <1>7, <1>8, <1>10, <2>1, <2>2, <2>3 DEF Ceiling
  <1>13. /\ Source.ks = StateAfter(s) /\ Source.rows = RowsAfter(s, n)
         /\ Source.passes = Over(Blank(Len(ids)), 0, DepthsOf(s))
         /\ Source.pcached = CountsAfter(s)
    <2>1. Source = FileAfter(ids, n, world.layout)
      BY <1>2, <1>3, <1>4
    <2> HIDE DEF Source
    <2>2. QED
      BY <1>6, <2>1 DEF FileAfter
  <1>14. ks' = StateAfter(s) /\ pcached' = CountsAfter(s)
    BY <1>13 DEF StartLoaded
  <1>15. rows' = RowsAfter(s, Tmax')
    <2>1. rows' = [p \in Passes |-> Over(Blank(Tmax'), 0, RowsAfter(s, n)[p])]
      BY <1>13 DEF StartLoaded
    <2>2. ASSUME NEW p \in Passes
          PROVE  Over(Blank(Tmax'), 0, RowsAfter(s, n)[p]) = Over(Blank(Tmax'), 0, Reaching(p, s))
      <3> DEFINE x == Reaching(p, s)
      <3>1. x \in Seq(Cell) /\ Len(x) \in 0 .. n
        BY <1>1, <1>7, Reaches
      <3>2. RowsAfter(s, n)[p] = Over(Blank(n), 0, x)
        BY DEF RowsAfter
      <3> HIDE DEF x
      <3>3. NoId \in Cell /\ n \in Len(x) .. Tmax'
        BY <1>7, <1>8, <1>10, <1>12, <3>1, Model, <1>1 DEF Cell
      <3>4. Over(Blank(Tmax'), 0, Over(Blank(n), 0, x)) = Over(Blank(Tmax'), 0, x)
        BY <1>12, <3>1, <3>3, OverNothing
      <3>5. QED
        BY <3>2, <3>4 DEF x
    <2>3. QED
      BY <2>1, <2>2 DEF RowsAfter
  <1>16. passes' = Over(Blank(Tmax'), 0, DepthsOf(s))
    <2> DEFINE y == DepthsOf(s)
    <2>1. NoId \in Depths
      BY <1>1, Model DEF NoId, Depths
    <2>2. y \in Seq(Depths) /\ Len(y) = n
      BY <1>1, <1>7, DepthsType
    <2>3. passes' = Over(Blank(Tmax'), 0, Over(Blank(Len(ids)), 0, y))
      BY <1>13 DEF StartLoaded
    <2> HIDE DEF y
    <2>4. Len(ids) \in Len(y) .. Tmax'
      BY <1>7, <1>8, <1>10, <1>12, <2>2, Model, <1>1
    <2>5. Over(Blank(Tmax'), 0, Over(Blank(Len(ids)), 0, y)) = Over(Blank(Tmax'), 0, y)
      BY <1>12, <2>1, <2>2, <2>4, OverNothing
    <2>6. QED
      BY <2>3, <2>5 DEF y
  <1>17. Checkpointing /\ disk.ckpt # NoFile => disk.ckpt.cached <= cached'
    BY <1>2, <1>4, <1>7, <1>9 DEF Checkpointing
  <1>18. cached' \in 0 .. Len(seq') /\ cached' < Len(seq') /\ (turn = 1 => seq' = Prompt)
    BY <1>7, <1>8, <1>9, <1>10
  <1>19. StartsAt(s)
    BY <1>1, <1>2, <1>10, <1>11, <1>12, <1>14, <1>15, <1>16, <1>17, <1>18 DEF StartsAt
  <1>20. QED
    BY <1>19, StartsSInv

-----------------------------------------------------------------------------
(***************************************************************************)
(* What a step emits.                                                      *)
(***************************************************************************)
LEMMA CutOfConcat ==
  ASSUME NEW S, NEW s \in Seq(S), NEW e \in Seq(S), NEW k \in 0 .. Len(e), NEW z,
         z = s \o SubSeq(e, 1, k)
  PROVE  /\ z \in Seq(S) /\ Len(z) = Len(s) + k
         /\ \A i \in 1 .. Len(s) : z[i] = s[i]
         /\ \A j \in 1 .. k : z[Len(s) + j] = e[j]
         /\ \A i \in 0 .. Len(s) : SubSeq(z, 1, i) = SubSeq(s, 1, i)
         /\ \A j \in 0 .. k : SubSeq(z, 1, Len(s) + j) = s \o SubSeq(e, 1, j)
  <1> DEFINE c == SubSeq(e, 1, k)
  <1>1. Len(s) \in Nat /\ k \in Nat /\ Len(e) \in Nat /\ k <= Len(e)
    OBVIOUS
  <1>2. c \in Seq(S) /\ Len(c) = k /\ \A i \in 1 .. k : c[i] = e[i]
    BY CutFirst
  <1>3. z = s \o c
    OBVIOUS
  <1> HIDE DEF c
  <1>4. z \in Seq(S) /\ Len(z) = Len(s) + k
        /\ \A i \in 1 .. Len(s) + k : z[i] = IF i <= Len(s) THEN s[i] ELSE c[i - Len(s)]
    BY <1>2, <1>3, ConcatProperties
  <1>5. \A i \in 1 .. Len(s) : z[i] = s[i]
    BY <1>1, <1>4
  <1>6. \A j \in 1 .. k : z[Len(s) + j] = e[j]
    <2>1. ASSUME NEW j \in 1 .. k
          PROVE  z[Len(s) + j] = e[j]
      <3>1. PICK i \in 1 .. Len(s) + k : i = Len(s) + j
        BY <1>1
      <3>2. ~(i <= Len(s)) /\ i - Len(s) = j
        BY <1>1, <3>1
      <3>3. z[i] = c[i - Len(s)]
        BY <1>4, <3>2
      <3>4. QED
        BY <1>2, <3>1, <3>2, <3>3
    <2>2. QED
      BY <2>1
  <1>7. ASSUME NEW i \in 0 .. Len(s)
        PROVE  SubSeq(z, 1, i) = SubSeq(s, 1, i)
    <2> DEFINE a == SubSeq(z, 1, i)
               b == SubSeq(s, 1, i)
    <2>1. i \in 0 .. Len(z)
      BY <1>1, <1>4
    <2>2. a \in Seq(S) /\ Len(a) = i /\ \A x \in 1 .. i : a[x] = z[x]
      BY <1>4, <2>1, CutFirst
    <2>3. b \in Seq(S) /\ Len(b) = i /\ \A x \in 1 .. i : b[x] = s[x]
      BY CutFirst
    <2> HIDE DEF a, b
    <2>4. \A x \in 1 .. i : a[x] = b[x]
      BY <1>1, <1>5, <2>2, <2>3
    <2>5. a = b
      BY <2>2, <2>3, <2>4, SeqEqual
    <2>6. QED
      BY <2>5 DEF a, b
  <1>8. ASSUME NEW j \in 0 .. k
        PROVE  SubSeq(z, 1, Len(s) + j) = s \o SubSeq(e, 1, j)
    <2> DEFINE a == SubSeq(z, 1, Len(s) + j)
               f == SubSeq(e, 1, j)
               b == s \o f
    <2>1. Len(s) + j \in 0 .. Len(z) /\ j \in 0 .. Len(e)
      BY <1>1, <1>4
    <2>2. a \in Seq(S) /\ Len(a) = Len(s) + j /\ \A x \in 1 .. Len(s) + j : a[x] = z[x]
      BY <1>4, <2>1, CutFirst
    <2>3. f \in Seq(S) /\ Len(f) = j /\ \A x \in 1 .. j : f[x] = e[x]
      BY <2>1, CutFirst
    <2> HIDE DEF f
    <2>4. b \in Seq(S) /\ Len(b) = Len(s) + j
          /\ \A x \in 1 .. Len(s) + j : b[x] = IF x <= Len(s) THEN s[x] ELSE f[x - Len(s)]
      BY <2>3, ConcatProperties
    <2> HIDE DEF a, b
    <2>5. ASSUME NEW x \in 1 .. Len(s) + j
          PROVE  a[x] = b[x]
      <3>1. x \in 1 .. Len(s) + k
        BY <1>1
      <3>2. CASE x <= Len(s)
        BY <1>4, <2>2, <2>4, <3>1, <3>2
      <3>3. CASE ~(x <= Len(s))
        <4>1. x - Len(s) \in 1 .. j /\ x - Len(s) \in 1 .. k
          BY <1>1, <3>3
        <4>2. a[x] = c[x - Len(s)] /\ b[x] = f[x - Len(s)]
          BY <1>4, <2>2, <2>4, <3>1, <3>3
        <4>3. c[x - Len(s)] = e[x - Len(s)] /\ f[x - Len(s)] = e[x - Len(s)]
          BY <1>2, <2>3, <4>1
        <4>4. QED
          BY <4>2, <4>3
      <3>4. QED
        BY <3>2, <3>3
    <2>6. a = b
      BY <2>2, <2>4, <2>5, SeqEqual
    <2>7. QED
      BY <2>6 DEF a, b, f
  <1>9. QED
    BY <1>4, <1>5, <1>6, <1>7, <1>8

Outputs(emit, keep) ==
  /\ keep = Keep(emit) /\ Emit(emit, keep)
  /\ emit \in Seq(Id) /\ emit # <<>>
  /\ world' = world /\ cmd' = cmd /\ Tmax' = Tmax
  /\ \A j \in 1 .. Len(emit) : emit[j] = Greedy(seq \o SubSeq(emit, 1, j - 1))

LEMMA OutputKept ==
  ASSUME SInv, pc \in {"first", "step", "commit"}, NEW emit, NEW keep, Outputs(emit, keep)
  PROVE  /\ keep \in 0 .. Len(emit) /\ Len(emit) \in Nat \ {0}
         /\ seq' = seq \o SubSeq(emit, 1, keep)
         /\ T' = T + keep /\ nout' = nout + keep /\ nout' \in 0 .. cmd.gen
         /\ Tmax' = T' - nout' + cmd.gen + 1
         /\ nout = cmd.gen => keep = 0
         /\ nout < cmd.gen => keep > 0
         /\ \A i \in 1 .. keep - 1 : emit[i] \notin cmd.stop
  <1>1. /\ keep = EmitKeep(emit, cmd.gen - nout, Tmax - T, cmd.stop)
        /\ emit \in Seq(Id) /\ emit # <<>> /\ Tmax' = Tmax
        /\ seq' = SubSeq(seq, 1, T) \o SubSeq(emit, 1, keep) /\ nout' = nout + keep
    BY DEF Outputs, Keep, Emit
  <1>2. pc \in Running
    BY DEF Running, Reading, Decoding, Drafting
  <1>3. /\ T \in Nat /\ nout \in 0 .. cmd.gen /\ cmd.gen \in Nat /\ Tmax \in Nat
        /\ Tmax = T - nout + cmd.gen + 1 /\ seq \in Seq(Id)
    BY <1>2, Counters, Model DEF SInv
  <1>4. cmd.gen - nout \in Nat /\ Tmax - T \in Nat /\ Tmax - T > 0
    <2>1. PICK g \in Nat : g = cmd.gen
      BY <1>3
    <2>2. PICK t \in Nat : t = T
      BY <1>3
    <2>3. nout \in 0 .. g /\ Tmax \in Nat /\ Tmax = t - nout + g + 1
      BY <1>3, <2>1, <2>2
    <2>4. g - nout \in Nat /\ Tmax - t \in Nat /\ Tmax - t > 0
      BY <2>3
    <2>5. QED
      BY <2>1, <2>2, <2>4
  <1>5. /\ keep \in 0 .. Len(emit) /\ keep <= cmd.gen - nout
        /\ \A i \in 1 .. keep - 1 : emit[i] \notin cmd.stop
        /\ cmd.gen - nout > 0 => keep > 0
    BY <1>1, <1>4, Keeps
  <1>6. Len(emit) \in Nat \ {0}
    BY <1>1, EmptySeq
  <1>7. SubSeq(seq, 1, T) = seq
    BY <1>3, CutAll DEF T
  <1>8. seq' = seq \o SubSeq(emit, 1, keep)
    BY <1>1, <1>7
  <1>9. Len(seq') = Len(seq) + keep
    <2>1. PICK z : z = seq \o SubSeq(emit, 1, keep)
      OBVIOUS
    <2>2. Len(z) = Len(seq) + keep
      <3>1. seq \in Seq(Id) /\ emit \in Seq(Id) /\ keep \in 0 .. Len(emit)
        BY <1>1, <1>3, <1>5
      <3>2. QED
        BY <2>1, <3>1, CutOfConcat
    <2>3. QED
      BY <1>8, <2>1, <2>2
  <1>10. T' = T + keep
    BY <1>9 DEF T
  <1>11. keep \in Nat
    BY <1>5, <1>6
  <1>12. /\ nout' \in 0 .. cmd.gen /\ Tmax' = T' - nout' + cmd.gen + 1
         /\ nout = cmd.gen => keep = 0
         /\ nout < cmd.gen => keep > 0
    <2>1. /\ nout' = nout + keep /\ Tmax' = Tmax /\ Tmax = T - nout + cmd.gen + 1
          /\ nout \in 0 .. cmd.gen /\ cmd.gen \in Nat /\ T \in Nat
          /\ keep <= cmd.gen - nout /\ (cmd.gen - nout > 0 => keep > 0)
      BY <1>1, <1>3, <1>5
    <2> HIDE DEF T
    <2>2. QED
      BY <2>1, <1>10, <1>11
  <1>13. QED
    BY <1>1, <1>5, <1>6, <1>8, <1>10, <1>12

LEMMA OutputIsSerial ==
  ASSUME SInv, pc \in {"first", "step", "commit"}, NEW emit, NEW keep, Outputs(emit, keep)
  PROVE  SerialOutput' /\ pc' \in {"step", "save"}
  <1>1. /\ keep \in 0 .. Len(emit) /\ Len(emit) \in Nat \ {0}
        /\ seq' = seq \o SubSeq(emit, 1, keep)
        /\ T' = T + keep /\ nout' = nout + keep /\ nout' \in 0 .. cmd.gen
        /\ Tmax' = T' - nout' + cmd.gen + 1
        /\ nout = cmd.gen => keep = 0
        /\ nout < cmd.gen => keep > 0
        /\ \A i \in 1 .. keep - 1 : emit[i] \notin cmd.stop
    BY OutputKept
  <1>2. /\ world' = world /\ cmd' = cmd /\ emit \in Seq(Id) /\ Tmax' = Tmax
        /\ \A j \in 1 .. Len(emit) : emit[j] = Greedy(seq \o SubSeq(emit, 1, j - 1))
    BY DEF Outputs
  <1>3. /\ T \in Nat /\ nout \in 0 .. cmd.gen /\ cmd.gen \in Nat
        /\ seq \in Seq(Id) /\ T = Len(seq)
    BY Counters, Model DEF SInv, T
  <1>4. PICK z : z = seq'
    OBVIOUS
  <1>5. PICK n \in Nat : n = T /\ n = Len(seq)
    BY <1>3
  <1>6. PICK o \in Nat : o = nout
    BY <1>3
  <1>7. keep \in Nat /\ keep <= Len(emit)
    BY <1>1
  <1>8. /\ \A i \in 1 .. n : z[i] = seq[i]
        /\ \A j \in 1 .. keep : z[n + j] = emit[j]
        /\ \A i \in 0 .. n : SubSeq(z, 1, i) = SubSeq(seq, 1, i)
        /\ \A j \in 0 .. keep : SubSeq(z, 1, n + j) = seq \o SubSeq(emit, 1, j)
    <2>1. z = seq \o SubSeq(emit, 1, keep)
      BY <1>1, <1>4
    <2>2. seq \in Seq(Id) /\ emit \in Seq(Id) /\ keep \in 0 .. Len(emit)
      BY <1>1, <1>2, <1>3
    <2>3. /\ \A i \in 1 .. Len(seq) : z[i] = seq[i]
          /\ \A j \in 1 .. keep : z[Len(seq) + j] = emit[j]
          /\ \A i \in 0 .. Len(seq) : SubSeq(z, 1, i) = SubSeq(seq, 1, i)
          /\ \A j \in 0 .. keep : SubSeq(z, 1, Len(seq) + j) = seq \o SubSeq(emit, 1, j)
      BY <2>1, <2>2, CutOfConcat
    <2>4. QED
      BY <1>5, <2>3
  <1>12. o <= n
    <2>1. pc \in Running
      BY DEF Running, Reading, Decoding, Drafting
    <2>2. QED
      BY <1>3, <1>5, <1>6, <2>1 DEF SInv, Buffers
  <1>9. \A x : Greedy(x)' = Greedy(x)
    BY <1>2 DEF Greedy, LastIds
  <1>10. ASSUME NEW i \in n - o + 1 .. n + keep
         PROVE  z[i] = Greedy(SubSeq(z, 1, i - 1))
    <2>1. i \in Nat /\ i > 0
      BY <1>5, <1>6, <1>7, <1>12
    <2>2. CASE i <= n
      <3>1. seq[i] = Greedy(SubSeq(seq, 1, i - 1))
        BY <1>5, <1>6, <2>2 DEF SInv, SerialOutput
      <3>2. i \in 1 .. n /\ i - 1 \in 0 .. n
        BY <2>1, <2>2
      <3>3. z[i] = seq[i] /\ SubSeq(z, 1, i - 1) = SubSeq(seq, 1, i - 1)
        BY <1>8, <3>2
      <3>4. QED
        BY <3>1, <3>3
    <2>3. CASE ~(i <= n)
      <3>1. PICK j \in 1 .. keep : i = n + j /\ i - 1 = n + (j - 1)
        BY <1>7, <2>1, <2>3
      <3>2. j \in 1 .. Len(emit) /\ j - 1 \in 0 .. keep
        BY <1>1, <1>7
      <3>3. z[n + j] = emit[j] /\ SubSeq(z, 1, n + (j - 1)) = seq \o SubSeq(emit, 1, j - 1)
        BY <1>8, <3>2
      <3>4. emit[j] = Greedy(seq \o SubSeq(emit, 1, j - 1))
        BY <1>2, <3>2
      <3>5. QED
        BY <3>1, <3>3, <3>4
    <2>4. QED
      BY <2>2, <2>3

  <1>11. ASSUME NEW i \in n - o + 1 .. n + keep - 1
         PROVE  z[i] \notin cmd.stop
    <2>1. i \in Nat /\ i > 0
      BY <1>5, <1>6, <1>7, <1>12
    <2>2. CASE i < n
      <3>1. seq[i] \notin cmd.stop
        BY <1>5, <1>6, <1>7, <2>2 DEF SInv, SerialOutput
      <3>2. z[i] = seq[i]
        BY <1>8, <2>1, <2>2
      <3>3. QED
        BY <3>1, <3>2
    <2>3. CASE i = n
      <3>1. o > 0
        BY <1>5, <1>6, <1>7, <2>3
      <3>2. pc # "first"
        BY <1>6, <3>1 DEF SInv, ReadIn, Reading
      <3>3. seq[T] \notin cmd.stop
        BY <3>2 DEF SInv, SerialOutput
      <3>4. z[i] = seq[i]
        BY <1>8, <2>1, <2>3
      <3>5. QED
        BY <1>5, <2>3, <3>3, <3>4
    <2>4. CASE i > n
      <3>1. PICK j \in 1 .. keep : i = n + j /\ j \in 1 .. keep - 1
        BY <1>7, <2>1, <2>4
      <3>2. z[n + j] = emit[j]
        BY <1>8
      <3>3. QED
        BY <1>1, <3>1, <3>2
    <2>5. QED
      BY <1>5, <2>1, <2>2, <2>3, <2>4
  <1>13. T' = n + keep /\ nout' = o + keep /\ T' - nout' = n - o
    BY <1>1, <1>5, <1>6, <1>7
  <1>14. pc' = IF \/ keep > 0 /\ emit[keep] \in cmd.stop
                  \/ T + keep >= Tmax
                  \/ nout + keep >= cmd.gen
               THEN "save" ELSE "step"
    BY DEF Outputs, Emit
  <1>15. ~(T + keep >= Tmax)
    <2>1. Tmax = n + keep - (o + keep) + cmd.gen + 1 /\ o + keep \in 0 .. cmd.gen
      BY <1>1, <1>2, <1>13
    <2>2. ~(n + keep >= Tmax)
      BY <1>3, <1>5, <1>6, <1>7, <2>1
    <2>3. QED
      BY <1>5, <2>2
  <1>16. keep > 0 => z[n + keep] = emit[keep]
    BY <1>7, <1>8
  <1>17. pc' = "step" => nout' < cmd.gen /\ z[n + keep] \notin cmd.stop
    <2>1. ASSUME pc' = "step"
          PROVE  nout' < cmd.gen /\ z[n + keep] \notin cmd.stop
      <3>1. nout' < cmd.gen /\ ~(keep > 0 /\ emit[keep] \in cmd.stop)
        BY <1>1, <1>3, <1>7, <1>14, <2>1
      <3>2. keep > 0
        BY <1>1, <1>3, <1>7, <3>1
      <3>3. QED
        BY <1>16, <3>1, <3>2
    <2>2. QED
      BY <2>1
  <1>18. pc' = "save" => nout' = cmd.gen \/ z[n + keep] \in cmd.stop
    <2>1. ASSUME pc' = "save", ~(keep > 0 /\ emit[keep] \in cmd.stop)
          PROVE  nout' = cmd.gen
      <3>1. nout + keep >= cmd.gen
        BY <1>14, <1>15, <2>1
      <3>2. nout' = nout + keep /\ nout' \in 0 .. cmd.gen
        BY <1>1
      <3>3. QED
        BY <1>3, <1>7, <3>1, <3>2
    <2>2. QED
      BY <1>16, <2>1
  <1>19. SerialOutput'
    <2>1. (\A i \in T - nout + 1 .. T : seq[i] = Greedy(SubSeq(seq, 1, i - 1)))'
      <3>1. \A i \in T' - nout' + 1 .. T' : seq'[i] = Greedy(SubSeq(z, 1, i - 1))
        BY <1>4, <1>10, <1>13
      <3>2. QED
        BY <1>4, <1>9, <3>1
    <2>2. (\A i \in T - nout + 1 .. T - 1 : seq[i] \notin cmd.stop)'
      <3>1. ASSUME NEW i \in T' - nout' + 1 .. T' - 1
            PROVE  seq'[i] \notin cmd'.stop
        <4>1. i \in n - o + 1 .. n + keep - 1
          BY <1>7, <1>13
        <4>2. QED
          BY <1>2, <1>4, <1>11, <4>1
      <3>2. QED
        BY <3>1
    <2>3. pc' \in {"step", "save"}
      BY <1>14
    <2>4. QED
      BY <1>2, <1>4, <1>13, <1>17, <1>18, <2>1, <2>2, <2>3 DEF SerialOutput
  <1>20. QED
    BY <1>14, <1>19

-----------------------------------------------------------------------------
(***************************************************************************)
(* Decoding.                                                               *)
(***************************************************************************)
DecodeState ==
  /\ Constants /\ Records /\ SessionTypeOK /\ SavedIsSerial /\ Files /\ Buffers
  /\ CarriedIsSerial /\ SerialOutput /\ Tentative /\ Draft /\ Saved /\ pc \in Decoding

LEMMA DecodeKeeps == DecodeState => SInv
  <1> SUFFICES ASSUME DecodeState PROVE SInv
    OBVIOUS
  <1>1. pc \in Running /\ pc \notin Reading
    BY DEF DecodeState, Running, Reading, Decoding, Drafting, Saving
  <1>2. Idle /\ ReadIn
    BY <1>1 DEF Idle, ReadIn
  <1>3. QED
    BY <1>2 DEF SInv, DecodeState

LEMMA DecodeKeepsNext == DecodeState' => SInv'
  BY DecodeKeeps, PTL

(* What the layers carry is what serial decode carries after s.            *)
CarriesNext(s) ==
  /\ s \in Seq(Id) /\ Fed' = s
  /\ ks' = StateAfter(s)
  /\ CountsAfter(s) = IF pc' = "commit" THEN sweep_pcached' ELSE pcached'
  /\ rows' \in [Passes -> Seq(Cell)]
  /\ \A p \in Passes : Len(rows'[p]) = Tmax' /\ IsPrefix(Reaching(p, s), rows'[p])
  /\ passes' \in Seq(Depths) /\ Len(passes') = Tmax'
  /\ SubSeq(passes', 1, cached') = DepthsOf(s)
  /\ T' = cached' + (IF cmd.gen = 0 THEN 0 ELSE 1)

LEMMA CarriedNext ==
  ASSUME world' = world, cmd' = cmd, NEW s, CarriesNext(s)
  PROVE  CarriedIsSerial'
  <1>1. /\ StateAfter(Fed)' = StateAfter(s) /\ CountsAfter(Fed)' = CountsAfter(s)
        /\ \A p : Reaching(p, Fed)' = Reaching(p, s)
        /\ DepthsOf(Fed)' = DepthsOf(s)
    BY Fixed DEF CarriesNext
  <1>2. /\ ks' = StateAfter(s)
        /\ CountsAfter(s) = IF pc' = "commit" THEN sweep_pcached' ELSE pcached'
        /\ \A p \in Passes : IsPrefix(Reaching(p, s), rows'[p])
        /\ SubSeq(passes', 1, cached') = DepthsOf(s)
        /\ T' = cached' + (IF cmd.gen = 0 THEN 0 ELSE 1)
    BY DEF CarriesNext
  <1>3. QED
    BY <1>1, <1>2 DEF CarriedIsSerial

(* A step of the output loop that carries s keeps the invariant.           *)
LEMMA OutputKeeps ==
  ASSUME SInv, pc \in {"first", "step", "commit"}, NEW emit, NEW keep, Outputs(emit, keep),
         NEW s, CarriesNext(s),
         disk' = disk, turn' = turn, faults' = faults, log' = log, dlog' = dlog,
         d' = <<>>, written' = written, sigint' \in {"default", "armed", "requested"},
         cached' \in Nat, dw' = [cached |-> dw'.cached, ks |-> dw'.ks, row |-> dw'.row], Draft'
  PROVE  SInv'
  <1>1. world' = world /\ cmd' = cmd /\ Tmax' = Tmax
    BY DEF Outputs
  <1>2. /\ pc' \in {"step", "save"} /\ SerialOutput'
    BY OutputIsSerial
  <1>3. /\ T' = T + keep /\ nout' \in 0 .. cmd.gen /\ nout' = nout + keep
        /\ Tmax' = T' - nout' + cmd.gen + 1 /\ keep \in 0 .. Len(emit)
        /\ Len(emit) \in Nat /\ seq' = seq \o SubSeq(emit, 1, keep)
    BY OutputKept
  <1>4. emit \in Seq(Id) /\ seq \in Seq(Id)
    BY Counters DEF Outputs
  <1>5. seq' \in Seq(Id)
    <2>1. PICK z : z = seq \o SubSeq(emit, 1, keep)
      OBVIOUS
    <2>2. z \in Seq(Id)
      BY <1>3, <1>4, <2>1, CutOfConcat
    <2>3. QED
      BY <1>3, <2>1, <2>2
  <1>6. CarriedIsSerial'
    BY <1>1, CarriedNext
  <1>7. cached' \in 0 .. T'
    <2>1. T' = cached' + (IF cmd.gen = 0 THEN 0 ELSE 1)
      BY DEF CarriesNext
    <2>2. PICK t : t = T'
      OBVIOUS
    <2>3. PICK c \in Nat : c = cached'
      OBVIOUS
    <2>4. t = c \/ t = c + 1
      <3>1. PICK one \in {0, 1} : one = IF cmd.gen = 0 THEN 0 ELSE 1
        BY Zenon
      <3>2. t = c + one
        BY <2>1, <2>2, <2>3, <3>1, Zenon
      <3>3. QED
        BY <3>2
    <2>5. c \in 0 .. t
      BY <2>4
    <2>6. QED
      BY <2>2, <2>3, <2>5
  <1>8. pc \in Running /\ T > nout /\ T \in Nat /\ nout \in Nat
    <2>1. pc \in Running
      BY DEF Running, Reading, Decoding, Drafting
    <2>2. T > nout /\ T \in Nat /\ nout \in 0 .. cmd.gen /\ cmd.gen \in Nat
      BY <2>1, Counters, Model DEF SInv, Buffers
    <2>3. QED
      BY <2>1, <2>2
  <1>9. T' > nout'
    BY <1>3, <1>8
  <1>10. Constants' /\ Records' /\ Files' /\ SavedIsSerial'
    BY <1>1, <1>2, SameCheckpoint, SameState DEF SInv, Constants, Records, Files
  <1>11. SessionTypeOK'
    BY <1>1, <1>2, <1>3, <1>5, <1>7, EmptySeq DEF SInv, SessionTypeOK
  <1>12. Buffers'
    BY <1>1, <1>3, <1>8, <1>9 DEF SInv, Buffers, CarriesNext, Depths
  <1>13. Tentative'
    BY <1>2 DEF Tentative, Drafting
  <1>14. Saved' /\ pc' \in Decoding
    BY <1>2 DEF Saved, Decoding, Saving
  <1>15. DecodeState'
    BY <1>2, <1>6, <1>10, <1>11, <1>12, <1>13, <1>14 DEF DecodeState
  <1>16. QED
    BY <1>15, DecodeKeepsNext

LEMMA OneEmitted ==
  ASSUME NEW x \in Id, NEW s \in Seq(Id)
  PROVE  /\ <<x>> \in Seq(Id) /\ Len(<<x>>) = 1 /\ <<x>> # <<>> /\ <<x>>[1] = x
         /\ \A j \in 1 .. Len(<<x>>) : <<x>>[j] = x /\ s \o SubSeq(<<x>>, 1, j - 1) = s
  <1>1. <<x>> \in Seq(Id) /\ Len(<<x>>) = 1 /\ <<x>> # <<>> /\ <<x>>[1] = x
    OBVIOUS
  <1> DEFINE c == SubSeq(<<x>>, 1, 0)
  <1>2. c = <<>>
    <2>1. 0 \in 0 .. Len(<<x>>)
      BY <1>1
    <2>2. c \in Seq(Id) /\ Len(c) = 0
      BY <1>1, <2>1, CutFirst
    <2>3. QED
      BY <2>2, EmptySeq
  <1> HIDE DEF c
  <1>3. s \o c = s
    BY <1>2, ConcatEmptySeq
  <1>4. ASSUME NEW j \in 1 .. Len(<<x>>)
        PROVE  <<x>>[j] = x /\ s \o SubSeq(<<x>>, 1, j - 1) = s
    <2>1. j = 1 /\ j - 1 = 0
      BY <1>1
    <2>2. QED
      BY <1>1, <1>3, <2>1 DEF c
  <1>5. QED
    BY <1>1, <1>4

LEMMA FirstSInv ==
  ASSUME SInv, First
  PROVE  SInv'
  <1>1. pc = "first" /\ ReadState /\ pc \in Reading /\ pc \in Running
    BY ReadingState DEF First, Reading, Running
  <1>2. /\ T \in Nat /\ cached = T /\ nout = 0 /\ seq \in Seq(Id) /\ T = Len(seq)
        /\ Fed = seq /\ Constants /\ cmd.gen \in Nat /\ Tmax \in Nat
    <2>1. T \in Nat /\ seq \in Seq(Id) /\ Tmax \in Nat
      BY <1>1, Counters
    <2>2. cached = T /\ nout = 0 /\ Constants
      BY <1>1 DEF ReadState, ReadIn
    <2>3. Fed = seq
      BY <2>1, <2>2, CutAll DEF Fed, T
    <2>4. QED
      BY <2>1, <2>2, <2>3, Model DEF T
  <1>3. PICK x : x = Greedy(seq)
    OBVIOUS
  <1>4. x \in Id
    BY <1>2, <1>3, GreedyType
  <1>5. ks = StateAfter(Fed) /\ ks[1].fed = seq
    <2>1. ks = StateAfter(Fed)
      BY <1>1 DEF ReadState
    <2>2. StateAfter(seq)[1].fed = seq
      BY <1>2, SerialStates, EmptySeq
    <2>3. QED
      BY <1>2, <2>1, <2>2
  <1>6. PICK keep : keep = Keep(<<x>>)
    OBVIOUS
  <1>7. /\ world' = world /\ cmd' = cmd /\ disk' = disk /\ turn' = turn /\ faults' = faults
        /\ Tmax' = Tmax /\ cached' = cached /\ ks' = ks /\ rows' = rows /\ passes' = passes
        /\ pcached' = pcached /\ log' = log /\ d' = d /\ dlog' = dlog /\ written' = written
        /\ sigint' = "default" /\ Emit(<<x>>, keep)
    BY <1>3, <1>5, <1>6 DEF First, fixed, carried, tentative
  <1>8. Outputs(<<x>>, keep)
    <2>1. /\ <<x>> \in Seq(Id) /\ <<x>> # <<>>
          /\ \A j \in 1 .. Len(<<x>>) : <<x>>[j] = Greedy(seq \o SubSeq(<<x>>, 1, j - 1))
      <3>1. PICK y : y = <<x>>
        OBVIOUS
      <3>2. /\ y \in Seq(Id) /\ y # <<>>
            /\ \A j \in 1 .. Len(y) : y[j] = x /\ seq \o SubSeq(y, 1, j - 1) = seq
        BY <1>2, <1>4, <3>1, OneEmitted
      <3>3. \A j \in 1 .. Len(y) : y[j] = Greedy(seq \o SubSeq(y, 1, j - 1))
        BY <1>3, <3>2
      <3>4. QED
        BY <3>1, <3>2, <3>3
    <2>2. QED
      BY <1>6, <1>7, <2>1 DEF Outputs
  <1>9. /\ keep \in 0 .. 1 /\ seq' = seq \o SubSeq(<<x>>, 1, keep) /\ T' = T + keep
        /\ (nout = cmd.gen => keep = 0) /\ (nout < cmd.gen => keep > 0)
    <2>1. Len(<<x>>) = 1
      OBVIOUS
    <2>2. QED
      BY <1>1, <1>8, <2>1, OutputKept
  <1>10. SubSeq(seq', 1, T) = seq
    <2>1. PICK z : z = seq \o SubSeq(<<x>>, 1, keep)
      OBVIOUS
    <2>2. <<x>> \in Seq(Id) /\ Len(<<x>>) = 1
      BY <1>4
    <2>3. Len(seq) \in 0 .. Len(seq) /\ keep \in 0 .. Len(<<x>>)
      BY <1>2, <1>9, <2>2
    <2>4. SubSeq(z, 1, Len(seq)) = SubSeq(seq, 1, Len(seq))
      BY <1>2, <2>1, <2>2, <2>3, CutOfConcat
    <2>5. SubSeq(seq, 1, Len(seq)) = seq
      BY <1>2, CutAll
    <2>6. QED
      BY <1>2, <1>9, <2>1, <2>4, <2>5
  <1>11. CarriesNext(Fed)
    <2>1. Fed' = Fed
      BY <1>2, <1>7, <1>10 DEF Fed
    <2>2. pc' # "commit"
      BY <1>7 DEF Emit
    <2>3. /\ pcached = CountsAfter(Fed) /\ SubSeq(passes, 1, cached) = DepthsOf(Fed)
          /\ \A p \in Passes : IsPrefix(Reaching(p, Fed), rows[p])
          /\ rows \in [Passes -> Seq(Cell)] /\ \A p \in Passes : Len(rows[p]) = Tmax
          /\ passes \in Seq(Depths) /\ Len(passes) = Tmax
      BY <1>1 DEF SInv, CarriedIsSerial, Buffers, Depths
    <2>4. T' = cached' + (IF cmd.gen = 0 THEN 0 ELSE 1)
      <3>1. CASE cmd.gen = 0
        BY <1>2, <1>7, <1>9, <3>1
      <3>2. CASE cmd.gen > 0
        BY <1>2, <1>7, <1>9, <3>2
      <3>3. QED
        BY <1>2, <3>1, <3>2
    <2> HIDE DEF Fed
    <2>5. QED
      BY <1>2, <1>5, <1>7, <2>1, <2>2, <2>3, <2>4 DEF CarriesNext
  <1>12. d' = <<>>
    BY <1>1, <1>7 DEF ReadState
  <1>13. Draft'
    <2>1. pc' \in {"step", "save"}
      BY <1>7 DEF Emit
    <2>2. ASSUME cmd.hybrid
          PROVE  /\ dw'.cached = cached' /\ dw'.row = 0
                 /\ dw'.ks = Feed(ZeroState, SubSeq(seq', 1, dw'.cached))
      <3>1. dw' = [cached |-> cached, ks |-> Feed(ZeroState, seq), row |-> 0]
        BY <2>2 DEF First
      <3>2. QED
        BY <1>2, <1>7, <1>10, <3>1
    <2>3. cmd.hybrid => Lag' = 0 /\ dw'.cached \in 0 .. cached'
      BY <1>2, <1>7, <2>2 DEF Lag
    <2>4. QED
      BY <1>7, <2>1, <2>2, <2>3 DEF Draft, Drafting
  <1>14. cached' \in Nat
    BY <1>2, <1>7
  <1>15. dw' = [cached |-> dw'.cached, ks |-> dw'.ks, row |-> dw'.row]
    BY DEF First, SInv, Records
  <1>16. QED
    BY <1>1, <1>7, <1>8, <1>11, <1>12, <1>13, <1>14, <1>15, OutputKeeps

(* A forward call writes what a pass consumed behind what it had.          *)
LEMMA Writes ==
  ASSUME SInv, pc \in Running, pc # "commit", NEW ids \in Seq(Id),
         cached + Len(ids) <= Tmax, NEW r, NEW q,
         r = [p \in Passes |-> Over(rows[p], RowsEnd(p), Reaching(p, ids))],
         q = Over(passes, cached, DepthsOf(ids))
  PROVE  /\ r \in [Passes -> Seq(Cell)]
         /\ \A p \in Passes : Len(r[p]) = Tmax /\ IsPrefix(Reaching(p, Fed \o ids), r[p])
         /\ q \in Seq(Depths) /\ Len(q) = Tmax
         /\ SubSeq(q, 1, cached + Len(ids)) = DepthsOf(Fed \o ids)
  <1>1. /\ Constants /\ Fed \in Seq(Id) /\ Len(Fed) = cached /\ cached \in Nat /\ Tmax \in Nat
        /\ Len(ids) \in Nat
    BY Counters DEF SInv
  <1>2. /\ rows \in [Passes -> Seq(Cell)] /\ \A p \in Passes : Len(rows[p]) = Tmax
        /\ passes \in Seq(Depths) /\ Len(passes) = Tmax
        /\ SubSeq(passes, 1, cached) = DepthsOf(Fed)
    BY DEF SInv, Buffers, CarriedIsSerial, Depths
  <1>3. PICK s : s = Fed
    OBVIOUS
  <1>4. PICK n \in Nat : n = cached
    BY <1>1
  <1>5. ASSUME NEW p \in Passes
        PROVE  /\ r[p] \in Seq(Cell) /\ Len(r[p]) = Tmax
               /\ IsPrefix(Reaching(p, Fed \o ids), r[p])
    <2>1. PICK x : x = Reaching(p, Fed)
      OBVIOUS
    <2>2. PICK y : y = Reaching(p, ids)
      OBVIOUS
    <2>3. PICK w : w = rows[p]
      OBVIOUS
    <2>4. RowsEnd(p) = Len(x) /\ x \in Seq(Cell) /\ Len(x) \in 0 .. cached /\ IsPrefix(x, w)
      BY <2>1, <2>3, RowsEnds
    <2>5. y \in Seq(Cell) /\ Len(y) \in 0 .. Len(ids)
      BY <1>1, <2>2, Reaches
    <2>6. w \in Seq(Cell) /\ Len(w) = Tmax /\ Len(x) \in Nat
      BY <1>2, <2>3, <2>4
    <2>7. r[p] = Over(w, Len(x), y)
      BY <2>2, <2>3, <2>4
    <2>8. Len(x) + Len(y) <= Len(w)
      BY <1>1, <2>4, <2>5, <2>6
    <2>9. IsPrefix(x \o y, Over(w, Len(x), y))
      BY <2>4, <2>5, <2>6, <2>8, OverBehind
    <2>10. Over(w, Len(x), y) \in Seq(Cell) /\ Len(Over(w, Len(x), y)) = Tmax
      BY <2>5, <2>6, OverType
    <2>11. Reaching(p, Fed \o ids) = x \o y
      BY <1>1, <2>1, <2>2, ReachesOn
    <2>12. QED
      BY <2>7, <2>9, <2>10, <2>11
  <1>6. r \in [Passes -> Seq(Cell)]
    BY <1>5
  <1>7. /\ q \in Seq(Depths) /\ Len(q) = Tmax
        /\ SubSeq(q, 1, cached + Len(ids)) = DepthsOf(Fed \o ids)
    <2>1. PICK y : y = DepthsOf(ids)
      OBVIOUS
    <2>2. PICK x : x = DepthsOf(Fed)
      OBVIOUS
    <2>3. y \in Seq(Depths) /\ Len(y) = Len(ids)
      BY <1>1, <2>1, DepthsType
    <2>4. x \in Seq(Depths) /\ Len(x) = cached
      BY <1>1, <2>2, DepthsType
    <2>5. q = Over(passes, Len(x), y)
      BY <2>1, <2>4
    <2>6. q \in Seq(Depths) /\ Len(q) = Tmax
      BY <1>1, <1>2, <2>3, <2>4, <2>5, OverType
    <2>7. IsPrefix(x, passes)
      <3>1. cached \in 0 .. Len(passes)
        BY <1>2, <2>4, <1>1
      <3>2. \A i \in 1 .. cached : x[i] = passes[i]
        BY <1>2, <2>2, <3>1, CutFirst
      <3>3. Len(x) <= Len(passes) /\ \A i \in 1 .. Len(x) : x[i] = passes[i]
        BY <2>4, <3>1, <3>2
      <3>4. QED
        BY <1>2, <2>4, <3>3, PrefixIff
    <2>8. IsPrefix(x \o y, q)
      <3>1. Len(x) + Len(y) <= Len(passes)
        BY <1>2, <2>3, <2>4
      <3>2. QED
        BY <1>2, <2>3, <2>4, <2>5, <2>7, <3>1, OverBehind
    <2>9. x \o y \in Seq(Depths) /\ Len(x \o y) = cached + Len(ids)
      <3>1. x \o y \in Seq(Depths) /\ Len(x \o y) = Len(x) + Len(y)
        BY <2>3, <2>4, ConcatProperties
      <3>2. QED
        BY <2>3, <2>4, <3>1, Zenon
    <2>10. PICK z : z = x \o y
      OBVIOUS
    <2>11. SubSeq(q, 1, Len(z)) = SubSeq(z, 1, Len(z))
      <3>1. z \in Seq(Depths) /\ IsPrefix(z, q)
        BY <2>8, <2>9, <2>10
      <3>2. Len(z) \in 0 .. Len(z)
        BY <3>1
      <3>3. QED
        BY <2>6, <3>1, <3>2, PrefixCut
    <2>12. SubSeq(z, 1, Len(z)) = z
      BY <2>9, <2>10, CutAll
    <2>13. DepthsOf(Fed \o ids) = x \o y
      BY <1>1, <2>1, <2>2, DepthsOn
    <2>14. QED
      BY <2>6, <2>9, <2>10, <2>11, <2>12, <2>13
  <1>8. QED
    BY <1>5, <1>6, <1>7

(* The pending id is the last one, and room is left for the drafts.        *)
LEMMA Pending ==
  ASSUME SInv, pc \in {"step", "draft", "sweep", "commit"}
  PROVE  /\ T = cached + 1 /\ T = Len(seq) /\ nout < cmd.gen /\ cmd.gen > 0
         /\ seq[cached + 1] \in Id /\ Fed \o <<seq[cached + 1]>> = seq
  <1>1. nout < cmd.gen /\ nout \in 0 .. cmd.gen /\ cmd.gen \in Nat
    BY Counters, Model DEF SInv, SerialOutput
  <1>2. cmd.gen > 0 /\ T = cached + (IF cmd.gen = 0 THEN 0 ELSE 1)
    BY <1>1 DEF SInv, CarriedIsSerial
  <1>3. T = cached + 1 /\ T = Len(seq) /\ seq \in Seq(Id) /\ cached \in Nat /\ T \in Nat
    BY <1>2, Counters DEF T
  <1>4. seq[cached + 1] \in Id
    <2>1. cached + 1 \in 1 .. Len(seq)
      BY <1>3
    <2>2. QED
      BY <1>3, <2>1, ElementOfSeq
  <1>5. SubSeq(seq, 1, cached) \o <<seq[cached + 1]>> = seq
    <2> DEFINE x == <<seq[cached + 1]>>
               c == SubSeq(seq, 1, cached)
               z == c \o x
    <2>1. x \in Seq(Id) /\ Len(x) = 1 /\ x[1] = seq[cached + 1]
      BY <1>4
    <2>2. cached \in 0 .. Len(seq)
      BY <1>3
    <2>3. c \in Seq(Id) /\ Len(c) = cached /\ \A i \in 1 .. cached : c[i] = seq[i]
      BY <1>3, <2>2, CutFirst
    <2> HIDE DEF x, c
    <2>4. z \in Seq(Id) /\ Len(z) = Len(c) + Len(x)
          /\ \A i \in 1 .. Len(c) + Len(x) : z[i] = IF i <= Len(c) THEN c[i] ELSE x[i - Len(c)]
      BY <2>1, <2>3, ConcatProperties
    <2> HIDE DEF z
    <2>5. Len(z) = cached + 1
          /\ \A i \in 1 .. cached + 1 : z[i] = IF i <= cached THEN c[i] ELSE x[i - cached]
      BY <2>1, <2>3, <2>4
    <2>6. \A i \in 1 .. cached + 1 : z[i] = seq[i]
      <3>1. ASSUME NEW i \in 1 .. cached + 1
            PROVE  z[i] = seq[i]
        <4>1. CASE i <= cached
          BY <1>3, <2>3, <2>5, <4>1
        <4>2. CASE ~(i <= cached)
          <5>1. i = cached + 1 /\ i - cached = 1
            BY <1>3, <4>2
          <5>2. z[i] = x[i - cached]
            BY <2>5, <4>2
          <5>3. QED
            BY <2>1, <5>1, <5>2
        <4>3. QED
          BY <4>1, <4>2
      <3>2. QED
        BY <3>1
    <2>7. z = seq
      BY <1>3, <2>4, <2>5, <2>6, SeqEqual
    <2>8. QED
      BY <2>7 DEF z, c, x
  <1>6. QED
    BY <1>1, <1>2, <1>3, <1>4, <1>5 DEF Fed

LEMMA SerialStepSInv ==
  ASSUME SInv, SerialStep
  PROVE  SInv'
  <1>1. /\ pc = "step" /\ pc \in Running /\ pc \notin Drafting /\ pc # "commit"
        /\ ~(MayDraft /\ cmd.hybrid)
    BY DEF SerialStep, Running, Reading, Decoding, Drafting
  <1>2. PICK x : x = seq[cached + 1]
    OBVIOUS
  <1>3. /\ T = cached + 1 /\ T = Len(seq) /\ nout < cmd.gen /\ cmd.gen > 0
        /\ x \in Id /\ Fed \o <<x>> = seq
    BY <1>1, <1>2, Pending
  <1>4. /\ T \in Nat /\ cached \in Nat /\ seq \in Seq(Id) /\ Fed \in Seq(Id) /\ Constants
        /\ Tmax \in Nat /\ T < Tmax /\ Len(Fed) = cached
    BY <1>1, Counters DEF SInv
  <1>5. ks = StateAfter(Fed) /\ pcached = CountsAfter(Fed)
    BY <1>1 DEF SInv, CarriedIsSerial
  <1>6. PICK y : y = Greedy(seq)
    OBVIOUS
  <1>7. y \in Id /\ ks[1].fed = Fed
    BY <1>4, <1>5, <1>6, GreedyType, SerialStates, EmptySeq
  <1>8. PICK keep : keep = Keep(<<y>>)
    OBVIOUS
  <1>9. /\ world' = world /\ cmd' = cmd /\ disk' = disk /\ turn' = turn /\ faults' = faults
        /\ Tmax' = Tmax /\ cached' = cached + 1
        /\ log' = log /\ d' = d /\ dw' = dw /\ dlog' = dlog /\ written' = written
        /\ sigint' = sigint /\ Forward(<<x>>) /\ Emit(<<y>>, keep)
    BY <1>2, <1>3, <1>6, <1>7, <1>8 DEF SerialStep, fixed, tentative, drafts
  <1>10. Outputs(<<y>>, keep)
    <2>1. PICK e : e = <<y>>
      OBVIOUS
    <2>2. /\ e \in Seq(Id) /\ e # <<>>
          /\ \A j \in 1 .. Len(e) : e[j] = y /\ seq \o SubSeq(e, 1, j - 1) = seq
      BY <1>4, <1>7, <2>1, OneEmitted
    <2>3. \A j \in 1 .. Len(e) : e[j] = Greedy(seq \o SubSeq(e, 1, j - 1))
      BY <1>6, <2>2
    <2>4. QED
      BY <1>8, <1>9, <2>1, <2>2, <2>3 DEF Outputs
  <1>11. /\ keep = 1 /\ seq' = seq \o SubSeq(<<y>>, 1, keep) /\ T' = T + 1
    <2>1. Len(<<y>>) = 1
      OBVIOUS
    <2>2. keep \in 0 .. 1 /\ keep > 0 /\ seq' = seq \o SubSeq(<<y>>, 1, keep) /\ T' = T + keep
      BY <1>1, <1>3, <1>10, <2>1, OutputKept
    <2>3. QED
      BY <2>2
  <1>12. \A i \in 0 .. T : SubSeq(seq', 1, i) = SubSeq(seq, 1, i)
    <2>1. PICK z : z = seq \o SubSeq(<<y>>, 1, keep)
      OBVIOUS
    <2>2. <<y>> \in Seq(Id) /\ Len(<<y>>) = 1 /\ keep \in 0 .. Len(<<y>>)
      BY <1>7, <1>11
    <2>3. \A i \in 0 .. Len(seq) : SubSeq(z, 1, i) = SubSeq(seq, 1, i)
      BY <1>4, <2>1, <2>2, CutOfConcat
    <2>4. QED
      BY <1>3, <1>11, <2>1, <2>3
  <1>13. Fed' = seq
    <2>1. SubSeq(seq, 1, T) = seq
      BY <1>3, <1>4, CutAll
    <2>2. SubSeq(seq', 1, T) = SubSeq(seq, 1, T)
      <3>1. T \in 0 .. T
        BY <1>4
      <3>2. QED
        BY <1>12, <3>1
    <2>3. Fed' = SubSeq(seq', 1, T)
      BY <1>3, <1>9 DEF Fed
    <2>4. QED
      BY <2>1, <2>2, <2>3
  <1>14. CarriesNext(seq)
    <2>1. <<x>> \in Seq(Id) /\ Len(<<x>>) = 1 /\ cached + Len(<<x>>) <= Tmax
      BY <1>3, <1>4
    <2>2. /\ rows' = [p \in Passes |-> Over(rows[p], RowsEnd(p), Reaching(p, <<x>>))]
          /\ passes' = Over(passes, cached, DepthsOf(<<x>>))
          /\ ks' = [p \in Passes |-> Feed(ks[p], Reaching(p, <<x>>))]
          /\ pcached' = [p \in 2 .. RMax |-> pcached[p] + Len(Reaching(p, <<x>>))]
      BY <1>9 DEF Forward, RowsEnd
    <2>3. PICK r : r = rows'
      OBVIOUS
    <2>4. PICK q : q = passes'
      OBVIOUS
    <2>5. /\ r \in [Passes -> Seq(Cell)]
          /\ \A p \in Passes : Len(r[p]) = Tmax /\ IsPrefix(Reaching(p, Fed \o <<x>>), r[p])
          /\ q \in Seq(Depths) /\ Len(q) = Tmax
          /\ SubSeq(q, 1, cached + Len(<<x>>)) = DepthsOf(Fed \o <<x>>)
      <3>1. /\ r = [p \in Passes |-> Over(rows[p], RowsEnd(p), Reaching(p, <<x>>))]
            /\ q = Over(passes, cached, DepthsOf(<<x>>))
        BY <2>2, <2>3, <2>4
      <3> HIDE DEF Fed
      <3>2. QED
        BY <1>1, <2>1, <3>1, Writes
    <2>6. ks' = StateAfter(Fed \o <<x>>)
      BY <1>4, <1>5, <2>1, <2>2, SerialStates
    <2>7. pcached' = CountsAfter(Fed \o <<x>>)
      BY <1>4, <1>5, <2>1, <2>2, SerialCounts
    <2>8. pc' # "commit"
      BY <1>9 DEF Emit
    <2>9. T' = cached' + (IF cmd.gen = 0 THEN 0 ELSE 1)
      BY <1>3, <1>4, <1>9, <1>11
    <2>10. SubSeq(passes', 1, cached') = DepthsOf(seq)
      BY <1>3, <1>9, <2>1, <2>4, <2>5
    <2>11. QED
      BY <1>3, <1>4, <1>9, <1>13, <2>3, <2>4, <2>5, <2>6, <2>7, <2>8, <2>9, <2>10
         DEF CarriesNext
  <1>15. d' = <<>>
    BY <1>1, <1>9 DEF SInv, Tentative
  <1>16. Draft'
    <2>1. pc' \in {"step", "save"}
      BY <1>9 DEF Emit
    <2>2. ASSUME cmd.hybrid
          PROVE  /\ dw'.cached \in 0 .. cached' /\ dw'.row = 0
                 /\ dw'.ks = Feed(ZeroState, SubSeq(seq', 1, dw'.cached))
      <3>1. dw.cached \in 0 .. cached /\ dw.row = 0
            /\ dw.ks = Feed(ZeroState, SubSeq(seq, 1, dw.cached))
        BY <1>1, <2>2 DEF SInv, Draft
      <3>2. dw.cached \in 0 .. T /\ dw.cached \in 0 .. cached + 1
        BY <1>3, <1>4, <3>1
      <3>3. QED
        BY <1>9, <1>12, <3>1, <3>2
    <2>3. cmd.hybrid => ~MayDraft'
      <3>1. ASSUME cmd.hybrid, MayDraft'
            PROVE  FALSE
        <4>1. /\ cmd.spec_n > 0 /\ T + 1 + cmd.spec_n + 1 < Tmax
              /\ cached + 1 + cmd.spec_n + 1 <= Tmax /\ cmd.spec_n \in Nat
          BY <1>4, <1>9, <1>11, <3>1, Model DEF MayDraft
        <4>2. MayDraft
          BY <1>4, <4>1 DEF MayDraft
        <4>3. QED
          BY <1>1, <3>1, <4>2
      <3>2. QED
        BY <3>1
    <2>4. QED
      BY <1>9, <2>1, <2>2, <2>3 DEF Draft, Drafting
  <1>17. cached' \in Nat /\ sigint \in {"default", "armed", "requested"}
    BY <1>4, <1>9 DEF SInv, SessionTypeOK
  <1>18. dw' = [cached |-> dw'.cached, ks |-> dw'.ks, row |-> dw'.row]
    BY <1>9 DEF SInv, Records
  <1>19. QED
    BY <1>1, <1>9, <1>10, <1>14, <1>15, <1>16, <1>17, <1>18, OutputKeeps

-----------------------------------------------------------------------------
(***************************************************************************)
(* Drafting.                                                               *)
(***************************************************************************)
OnlyDrafts ==
  /\ world' = world /\ cmd' = cmd /\ disk' = disk /\ turn' = turn /\ faults' = faults
  /\ seq' = seq /\ nout' = nout /\ cached' = cached /\ Tmax' = Tmax
  /\ ks' = ks /\ rows' = rows /\ passes' = passes /\ pcached' = pcached
  /\ log' = log /\ written' = written /\ sigint' = sigint

LEMMA DraftsKeep ==
  ASSUME SInv, pc \in {"step", "draft"}, pc' \in {"draft", "sweep"}, OnlyDrafts,
         d' \in Seq(Id), dlog' \in Seq(Cell), Len(dlog') = cmd.spec_n + 1,
         dw' = [cached |-> dw'.cached, ks |-> dw'.ks, row |-> dw'.row],
         Tentative', Draft'
  PROVE  SInv'
  <1>1. T' = T /\ Fed' = Fed
    BY DEF T, Fed, OnlyDrafts
  <1>2. pc \in Running /\ pc # "commit" /\ pc' # "commit" /\ pc' \in Running /\ pc' \in Decoding
        /\ pc' \notin Saving
    BY DEF Running, Reading, Decoding, Drafting, Saving
  <1>3. Constants' /\ Records' /\ Files' /\ SavedIsSerial'
    BY SameCheckpoint, SameState DEF SInv, Constants, Records, Files, OnlyDrafts
  <1>4. SessionTypeOK'
    BY <1>1 DEF SInv, SessionTypeOK, OnlyDrafts
  <1>5. Buffers'
    BY <1>1, <1>2 DEF SInv, Buffers, OnlyDrafts
  <1>6. CarriedIsSerial'
    <2>1. /\ world' = world /\ cmd' = cmd
      BY DEF OnlyDrafts
    <2>2. T = cached + (IF cmd.gen = 0 THEN 0 ELSE 1)
      BY DEF SInv, CarriedIsSerial
    <2>3. CarriesNext(Fed)
      BY <1>1, <1>2, <2>2, Counters DEF CarriesNext, OnlyDrafts, SInv, CarriedIsSerial, Buffers, Depths
    <2>4. QED
      BY <2>1, <2>3, CarriedNext
  <1>7. SerialOutput'
    <2>1. \A x : Greedy(x)' = Greedy(x)
      BY DEF Greedy, LastIds, OnlyDrafts
    <2>2. (\A i \in T - nout + 1 .. T : seq[i] = Greedy(SubSeq(seq, 1, i - 1)))'
      BY <1>1, <2>1 DEF SInv, SerialOutput, OnlyDrafts
    <2>3. QED
      BY <1>1, <1>2, <2>2 DEF SInv, SerialOutput, OnlyDrafts, Saving
  <1>8. Saved'
    BY <1>2 DEF Saved, Saving
  <1>9. DecodeState'
    BY <1>2, <1>3, <1>4, <1>5, <1>6, <1>7, <1>8 DEF DecodeState
  <1>10. QED
    BY <1>9, DecodeKeepsNext

LEMMA NgramStepSInv ==
  ASSUME SInv, NgramStep
  PROVE  SInv'
  <1>1. pc = "step" /\ pc' = "sweep" /\ Drafted # <<>> /\ d' = Drafted /\ dlog' = dlog /\ dw' = dw
    BY DEF NgramStep
  <1>2. OnlyDrafts
    BY DEF NgramStep, OnlyDrafts, fixed, decoded, carried, tentative
  <1>3. MayDraft /\ ~cmd.hybrid /\ Drafted = SpecDraft(seq, cmd.spec_n)
    BY <1>1 DEF Drafted, NgramDraft
  <1>4. cmd.spec_n \in Nat /\ seq \in Seq(Id)
    BY Counters, Model DEF SInv
  <1>5. d' \in Seq(Id) /\ Len(d') \in 1 .. cmd.spec_n
    <2>1. PICK x : x = Drafted
      OBVIOUS
    <2>2. x \in Seq(Id) /\ Len(x) \in 0 .. cmd.spec_n
      BY <1>3, <1>4, <2>1, Drafts
    <2>3. Len(x) # 0
      BY <1>1, <2>1, <2>2, EmptySeq
    <2>4. QED
      BY <1>1, <1>4, <2>1, <2>2, <2>3
  <1>6. Tentative'
    <2>1. T' = T /\ Tmax' = Tmax /\ cmd' = cmd
      BY <1>2 DEF T, OnlyDrafts
    <2>2. T + cmd.spec_n + 1 < Tmax
      BY <1>3 DEF MayDraft
    <2>3. QED
      BY <1>1, <1>3, <1>5, <2>1, <2>2 DEF Tentative, Drafting
  <1>7. Draft'
    BY <1>2, <1>3 DEF Draft, OnlyDrafts
  <1>8. dlog' \in Seq(Cell) /\ Len(dlog') = cmd.spec_n + 1
    BY <1>1 DEF SInv, Buffers, Running, Decoding
  <1>9. dw' = [cached |-> dw'.cached, ks |-> dw'.ks, row |-> dw'.row]
    BY <1>1 DEF SInv, Records
  <1>10. QED
    BY <1>1, <1>2, <1>5, <1>6, <1>7, <1>8, <1>9, DraftsKeep

LEMMA LastSplit ==
  ASSUME NEW S, NEW s \in Seq(S), NEW n \in 1 .. Len(s), n = Len(s)
  PROVE  SubSeq(s, 1, n - 1) \o <<s[n]>> = s
  <1>1. n \in Nat /\ n - 1 \in 0 .. Len(s) /\ n \in n - 1 .. Len(s)
    OBVIOUS
  <1>2. s[n] \in S
    BY ElementOfSeq
  <1> DEFINE c == SubSeq(s, n, n)
             x == <<s[n]>>
  <1>3. c \in Seq(S) /\ Len(c) = 1 /\ c[1] = s[n]
    <2>1. n \in 1 .. Len(s) + 1 /\ n \in 0 .. Len(s) /\ n <= n + 1
      BY <1>1
    <2>2. c \in Seq(S) /\ Len(c) = n - n + 1 /\ \A i \in 1 .. n - n + 1 : c[i] = s[n + i - 1]
      BY <2>1, Cut
    <2>3. n - n + 1 = 1 /\ n + 1 - 1 = n
      BY <1>1
    <2> HIDE DEF c
    <2>4. QED
      BY <2>2, <2>3
  <1>4. x \in Seq(S) /\ Len(x) = 1 /\ x[1] = s[n]
    BY <1>2
  <1> HIDE DEF c, x
  <1>5. c = x
    <2>1. \A i \in 1 .. 1 : c[i] = x[i]
      BY <1>3, <1>4
    <2>2. QED
      BY <1>3, <1>4, <2>1, SeqEqual
  <1>6. SubSeq(s, 1, n - 1) \o SubSeq(s, n - 1 + 1, n) = SubSeq(s, 1, n)
    BY <1>1, CutConcat
  <1>7. n - 1 + 1 = n
    BY <1>1
  <1>8. SubSeq(s, 1, n) = s
    BY CutAll
  <1>9. QED
    BY <1>5, <1>6, <1>7, <1>8 DEF c, x

LEMMA AppendCut ==
  ASSUME NEW S, NEW s \in Seq(S), NEW x \in S
  PROVE  /\ Append(s, x) \in Seq(S) /\ Len(Append(s, x)) = Len(s) + 1
         /\ SubSeq(Append(s, x), 1, Len(s)) = s
  <1> DEFINE z == Append(s, x)
             c == SubSeq(z, 1, Len(s))
  <1>1. z \in Seq(S) /\ Len(z) = Len(s) + 1 /\ \A i \in 1 .. Len(s) : z[i] = s[i]
    BY AppendProperties
  <1> HIDE DEF z
  <1>2. Len(s) \in 0 .. Len(z)
    BY <1>1
  <1>3. c \in Seq(S) /\ Len(c) = Len(s) /\ \A i \in 1 .. Len(s) : c[i] = z[i]
    BY <1>1, <1>2, CutFirst
  <1> HIDE DEF c
  <1>4. \A i \in 1 .. Len(s) : c[i] = s[i]
    BY <1>1, <1>3
  <1>5. c = s
    BY <1>3, <1>4, SeqEqual
  <1>6. QED
    BY <1>1, <1>5 DEF z, c

(* A logged call writes behind the calls before it.                        *)
LEMMA Logs ==
  ASSUME NEW S, NEW r \in Seq(S), NEW x \in Seq(S), NEW y \in Seq(S), NEW at, at = Len(x),
         IsPrefix(x, r), Len(x) + Len(y) <= Len(r), NEW t, t = Record(r, at, y)
  PROVE  /\ t \in Seq(S) /\ Len(t) = Len(r)
         /\ IsPrefix(x \o y, t) /\ SubSeq(t, 1, Len(x) + Len(y)) = x \o y
  <1>1. t = Over(r, Len(x), y) /\ Len(x) \in Nat /\ Len(y) \in Nat
    BY RecordIsOver
  <1>2. t \in Seq(S) /\ Len(t) = Len(r)
    BY <1>1, OverType
  <1>3. PICK z : z = x \o y
    OBVIOUS
  <1>4. z \in Seq(S) /\ Len(z) = Len(x) + Len(y)
    BY <1>3, ConcatProperties
  <1>5. IsPrefix(z, t)
    BY <1>1, <1>3, OverBehind
  <1>6. SubSeq(t, 1, Len(z)) = z
    <2>1. Len(z) \in 0 .. Len(z)
      BY <1>4
    <2>2. SubSeq(t, 1, Len(z)) = SubSeq(z, 1, Len(z))
      BY <1>2, <1>4, <1>5, <2>1, PrefixCut
    <2>3. QED
      BY <1>4, <2>2, CutAll
  <1>7. QED
    BY <1>2, <1>3, <1>4, <1>5, <1>6

LEMMA LogsFirst ==
  ASSUME NEW S, NEW r \in Seq(S), NEW y \in Seq(S), Len(y) <= Len(r), NEW t, t = Record(r, 0, y)
  PROVE  /\ t \in Seq(S) /\ Len(t) = Len(r)
         /\ IsPrefix(y, t) /\ SubSeq(t, 1, Len(y)) = y
  <1>1. PICK x : x = <<>>
    OBVIOUS
  <1>2. x \in Seq(S) /\ 0 = Len(x) /\ Len(r) \in Nat /\ Len(y) \in Nat
    BY <1>1, EmptySeq
  <1>3. IsPrefix(x, r)
    <2>1. Len(x) <= Len(r) /\ \A i \in 1 .. Len(x) : x[i] = r[i]
      BY <1>2
    <2>2. QED
      BY <1>2, <2>1, PrefixIff
  <1>4. Len(x) + Len(y) <= Len(r) /\ Len(x) + Len(y) = Len(y)
    BY <1>2
  <1>5. x \o y = y
    BY <1>1, ConcatEmptySeq
  <1>6. /\ t \in Seq(S) /\ Len(t) = Len(r)
        /\ IsPrefix(x \o y, t) /\ SubSeq(t, 1, Len(x) + Len(y)) = x \o y
    <2>1. PICK o : o = 0
      OBVIOUS
    <2>2. o = Len(x) /\ t = Record(r, o, y)
      BY <1>2, <2>1
    <2>3. x \in Seq(S) /\ Len(x) + Len(y) <= Len(r)
      BY <1>2, <1>4
    <2>4. QED
      BY <1>3, <2>2, <2>3, Logs
  <1>7. QED
    BY <1>4, <1>5, <1>6

LEMMA IdsAreCells ==
  ASSUME NEW s \in Seq(Id)
  PROVE  s \in Seq(Cell)
  <1>1. \A i \in 1 .. Len(s) : s[i] \in Cell
    BY ElementOfSeq DEF Cell
  <1>2. Len(s) \in Nat /\ s = [i \in 1 .. Len(s) |-> s[i]]
    OBVIOUS
  <1>3. QED
    BY <1>1, <1>2, IsASeq

(* What the draft model consumes before its first proposal: the ids from   *)
(* where it is to the pending one.                                         *)
CatchUp == SubSeq(seq, dw.cached + 1, cached + 1)

LEMMA CatchesUp ==
  ASSUME SInv, pc \in {"step", "draft", "sweep", "commit"}, cmd.hybrid
  PROVE  /\ dw.cached \in 0 .. cached /\ cached \in Nat
         /\ CatchUp \in Seq(Id) /\ Len(CatchUp) = Lag + 1
         /\ SubSeq(seq, 1, dw.cached) \in Seq(Id)
         /\ SubSeq(seq, 1, dw.cached) \o CatchUp = seq
         /\ dw.ks = Feed(ZeroState, SubSeq(seq, 1, dw.cached))
         /\ Lag \in Nat /\ dw.cached + Lag = cached
  <1>1. T = cached + 1 /\ T = Len(seq) /\ seq \in Seq(Id) /\ cached \in Nat
    BY Pending, Counters
  <1>2. dw.cached \in 0 .. cached /\ dw.ks = Feed(ZeroState, SubSeq(seq, 1, dw.cached))
    BY DEF SInv, Draft, Drafting
  <1>3. PICK n \in 0 .. cached : n = dw.cached
    BY <1>2
  <1>4. n \in Nat /\ n <= cached /\ Lag = cached - n
    BY <1>1, <1>3 DEF Lag
  <1>5. PICK c : c = SubSeq(seq, n + 1, cached + 1)
    OBVIOUS
  <1>6. c \in Seq(Id) /\ Len(c) = Lag + 1
    <2>1. n + 1 \in 1 .. Len(seq) + 1 /\ cached + 1 \in 0 .. Len(seq) /\ n + 1 <= cached + 1 + 1
      BY <1>1, <1>4
    <2>2. c \in Seq(Id) /\ Len(c) = cached + 1 - (n + 1) + 1
      BY <1>1, <1>5, <2>1, Cut
    <2>3. cached + 1 - (n + 1) + 1 = Lag + 1
      BY <1>1, <1>4
    <2>4. QED
      BY <2>2, <2>3
  <1>7. SubSeq(seq, 1, n) \o c = seq
    <2>1. n \in 0 .. Len(seq) /\ cached + 1 \in n .. Len(seq)
      BY <1>1, <1>4
    <2>2. SubSeq(seq, 1, n) \o c = SubSeq(seq, 1, cached + 1)
      BY <1>1, <1>5, <2>1, CutConcat
    <2>3. SubSeq(seq, 1, cached + 1) = seq
      BY <1>1, CutAll
    <2>4. QED
      BY <2>2, <2>3
  <1>8. SubSeq(seq, 1, n) \in Seq(Id)
    <2>1. n \in 0 .. Len(seq)
      BY <1>1, <1>4
    <2>2. QED
      BY <1>1, <2>1, CutFirst
  <1>9. Lag \in Nat /\ n + Lag = cached
    BY <1>1, <1>4
  <1>10. QED
    BY <1>1, <1>2, <1>3, <1>5, <1>6, <1>7, <1>8, <1>9 DEF CatchUp

LEMMA FirstDraftSInv ==
  ASSUME SInv, FirstDraft
  PROVE  SInv'
  <1>1. pc = "step" /\ MayDraft /\ cmd.hybrid /\ pc \in Running /\ pc \notin Drafting
    BY DEF FirstDraft, Running, Decoding, Drafting
  <1>2. PICK x \in Id : d' = Append(d, x)
    BY DEF FirstDraft, DraftCall
  <1>3. /\ dw.cached \in 0 .. cached /\ cached \in Nat
        /\ CatchUp \in Seq(Id) /\ Len(CatchUp) = Lag + 1
        /\ dw.ks = Feed(ZeroState, SubSeq(seq, 1, dw.cached))
    BY <1>1, CatchesUp
  <1>4. PICK c : c = CatchUp
    OBVIOUS
  <1>5. Lag \in {0, 1} /\ dw.row = 0 /\ d = <<>> /\ dlog \in Seq(Cell)
        /\ Len(dlog) = cmd.spec_n + 1 /\ cmd.spec_n \in Nat /\ cmd.spec_n > 0
    BY <1>1, Model DEF SInv, Draft, Tentative, Buffers
  <1>6. /\ dlog' = Record(dlog, 0, c) /\ dw' = [dw EXCEPT !.row = Lag + 1]
        /\ pc' = IF Len(d) + 1 = cmd.spec_n THEN "sweep" ELSE "draft"
        /\ OnlyDrafts
    BY <1>4, <1>5 DEF FirstDraft, DraftCall, OnlyDrafts, CatchUp, fixed, decoded, carried, tentative
  <1>7. d' = <<x>> /\ Len(d') = 1 /\ d' \in Seq(Id) /\ Len(d) = 0
    BY <1>2, <1>5
  <1>8. /\ dlog' \in Seq(Cell) /\ Len(dlog') = cmd.spec_n + 1 /\ SubSeq(dlog', 1, Lag + 1) = c
    <2>1. c \in Seq(Cell) /\ Len(c) = Lag + 1 /\ Len(c) <= Len(dlog)
      BY <1>3, <1>4, <1>5, IdsAreCells
    <2>2. PICK t : t = Record(dlog, 0, c)
      OBVIOUS
    <2>3. t \in Seq(Cell) /\ Len(t) = Len(dlog) /\ SubSeq(t, 1, Len(c)) = c
      <3>1. dlog \in Seq(Cell) /\ c \in Seq(Cell) /\ Len(c) <= Len(dlog)
        BY <1>5, <2>1
      <3>2. QED
        BY <2>2, <3>1, LogsFirst
    <2>4. QED
      BY <1>5, <1>6, <2>1, <2>2, <2>3
  <1>9. pc' \in {"draft", "sweep"} /\ (pc' = "draft" => 1 < cmd.spec_n) /\ (pc' # "draft" => 1 = cmd.spec_n)
    BY <1>5, <1>6, <1>7
  <1>10. Tentative'
    <2>1. T' = T /\ Tmax' = Tmax /\ cmd' = cmd
      BY <1>6 DEF T, OnlyDrafts
    <2>2. T + cmd.spec_n + 1 < Tmax
      BY <1>1 DEF MayDraft
    <2>3. QED
      BY <1>1, <1>5, <1>7, <1>9, <2>1, <2>2 DEF Tentative, Drafting
  <1>11. Draft'
    <2>1. seq' = seq /\ cached' = cached /\ cmd' = cmd
      BY <1>6 DEF OnlyDrafts
    <2>2. dw'.cached = dw.cached /\ dw'.ks = dw.ks /\ dw'.row = Lag + 1
      <3>1. dw = [cached |-> dw.cached, ks |-> dw.ks, row |-> dw.row]
        BY DEF SInv, Records
      <3>2. QED
        BY <1>6, <3>1
    <2>3. Lag' = Lag
      BY <2>1, <2>2 DEF Lag
    <2>4. SubSeq(dlog', 1, dw'.row) =
            SubSeq(seq', dw'.cached + 1, cached' + 1) \o SubSeq(d', 1, Len(d') - 1)
      <3>1. SubSeq(d', 1, Len(d') - 1) = <<>>
        <4>1. PICK y : y = d'
          OBVIOUS
        <4>2. y \in Seq(Id) /\ Len(y) = 1 /\ 0 \in 0 .. Len(y)
          BY <1>7, <4>1
        <4>3. SubSeq(y, 1, 0) \in Seq(Id) /\ Len(SubSeq(y, 1, 0)) = 0
          BY <4>2, CutFirst
        <4>4. Len(y) - 1 = 0
          BY <4>2
        <4>5. QED
          BY <4>1, <4>3, <4>4, EmptySeq
      <3>2. c \o <<>> = c
        BY <1>3, <1>4, ConcatEmptySeq
      <3>3. SubSeq(seq', dw'.cached + 1, cached' + 1) = c
        BY <1>4, <2>1, <2>2 DEF CatchUp
      <3>4. QED
        BY <1>8, <2>2, <3>1, <3>2, <3>3
    <2>5. Lag' \in {0, 1} /\ dw'.row = Lag' + Len(d')
      BY <1>5, <1>7, <2>2, <2>3
    <2>6. dw'.cached \in 0 .. cached' /\ dw'.ks = Feed(ZeroState, SubSeq(seq', 1, dw'.cached))
      BY <1>3, <2>1, <2>2
    <2>7. pc' \in {"draft", "sweep"}
      BY <1>9
    <2>8. QED
      BY <2>4, <2>5, <2>6, <2>7 DEF Draft
  <1>12. dw' = [cached |-> dw'.cached, ks |-> dw'.ks, row |-> dw'.row]
    BY <1>6 DEF SInv, Records
  <1>13. QED
    BY <1>1, <1>12, <1>6, <1>7, <1>8, <1>9, <1>10, <1>11, DraftsKeep

LEMMA NextDraftSInv ==
  ASSUME SInv, NextDraft
  PROVE  SInv'
  <1>1. pc = "draft" /\ pc \in Running /\ pc \in Drafting
    BY DEF NextDraft, Running, Decoding, Drafting
  <1>2. PICK x \in Id : d' = Append(d, x)
    BY DEF NextDraft, DraftCall
  <1>3. /\ cmd.hybrid /\ Len(d) \in 1 .. cmd.spec_n /\ Len(d) < cmd.spec_n
        /\ T + cmd.spec_n + 1 < Tmax /\ d \in Seq(Id)
        /\ Lag \in {0, 1} /\ dw.row = Lag + Len(d)
        /\ SubSeq(dlog, 1, dw.row) = CatchUp \o SubSeq(d, 1, Len(d) - 1)
        /\ dlog \in Seq(Cell) /\ Len(dlog) = cmd.spec_n + 1 /\ cmd.spec_n \in Nat
    BY <1>1, Counters, Model DEF SInv, Draft, Tentative, Buffers, CatchUp
  <1>4. /\ dw.cached \in 0 .. cached /\ cached \in Nat
        /\ CatchUp \in Seq(Id) /\ Len(CatchUp) = Lag + 1
        /\ dw.ks = Feed(ZeroState, SubSeq(seq, 1, dw.cached))
    BY <1>1, <1>3, CatchesUp
  <1>5. PICK c : c = CatchUp
    OBVIOUS
  <1>6. PICK n \in Nat : n = Len(d) /\ n > 0
    BY <1>3
  <1>7. PICK f : f = SubSeq(d, 1, n - 1)
    OBVIOUS
  <1>8. PICK y : y = <<d[n]>>
    OBVIOUS
  <1>9. f \in Seq(Id) /\ Len(f) = n - 1 /\ y \in Seq(Id) /\ Len(y) = 1 /\ f \o y = d
    <2>1. n \in 1 .. Len(d) /\ n = Len(d) /\ n - 1 \in 0 .. Len(d)
      BY <1>6
    <2>2. f \in Seq(Id) /\ Len(f) = n - 1
      BY <1>3, <1>7, <2>1, CutFirst
    <2>3. d[n] \in Id
      BY <1>3, <2>1, ElementOfSeq
    <2>4. y \in Seq(Id) /\ Len(y) = 1
      BY <1>8, <2>3
    <2>5. f \o y = d
      BY <1>3, <1>7, <1>8, <2>1, LastSplit
    <2>6. QED
      BY <2>2, <2>4, <2>5
  <1>10. PICK m \in Nat : m = dw.row /\ m = Lag + n
    BY <1>3, <1>6
  <1>11. PICK w : w = c \o f
    OBVIOUS
  <1>12. w \in Seq(Id) /\ w \in Seq(Cell) /\ Len(w) = m /\ w \o y = c \o d
    <2>1. c \in Seq(Id) /\ Len(c) = Lag + 1
      BY <1>4, <1>5
    <2>2. w \in Seq(Id) /\ Len(w) = Len(c) + Len(f)
      BY <1>9, <1>11, <2>1, ConcatProperties
    <2>3. Len(c) + Len(f) = m
      BY <1>3, <1>6, <1>9, <1>10, <2>1
    <2>4. (c \o f) \o y = c \o (f \o y)
      <3>1. c \in Seq(Id) /\ f \in Seq(Id) /\ y \in Seq(Id)
        BY <1>9, <2>1
      <3>2. QED
        BY <3>1, ConcatAssociative
    <2>5. QED
      BY <1>9, <1>11, <2>2, <2>3, <2>4, IdsAreCells
  <1>13. /\ dlog' = Record(dlog, m, y) /\ dw' = [dw EXCEPT !.row = m + 1]
         /\ pc' = IF n + 1 = cmd.spec_n THEN "sweep" ELSE "draft"
         /\ OnlyDrafts
    BY <1>6, <1>8, <1>10 DEF NextDraft, DraftCall, OnlyDrafts, fixed, decoded, carried, tentative
  <1>14. /\ dlog' \in Seq(Cell) /\ Len(dlog') = cmd.spec_n + 1
         /\ SubSeq(dlog', 1, m + 1) = c \o d
    <2>1. SubSeq(dlog, 1, m) = w
      BY <1>3, <1>5, <1>6, <1>7, <1>10, <1>11
    <2>2. m <= Len(dlog) /\ m + 1 <= Len(dlog) /\ m \in 0 .. Len(dlog)
      BY <1>3, <1>6, <1>10
    <2>3. IsPrefix(w, dlog)
      <3>1. \A i \in 1 .. m : w[i] = dlog[i]
        BY <1>3, <2>1, <2>2, CutFirst
      <3>2. Len(w) <= Len(dlog) /\ \A i \in 1 .. Len(w) : w[i] = dlog[i]
        BY <1>12, <2>2, <3>1
      <3>3. dlog \in Seq(Cell) /\ w \in Seq(Cell)
        BY <1>3, <1>12
      <3>4. QED
        BY <3>2, <3>3, PrefixIff
    <2>4. y \in Seq(Cell) /\ Len(y) = 1
      BY <1>9, IdsAreCells
    <2>5. PICK t : t = Record(dlog, m, y)
      OBVIOUS
    <2>6. t \in Seq(Cell) /\ Len(t) = Len(dlog) /\ SubSeq(t, 1, Len(w) + Len(y)) = w \o y
      <3>1. /\ dlog \in Seq(Cell) /\ w \in Seq(Cell) /\ y \in Seq(Cell) /\ m = Len(w)
            /\ Len(w) + Len(y) <= Len(dlog)
        BY <1>3, <1>12, <2>2, <2>4
      <3>2. QED
        BY <2>3, <2>5, <3>1, Logs
    <2>7. Len(w) + Len(y) = m + 1
      BY <1>12, <2>4
    <2>8. QED
      BY <1>3, <1>12, <1>13, <2>5, <2>6, <2>7
  <1>15. d' \in Seq(Id) /\ Len(d') = n + 1 /\ SubSeq(d', 1, Len(d') - 1) = d
    <2>1. PICK z : z = Append(d, x)
      OBVIOUS
    <2>2. z \in Seq(Id) /\ Len(z) = Len(d) + 1 /\ SubSeq(z, 1, Len(d)) = d
      BY <1>3, <2>1, AppendCut
    <2>3. Len(z) - 1 = n /\ Len(z) = n + 1
      BY <1>6, <2>2
    <2>4. QED
      BY <1>2, <1>6, <2>1, <2>2, <2>3
  <1>16. /\ pc' \in {"draft", "sweep"} /\ n + 1 \in 1 .. cmd.spec_n
         /\ (pc' = "draft" => n + 1 < cmd.spec_n) /\ (pc' # "draft" => n + 1 = cmd.spec_n)
    BY <1>3, <1>6, <1>13
  <1>17. Tentative'
    <2>1. T' = T /\ Tmax' = Tmax /\ cmd' = cmd
      BY <1>13 DEF T, OnlyDrafts
    <2>2. QED
      BY <1>3, <1>15, <1>16, <2>1 DEF Tentative, Drafting
  <1>18. Draft'
    <2>1. seq' = seq /\ cached' = cached /\ cmd' = cmd
      BY <1>13 DEF OnlyDrafts
    <2>2. dw'.cached = dw.cached /\ dw'.ks = dw.ks /\ dw'.row = m + 1
      <3>1. dw = [cached |-> dw.cached, ks |-> dw.ks, row |-> dw.row]
        BY DEF SInv, Records
      <3>2. QED
        BY <1>13, <3>1
    <2>3. Lag' = Lag
      BY <2>1, <2>2 DEF Lag
    <2>4. SubSeq(dlog', 1, dw'.row) =
            SubSeq(seq', dw'.cached + 1, cached' + 1) \o SubSeq(d', 1, Len(d') - 1)
      <3>1. SubSeq(seq', dw'.cached + 1, cached' + 1) = c
        BY <1>5, <2>1, <2>2 DEF CatchUp
      <3>2. QED
        BY <1>14, <1>15, <2>2, <3>1
    <2>5. Lag' \in {0, 1} /\ dw'.row = Lag' + Len(d')
      BY <1>3, <1>10, <1>15, <2>2, <2>3
    <2>6. dw'.cached \in 0 .. cached' /\ dw'.ks = Feed(ZeroState, SubSeq(seq', 1, dw'.cached))
      BY <1>4, <2>1, <2>2
    <2>7. pc' \in {"draft", "sweep"}
      BY <1>16
    <2>8. QED
      BY <2>4, <2>5, <2>6, <2>7 DEF Draft
  <1>19. dw' = [cached |-> dw'.cached, ks |-> dw'.ks, row |-> dw'.row]
    BY <1>13 DEF SInv, Records
  <1>20. QED
    BY <1>1, <1>13, <1>14, <1>15, <1>16, <1>17, <1>18, <1>19, DraftsKeep

-----------------------------------------------------------------------------
(***************************************************************************)
(* The verify sweep and its commit.                                        *)
(***************************************************************************)
LEMMA EarlierDepths ==
  ASSUME Constants, NEW s \in Seq(Id), NEW t \in Seq(Id), NEW q \in Seq(Depths),
         Len(s) + Len(t) <= Len(q), SubSeq(q, 1, Len(s) + Len(t)) = DepthsOf(s \o t)
  PROVE  /\ SubSeq(q, 1, Len(s)) = DepthsOf(s)
         /\ \A i \in 1 .. Len(t) : q[Len(s) + i] = world.depth[t[i]]
  <1>1. PICK n \in Nat : n = Len(s)
    OBVIOUS
  <1>2. PICK m \in Nat : m = Len(t)
    OBVIOUS
  <1>3. PICK z : z = s \o t
    OBVIOUS
  <1>4. z \in Seq(Id) /\ Len(z) = n + m
        /\ \A i \in 1 .. n + m : z[i] = IF i <= n THEN s[i] ELSE t[i - n]
    BY <1>1, <1>2, <1>3, ConcatProperties
  <1>5. \A i \in 1 .. n + m : q[i] = world.depth[z[i]]
    <2>1. PICK y : y = DepthsOf(z)
      OBVIOUS
    <2>2. Len(y) = n + m /\ \A i \in 1 .. n + m : y[i] = world.depth[z[i]]
      BY <1>4, <2>1, DepthsType
    <2>3. n + m \in 0 .. Len(q)
      BY <1>1, <1>2
    <2>4. SubSeq(q, 1, n + m) = y
      BY <1>1, <1>2, <1>3, <2>1
    <2>5. \A i \in 1 .. n + m : y[i] = q[i]
      BY <2>3, <2>4, CutFirst
    <2>6. QED
      BY <2>2, <2>5
  <1>6. SubSeq(q, 1, n) = DepthsOf(s)
    <2>1. PICK y : y = DepthsOf(s)
      OBVIOUS
    <2>2. y \in Seq(Depths) /\ Len(y) = n /\ \A i \in 1 .. n : y[i] = world.depth[s[i]]
      BY <1>1, <2>1, DepthsType
    <2>3. n \in 0 .. Len(q)
      BY <1>1, <1>2
    <2>4. PICK c : c = SubSeq(q, 1, n)
      OBVIOUS
    <2>5. c \in Seq(Depths) /\ Len(c) = n /\ \A i \in 1 .. n : c[i] = q[i]
      BY <2>3, <2>4, CutFirst
    <2>6. \A i \in 1 .. n : c[i] = y[i]
      <3>1. ASSUME NEW i \in 1 .. n
            PROVE  c[i] = y[i]
        <4>1. i \in 1 .. n + m /\ i <= n
          BY <1>1, <1>2
        <4>2. z[i] = s[i]
          BY <1>4, <4>1
        <4>3. q[i] = world.depth[z[i]]
          BY <1>5, <4>1
        <4>4. QED
          BY <2>2, <2>5, <4>2, <4>3
      <3>2. QED
        BY <3>1
    <2>7. c = y
      BY <2>2, <2>5, <2>6, SeqEqual
    <2>8. QED
      BY <2>1, <2>4, <2>7
  <1>7. ASSUME NEW i \in 1 .. m
        PROVE  q[n + i] = world.depth[t[i]]
    <2>1. PICK j \in 1 .. n + m : j = n + i
      BY <1>1, <1>2
    <2>2. ~(j <= n) /\ j - n = i
      BY <1>1, <2>1
    <2>3. z[j] = t[j - n] /\ q[j] = world.depth[z[j]]
      BY <1>4, <1>5, <2>2
    <2>4. QED
      BY <2>1, <2>2, <2>3
  <1>8. QED
    BY <1>1, <1>2, <1>6, <1>7

LEMMA LaterDepths ==
  ASSUME Constants, NEW s \in Seq(Id), NEW t \in Seq(Id), NEW q \in Seq(Depths),
         Len(s) + Len(t) <= Len(q), SubSeq(q, 1, Len(s)) = DepthsOf(s),
         \A i \in 1 .. Len(t) : q[Len(s) + i] = world.depth[t[i]]
  PROVE  SubSeq(q, 1, Len(s) + Len(t)) = DepthsOf(s \o t)
  <1>1. PICK n \in Nat : n = Len(s)
    OBVIOUS
  <1>2. PICK m \in Nat : m = Len(t)
    OBVIOUS
  <1>3. PICK z : z = s \o t
    OBVIOUS
  <1>4. z \in Seq(Id) /\ Len(z) = n + m
        /\ \A i \in 1 .. n + m : z[i] = IF i <= n THEN s[i] ELSE t[i - n]
    BY <1>1, <1>2, <1>3, ConcatProperties
  <1>5. PICK y : y = DepthsOf(z)
    OBVIOUS
  <1>6. y \in Seq(Depths) /\ Len(y) = n + m /\ \A i \in 1 .. n + m : y[i] = world.depth[z[i]]
    BY <1>4, <1>5, DepthsType
  <1>7. PICK c : c = SubSeq(q, 1, n + m)
    OBVIOUS
  <1>8. c \in Seq(Depths) /\ Len(c) = n + m /\ \A i \in 1 .. n + m : c[i] = q[i]
    <2>1. n + m \in 0 .. Len(q)
      BY <1>1, <1>2
    <2>2. QED
      BY <1>7, <2>1, CutFirst
  <1>9. \A i \in 1 .. n : q[i] = world.depth[s[i]]
    <2>1. PICK x : x = DepthsOf(s)
      OBVIOUS
    <2>2. \A i \in 1 .. n : x[i] = world.depth[s[i]]
      BY <1>1, <2>1, DepthsType
    <2>3. n \in 0 .. Len(q) /\ SubSeq(q, 1, n) = x
      BY <1>1, <1>2, <2>1
    <2>4. \A i \in 1 .. n : x[i] = q[i]
      BY <2>3, CutFirst
    <2>5. QED
      BY <2>2, <2>4
  <1>10. ASSUME NEW i \in 1 .. n + m
         PROVE  c[i] = y[i]
    <2>1. CASE i <= n
      <3>1. i \in 1 .. n
        BY <2>1
      <3>2. q[i] = world.depth[s[i]] /\ z[i] = s[i]
        BY <1>4, <1>9, <2>1, <3>1
      <3>3. QED
        BY <1>6, <1>8, <3>2
    <2>2. CASE ~(i <= n)
      <3>0. i - n \in 1 .. m /\ i = n + (i - n)
        BY <2>2
      <3>1. PICK j \in 1 .. m : i = n + j /\ i - n = j
        BY <3>0
      <3>2. q[n + j] = world.depth[t[j]]
        BY <1>1, <1>2
      <3>3. z[i] = t[j]
        BY <1>4, <2>2, <3>1
      <3>4. QED
        BY <1>6, <1>8, <3>1, <3>2, <3>3
    <2>3. QED
      BY <2>1, <2>2
  <1>11. c = y
    BY <1>6, <1>8, <1>10, SeqEqual
  <1>12. QED
    BY <1>1, <1>2, <1>3, <1>5, <1>7, <1>11

(* The batch of a sweep goes on from what is carried.                      *)
LEMMA BatchGoesOn ==
  ASSUME SInv, pc \in {"sweep", "commit"}
  PROVE  /\ Batch \in Seq(Id) /\ Len(Batch) = Len(d) + 1 /\ Len(d) \in Nat \ {0}
         /\ Fed \o Batch = seq \o d
         /\ cached + Len(Batch) <= Tmax /\ Len(Batch) <= cmd.spec_n + 1
         /\ cached \in Nat /\ cached = Len(Fed) /\ Fed \in Seq(Id) /\ Tmax \in Nat
         /\ cached + 1 = Len(seq) /\ seq \in Seq(Id) /\ d \in Seq(Id)
  <1>1. /\ T = cached + 1 /\ T = Len(seq) /\ seq[cached + 1] \in Id
        /\ Fed \o <<seq[cached + 1]>> = seq
    BY Pending
  <1>2. /\ seq \in Seq(Id) /\ d \in Seq(Id) /\ Fed \in Seq(Id) /\ cached \in Nat
        /\ cached = Len(Fed) /\ Tmax \in Nat /\ cmd.spec_n \in Nat
    BY Counters, Model DEF SInv, Running, Decoding, Drafting
  <1>3. T + cmd.spec_n + 1 < Tmax /\ Len(d) \in 1 .. cmd.spec_n
    BY DEF SInv, Tentative, Drafting
  <1>4. PICK x : x = <<seq[cached + 1]>>
    OBVIOUS
  <1>5. x \in Seq(Id) /\ Len(x) = 1
    BY <1>1, <1>4
  <1>6. Batch = x \o d
    BY <1>4 DEF Batch
  <1>7. x \o d \in Seq(Id) /\ Len(x \o d) = Len(x) + Len(d)
    BY <1>2, <1>5, ConcatProperties
  <1>8. (Fed \o x) \o d = Fed \o (x \o d)
    <2>1. PICK f : f = Fed
      OBVIOUS
    <2>2. f \in Seq(Id) /\ x \in Seq(Id) /\ d \in Seq(Id)
      BY <1>2, <1>5, <2>1
    <2>3. (f \o x) \o d = f \o (x \o d)
      BY <2>2, ConcatAssociative
    <2>4. QED
      BY <2>1, <2>3
  <1>9. Batch \in Seq(Id) /\ Len(Batch) = Len(d) + 1
    <2>1. Len(d) \in Nat
      BY <1>2
    <2>2. Len(Batch) = 1 + Len(d)
      BY <1>5, <1>6, <1>7, Zenon
    <2>3. QED
      BY <1>6, <1>7, <2>1, <2>2
  <1>10. Fed \o Batch = seq \o d
    BY <1>1, <1>4, <1>6, <1>8
  <1>11. cached + Len(Batch) <= Tmax /\ Len(Batch) <= cmd.spec_n + 1
    BY <1>1, <1>2, <1>3, <1>9
  <1>12. QED
    BY <1>1, <1>2, <1>3, <1>9, <1>10, <1>11

(* A sweep writes past what is carried, and logs all it needs to commit.   *)
LEMMA SweepWrites ==
  ASSUME SInv, Sweep
  PROVE  /\ rows' \in [Passes -> Seq(Cell)]
         /\ \A p \in Passes : /\ Len(rows'[p]) = Tmax
                              /\ IsPrefix(Reaching(p, Fed \o Batch), rows'[p])
                              /\ IsPrefix(Reaching(p, Fed), rows'[p])
         /\ passes' \in Seq(Depths) /\ Len(passes') = Tmax
         /\ SubSeq(passes', 1, cached) = DepthsOf(Fed)
         /\ \A i \in 1 .. Len(Batch) : passes'[cached + i] = world.depth[Batch[i]]
         /\ log' \in [Passes -> Seq(Cell)]
         /\ \A p \in Passes : /\ Len(log'[p]) = cmd.spec_n + 1
                              /\ IsPrefix(Reaching(p, Batch), log'[p])
  <1>1. pc = "sweep" /\ pc \in Running /\ pc # "commit" /\ Constants
    BY DEF Sweep, SInv, Running, Decoding, Drafting
  <1>2. PICK b : b = Batch
    OBVIOUS
  <1>3. PICK f : f = Fed
    OBVIOUS
  <1>4. /\ b \in Seq(Id) /\ Len(b) \in Nat /\ cached + Len(b) <= Tmax /\ Len(b) <= cmd.spec_n + 1
        /\ cached \in Nat /\ cached = Len(f) /\ f \in Seq(Id) /\ Tmax \in Nat
    BY <1>1, <1>2, <1>3, BatchGoesOn
  <1>5. PICK r : r = rows'
    OBVIOUS
  <1>6. PICK q : q = passes'
    OBVIOUS
  <1>7. /\ r = [p \in Passes |-> Over(rows[p], RowsEnd(p), Reaching(p, b))]
        /\ q = Over(passes, cached, DepthsOf(b))
        /\ log' = [p \in Passes |-> Record(log[p], 0, Reaching(p, b))]
    BY <1>2, <1>5, <1>6 DEF Sweep, RowsEnd
  <1>8. /\ r \in [Passes -> Seq(Cell)]
        /\ \A p \in Passes : Len(r[p]) = Tmax /\ IsPrefix(Reaching(p, f \o b), r[p])
        /\ q \in Seq(Depths) /\ Len(q) = Tmax
        /\ SubSeq(q, 1, cached + Len(b)) = DepthsOf(f \o b)
    <2>1. cached + Len(b) <= Tmax
      BY <1>4
    <2> HIDE DEF Fed
    <2>2. /\ r \in [Passes -> Seq(Cell)]
          /\ \A p \in Passes : Len(r[p]) = Tmax /\ IsPrefix(Reaching(p, Fed \o b), r[p])
          /\ q \in Seq(Depths) /\ Len(q) = Tmax
          /\ SubSeq(q, 1, cached + Len(b)) = DepthsOf(Fed \o b)
      BY <1>1, <1>4, <1>7, <2>1, Writes
    <2>3. QED
      BY <1>3, <2>2
  <1>9. ASSUME NEW p \in Passes
        PROVE  IsPrefix(Reaching(p, f), r[p])
    <2>1. PICK x : x = Reaching(p, f)
      OBVIOUS
    <2>2. PICK y : y = Reaching(p, b)
      OBVIOUS
    <2>3. x \in Seq(Cell) /\ y \in Seq(Cell) /\ r[p] \in Seq(Cell)
      BY <1>1, <1>4, <1>8, <2>1, <2>2, Reaches
    <2>4. IsPrefix(x \o y, r[p])
      BY <1>1, <1>4, <1>8, <2>1, <2>2, ReachesOn
    <2>5. IsPrefix(x, r[p])
      BY <2>3, <2>4, PrefixConcat
    <2>6. QED
      BY <2>1, <2>5
  <1>10. /\ SubSeq(q, 1, cached) = DepthsOf(f)
         /\ \A i \in 1 .. Len(b) : q[cached + i] = world.depth[b[i]]
    <2>1. /\ f \in Seq(Id) /\ b \in Seq(Id) /\ q \in Seq(Depths) /\ Len(f) + Len(b) <= Len(q)
          /\ SubSeq(q, 1, Len(f) + Len(b)) = DepthsOf(f \o b)
      BY <1>4, <1>8
    <2>2. /\ SubSeq(q, 1, Len(f)) = DepthsOf(f)
          /\ \A i \in 1 .. Len(b) : q[Len(f) + i] = world.depth[b[i]]
      BY <1>1, <2>1, EarlierDepths
    <2>3. QED
      BY <1>4, <2>2
  <1>11. ASSUME NEW p \in Passes
         PROVE  /\ log'[p] \in Seq(Cell) /\ Len(log'[p]) = cmd.spec_n + 1
                /\ IsPrefix(Reaching(p, b), log'[p])
    <2>1. PICK y : y = Reaching(p, b)
      OBVIOUS
    <2>2. y \in Seq(Cell) /\ Len(y) \in 0 .. Len(b)
      BY <1>1, <1>4, <2>1, Reaches
    <2>3. PICK l : l = log[p]
      OBVIOUS
    <2>4. l \in Seq(Cell) /\ Len(l) = cmd.spec_n + 1
      BY <1>1, <2>3 DEF SInv, Buffers
    <2>5. Len(y) <= Len(l)
      <3>1. cmd.spec_n \in Nat
        BY <1>1, Model
      <3>2. QED
        BY <1>4, <2>2, <2>4, <3>1
    <2>6. PICK t : t = log'[p]
      OBVIOUS
    <2>7. t = Record(l, 0, y)
      BY <1>7, <2>1, <2>3, <2>6
    <2>8. t \in Seq(Cell) /\ Len(t) = Len(l) /\ IsPrefix(y, t)
      BY <2>2, <2>4, <2>5, <2>7, LogsFirst
    <2>9. QED
      BY <2>1, <2>4, <2>6, <2>8
  <1>12. log' \in [Passes -> Seq(Cell)]
    <2>1. PICK l : l = log'
      OBVIOUS
    <2>2. \A p \in Passes : l[p] \in Seq(Cell)
      BY <1>11, <2>1
    <2>3. l = [p \in Passes |-> l[p]]
      BY <1>7, <2>1
    <2>4. l \in [Passes -> Seq(Cell)]
      BY <2>2, <2>3
    <2>5. QED
      BY <2>1, <2>4
  <1>13. \A p \in Passes : IsPrefix(Reaching(p, f), r[p])
    BY <1>9
  <1>14. \A p \in Passes : Len(log'[p]) = cmd.spec_n + 1 /\ IsPrefix(Reaching(p, b), log'[p])
    BY <1>11
  <1> HIDE DEF Fed, Batch
  <1>15. QED
    BY <1>2, <1>3, <1>5, <1>6, <1>8, <1>10, <1>12, <1>13, <1>14

LEMMA SweepSInv ==
  ASSUME SInv, Sweep
  PROVE  SInv'
  <1>1. /\ pc = "sweep" /\ pc' = "commit" /\ pc \in Running /\ pc' \in Running
        /\ pc \in Drafting /\ pc' \in Drafting /\ pc' \in Decoding /\ pc' \notin Saving
    BY DEF Sweep, Running, Reading, Decoding, Drafting, Saving
  <1>2. /\ world' = world /\ cmd' = cmd /\ disk' = disk /\ turn' = turn /\ faults' = faults
        /\ seq' = seq /\ nout' = nout /\ cached' = cached /\ Tmax' = Tmax
        /\ ks' = ks /\ d' = d /\ dw' = dw /\ dlog' = dlog
        /\ written' = written /\ sigint' = sigint /\ sweep_pcached' = pcached
    BY DEF Sweep, fixed, decoded, drafts
  <1>3. T' = T /\ Fed' = Fed /\ Batch' = Batch
    BY <1>2 DEF T, Fed, Batch
  <1>4. Constants' /\ Records' /\ Files' /\ SavedIsSerial'
    BY <1>1, <1>2, SameCheckpoint, SameState DEF SInv, Constants, Records, Files
  <1>5. SessionTypeOK'
    BY <1>1, <1>2, <1>3 DEF SInv, SessionTypeOK
  <1>6. Buffers'
    <2>1. /\ rows' \in [Passes -> Seq(Cell)] /\ \A p \in Passes : Len(rows'[p]) = Tmax
          /\ passes' \in Seq(Depths) /\ Len(passes') = Tmax
          /\ log' \in [Passes -> Seq(Cell)] /\ \A p \in Passes : Len(log'[p]) = cmd.spec_n + 1
      BY SweepWrites
    <2>2. QED
      BY <1>1, <1>2, <1>3, <2>1 DEF SInv, Buffers, Depths
  <1>7. CarriedIsSerial'
    <2>1. CarriesNext(Fed)
      <3>1. /\ rows' \in [Passes -> Seq(Cell)]
            /\ \A p \in Passes : Len(rows'[p]) = Tmax /\ IsPrefix(Reaching(p, Fed), rows'[p])
            /\ passes' \in Seq(Depths) /\ Len(passes') = Tmax
            /\ SubSeq(passes', 1, cached) = DepthsOf(Fed)
        BY SweepWrites
      <3>2. T = cached + (IF cmd.gen = 0 THEN 0 ELSE 1)
        BY <1>1 DEF SInv, CarriedIsSerial
      <3>3. ks = StateAfter(Fed) /\ CountsAfter(Fed) = pcached /\ Fed \in Seq(Id)
        BY <1>1, Counters DEF SInv, CarriedIsSerial
      <3> HIDE DEF Fed, T
      <3>4. QED
        BY <1>1, <1>2, <1>3, <3>1, <3>2, <3>3 DEF CarriesNext
    <2>2. QED
      BY <1>2, <2>1, CarriedNext
  <1>8. SerialOutput'
    <2>1. \A x : Greedy(x)' = Greedy(x)
      BY <1>2 DEF Greedy, LastIds
    <2>2. (\A i \in T - nout + 1 .. T : seq[i] = Greedy(SubSeq(seq, 1, i - 1)))'
      BY <1>2, <1>3, <2>1 DEF SInv, SerialOutput
    <2>3. QED
      BY <1>1, <1>2, <1>3, <2>2 DEF SInv, SerialOutput, Saving
  <1>9. Tentative'
    <2>1. /\ \A p \in Passes : /\ IsPrefix(Reaching(p, Batch), log'[p])
                               /\ IsPrefix(Reaching(p, Fed \o Batch), rows'[p])
          /\ \A i \in 1 .. Len(Batch) : passes'[cached + i] = world.depth[Batch[i]]
      BY SweepWrites
    <2>2. (/\ \A p \in Passes : /\ IsPrefix(Reaching(p, Batch), log[p])
                                /\ IsPrefix(Reaching(p, Fed \o Batch), rows[p])
           /\ \A i \in 1 .. Len(Batch) : passes[cached + i] = world.depth[Batch[i]])'
      <3>1. \A p, x : Reaching(p, x)' = Reaching(p, x)
        BY <1>2 DEF Reaching
      <3> HIDE DEF Fed, Batch
      <3>2. QED
        BY <1>2, <1>3, <2>1, <3>1
    <2>3. (pc \in Drafting =>
             /\ T + cmd.spec_n + 1 < Tmax
             /\ Len(d) \in 1 .. cmd.spec_n
             /\ pc = "draft" => cmd.hybrid /\ Len(d) < cmd.spec_n
             /\ pc # "draft" /\ cmd.hybrid => Len(d) = cmd.spec_n)'
      BY <1>1, <1>2, <1>3 DEF SInv, Tentative
    <2>4. (pc \in Running \ Drafting => d = <<>>)'
      BY <1>1
    <2>5. QED
      BY <2>2, <2>3, <2>4 DEF Tentative
  <1>10. Draft'
    <2>1. Lag' = Lag
      BY <1>2 DEF Lag
    <2>2. QED
      BY <1>1, <1>2, <1>3, <2>1 DEF SInv, Draft, MayDraft, Drafting
  <1>11. Saved'
    BY <1>1 DEF Saved, Saving
  <1>12. DecodeState'
    BY <1>1, <1>4, <1>5, <1>6, <1>7, <1>8, <1>9, <1>10, <1>11 DEF DecodeState
  <1>13. QED
    BY <1>12, DecodeKeepsNext

(* A concatenation cut behind its first part.                              *)
LEMMA CutBehind ==
  ASSUME NEW S, NEW s \in Seq(S), NEW e \in Seq(S), NEW n \in 0 .. Len(e)
  PROVE  SubSeq(s \o e, 1, Len(s) + n) = s \o SubSeq(e, 1, n)
  <1>1. PICK k \in 0 .. Len(e) : k = Len(e)
    OBVIOUS
  <1>2. PICK z : z = s \o e
    OBVIOUS
  <1>3. SubSeq(e, 1, k) = e
    BY <1>1, CutAll
  <1>4. z = s \o SubSeq(e, 1, k)
    BY <1>2, <1>3
  <1>5. \A i \in 0 .. k : SubSeq(z, 1, Len(s) + i) = s \o SubSeq(e, 1, i)
    BY <1>4, CutOfConcat
  <1>6. QED
    BY <1>1, <1>2, <1>5

(* The ids a sweep emits are those of serial decode: the accepted drafts   *)
(* and the model's own next id after them.                                 *)
LEMMA SweepEmits ==
  ASSUME SInv, pc = "commit", NEW e, e = SweepEmit
  PROVE  /\ e \in Seq(Id) /\ e # <<>> /\ Len(e) \in 1 .. Len(Batch)
         /\ \A j \in 0 .. Len(e) - 1 : SubSeq(e, 1, j) = SubSeq(d, 1, j)
         /\ \A j \in 1 .. Len(e) : e[j] = Greedy(seq \o SubSeq(e, 1, j - 1))
  <1>1. PICK b : b = Batch
    OBVIOUS
  <1>2. PICK f : f = Fed
    OBVIOUS
  <1>3. /\ b \in Seq(Id) /\ Len(b) = Len(d) + 1 /\ Len(d) \in Nat \ {0}
        /\ f \o b = seq \o d /\ f \in Seq(Id) /\ Len(f) \in Nat
        /\ Len(f) + 1 = Len(seq) /\ seq \in Seq(Id) /\ d \in Seq(Id) /\ Constants
    <2>1. Constants
      BY DEF SInv
    <2> HIDE DEF Fed, Batch
    <2>2. QED
      BY <1>1, <1>2, <2>1, BatchGoesOn
  <1>4. ks[1].fed = f
    <2>1. ks = StateAfter(f)
      BY <1>2 DEF SInv, CarriedIsSerial
    <2>2. QED
      BY <1>3, <2>1, SerialStates
  <1>5. PICK arg : arg = Arg
    OBVIOUS
  <1>6. \A i \in 1 .. Len(b) : arg[i] = Greedy(seq \o SubSeq(d, 1, i - 1))
    <2>1. ASSUME NEW i \in 1 .. Len(b)
          PROVE  arg[i] = Greedy(seq \o SubSeq(d, 1, i - 1))
      <3>1. arg[i] = Greedy(f \o SubSeq(b, 1, i))
        BY <1>1, <1>4, <1>5 DEF Arg
      <3>2. PICK j \in 0 .. Len(d) : j = i - 1
        BY <1>3
      <3>3. i \in 0 .. Len(b) /\ Len(f) + i = Len(seq) + j
        <4>1. Len(f) \in Nat /\ Len(f) + 1 = Len(seq) /\ Len(b) \in Nat /\ i \in 1 .. Len(b)
          BY <1>3
        <4>2. QED
          BY <3>2, <4>1
      <3>4. f \o SubSeq(b, 1, i) = seq \o SubSeq(d, 1, j)
        <4>1. f \in Seq(Id) /\ b \in Seq(Id) /\ seq \in Seq(Id) /\ d \in Seq(Id)
          BY <1>3
        <4>2. SubSeq(f \o b, 1, Len(f) + i) = f \o SubSeq(b, 1, i)
          BY <3>3, <4>1, CutBehind
        <4>3. SubSeq(seq \o d, 1, Len(seq) + j) = seq \o SubSeq(d, 1, j)
          BY <4>1, CutBehind
        <4>4. f \o b = seq \o d
          BY <1>3
        <4>5. QED
          BY <3>3, <4>2, <4>3, <4>4, Zenon
      <3>5. SubSeq(d, 1, i - 1) = SubSeq(d, 1, j)
        BY <3>2
      <3>6. QED
        BY <3>1, <3>4, <3>5
    <2>2. QED
      BY <2>1
  <1>7. PICK m : m = Accepted(d, arg)
    OBVIOUS
  <1>8. m \in 0 .. Len(d) /\ \A i \in 1 .. m : arg[i] = d[i]
    BY <1>3, <1>7, Accepts
  <1>9. PICK x : x = SubSeq(d, 1, m)
    OBVIOUS
  <1>10. x \in Seq(Id) /\ Len(x) = m /\ \A i \in 1 .. m : x[i] = d[i]
    BY <1>3, <1>8, <1>9, CutFirst
  <1>11. PICK y : y = <<arg[m + 1]>>
    OBVIOUS
  <1>12. m \in Nat /\ m + 1 \in 1 .. Len(b)
    BY <1>3, <1>8
  <1>13. y \in Seq(Id) /\ Len(y) = 1 /\ y[1] = arg[m + 1]
    <2>1. PICK g : g = seq \o SubSeq(d, 1, m)
      OBVIOUS
    <2>2. g \in Seq(Id)
      BY <1>3, <1>8, <2>1, CutOfConcat
    <2>3. arg[m + 1] = Greedy(g)
      <3>1. m + 1 - 1 = m
        BY <1>12
      <3>2. QED
        BY <1>6, <1>12, <2>1, <3>1
    <2>4. arg[m + 1] \in Id
      BY <1>3, <2>2, <2>3, GreedyType
    <2>5. QED
      BY <1>11, <2>4
  <1>14. e = x \o y
    BY <1>5, <1>7, <1>9, <1>11 DEF SweepEmit
  <1>15. /\ e \in Seq(Id) /\ Len(e) = m + 1
         /\ \A i \in 1 .. m : e[i] = x[i]
         /\ e[m + 1] = y[1]
         /\ \A i \in 0 .. m : SubSeq(e, 1, i) = SubSeq(x, 1, i)
    <2>1. 1 \in 0 .. Len(y) /\ SubSeq(y, 1, Len(y)) = y
      BY <1>13, CutAll
    <2>2. e = x \o SubSeq(y, 1, 1)
      BY <1>13, <1>14, <2>1
    <2>3. /\ e \in Seq(Id) /\ Len(e) = Len(x) + 1
          /\ \A i \in 1 .. Len(x) : e[i] = x[i]
          /\ \A j \in 1 .. 1 : e[Len(x) + j] = y[j]
          /\ \A i \in 0 .. Len(x) : SubSeq(e, 1, i) = SubSeq(x, 1, i)
      <3>1. x \in Seq(Id) /\ y \in Seq(Id) /\ 1 \in 0 .. Len(y)
        BY <1>10, <1>13, <2>1
      <3>2. QED
        BY <2>2, <3>1, CutOfConcat
    <2>4. e[Len(x) + 1] = y[1]
      BY <2>3
    <2>5. QED
      BY <1>10, <2>3, <2>4
  <1>16. \A i \in 0 .. m : SubSeq(e, 1, i) = SubSeq(d, 1, i)
    <2>1. IsPrefix(x, d)
      <3>1. x \in Seq(Id) /\ d \in Seq(Id) /\ Len(x) <= Len(d) /\ \A i \in 1 .. Len(x) : x[i] = d[i]
        BY <1>3, <1>8, <1>10
      <3>2. QED
        BY <3>1, PrefixIff
    <2>2. \A i \in 0 .. m : SubSeq(d, 1, i) = SubSeq(x, 1, i)
      BY <1>3, <1>10, <2>1, PrefixCut
    <2>3. QED
      BY <1>15, <2>2
  <1>17. ASSUME NEW j \in 1 .. m + 1
         PROVE  e[j] = Greedy(seq \o SubSeq(e, 1, j - 1))
    <2>1. j - 1 \in 0 .. m /\ j \in 1 .. Len(b)
      BY <1>12
    <2>2. arg[j] = Greedy(seq \o SubSeq(e, 1, j - 1))
      BY <1>6, <1>16, <2>1
    <2>3. e[j] = arg[j]
      <3>1. CASE j = m + 1
        BY <1>13, <1>15, <3>1
      <3>2. CASE j # m + 1
        <4>1. j \in 1 .. m
          BY <1>12, <3>2
        <4>2. QED
          BY <1>8, <1>10, <1>15, <4>1
      <3>3. QED
        BY <3>1, <3>2
    <2>4. QED
      BY <2>2, <2>3
  <1>18. Len(e) - 1 = m /\ Len(e) \in 1 .. Len(b) /\ e # <<>>
    <2>1. Len(e) - 1 = m /\ Len(e) \in 1 .. Len(b) /\ Len(e) # 0
      BY <1>12, <1>15
    <2>2. QED
      BY <2>1
  <1>19. (\A j \in 0 .. Len(e) - 1 : SubSeq(e, 1, j) = SubSeq(d, 1, j))
         /\ (\A j \in 1 .. Len(e) : e[j] = Greedy(seq \o SubSeq(e, 1, j - 1)))
    BY <1>15, <1>16, <1>17, <1>18
  <1>20. QED
    BY <1>1, <1>15, <1>18, <1>19

(* What a commit keeps of the sweep's batch.                               *)
CommitKeep == Keep(SweepEmit)

LEMMA CommitOutputs ==
  ASSUME SInv, Commit, NEW keep, keep = CommitKeep
  PROVE  /\ Outputs(SweepEmit, keep)
         /\ keep \in 1 .. Len(Batch)
         /\ cached' = cached + keep /\ T' = cached' + 1
         /\ Fed' = Fed \o SubSeq(Batch, 1, keep)
         /\ \A j \in 0 .. keep - 1 : SubSeq(seq', 1, T + j) = seq \o SubSeq(d, 1, j)
  <1>1. /\ pc = "commit" /\ world' = world /\ cmd' = cmd /\ Tmax' = Tmax
        /\ Emit(SweepEmit, keep) /\ cached' = cached + keep
    BY DEF Commit, CommitKeep, fixed
  <1>2. PICK e : e = SweepEmit
    OBVIOUS
  <1>3. /\ e \in Seq(Id) /\ e # <<>> /\ Len(e) \in 1 .. Len(Batch)
        /\ \A j \in 0 .. Len(e) - 1 : SubSeq(e, 1, j) = SubSeq(d, 1, j)
        /\ \A j \in 1 .. Len(e) : e[j] = Greedy(seq \o SubSeq(e, 1, j - 1))
    <2> HIDE DEF Batch
    <2>1. QED
      BY <1>1, <1>2, SweepEmits
  <1>4. Outputs(e, keep)
    BY <1>1, <1>2, <1>3 DEF Outputs, CommitKeep
  <1>5. PICK b : b = Batch
    OBVIOUS
  <1>6. PICK f : f = Fed
    OBVIOUS
  <1>7. /\ b \in Seq(Id) /\ Len(b) = Len(d) + 1 /\ Len(d) \in Nat \ {0}
        /\ f \o b = seq \o d /\ f \in Seq(Id) /\ Len(f) = cached /\ cached \in Nat
        /\ cached + 1 = Len(seq) /\ seq \in Seq(Id) /\ d \in Seq(Id)
    <2> HIDE DEF Fed, Batch
    <2>2. QED
      BY <1>1, <1>5, <1>6, BatchGoesOn
  <1>8. keep \in 1 .. Len(e) /\ seq' = seq \o SubSeq(e, 1, keep) /\ T' = T + keep
    <2>1. nout < cmd.gen
      BY <1>1, Pending
    <2>2. /\ keep \in 0 .. Len(e) /\ keep > 0 /\ seq' = seq \o SubSeq(e, 1, keep)
          /\ T' = T + keep
      BY <1>1, <1>4, <2>1, OutputKept
    <2>3. QED
      BY <2>2
  <1>9. keep \in 1 .. Len(b)
    BY <1>3, <1>5, <1>7, <1>8
  <1>10. T = Len(seq) /\ T' = cached + keep + 1
    <2>1. T = Len(seq)
      BY DEF T
    <2>2. cached \in Nat /\ cached + 1 = Len(seq) /\ T' = T + keep /\ keep \in Nat
      BY <1>3, <1>7, <1>8
    <2>3. QED
      BY <2>1, <2>2
  <1>11. ASSUME NEW j \in 0 .. keep - 1
         PROVE  SubSeq(seq', 1, Len(seq) + j) = seq \o SubSeq(d, 1, j)
    <2>1. PICK z : z = seq'
      OBVIOUS
    <2>2. keep \in 0 .. Len(e) /\ z = seq \o SubSeq(e, 1, keep)
      BY <1>8, <2>1
    <2>3. \A i \in 0 .. keep : SubSeq(z, 1, Len(seq) + i) = seq \o SubSeq(e, 1, i)
      <3>1. seq \in Seq(Id) /\ e \in Seq(Id)
        BY <1>3, <1>7
      <3>2. QED
        BY <2>2, <3>1, CutOfConcat
    <2>4. j \in 0 .. keep /\ j \in 0 .. Len(e) - 1
      BY <1>3, <1>8
    <2>5. QED
      BY <1>3, <2>1, <2>3, <2>4
  <1>12. Fed' = f \o SubSeq(b, 1, keep)
    <2>1. PICK j \in 0 .. keep - 1 : j = keep - 1
      BY <1>9
    <2>2. keep \in 0 .. Len(b) /\ j \in 0 .. Len(d) /\ Len(f) + keep = Len(seq) + j
      <3>1. /\ Len(f) \in Nat /\ Len(f) + 1 = Len(seq) /\ Len(d) \in Nat /\ Len(b) = Len(d) + 1
            /\ keep \in 1 .. Len(b)
        BY <1>7, <1>9
      <3>2. QED
        BY <2>1, <3>1
    <2>3. f \o SubSeq(b, 1, keep) = seq \o SubSeq(d, 1, j)
      <3>1. f \in Seq(Id) /\ b \in Seq(Id) /\ seq \in Seq(Id) /\ d \in Seq(Id)
        BY <1>7
      <3>2. SubSeq(f \o b, 1, Len(f) + keep) = f \o SubSeq(b, 1, keep)
        BY <2>2, <3>1, CutBehind
      <3>3. SubSeq(seq \o d, 1, Len(seq) + j) = seq \o SubSeq(d, 1, j)
        BY <2>2, <3>1, CutBehind
      <3>4. f \o b = seq \o d
        BY <1>7
      <3>5. QED
        BY <2>2, <3>2, <3>3, <3>4, Zenon
    <2>4. Len(seq) + j = cached + keep
      <3>1. Len(seq) = cached + 1 /\ cached \in Nat /\ keep \in Nat
        BY <1>7, <2>2
      <3>2. QED
        BY <2>1, <3>1
    <2>5. Fed' = SubSeq(seq', 1, cached + keep)
      BY <1>1 DEF Fed
    <2>6. SubSeq(seq', 1, Len(seq) + j) = seq \o SubSeq(d, 1, j)
      BY <1>11
    <2>7. QED
      BY <2>3, <2>4, <2>5, <2>6
  <1>13. T' = cached' + 1
    BY <1>1, <1>10
  <1> HIDE DEF Fed, Batch
  <1>14. QED
    BY <1>1, <1>2, <1>4, <1>5, <1>6, <1>9, <1>10, <1>11, <1>12, <1>13

(* A part of the batch is followed by the rest of it, in every pass.       *)
LEMMA BatchSplits ==
  ASSUME SInv, pc = "commit", NEW n \in 1 .. Len(Batch), NEW h, h = SubSeq(Batch, 1, n)
  PROVE  /\ h \in Seq(Id) /\ Len(h) = n /\ \A i \in 1 .. n : h[i] = Batch[i]
         /\ \A p \in Passes : IsPrefix(Reaching(p, h), log[p])
         /\ \A p \in Passes : IsPrefix(Reaching(p, Fed \o h), rows[p])
  <1>1. PICK b : b = Batch
    OBVIOUS
  <1>2. PICK f : f = Fed
    OBVIOUS
  <1>3. /\ b \in Seq(Id) /\ f \in Seq(Id) /\ Constants /\ pc \in Running /\ Len(b) \in Nat
    <2>1. Constants /\ pc \in Running
      BY DEF SInv, Running, Decoding, Drafting
    <2> HIDE DEF Fed, Batch
    <2>2. QED
      BY <1>1, <1>2, <2>1, BatchGoesOn
  <1>4. n \in 0 .. Len(b) /\ Len(b) \in n .. Len(b) /\ n \in Nat
    BY <1>1, <1>3
  <1>5. h \in Seq(Id) /\ Len(h) = n /\ \A i \in 1 .. n : h[i] = b[i]
    BY <1>1, <1>3, <1>4, CutFirst
  <1>6. PICK t : t = SubSeq(b, n + 1, Len(b))
    OBVIOUS
  <1>7. t \in Seq(Id)
    <2>1. n + 1 \in 1 .. Len(b) + 1 /\ Len(b) \in 0 .. Len(b) /\ n + 1 <= Len(b) + 1
      BY <1>3, <1>4
    <2>2. QED
      BY <1>3, <1>6, <2>1, Cut
  <1>8. h \o t = b
    <2>1. SubSeq(b, 1, n) \o SubSeq(b, n + 1, Len(b)) = SubSeq(b, 1, Len(b))
      BY <1>3, <1>4, CutConcat
    <2>2. SubSeq(b, 1, Len(b)) = b
      BY <1>3, CutAll
    <2>3. QED
      BY <1>1, <1>6, <2>1, <2>2
  <1>9. (f \o h) \o t = f \o b /\ f \o h \in Seq(Id)
    <2>1. (f \o h) \o t = f \o (h \o t)
      <3>1. f \in Seq(Id) /\ h \in Seq(Id) /\ t \in Seq(Id)
        BY <1>3, <1>5, <1>7
      <3>2. QED
        BY <3>1, ConcatAssociative
    <2>2. f \o h \in Seq(Id)
      BY <1>3, <1>5, ConcatProperties
    <2>3. QED
      BY <1>8, <2>1, <2>2
  <1>10. ASSUME NEW p \in Passes
         PROVE  IsPrefix(Reaching(p, h), log[p]) /\ IsPrefix(Reaching(p, f \o h), rows[p])
    <2>1. IsPrefix(Reaching(p, b), log[p]) /\ IsPrefix(Reaching(p, f \o b), rows[p])
      BY <1>1, <1>2 DEF SInv, Tentative
    <2>2. log[p] \in Seq(Cell) /\ rows[p] \in Seq(Cell)
      BY <1>3 DEF SInv, Buffers
    <2>3. PICK y : y = Reaching(p, t)
      OBVIOUS
    <2>4. PICK x : x = Reaching(p, h)
      OBVIOUS
    <2>5. PICK z : z = Reaching(p, f \o h)
      OBVIOUS
    <2>6. x \in Seq(Cell) /\ y \in Seq(Cell) /\ z \in Seq(Cell)
      BY <1>3, <1>5, <1>7, <1>9, <2>3, <2>4, <2>5, Reaches
    <2>7. Reaching(p, b) = x \o y
      <3>1. Constants /\ h \in Seq(Id) /\ t \in Seq(Id)
        BY <1>3, <1>5, <1>7
      <3>2. Reaching(p, h \o t) = Reaching(p, h) \o Reaching(p, t)
        BY <3>1, ReachesOn
      <3>3. QED
        BY <1>8, <2>3, <2>4, <3>2
    <2>8. Reaching(p, f \o b) = z \o y
      <3>1. Constants /\ f \o h \in Seq(Id) /\ t \in Seq(Id)
        BY <1>3, <1>7, <1>9
      <3>2. PICK g : g = f \o h
        OBVIOUS
      <3>3. g \in Seq(Id)
        BY <3>1, <3>2
      <3>4. Reaching(p, g \o t) = Reaching(p, g) \o Reaching(p, t)
        BY <3>1, <3>3, ReachesOn
      <3>5. QED
        BY <1>9, <2>3, <2>5, <3>2, <3>4
    <2>9. IsPrefix(x, log[p])
      BY <2>1, <2>2, <2>6, <2>7, PrefixConcat
    <2>10. IsPrefix(z, rows[p])
      BY <2>1, <2>2, <2>6, <2>8, PrefixConcat
    <2>11. QED
      BY <2>4, <2>5, <2>9, <2>10
  <1>11. (\A p \in Passes : IsPrefix(Reaching(p, h), log[p]))
         /\ (\A p \in Passes : IsPrefix(Reaching(p, f \o h), rows[p]))
    BY <1>10
  <1> HIDE DEF Fed, Batch
  <1>12. QED
    BY <1>1, <1>2, <1>5, <1>11

(* The passes of a batch's positions tell how many of them a pass fed.     *)
LEMMA CountsReached ==
  ASSUME SInv, pc = "commit", NEW n \in 1 .. Len(Batch), NEW h, h = SubSeq(Batch, 1, n),
         NEW p \in Passes
  PROVE  ReachedBy(p, n) = Len(Reaching(p, h))
  <1>1. PICK b : b = Batch
    OBVIOUS
  <1>2. b \in Seq(Id) /\ Constants /\ Len(b) \in Nat
    <2>1. Constants
      BY DEF SInv
    <2> HIDE DEF Batch
    <2>2. QED
      BY <1>1, <2>1, BatchGoesOn
  <1>3. n \in 0 .. Len(b) /\ h = SubSeq(b, 1, n) /\ 1 .. n \subseteq 1 .. Len(b)
    BY <1>1, <1>2
  <1>4. world.depth \in [Id -> Passes]
    BY <1>2, Model
  <1>5. Reaching(p, h) = Upto(world.depth, p, b)[n]
    <2>1. Reach(world.depth, p, SubSeq(b, 1, n)) = Upto(world.depth, p, b)[n]
      BY <1>2, <1>3, ReachStart
    <2>2. QED
      BY <1>3, <2>1 DEF Reaching
  <1>6. Len(Upto(world.depth, p, b)[n]) = Cardinality({i \in 1 .. n : world.depth[b[i]] >= p})
    BY <1>2, <1>3, <1>4, ReachCount
  <1>7. \A i \in 1 .. n : passes[cached + i] = world.depth[b[i]]
    BY <1>1, <1>3 DEF SInv, Tentative
  <1>8. {i \in 1 .. n : passes[cached + i] >= p} = {i \in 1 .. n : world.depth[b[i]] >= p}
    BY <1>7
  <1>9. QED
    BY <1>5, <1>6, <1>8 DEF ReachedBy

(* So replaying the log carries the state over exactly the ids kept.       *)
LEMMA Replays ==
  ASSUME SInv, pc = "commit", NEW n \in 1 .. Len(Batch), NEW h, h = SubSeq(Batch, 1, n),
         NEW p \in Passes
  PROVE  Advance(ks[p], log[p], IF p = 1 THEN n ELSE ReachedBy(p, n)) =
           Feed(ks[p], Reaching(p, h))
  <1>1. h \in Seq(Id) /\ Len(h) = n /\ IsPrefix(Reaching(p, h), log[p])
    <2> HIDE DEF Batch
    <2>1. QED
      BY BatchSplits
  <1>2. PICK x : x = Reaching(p, h)
    OBVIOUS
  <1>3. Constants /\ Fed \in Seq(Id) /\ ks = StateAfter(Fed) /\ log[p] \in Seq(Cell)
    BY Counters DEF SInv, CarriedIsSerial, Buffers, Running, Decoding, Drafting
  <1>4. ks[p] \in LayerStates
    BY <1>3, SerialStates, EmptySeq
  <1>5. x \in Seq(Id) /\ p = 1 => x = h
    BY <1>1, <1>2, <1>3, Reaches
  <1>6. (IF p = 1 THEN n ELSE ReachedBy(p, n)) = Len(x)
    <2>1. CASE p = 1
      BY <1>1, <1>2, <1>3, <2>1, Reaches
    <2>2. CASE p # 1
      <3>1. ReachedBy(p, n) = Len(x)
        <4> HIDE DEF Batch
        <4>1. QED
          BY <1>2, CountsReached
      <3>2. QED
        BY <2>2, <3>1
    <2>3. QED
      BY <2>1, <2>2
  <1>7. x \in Seq(Id) /\ Len(x) \in 0 .. Len(x) /\ IsPrefix(x, log[p])
    <2>1. x \in Seq(Id)
      BY <1>1, <1>2, <1>3, Reaches
    <2>2. QED
      BY <1>1, <1>2, <2>1
  <1>8. Advance(ks[p], log[p], Len(x)) = Feed(ks[p], SubSeq(x, 1, Len(x)))
    BY <1>3, <1>4, <1>7, AdvanceIsFeed
  <1>9. SubSeq(x, 1, Len(x)) = x
    BY <1>7, CutAll
  <1>10. QED
    BY <1>2, <1>6, <1>8, <1>9

(* What is carried after a commit.                                         *)
LEMMA CommitCarries ==
  ASSUME SInv, Commit, NEW keep, keep = CommitKeep, NEW h, h = SubSeq(Batch, 1, keep),
         NEW f, f = Fed
  PROVE  CarriesNext(f \o h)
  <1>1. /\ pc = "commit" /\ pc \in Running /\ world' = world /\ cmd' = cmd /\ Tmax' = Tmax
        /\ rows' = rows /\ passes' = passes /\ cached' = cached + keep
        /\ ks' = [p \in Passes |-> Advance(ks[p], log[p], IF p = 1 THEN keep ELSE ReachedBy(p, keep))]
        /\ pcached' = [p \in 2 .. RMax |-> CutCount(p, keep)]
    BY DEF Commit, CommitKeep, fixed, Running, Decoding, Drafting
  <1>2. /\ Outputs(SweepEmit, keep) /\ keep \in 1 .. Len(Batch) /\ T' = cached' + 1
        /\ Fed' = f \o h
    <2> HIDE DEF Fed, Batch
    <2>1. QED
      BY CommitOutputs
  <1>3. /\ h \in Seq(Id) /\ Len(h) = keep /\ \A i \in 1 .. keep : h[i] = Batch[i]
        /\ \A p \in Passes : IsPrefix(Reaching(p, f \o h), rows[p])
    <2> HIDE DEF Fed, Batch
    <2>1. QED
      BY <1>1, <1>2, BatchSplits
  <1>4. /\ f \in Seq(Id) /\ Constants /\ Len(f) = cached /\ cached \in Nat
        /\ cached + Len(Batch) <= Tmax /\ Tmax \in Nat /\ Len(Batch) \in Nat
    <2>1. Constants
      BY DEF SInv
    <2> HIDE DEF Fed, Batch
    <2>2. QED
      BY <1>1, <2>1, BatchGoesOn
  <1>5. PICK s : s = f \o h
    OBVIOUS
  <1>6. s \in Seq(Id)
    BY <1>3, <1>4, <1>5, ConcatProperties
  <1>7. ks = StateAfter(f) /\ sweep_pcached = CountsAfter(f)
    BY <1>1 DEF SInv, CarriedIsSerial
  <1>8. ks' = StateAfter(s)
    <2>1. [p \in Passes |-> Feed(StateAfter(f)[p], Reaching(p, h))] = StateAfter(s)
      BY <1>3, <1>4, <1>5, SerialStates
    <2>2. \A p \in Passes : Advance(ks[p], log[p], IF p = 1 THEN keep ELSE ReachedBy(p, keep)) =
                              Feed(StateAfter(f)[p], Reaching(p, h))
      <3> HIDE DEF Batch, Fed
      <3>1. QED
        BY <1>1, <1>2, <1>7, Replays
    <2>3. QED
      BY <1>1, <2>1, <2>2
  <1>9. pcached' = CountsAfter(s)
    <2>1. [p \in 2 .. RMax |-> CountsAfter(f)[p] + Len(Reaching(p, h))] = CountsAfter(s)
      BY <1>3, <1>4, <1>5, SerialCounts
    <2>2. \A p \in 2 .. RMax : ReachedBy(p, keep) = Len(Reaching(p, h))
      <3>1. 2 .. RMax \subseteq Passes
        BY <1>4, Model DEF Passes
      <3> HIDE DEF Batch, Fed
      <3>2. QED
        BY <1>1, <1>2, <3>1, CountsReached
    <2>3. \A p \in 2 .. RMax : CutCount(p, keep) = CountsAfter(f)[p] + Len(Reaching(p, h))
      BY <1>7, <2>2 DEF CutCount
    <2>4. QED
      BY <1>1, <2>1, <2>3
  <1>10. passes \in Seq(Depths) /\ Len(passes) = Tmax /\ SubSeq(passes, 1, cached) = DepthsOf(f)
         /\ rows \in [Passes -> Seq(Cell)] /\ \A p \in Passes : Len(rows[p]) = Tmax
    BY <1>1, <1>7 DEF SInv, Buffers, CarriedIsSerial, Depths
  <1>11. SubSeq(passes, 1, cached + keep) = DepthsOf(s)
    <2>1. Len(f) + Len(h) <= Len(passes)
      BY <1>2, <1>3, <1>4, <1>10
    <2>2. \A i \in 1 .. Len(h) : passes[Len(f) + i] = world.depth[h[i]]
      <3>1. \A i \in 1 .. Len(Batch) : passes[cached + i] = world.depth[Batch[i]]
        BY <1>1 DEF SInv, Tentative
      <3>2. 1 .. keep \subseteq 1 .. Len(Batch)
        BY <1>2, <1>4
      <3> HIDE DEF Batch
      <3>3. QED
        BY <1>3, <1>4, <3>1, <3>2
    <2>3. f \in Seq(Id) /\ h \in Seq(Id) /\ passes \in Seq(Depths)
          /\ SubSeq(passes, 1, Len(f)) = DepthsOf(f)
      BY <1>3, <1>4, <1>10
    <2>4. SubSeq(passes, 1, Len(f) + Len(h)) = DepthsOf(f \o h)
      BY <1>4, <2>1, <2>2, <2>3, LaterDepths
    <2>5. QED
      BY <1>3, <1>4, <1>5, <2>4
  <1>12. pc' # "commit" /\ cmd.gen # 0
    <2>1. cmd.gen > 0 /\ cmd.gen \in Nat
      BY <1>1, <1>4, Pending, Model
    <2>2. pc' \in {"step", "save"}
      BY <1>1, <1>2, OutputIsSerial
    <2>3. QED
      BY <2>1, <2>2
  <1>13. \A p \in Passes : Len(rows'[p]) = Tmax' /\ IsPrefix(Reaching(p, s), rows'[p])
    BY <1>1, <1>3, <1>5, <1>10
  <1>14. T' = cached' + (IF cmd.gen = 0 THEN 0 ELSE 1)
    BY <1>2, <1>12
  <1>15. CarriesNext(s)
    BY <1>1, <1>2, <1>5, <1>6, <1>8, <1>9, <1>10, <1>11, <1>12, <1>13, <1>14 DEF CarriesNext
  <1>16. QED
    BY <1>5, <1>15

(* The draft model replays its own log over the kept ids it has seen, and  *)
(* trails by one id when the sweep accepted all of them.                   *)
LEMMA CommitDrafts ==
  ASSUME SInv, Commit, cmd.hybrid, NEW keep, keep = CommitKeep
  PROVE  /\ dw'.row = 0 /\ dw'.cached \in 0 .. cached' /\ cached' - dw'.cached \in {0, 1}
         /\ dw'.ks = Feed(ZeroState, SubSeq(seq', 1, dw'.cached))
         /\ dw' = [cached |-> dw'.cached, ks |-> dw'.ks, row |-> dw'.row]
  <1>1. PICK k : k = DraftKept(keep)
    OBVIOUS
  <1>2. /\ pc = "commit" /\ pc \in Drafting /\ pc \in Running /\ cached' = cached + keep
        /\ dw' = [cached |-> cached + k, row |-> 0, ks |-> Advance(dw.ks, dlog, Lag + k)]
    BY <1>1 DEF Commit, CommitKeep, Drafting, Running, Decoding
  <1>3. /\ keep \in 1 .. Len(Batch)
        /\ \A j \in 0 .. keep - 1 : SubSeq(seq', 1, T + j) = seq \o SubSeq(d, 1, j)
    <2> HIDE DEF Fed, Batch
    <2>1. QED
      BY CommitOutputs
  <1>4. /\ Len(Batch) = Len(d) + 1 /\ Len(d) \in Nat \ {0} /\ cached \in Nat
        /\ cached + 1 = Len(seq) /\ seq \in Seq(Id) /\ d \in Seq(Id)
        /\ Len(Batch) <= cmd.spec_n + 1 /\ cmd.spec_n \in Nat
    <2>1. cmd.spec_n \in Nat
      BY Model DEF SInv
    <2> HIDE DEF Fed, Batch
    <2>2. QED
      BY <1>2, <2>1, BatchGoesOn
  <1>5. keep \in Nat \ {0} /\ keep <= Len(d) + 1
    BY <1>3, <1>4
  <1>6. k \in 1 .. Len(d) /\ k \in 1 .. keep /\ keep - k \in {0, 1}
    <2>1. k \in {keep, Len(d)} /\ k <= keep /\ k <= Len(d)
      BY <1>1, <1>4, <1>5, LeastOfTwo DEF DraftKept
    <2>2. QED
      BY <1>4, <1>5, <2>1
  <1>7. /\ CatchUp \in Seq(Id) /\ Len(CatchUp) = Lag + 1
        /\ SubSeq(seq, 1, dw.cached) \in Seq(Id)
        /\ SubSeq(seq, 1, dw.cached) \o CatchUp = seq
        /\ dw.ks = Feed(ZeroState, SubSeq(seq, 1, dw.cached))
        /\ Lag \in Nat
    BY <1>2, CatchesUp
  <1>8. PICK c : c = CatchUp
    OBVIOUS
  <1>9. PICK u : u = SubSeq(seq, 1, dw.cached)
    OBVIOUS
  <1>10. PICK x : x = SubSeq(d, 1, Len(d) - 1)
    OBVIOUS
  <1>11. x \in Seq(Id) /\ Len(x) = Len(d) - 1
    <2>1. Len(d) - 1 \in 0 .. Len(d)
      BY <1>4
    <2>2. QED
      BY <1>4, <1>10, <2>1, CutFirst
  <1>12. /\ Lag \in {0, 1} /\ dw.row = Lag + Len(d) /\ SubSeq(dlog, 1, dw.row) = c \o x
         /\ dlog \in Seq(Cell) /\ Len(dlog) = cmd.spec_n + 1
    BY <1>2, <1>8, <1>10 DEF SInv, Draft, Buffers, CatchUp
  <1>13. PICK y : y = c \o x
    OBVIOUS
  <1>14. y \in Seq(Id) /\ Len(y) = Lag + Len(d)
    <2>1. c \in Seq(Id) /\ x \in Seq(Id)
      BY <1>7, <1>8, <1>11
    <2>2. y \in Seq(Id) /\ Len(y) = Len(c) + Len(x)
      BY <1>13, <2>1, ConcatProperties
    <2>3. Len(c) = Lag + 1 /\ Len(x) = Len(d) - 1 /\ Lag \in Nat /\ Len(d) \in Nat
      BY <1>4, <1>7, <1>8, <1>11
    <2>4. Len(c) + Len(x) = Lag + Len(d)
      BY <2>3
    <2>5. QED
      BY <2>2, <2>4
  <1>15. IsPrefix(y, dlog)
    <2>1. Len(y) <= Len(dlog)
      <3>1. Lag \in {0, 1} /\ Len(y) = Lag + Len(d) /\ Len(dlog) = cmd.spec_n + 1
        BY <1>12, <1>14
      <3>2. Len(d) <= cmd.spec_n /\ Len(d) \in Nat /\ cmd.spec_n \in Nat
        BY <1>4
      <3>3. QED
        BY <3>1, <3>2
    <2>2. SubSeq(dlog, 1, Len(y)) = y
      BY <1>12, <1>13, <1>14
    <2>3. QED
      BY <2>1, <2>2 DEF IsPrefix
  <1>16. PICK j : j = k - 1
    OBVIOUS
  <1>17. j \in 0 .. Len(x) /\ j \in 0 .. keep - 1 /\ Lag + k = Len(c) + j /\ Lag + k \in 0 .. Len(y)
         /\ cached + k = T + j
    <2>1. j \in 0 .. Len(x) /\ j \in 0 .. keep - 1
      BY <1>4, <1>5, <1>6, <1>11, <1>16
    <2>2. Len(c) = Lag + 1 /\ Lag \in Nat /\ k \in Nat /\ Len(y) = Lag + Len(d) /\ k <= Len(d)
          /\ Len(d) \in Nat
      BY <1>4, <1>6, <1>7, <1>8, <1>14
    <2>3. Lag + k = Len(c) + j /\ Lag + k \in 0 .. Len(y)
      BY <1>16, <2>2
    <2>4. T = cached + 1
      BY <1>4 DEF T
    <2>5. cached + k = T + j
      BY <1>4, <1>16, <2>2, <2>4
    <2>6. QED
      BY <2>1, <2>3, <2>5
  <1>18. PICK v : v = SubSeq(d, 1, j)
    OBVIOUS
  <1>19. v \in Seq(Id) /\ SubSeq(x, 1, j) = v
    <2>1. j \in 0 .. Len(d)
      BY <1>4, <1>6, <1>16
    <2>2. v \in Seq(Id)
      BY <1>4, <1>18, <2>1, CutFirst
    <2>3. IsPrefix(x, d)
      <3>1. Len(d) - 1 \in 0 .. Len(d)
        BY <1>4
      <3>2. \A i \in 1 .. Len(d) - 1 : x[i] = d[i]
        BY <1>4, <1>10, <3>1, CutFirst
      <3>3. Len(x) <= Len(d) /\ \A i \in 1 .. Len(x) : x[i] = d[i]
        BY <1>4, <1>11, <3>2
      <3>4. x \in Seq(Id) /\ d \in Seq(Id)
        BY <1>4, <1>11
      <3>5. QED
        BY <3>3, <3>4, PrefixIff
    <2>4. x \in Seq(Id) /\ d \in Seq(Id) /\ j \in 0 .. Len(x)
      BY <1>4, <1>11, <1>17
    <2>5. SubSeq(d, 1, j) = SubSeq(x, 1, j)
      BY <2>3, <2>4, PrefixCut
    <2>6. QED
      BY <1>18, <2>2, <2>5
  <1>20. SubSeq(y, 1, Lag + k) = c \o v
    <2>1. c \in Seq(Id) /\ x \in Seq(Id) /\ j \in 0 .. Len(x)
      BY <1>7, <1>8, <1>11, <1>17
    <2>2. SubSeq(c \o x, 1, Len(c) + j) = c \o SubSeq(x, 1, j)
      BY <2>1, CutBehind
    <2>3. QED
      BY <1>13, <1>17, <1>19, <2>2
  <1>21. PICK st : st = dw.ks
    OBVIOUS
  <1>22. st = Feed(ZeroState, u) /\ u \in Seq(Id) /\ u \o c = seq /\ c \in Seq(Id)
    BY <1>7, <1>8, <1>9, <1>21
  <1>23. st \in LayerStates
    BY <1>22, ZeroIsState, FeedTwice, EmptySeq
  <1>24. Advance(st, dlog, Lag + k) = Feed(st, c \o v)
    <2>1. PICK n : n = Lag + k
      OBVIOUS
    <2>2. n \in 0 .. Len(y) /\ dlog \in Seq(Cell)
      BY <1>12, <1>17, <2>1
    <2>3. Advance(st, dlog, n) = Feed(st, SubSeq(y, 1, n))
      BY <1>14, <1>15, <1>23, <2>2, AdvanceIsFeed
    <2>4. QED
      BY <1>20, <2>1, <2>3
  <1>25. Feed(st, c \o v) = Feed(ZeroState, seq \o v)
    <2>1. c \o v \in Seq(Id)
      BY <1>19, <1>22, ConcatProperties
    <2>2. PICK w : w = c \o v
      OBVIOUS
    <2>3. w \in Seq(Id)
      BY <2>1, <2>2
    <2>4. Feed(Feed(ZeroState, u), w) = Feed(ZeroState, u \o w)
      BY <1>22, <2>3, ZeroIsState, FeedTwice
    <2>5. (u \o c) \o v = u \o (c \o v)
      <3>1. u \in Seq(Id) /\ c \in Seq(Id) /\ v \in Seq(Id)
        BY <1>19, <1>22
      <3>2. QED
        BY <3>1, ConcatAssociative
    <2>6. QED
      BY <1>22, <2>2, <2>4, <2>5
  <1>26. SubSeq(seq', 1, cached + k) = seq \o v
    BY <1>3, <1>17, <1>18
  <1>27. dw'.row = 0 /\ dw'.cached = cached + k /\ dw'.ks = Feed(ZeroState, seq \o v)
    BY <1>2, <1>21, <1>24, <1>25
  <1>28. PICK a \in Nat, b \in Nat : a = cached + keep /\ b = cached + k
    BY <1>4, <1>5, <1>6
  <1>29. dw' = [cached |-> dw'.cached, ks |-> dw'.ks, row |-> dw'.row]
    <2>1. PICK q : q = dw'
      OBVIOUS
    <2>2. PICK g : g = Advance(dw.ks, dlog, Lag + k)
      OBVIOUS
    <2>3. q = [cached |-> cached + k, row |-> 0, ks |-> g]
      BY <1>2, <2>1, <2>2
    <2>4. q = [cached |-> q.cached, ks |-> q.ks, row |-> q.row]
      BY <2>3
    <2>5. QED
      BY <2>1, <2>4
  <1>30. dw'.cached \in 0 .. cached' /\ cached' - dw'.cached \in {0, 1}
    <2>1. cached \in Nat /\ keep \in Nat /\ k \in 1 .. keep /\ keep - k \in {0, 1}
      BY <1>4, <1>5, <1>6
    <2>2. b \in 0 .. a /\ a - b \in {0, 1}
      BY <1>28, <2>1
    <2>3. cached' = a /\ dw'.cached = b
      BY <1>2, <1>27, <1>28, Zenon
    <2>4. QED
      BY <2>2, <2>3, Zenon
  <1>31. dw'.ks = Feed(ZeroState, SubSeq(seq', 1, dw'.cached))
    BY <1>26, <1>27, Zenon
  <1>32. QED
    BY <1>27, <1>29, <1>30, <1>31, Zenon

LEMMA CommitSInv ==
  ASSUME SInv, Commit
  PROVE  SInv'
  <1>1. PICK keep : keep = CommitKeep
    OBVIOUS
  <1>2. PICK f : f = Fed
    OBVIOUS
  <1>3. PICK h : h = SubSeq(Batch, 1, keep)
    OBVIOUS
  <1>4. PICK emit : emit = SweepEmit
    OBVIOUS
  <1>5. /\ pc = "commit" /\ world' = world /\ cmd' = cmd /\ disk' = disk /\ turn' = turn
        /\ faults' = faults /\ log' = log /\ dlog' = dlog /\ d' = <<>> /\ written' = written
        /\ sigint' = sigint /\ cached' = cached + keep
        /\ ~cmd.hybrid => dw' = dw
    BY <1>1 DEF Commit, CommitKeep, fixed, tentative
  <1>6. /\ Outputs(emit, keep) /\ keep \in 1 .. Len(Batch)
    <2> HIDE DEF Fed, Batch
    <2>1. QED
      BY <1>1, <1>4, CommitOutputs
  <1>7. CarriesNext(f \o h)
    <2> HIDE DEF Fed, Batch
    <2>1. QED
      BY <1>1, <1>2, <1>3, CommitCarries
  <1>8. cached' \in Nat
    <2>1. cached \in Nat /\ keep \in Nat
      BY <1>6, Counters
    <2>2. QED
      BY <1>5, <2>1
  <1>9. pc' \in {"step", "save"}
    BY <1>5, <1>6, OutputIsSerial
  <1>10. dw' = [cached |-> dw'.cached, ks |-> dw'.ks, row |-> dw'.row] /\ Draft'
    <2>1. CASE cmd.hybrid
      <3>1. /\ dw'.row = 0 /\ dw'.cached \in 0 .. cached' /\ cached' - dw'.cached \in {0, 1}
            /\ dw'.ks = Feed(ZeroState, SubSeq(seq', 1, dw'.cached))
            /\ dw' = [cached |-> dw'.cached, ks |-> dw'.ks, row |-> dw'.row]
        BY <1>1, <2>1, CommitDrafts
      <3>2. Draft'
        BY <1>9, <3>1 DEF Draft, Drafting, Lag
      <3>3. QED
        BY <3>1, <3>2
    <2>2. CASE ~cmd.hybrid
      <3>1. Draft'
        BY <1>5, <2>2 DEF Draft
      <3>2. QED
        BY <1>5, <2>2, <3>1 DEF SInv, Records
    <2>3. QED
      BY <2>1, <2>2
  <1>11. sigint' \in {"default", "armed", "requested"}
    BY <1>5 DEF SInv, SessionTypeOK
  <1>12. PICK s : s = f \o h
    OBVIOUS
  <1>13. CarriesNext(s)
    BY <1>7, <1>12
  <1>14. QED
    BY <1>5, <1>6, <1>8, <1>10, <1>11, <1>13, OutputKeeps

-----------------------------------------------------------------------------
(***************************************************************************)
(* The saved state.                                                        *)
(***************************************************************************)
(* Clearing a buffer behind what was fed leaves what serial decode wrote.  *)
Behind(r, m, n) == [i \in DOMAIN r |-> IF i > m /\ i <= n THEN NoId ELSE r[i]]

LEMMA ClearsBehind ==
  ASSUME NEW S, NoId \in S, NEW r \in Seq(S), NEW x \in Seq(S), IsPrefix(x, r),
         NEW n \in Len(x) .. Len(r), NEW c,
         c = Behind(r, Len(x), n)
  PROVE  /\ c \in Seq(S) /\ Len(c) = Len(r) /\ IsPrefix(x, c)
         /\ SubSeq(c, 1, n) = Over(Blank(n), 0, x)
  <1>1. DOMAIN r = 1 .. Len(r) /\ Len(r) \in Nat /\ Len(x) \in Nat /\ n \in Nat
        /\ Len(x) <= n /\ n <= Len(r)
    OBVIOUS
  <1>2. \A i \in 1 .. Len(r) : r[i] \in S
    BY ElementOfSeq
  <1>3. c \in Seq(S) /\ Len(c) = Len(r)
        /\ \A i \in 1 .. Len(r) : c[i] = IF i > Len(x) /\ i <= n THEN NoId ELSE r[i]
    BY <1>1, <1>2 DEF Behind
  <1>4. Len(x) <= Len(r) /\ \A i \in 1 .. Len(x) : x[i] = r[i]
    BY PrefixIff
  <1>5. \A i \in 1 .. Len(x) : x[i] = c[i]
    <2>1. ASSUME NEW i \in 1 .. Len(x)
          PROVE  x[i] = c[i]
      <3>1. i \in 1 .. Len(r) /\ ~(i > Len(x))
        BY <1>1
      <3>2. QED
        BY <1>3, <1>4, <3>1
    <2>2. QED
      BY <2>1
  <1>6. IsPrefix(x, c)
    BY <1>3, <1>4, <1>5, PrefixIff
  <1>7. PICK a : a = SubSeq(c, 1, n)
    OBVIOUS
  <1>8. a \in Seq(S) /\ Len(a) = n /\ \A i \in 1 .. n : a[i] = c[i]
    <2>1. n \in 0 .. Len(c)
      BY <1>1, <1>3
    <2>2. QED
      BY <1>3, <1>7, <2>1, CutFirst
  <1>9. PICK b : b = Over(Blank(n), 0, x)
    OBVIOUS
  <1>10. b \in Seq(S) /\ Len(b) = n /\ \A i \in 1 .. n : b[i] = IF i <= Len(x) THEN x[i] ELSE NoId
    <2>1. n \in Len(x) .. n
      BY <1>1
    <2>2. QED
      BY <1>1, <1>9, <2>1, OverNothing
  <1>11. ASSUME NEW i \in 1 .. n
         PROVE  a[i] = b[i]
    <2>1. i \in 1 .. Len(r) /\ i <= n
      BY <1>1
    <2>2. CASE i <= Len(x)
      <3>1. i \in 1 .. Len(x)
        BY <1>1, <2>2
      <3>2. QED
        BY <1>5, <1>8, <1>10, <2>2, <3>1
    <2>3. CASE ~(i <= Len(x))
      <3>1. i > Len(x)
        BY <1>1, <2>3
      <3>2. QED
        BY <1>3, <1>8, <1>10, <2>1, <2>3, <3>1
    <2>4. QED
      BY <2>2, <2>3
  <1>12. a = b
    BY <1>8, <1>10, <1>11, SeqEqual
  <1>13. QED
    BY <1>3, <1>6, <1>7, <1>9, <1>12

LEMMA SaveClears ==
  ASSUME SInv, BeginSave
  PROVE  /\ rows' \in [Passes -> Seq(Cell)]
         /\ \A p \in Passes : /\ Len(rows'[p]) = Tmax /\ IsPrefix(Reaching(p, Fed), rows'[p])
                              /\ SubSeq(rows'[p], 1, cached) = RowsAfter(Fed, cached)[p]
         /\ passes' \in Seq(Depths) /\ Len(passes') = Tmax
         /\ SubSeq(passes', 1, cached) = DepthsOf(Fed)
         /\ SubSeq(passes', 1, T) = Over(Blank(T), 0, DepthsOf(Fed))
  <1>1. /\ pc = "save" /\ pc \in Running /\ pc # "commit" /\ Constants
        /\ rows' = Cleared(cached)
        /\ passes' = [i \in DOMAIN passes |-> IF i > cached /\ i <= T THEN NoId ELSE passes[i]]
    BY DEF BeginSave, SInv, Running, Decoding, Saving
  <1>2. PICK f : f = Fed
    OBVIOUS
  <1>3. /\ f \in Seq(Id) /\ Len(f) = cached /\ cached \in Nat /\ cached <= T /\ T \in Nat
        /\ Tmax \in Nat /\ T < Tmax /\ cached <= Tmax
    <2>1. /\ Fed \in Seq(Id) /\ Len(Fed) = cached /\ cached \in 0 .. T /\ T \in Nat
          /\ Tmax \in Nat /\ T < Tmax
      BY <1>1, Counters
    <2>2. QED
      BY <1>2, <2>1
  <1>4. /\ passes \in Seq(Depths) /\ Len(passes) = Tmax /\ SubSeq(passes, 1, cached) = DepthsOf(f)
        /\ rows \in [Passes -> Seq(Cell)] /\ \A p \in Passes : Len(rows[p]) = Tmax
    BY <1>1, <1>2 DEF SInv, Buffers, CarriedIsSerial, Depths
  <1>5. /\ passes' \in Seq(Depths) /\ Len(passes') = Tmax
        /\ SubSeq(passes', 1, cached) = DepthsOf(f)
        /\ SubSeq(passes', 1, T) = Over(Blank(T), 0, DepthsOf(f))
    <2>1. PICK x : x = DepthsOf(f)
      OBVIOUS
    <2>2. x \in Seq(Depths) /\ Len(x) = cached
      BY <1>1, <1>3, <2>1, DepthsType
    <2>3. NoId \in Depths
      BY <1>1, Model DEF NoId, Depths
    <2>4. IsPrefix(x, passes)
      BY <1>3, <1>4, <2>1, <2>2 DEF IsPrefix
    <2>5. PICK c : c = passes'
      OBVIOUS
    <2>6. c = [i \in DOMAIN passes |-> IF i > Len(x) /\ i <= T THEN NoId ELSE passes[i]]
      BY <1>1, <2>2, <2>5
    <2>7. T \in Len(x) .. Len(passes)
      BY <1>3, <1>4, <2>2
    <2>8. /\ c \in Seq(Depths) /\ Len(c) = Len(passes) /\ IsPrefix(x, c)
          /\ SubSeq(c, 1, T) = Over(Blank(T), 0, x)
      <3>1. PICK r : r = passes
        OBVIOUS
      <3>2. PICK n \in Len(x) .. Len(r) : n = T
        BY <2>7, <3>1
      <3>3. /\ r \in Seq(Depths) /\ x \in Seq(Depths) /\ IsPrefix(x, r)
            /\ c = Behind(r, Len(x), n)
        BY <1>4, <2>2, <2>4, <2>6, <3>1, <3>2 DEF Behind
      <3>4. /\ c \in Seq(Depths) /\ Len(c) = Len(r) /\ IsPrefix(x, c)
            /\ SubSeq(c, 1, n) = Over(Blank(n), 0, x)
        BY <2>3, <3>3, ClearsBehind
      <3>5. QED
        BY <3>1, <3>2, <3>4
    <2>9. SubSeq(c, 1, cached) = x
      BY <2>2, <2>8 DEF IsPrefix
    <2>10. QED
      BY <1>4, <2>1, <2>5, <2>8, <2>9
  <1>6. ASSUME NEW p \in Passes
        PROVE  /\ rows'[p] \in Seq(Cell) /\ Len(rows'[p]) = Tmax
               /\ IsPrefix(Reaching(p, f), rows'[p])
               /\ SubSeq(rows'[p], 1, cached) = RowsAfter(f, cached)[p]
    <2>1. PICK x : x = Reaching(p, f)
      OBVIOUS
    <2>2. PICK r : r = rows[p]
      OBVIOUS
    <2>3. PICK c : c = rows'[p]
      OBVIOUS
    <2>4. /\ x \in Seq(Cell) /\ Len(x) \in 0 .. cached /\ (p = 1 => x = f)
          /\ r \in Seq(Cell) /\ Len(r) = Tmax /\ NoId \in Cell
      BY <1>1, <1>3, <1>4, <2>1, <2>2, Reaches DEF Cell
    <2>5. IsPrefix(x, r) /\ (p # 1 => pcached[p] = Len(x))
      BY <1>1, <1>2, <2>1, <2>2, RowsEnds DEF RowsEnd
    <2>6. c = [i \in DOMAIN r |-> IF i > Len(x) /\ i <= cached THEN NoId ELSE r[i]]
      <3>1. CASE p = 1
        <4>1. c = r /\ Len(x) = cached
          BY <1>1, <1>3, <2>2, <2>3, <2>4, <3>1 DEF Cleared
        <4>2. r = [i \in DOMAIN r |-> r[i]]
          BY <2>4
        <4>3. \A i \in DOMAIN r : ~(i > cached /\ i <= cached)
          BY <1>3, <2>4
        <4>4. QED
          BY <4>1, <4>2, <4>3
      <3>2. CASE p # 1
        BY <1>1, <2>2, <2>3, <2>5, <3>2 DEF Cleared
      <3>3. QED
        BY <3>1, <3>2
    <2>7. cached \in Len(x) .. Len(r)
      BY <1>3, <2>4
    <2>8. /\ c \in Seq(Cell) /\ Len(c) = Len(r) /\ IsPrefix(x, c)
          /\ SubSeq(c, 1, cached) = Over(Blank(cached), 0, x)
      <3>1. PICK n \in Len(x) .. Len(r) : n = cached
        BY <2>7
      <3>2. /\ NoId \in Cell /\ r \in Seq(Cell) /\ x \in Seq(Cell) /\ IsPrefix(x, r)
            /\ c = Behind(r, Len(x), n)
        BY <2>4, <2>5, <2>6, <3>1 DEF Behind
      <3>3. /\ c \in Seq(Cell) /\ Len(c) = Len(r) /\ IsPrefix(x, c)
            /\ SubSeq(c, 1, n) = Over(Blank(n), 0, x)
        BY <3>2, ClearsBehind
      <3>4. QED
        BY <3>1, <3>3
    <2>9. RowsAfter(f, cached)[p] = Over(Blank(cached), 0, x)
      BY <2>1 DEF RowsAfter
    <2>10. QED
      BY <2>1, <2>3, <2>4, <2>8, <2>9
  <1>7. rows' \in [Passes -> Seq(Cell)]
    <2>1. PICK r : r = rows'
      OBVIOUS
    <2>2. r = [p \in Passes |-> r[p]]
      BY <1>1, <2>1 DEF Cleared
    <2>3. \A p \in Passes : r[p] \in Seq(Cell)
      BY <1>6, <2>1
    <2>4. r \in [Passes -> Seq(Cell)]
      BY <2>2, <2>3
    <2>5. QED
      BY <2>1, <2>4
  <1>8. \A p \in Passes : /\ Len(rows'[p]) = Tmax /\ IsPrefix(Reaching(p, f), rows'[p])
                          /\ SubSeq(rows'[p], 1, cached) = RowsAfter(f, cached)[p]
    BY <1>6
  <1> HIDE DEF Fed
  <1>9. QED
    BY <1>2, <1>5, <1>7, <1>8

LEMMA BeginSaveSInv ==
  ASSUME SInv, BeginSave
  PROVE  SInv'
  <1>1. /\ pc = "save" /\ pc' = "opened" /\ pc \in Running /\ pc' \in Running
        /\ pc \in Saving /\ pc' \in Saving /\ pc' \notin Drafting /\ pc \notin Drafting
        /\ pc' \in Decoding
    BY DEF BeginSave, Running, Reading, Decoding, Drafting, Saving
  <1>2. /\ world' = world /\ cmd' = cmd /\ disk' = disk /\ turn' = turn /\ faults' = faults
        /\ seq' = seq /\ nout' = nout /\ cached' = cached /\ Tmax' = Tmax
        /\ ks' = ks /\ pcached' = pcached /\ log' = log
        /\ d' = d /\ dw' = dw /\ dlog' = dlog /\ written' = written /\ sigint' = sigint
    BY DEF BeginSave, fixed, decoded, tentative, drafts
  <1>3. T' = T /\ Fed' = Fed
    BY <1>2 DEF T, Fed
  <1>4. /\ rows' \in [Passes -> Seq(Cell)]
        /\ \A p \in Passes : /\ Len(rows'[p]) = Tmax /\ IsPrefix(Reaching(p, Fed), rows'[p])
                             /\ SubSeq(rows'[p], 1, cached) = RowsAfter(Fed, cached)[p]
        /\ passes' \in Seq(Depths) /\ Len(passes') = Tmax
        /\ SubSeq(passes', 1, cached) = DepthsOf(Fed)
        /\ SubSeq(passes', 1, T) = Over(Blank(T), 0, DepthsOf(Fed))
    BY SaveClears
  <1>5. Constants' /\ Records' /\ Files' /\ SavedIsSerial'
    BY <1>1, <1>2, SameCheckpoint, SameState DEF SInv, Constants, Records, Files
  <1>6. SessionTypeOK'
    BY <1>1, <1>2, <1>3 DEF SInv, SessionTypeOK
  <1>7. Buffers'
    BY <1>1, <1>2, <1>3, <1>4 DEF SInv, Buffers, Depths
  <1>8. CarriedIsSerial'
    <2>1. T = cached + (IF cmd.gen = 0 THEN 0 ELSE 1)
      BY <1>1 DEF SInv, CarriedIsSerial
    <2>2. ks = StateAfter(Fed) /\ CountsAfter(Fed) = pcached /\ Fed \in Seq(Id)
      BY <1>1, Counters DEF SInv, CarriedIsSerial
    <2>3. CarriesNext(Fed)
      <3> HIDE DEF Fed, T
      <3>1. QED
        BY <1>1, <1>2, <1>3, <1>4, <2>1, <2>2 DEF CarriesNext
    <2>4. QED
      BY <1>2, <2>3, CarriedNext
  <1>9. SerialOutput'
    <2>1. \A x : Greedy(x)' = Greedy(x)
      BY <1>2 DEF Greedy, LastIds
    <2>2. (\A i \in T - nout + 1 .. T : seq[i] = Greedy(SubSeq(seq, 1, i - 1)))'
      BY <1>2, <1>3, <2>1 DEF SInv, SerialOutput
    <2>3. QED
      BY <1>1, <1>2, <1>3, <2>2 DEF SInv, SerialOutput, Saving
  <1>10. Tentative' /\ Draft'
    BY <1>1, <1>2 DEF SInv, Tentative, Draft, Drafting
  <1>11. Saved'
    <2>2. RowsAfter(Fed, cached)' = RowsAfter(Fed, cached)
      BY <1>2, <1>3 DEF RowsAfter, Reaching
    <2>3. Over(Blank(T), 0, DepthsOf(Fed))' = Over(Blank(T), 0, DepthsOf(Fed))
      BY <1>2, <1>3, Fixed DEF Over, Blank
    <2>4. QED
      BY <1>2, <1>3, <1>4, <2>2, <2>3 DEF Saved
  <1>12. DecodeState'
    BY <1>1, <1>5, <1>6, <1>7, <1>8, <1>9, <1>10, <1>11 DEF DecodeState
  <1>13. QED
    BY <1>12, DecodeKeepsNext

(* Only the file being written changes.                                    *)
OnlySaves ==
  /\ world' = world /\ cmd' = cmd /\ turn' = turn /\ faults' = faults
  /\ seq' = seq /\ nout' = nout /\ cached' = cached /\ Tmax' = Tmax
  /\ ks' = ks /\ rows' = rows /\ passes' = passes /\ pcached' = pcached
  /\ log' = log /\ d' = d /\ dw' = dw /\ dlog' = dlog /\ written' = written /\ sigint' = sigint

LEMMA SavesKeep ==
  ASSUME SInv, pc \in {"opened", "saving"}, pc' = "saving", OnlySaves,
         NEW k \in 0 .. Whole - 1, disk' = [disk EXCEPT !["state"] = Memory(T, k)]
  PROVE  SInv'
  <1>1. /\ pc \in Running /\ pc' \in Running /\ pc \in Saving /\ pc' \in Saving
        /\ pc' \notin Drafting /\ pc \notin Drafting /\ pc' \in Decoding
        /\ pc # "commit" /\ pc' # "commit"
    BY DEF Running, Reading, Decoding, Drafting, Saving
  <1>2. T' = T /\ Fed' = Fed
    BY DEF T, Fed, OnlySaves
  <1>3. /\ Records' /\ disk'.ckpt = disk.ckpt /\ disk'.tmp = disk.tmp
        /\ disk'.state = Memory(T, k)
    BY Written DEF SInv, OnlySaves
  <1>4. disk'.state.parts = k /\ disk'.state = Memory(T, disk.state.parts)'
    <2>1. \A p, x : Reaching(p, x)' = Reaching(p, x)
      BY DEF Reaching, OnlySaves
    <2>2. disk'.state.parts = k
      BY <1>3 DEF Memory
    <2>3. \A n, j : Memory(n, j)' = Memory(n, j)
      BY <2>1 DEF Memory, StateAfter, OnlySaves
    <2>4. QED
      BY <1>2, <1>3, <2>2, <2>3
  <1>5. Constants' /\ Files' /\ SavedIsSerial'
    <2>1. k # Whole /\ k \in 0 .. Whole - 1
      BY DEF Whole
    <2>2. Constants'
      BY DEF SInv, Constants, OnlySaves
    <2>3. SavedIsSerial'
      BY <1>4, <2>1 DEF SavedIsSerial
    <2>4. world' = world
      BY DEF OnlySaves
    <2>5. Files'
      BY <1>3, <1>4, <2>1, <2>4, SameCheckpoint DEF Files
    <2>6. QED
      BY <2>2, <2>3, <2>5
  <1>6. SessionTypeOK'
    <2>1. \A f \in {"ckpt", "tmp", "state"} : disk'[f].parts \in -1 .. Whole
      BY <1>3, <1>4 DEF SInv, SessionTypeOK, Whole
    <2>2. QED
      BY <1>1, <1>2, <2>1 DEF SInv, SessionTypeOK, OnlySaves
  <1>7. Buffers'
    BY <1>1, <1>2 DEF SInv, Buffers, OnlySaves
  <1>8. CarriedIsSerial'
    <2>1. T = cached + (IF cmd.gen = 0 THEN 0 ELSE 1)
      BY DEF SInv, CarriedIsSerial
    <2>2. CarriesNext(Fed)
      BY <1>1, <1>2, <2>1, Counters DEF CarriesNext, OnlySaves, SInv, CarriedIsSerial, Buffers, Depths
    <2>3. world' = world /\ cmd' = cmd
      BY DEF OnlySaves
    <2>4. QED
      BY <2>2, <2>3, CarriedNext
  <1>9. SerialOutput'
    <2>1. \A x : Greedy(x)' = Greedy(x)
      BY DEF Greedy, LastIds, OnlySaves
    <2>2. (\A i \in T - nout + 1 .. T : seq[i] = Greedy(SubSeq(seq, 1, i - 1)))'
      BY <1>2, <2>1 DEF SInv, SerialOutput, OnlySaves
    <2>3. QED
      BY <1>1, <1>2, <2>2 DEF SInv, SerialOutput, Saving, OnlySaves
  <1>10. Tentative' /\ Draft'
    BY <1>1 DEF SInv, Tentative, Draft, Drafting, OnlySaves
  <1>11. Saved'
    <2>1. RowsAfter(Fed, cached)' = RowsAfter(Fed, cached)
      BY <1>2 DEF RowsAfter, Reaching, OnlySaves
    <2>2. Over(Blank(T), 0, DepthsOf(Fed))' = Over(Blank(T), 0, DepthsOf(Fed))
      BY <1>2, Fixed DEF Over, Blank, OnlySaves
    <2>3. QED
      BY <1>2, <2>1, <2>2 DEF SInv, Saved, OnlySaves
  <1>12. DecodeState'
    BY <1>1, <1>3, <1>5, <1>6, <1>7, <1>8, <1>9, <1>10, <1>11 DEF DecodeState
  <1>13. QED
    BY <1>12, DecodeKeepsNext

LEMMA OpenStateSInv ==
  ASSUME SInv, OpenState
  PROVE  SInv'
  <1>1. /\ pc = "opened" /\ pc' = "saving" /\ OnlySaves
        /\ disk' = [disk EXCEPT !["state"] = Memory(T, 0)]
    BY DEF OpenState, OnlySaves, fixed, decoded, carried, tentative, drafts
  <1>2. 0 \in 0 .. Whole - 1
    BY DEF Whole
  <1>3. QED
    BY <1>1, <1>2, SavesKeep

(* The whole saved state is the one serial decode writes.                  *)
LEMMA WholeStateIsSerial ==
  ASSUME SInv, pc = "saving"
  PROVE  Memory(T, Whole) = FileAfter(seq, cached, world.layout)
  <1>1. Fed = SubSeq(seq, 1, cached)
    BY DEF Fed
  <1>2. SubSeq(seq, 1, T) = seq
    BY Counters, CutAll DEF T
  <1>3. ks = StateAfter(Fed) /\ pcached = CountsAfter(Fed)
    BY DEF SInv, CarriedIsSerial
  <1>4. /\ \A p \in Passes : SubSeq(rows[p], 1, cached) = RowsAfter(Fed, cached)[p]
        /\ SubSeq(passes, 1, T) = Over(Blank(T), 0, DepthsOf(Fed))
    BY DEF SInv, Saved
  <1> HIDE DEF Fed
  <1>5. [p \in Passes |-> SubSeq(rows[p], 1, cached)] = RowsAfter(Fed, cached)
    BY <1>4 DEF RowsAfter
  <1>6. Memory(T, Whole) =
          [parts |-> Whole, ids |-> seq, cached |-> cached, layout |-> world.layout,
           ks |-> ks, rows |-> RowsAfter(Fed, cached),
           passes |-> Over(Blank(T), 0, DepthsOf(Fed)), pcached |-> pcached]
    BY <1>2, <1>4, <1>5 DEF Memory
  <1>7. FileAfter(seq, cached, world.layout) =
          [parts |-> Whole, ids |-> seq, cached |-> cached, layout |-> world.layout,
           ks |-> StateAfter(Fed), rows |-> RowsAfter(Fed, cached),
           passes |-> Over(Blank(Len(seq)), 0, DepthsOf(Fed)), pcached |-> CountsAfter(Fed)]
    BY <1>1 DEF FileAfter
  <1>8. QED
    BY <1>3, <1>6, <1>7 DEF T

LEMMA WriteStateSInv ==
  ASSUME SInv, WriteState
  PROVE  SInv'
  <1>1. pc = "saving" /\ pc \in Running /\ pc \in Saving
    BY DEF WriteState, Running, Decoding, Saving
  <1>2. PICK k \in 1 .. Whole : k = disk.state.parts + 1
    BY <1>1 DEF SInv, Files, Whole
  <1>3. disk' = [disk EXCEPT !["state"] = Memory(T, k)]
    BY <1>2 DEF WriteState
  <1>4. CASE k # Whole
    <2>1. OnlySaves /\ pc' = "saving"
      BY <1>1, <1>2, <1>4 DEF WriteState, OnlySaves, fixed, decoded, carried, tentative, drafts
    <2>2. k \in 0 .. Whole - 1
      BY <1>4 DEF Whole
    <2>3. QED
      BY <1>1, <1>3, <2>1, <2>2, SavesKeep
  <1>5. CASE k = Whole
    <2>1. EndRun /\ world' = world /\ cmd' = cmd /\ faults' = faults
      BY <1>2, <1>5 DEF WriteState, fixed
    <2>2. turn \in 1 .. 2 /\ faults \in 0 .. MaxFaults
      BY <1>1, RunningTurn DEF SInv, SessionTypeOK
    <2>3. EmptyMemory'
      BY <2>1, NoMemoryIsEmpty DEF EndRun
    <2>4. pc' \in {"idle", "over"} /\ turn' \in 1 .. 3 /\ (pc' = "idle" => turn' \in 1 .. 2)
      BY <2>1, <2>2 DEF EndRun
    <2>5. PICK m : m = FileAfter(seq, cached, world.layout)
      OBVIOUS
    <2>6. /\ disk'.ckpt = disk.ckpt /\ disk'.tmp = disk.tmp /\ disk'.state = m
          /\ disk' = [ckpt |-> disk'.ckpt, tmp |-> disk'.tmp, state |-> disk'.state]
      <3>1. Memory(T, Whole) = m
        BY <1>1, <2>5, WholeStateIsSerial
      <3>2. disk' = [disk EXCEPT !["state"] = m]
        BY <1>3, <1>5, <3>1
      <3>3. QED
        BY <3>2 DEF SInv, Records
    <2>7. /\ m.ids = seq /\ m.cached = cached /\ m.layout = world.layout /\ m.parts = Whole
      BY <2>5 DEF FileAfter
    <2>8. /\ seq \in Seq(Id) /\ cached \in Nat /\ T = Len(seq) /\ T \in cached .. cached + 1
          /\ seq # <<>>
      <3>1. T > nout /\ nout \in 0 .. cmd.gen /\ cmd.gen \in Nat /\ T \in Nat /\ cached \in 0 .. T
            /\ seq \in Seq(Id)
        BY <1>1, Counters, Model DEF SInv, Buffers
      <3>2. T = cached \/ T = cached + 1
        BY <1>1, <3>1 DEF SInv, CarriedIsSerial, T
      <3>3. Len(seq) # 0
        BY <3>1 DEF T
      <3>4. QED
        BY <3>1, <3>2, <3>3 DEF T
    <2>9. FileAfter(disk.state.ids, disk.state.cached, world.layout)' = m
      BY <2>1, <2>5, <2>6, <2>7, FixedFiles
    <2>10. SavedIsSerial'
      <3>1. Loads(m, world.layout, Len(m.ids))
        BY <2>7, <2>8 DEF Loads
      <3>2. QED
        BY <2>1, <2>6, <2>9, <3>1 DEF SavedIsSerial, Loads
    <2>11. Files'
      BY <2>1, <2>4, <2>6, <2>7, <2>8, SameCheckpoint DEF Files
    <2>12. Constants' /\ Parts' /\ Records'
      <3>1. Constants'
        BY <2>1 DEF SInv, Constants
      <3>2. Parts'
        BY <2>6, <2>7 DEF SInv, SessionTypeOK, Parts, Whole
      <3>3. Records'
        BY <2>3, <2>6 DEF Records, EmptyMemory
      <3>4. QED
        BY <3>1, <3>2, <3>3
    <2>13. QED
      BY <2>1, <2>2, <2>3, <2>4, <2>10, <2>11, <2>12, EmptiedNext DEF EmptyState
  <1>6. QED
    BY <1>4, <1>5

-----------------------------------------------------------------------------
(***************************************************************************)
(* Every step, and what follows.                                           *)
(***************************************************************************)
LEMMA StutterSInv ==
  ASSUME SInv, UNCHANGED vars
  PROVE  SInv'
  <1>1. /\ world' = world /\ cmd' = cmd /\ disk' = disk /\ pc' = pc /\ turn' = turn
        /\ faults' = faults /\ seq' = seq /\ nout' = nout /\ cached' = cached /\ Tmax' = Tmax
        /\ ks' = ks /\ rows' = rows /\ passes' = passes /\ pcached' = pcached
        /\ log' = log /\ sweep_pcached' = sweep_pcached /\ d' = d /\ dw' = dw /\ dlog' = dlog
        /\ written' = written /\ sigint' = sigint
    BY DEF vars, fixed, decoded, carried, tentative, drafts
  <1>2. /\ T' = T /\ Fed' = Fed /\ Batch' = Batch
        /\ \A p, x : Reaching(p, x)' = Reaching(p, x)
        /\ \A x : Greedy(x)' = Greedy(x) /\ DepthsOf(x)' = DepthsOf(x)
    BY <1>1 DEF T, Fed, Batch, Reaching, Greedy, LastIds, DepthsOf
  <1>3. /\ \A x : StateAfter(x)' = StateAfter(x) /\ CountsAfter(x)' = CountsAfter(x)
        /\ \A x, n : RowsAfter(x, n)' = RowsAfter(x, n)
    BY <1>2 DEF StateAfter, CountsAfter, RowsAfter
  <1>4. Constants' /\ Records' /\ SessionTypeOK' /\ Idle'
    BY <1>1, <1>2, <1>3 DEF SInv, Constants, Records, SessionTypeOK, Idle
  <1>5. Buffers'
    BY <1>1, <1>2 DEF SInv, Buffers
  <1>6. CarriedIsSerial'
    BY <1>1, <1>2, <1>3 DEF SInv, CarriedIsSerial
  <1>7. SerialOutput'
    BY <1>1, <1>2 DEF SInv, SerialOutput
  <1>8. ReadIn'
    BY <1>1, <1>2, <1>3 DEF SInv, ReadIn, Checkpointing
  <1>9. Tentative'
    BY <1>1, <1>2 DEF SInv, Tentative
  <1>10. Draft'
    BY <1>1 DEF SInv, Draft, Lag, MayDraft, T
  <1>11. Saved'
    BY <1>1, <1>2, <1>3 DEF SInv, Saved
  <1>12. SavedIsSerial' /\ Files'
    <2>1. \A n, k : Memory(n, k)' = Memory(n, k)
      BY <1>1, <1>3 DEF Memory
    <2>2. world' = world /\ disk'.ckpt = disk.ckpt /\ disk'.state = disk.state
      BY <1>1
    <2>3. SavedIsSerial'
      BY <2>2, SameState
    <2>4. Files'
      BY <1>1, <1>2, <2>1, <2>2, SameCheckpoint, SameState DEF SInv, Files
    <2>5. QED
      BY <2>3, <2>4
  <1>13. QED
    BY <1>4, <1>5, <1>6, <1>7, <1>8, <1>9, <1>10, <1>11, <1>12 DEF SInv

LEMMA NextSInv ==
  ASSUME SInv, [Next]_vars
  PROVE  SInv'
  <1>1. CASE StartFresh
    BY <1>1, StartFreshSInv
  <1>2. CASE StartLoaded
    BY <1>2, StartLoadedSInv
  <1>3. CASE StartRefused \/ Over_ \/ UNCHANGED vars
    BY <1>3, StutterSInv DEF StartRefused, Over_
  <1>4. CASE Crash
    BY <1>4, CrashSInv
  <1>5. CASE Interrupt
    BY <1>5, InterruptSInv
  <1>6. CASE SaveFails
    BY <1>6, SaveFailsSInv
  <1>7. CASE ReadChunk
    BY <1>7, ReadChunkSInv
  <1>8. CASE OpenTmp
    BY <1>8, OpenTmpSInv
  <1>9. CASE WriteTmp
    BY <1>9, WriteTmpSInv
  <1>10. CASE Rename
    BY <1>10, RenameSInv
  <1>11. CASE First
    BY <1>11, FirstSInv
  <1>12. CASE SerialStep
    BY <1>12, SerialStepSInv
  <1>13. CASE NgramStep
    BY <1>13, NgramStepSInv
  <1>14. CASE FirstDraft
    BY <1>14, FirstDraftSInv
  <1>15. CASE NextDraft
    BY <1>15, NextDraftSInv
  <1>16. CASE Sweep
    BY <1>16, SweepSInv
  <1>17. CASE Commit
    BY <1>17, CommitSInv
  <1>18. CASE BeginSave
    BY <1>18, BeginSaveSInv
  <1>19. CASE OpenState
    BY <1>19, OpenStateSInv
  <1>20. CASE WriteState
    BY <1>20, WriteStateSInv
  <1>21. QED
    BY <1>1, <1>2, <1>3, <1>4, <1>5, <1>6, <1>7, <1>8, <1>9, <1>10, <1>11, <1>12, <1>13,
       <1>14, <1>15, <1>16, <1>17, <1>18, <1>19, <1>20 DEF Next, Start, RunStep

(* The inductive invariant of the runs holds whatever the prompts, the     *)
(* model, the commands, the files found, the crashes and the interrupts.   *)
THEOREM SessionInvariant == Spec => []SInv
  <1>1. Init => SInv
    BY InitSInv
  <1>2. SInv /\ [Next]_vars => SInv'
    BY NextSInv
  <1>3. QED
    BY <1>1, <1>2, PTL DEF Spec

(* The variables have their types.                                         *)
THEOREM SessionTypes == Spec => []SessionTypeOK
  <1>1. SInv => SessionTypeOK
    BY DEF SInv
  <1>2. QED
    BY <1>1, SessionInvariant, PTL

(* However a prompt was chunked, interrupted and resumed, and whatever the *)
(* sweeps tried and rejected, the layers carry what serial decode carries. *)
THEOREM SessionCarriesSerial == Spec => []CarriedIsSerial
  <1>1. SInv => CarriedIsSerial
    BY DEF SInv
  <1>2. QED
    BY <1>1, SessionInvariant, PTL

(* The ids emitted, with or without speculation and after any resume, are  *)
(* those of greedy decode one id at a time, and stop where that stops.     *)
THEOREM SessionEmitsSerial == Spec => []SerialOutput
  <1>1. SInv => SerialOutput
    BY DEF SInv
  <1>2. QED
    BY <1>1, SessionInvariant, PTL

(* A whole saved state is the one serial decode writes, and can be loaded. *)
THEOREM SessionSavesSerial == Spec => []SavedIsSerial
  <1>1. SInv => SavedIsSerial
    BY DEF SInv
  <1>2. QED
    BY <1>1, SessionInvariant, PTL

LEMMA Trails == SInv => DraftTrails
  <1> SUFFICES ASSUME SInv, cmd.hybrid
               PROVE  /\ pc = "step" /\ MayDraft => Lag \in {0, 1}
                      /\ pc \in {"draft", "sweep", "commit"} =>
                           /\ Lag + cmd.spec_n <= cmd.spec_n + 1
                           /\ dw.ks.fed \o SubSeq(dlog, 1, dw.row) =
                                SubSeq(seq, 1, cached + 1) \o SubSeq(d, 1, Len(d) - 1)
                      /\ pc \in {"step", "draft", "sweep", "commit", "save"} =>
                           dw.ks = Feed(ZeroState, SubSeq(seq, 1, dw.cached))
    BY DEF DraftTrails
  <1>1. /\ pc = "step" /\ MayDraft => Lag \in {0, 1}
        /\ pc \in {"step", "draft", "sweep", "commit", "save"} =>
             dw.ks = Feed(ZeroState, SubSeq(seq, 1, dw.cached))
    BY DEF SInv, Draft, Drafting
  <1>2. ASSUME pc \in {"draft", "sweep", "commit"}
        PROVE  /\ Lag + cmd.spec_n <= cmd.spec_n + 1
               /\ dw.ks.fed \o SubSeq(dlog, 1, dw.row) =
                    SubSeq(seq, 1, cached + 1) \o SubSeq(d, 1, Len(d) - 1)
    <2>1. Lag \in {0, 1} /\ cmd.spec_n \in Nat
      BY <1>2, Model DEF SInv, Draft, Drafting
    <2>2. Lag + cmd.spec_n <= cmd.spec_n + 1
      BY <2>1
    <2>3. PICK u : u = SubSeq(seq, 1, dw.cached)
      OBVIOUS
    <2>4. PICK c : c = CatchUp
      OBVIOUS
    <2>5. PICK x : x = SubSeq(d, 1, Len(d) - 1)
      OBVIOUS
    <2>6. c \in Seq(Id) /\ u \in Seq(Id) /\ u \o c = seq /\ dw.ks = Feed(ZeroState, u)
      BY <1>2, <2>3, <2>4, CatchesUp
    <2>7. SubSeq(dlog, 1, dw.row) = c \o x
      BY <1>2, <2>4, <2>5 DEF SInv, Draft, Drafting, CatchUp
    <2>8. x \in Seq(Id)
      <3>1. d \in Seq(Id) /\ Len(d) \in 1 .. cmd.spec_n
        BY <1>2, Counters DEF SInv, Tentative, Drafting
      <3>2. Len(d) - 1 \in 0 .. Len(d)
        BY <3>1
      <3>3. QED
        BY <2>5, <3>1, <3>2, CutFirst
    <2>9. dw.ks.fed = u
      <3>1. Feed(ZeroState, u).fed = <<>> \o u
        <4>1. PICK z : z = ZeroState
          OBVIOUS
        <4>2. z.fed = <<>> /\ Feed(z, u).fed = z.fed \o u
          BY <4>1, ZeroIsState DEF Feed
        <4>3. QED
          BY <4>1, <4>2
      <3>2. <<>> \o u = u
        BY <2>6, ConcatEmptySeq
      <3>3. QED
        BY <2>6, <3>1, <3>2
    <2>10. u \o (c \o x) = seq \o x
      <3>1. u \in Seq(Id) /\ c \in Seq(Id) /\ x \in Seq(Id)
        BY <2>6, <2>8
      <3>2. (u \o c) \o x = u \o (c \o x)
        BY <3>1, ConcatAssociative
      <3>3. QED
        BY <2>6, <3>2
    <2>11. SubSeq(seq, 1, cached + 1) = seq
      <3>1. cached + 1 = Len(seq) /\ seq \in Seq(Id)
        BY <1>2, Pending, Counters
      <3>2. QED
        BY <3>1, CutAll
    <2>12. QED
      BY <2>2, <2>5, <2>7, <2>9, <2>10, <2>11
  <1>3. QED
    BY <1>1, <1>2

(* The draft model never trails by more than one id when it drafts, and    *)
(* proposes from the whole context.                                        *)
THEOREM SessionDraftTrails == Spec => []DraftTrails
  BY Trails, SessionInvariant, PTL

(* The checkpoint changes only to a whole read-in of a longer part of the  *)
(* prompt, wherever a run is interrupted.                                  *)
THEOREM SessionCheckpoints == Spec => CheckpointAdvances
  <1> DEFINE Advances == disk'.ckpt # disk.ckpt =>
               \E n \in 1 .. Len(Prompt) - 1 :
                 /\ disk'.ckpt = FileAfter(SubSeq(Prompt, 1, n), n, world.layout)
                 /\ disk.ckpt # NoFile => disk.ckpt.cached < n
  <1>1. ASSUME SInv, [Next]_vars
        PROVE  Advances \/ UNCHANGED vars
    <2>1. CASE disk' = disk
      BY <2>1
    <2>2. CASE OpenTmp \/ WriteTmp \/ OpenState \/ WriteState
      <3>1. PICK f : \/ disk' = [disk EXCEPT !["tmp"] = f]
                     \/ disk' = [disk EXCEPT !["state"] = f]
        BY <2>2 DEF OpenTmp, WriteTmp, OpenState, WriteState, CkptTarget
      <3>2. disk = [ckpt |-> disk.ckpt, tmp |-> disk.tmp, state |-> disk.state]
        BY <1>1 DEF SInv, Records
      <3>3. disk'.ckpt = disk.ckpt
        BY <3>1, <3>2
      <3>4. QED
        BY <3>3
    <2>3. CASE Rename
      <3>1. pc = "rename" /\ pc \in Reading
        BY <2>3 DEF Rename, Reading
      <3>2. disk.tmp = FileAfter(Fed, cached, world.layout)
        BY <1>1, <3>1, CheckpointIsSerial DEF SInv, Files
      <3>3. disk'.ckpt = disk.tmp
        BY <1>1, <2>3 DEF Rename, CkptTarget, SInv, Records
      <3>4. /\ Checkpointing /\ cached > 0 /\ cached < T /\ seq = Prompt
            /\ disk.ckpt # NoFile => disk.ckpt.cached < cached
        BY <1>1, <3>1 DEF SInv, ReadIn, Checkpointing
      <3>5. PICK n : n = cached
        OBVIOUS
      <3>6. n \in 1 .. Len(Prompt) - 1
        <4>1. cached \in 0 .. T /\ T \in Nat /\ T = Len(Prompt)
          BY <1>1, <3>4, Counters DEF T
        <4>2. QED
          BY <3>4, <3>5, <4>1
      <3>7. disk'.ckpt = FileAfter(SubSeq(Prompt, 1, n), n, world.layout)
        BY <3>2, <3>3, <3>4, <3>5 DEF Fed
      <3>8. QED
        BY <3>4, <3>5, <3>6, <3>7
    <2>4. QED
      BY <1>1, <2>1, <2>2, <2>3
         DEF Next, Start, RunStep, StartFresh, StartLoaded, StartRefused, Crash, Interrupt,
             SaveFails, Over_, ReadChunk, First, SerialStep, NgramStep, FirstDraft, NextDraft,
             DraftCall, Sweep, Commit, BeginSave, vars
  <1>2. SInv /\ [Next]_vars => [Advances]_vars
    BY <1>1
  <1> HIDE DEF Advances
  <1>3. Spec => [][Advances]_vars
    BY <1>2, SessionInvariant, PTL DEF Spec
  <1>4. QED
    BY <1>3 DEF Advances, CheckpointAdvances
=============================================================================
