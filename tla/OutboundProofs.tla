--------------------------- MODULE OutboundProofs ---------------------------
(***************************************************************************)
(* Proofs about OutboundTarget, for any URLs and resolver answers.         *)
(*                                                                         *)
(* The paths come first: what the loop of _remove_dot_segments collects    *)
(* are segments, what they are joined to has no dot segment, the loop ends *)
(* the same way each time it is given a path, and leaves a path without    *)
(* dot segments as it is.  The inductive invariant then says that decision *)
(* and binding repeat their cascades (OutIInv) and that target and path    *)
(* are what the loop makes of the URL and the endpoint (PathInv).          *)
(***************************************************************************)
EXTENDS OutboundTarget, SequenceTheorems, WellFoundedInduction, TLAPS

---------------------------------------------------------------------------
(* Joining the segments.                                                   *)

\* Induction, over a set of numbers.
LEMMA SetInduction ==
    ASSUME NEW G, 0 \in G, \A n \in Nat : n \in G => n + 1 \in G
    PROVE  Nat \subseteq G
<1> SUFFICES ASSUME Nat \ G # {} PROVE FALSE
  OBVIOUS
<1> DEFINE B == Nat \ G
<1>1. B \subseteq Nat /\ B # {}
  OBVIOUS
<1>2. PICK x \in B : \A y \in B : ~(<<y, x>> \in OpToRel(<, Nat))
  <2> HIDE DEF B
  <2>1. QED
    BY <1>1, NatLessThanWellFounded, WFMin
<1>3. \A y \in B : ~(y < x)
  BY <1>1, <1>2 DEF OpToRel
<1>4. x \in Nat /\ x \notin G /\ x # 0
  OBVIOUS
<1>5. x - 1 \in Nat /\ x - 1 < x /\ (x - 1) + 1 = x
  BY <1>4
<1>6. x - 1 \in G
  BY <1>3, <1>5
<1>7. QED
  BY <1>4, <1>5, <1>6

\* A function that joins the first n members.
IsFlat(f, seqs, n) == f = [i \in 1..n |-> IF i = 1 THEN seqs[i] ELSE f[i - 1] \o seqs[i]]

\* The function FlattenSeq evaluates.
Flat(seqs) == CHOOSE f : IsFlat(f, seqs, Len(seqs))

\* The sequences FlattenSeq joins, by way of that function.
LEMMA FlattenIsFlat ==
  ASSUME NEW S, NEW seqs \in Seq(S), seqs # <<>>
  PROVE FlattenSeq(seqs) = Flat(seqs)[Len(seqs)]
<1>1. Len(seqs) # 0
  OBVIOUS
<1>2. QED
  BY <1>1, Zenon DEF FlattenSeq, Flat, IsFlat

\* That function exists, for any number of members.
LEMMA FlatExists ==
    ASSUME NEW seqs PROVE \A n \in Nat : \E f : IsFlat(f, seqs, n)
<1> DEFINE G == {n \in Nat : \E f : IsFlat(f, seqs, n)}
<1>1. 0 \in G
  <2>1. IsFlat([i \in 1..0 |-> 0], seqs, 0)
    BY DEF IsFlat
  <2>2. QED
    BY <2>1
<1>2. ASSUME NEW n \in Nat, n \in G PROVE n + 1 \in G
  <2>1. PICK f : IsFlat(f, seqs, n)
    BY <1>2
  <2> DEFINE h == [i \in 1..(n + 1) |-> IF i = 1 THEN seqs[i] ELSE f[i - 1] \o seqs[i]]
  <2>2. ASSUME NEW i \in 1..n PROVE h[i] = f[i]
    <3>1. f[i] = IF i = 1 THEN seqs[i] ELSE f[i - 1] \o seqs[i]
      BY <2>1 DEF IsFlat
    <3>2. i \in 1..(n + 1)
      OBVIOUS
    <3>3. QED
      BY <3>1, <3>2
  <2>3. ASSUME NEW i \in 1..(n + 1), i # 1 PROVE h[i - 1] = f[i - 1]
    <3>1. i - 1 \in 1..n
      BY <2>3
    <3>2. QED
      BY <2>2, <3>1
  <2>4. h = [i \in 1..(n + 1) |-> IF i = 1 THEN seqs[i] ELSE h[i - 1] \o seqs[i]]
    <3>1. ASSUME NEW i \in 1..(n + 1)
          PROVE h[i] = IF i = 1 THEN seqs[i] ELSE h[i - 1] \o seqs[i]
      BY <2>3
    <3>3. h = [i \in 1..(n + 1) |-> h[i]]
      OBVIOUS
    <3> HIDE DEF h
    <3>4. QED
      BY <3>1, <3>3
  <2>5. IsFlat(h, seqs, n + 1)
    <3> HIDE DEF h
    <3>1. QED
      BY <2>4 DEF IsFlat
  <2>6. QED
    BY <2>5
<1>3. QED
  <2> HIDE DEF G
  <2>1. Nat \subseteq G
    BY <1>1, <1>2, SetInduction
  <2>2. QED
    BY <2>1 DEF G

\* Its values only depend on the members so far.
LEMMA FlatIsUnique ==
    ASSUME NEW s, NEW t, NEW f, NEW g, NEW n \in Nat, IsFlat(f, s, n + 1), IsFlat(g, t, n),
           \A i \in 1..n : s[i] = t[i]
    PROVE  \A i \in 1..n : f[i] = g[i]
<1> DEFINE G == {i \in Nat : i \in 1..n => f[i] = g[i]}
<1>1. 0 \in G
  OBVIOUS
<1>2. ASSUME NEW i \in Nat, i \in G PROVE i + 1 \in G
  <2>1. SUFFICES ASSUME i + 1 \in 1..n PROVE f[i + 1] = g[i + 1]
    OBVIOUS
  <2>2. /\ f[i + 1] = IF i + 1 = 1 THEN s[i + 1] ELSE f[(i + 1) - 1] \o s[i + 1]
        /\ g[i + 1] = IF i + 1 = 1 THEN t[i + 1] ELSE g[(i + 1) - 1] \o t[i + 1]
    <3>1. i + 1 \in 1..n /\ i + 1 \in 1..(n + 1)
      BY <2>1
    <3>2. QED
      BY <3>1 DEF IsFlat
  <2>3. (i + 1) - 1 = i /\ s[i + 1] = t[i + 1]
    BY <2>1
  <2>4. i + 1 # 1 => f[i] = g[i]
    BY <1>2, <2>1
  <2>5. QED
    BY <2>2, <2>3, <2>4
<1>3. QED
  <2> HIDE DEF G
  <2>1. Nat \subseteq G
    BY <1>1, <1>2, SetInduction
  <2>2. QED
    BY <2>1 DEF G

\* The one chosen is such a function.
LEMMA FlatFound ==
    ASSUME NEW S, NEW seqs \in Seq(S) PROVE IsFlat(Flat(seqs), seqs, Len(seqs))
<1>1. \E f : IsFlat(f, seqs, Len(seqs))
  BY FlatExists
<1>2. QED
  BY <1>1 DEF Flat

\* A segment put at the end of output comes last in "".join(output).
LEMMA FlattenAppend ==
    ASSUME NEW S, NEW seqs \in Seq(Seq(S)), NEW s \in Seq(S)
    PROVE  FlattenSeq(Append(seqs, s)) = FlattenSeq(seqs) \o s
<1> DEFINE app == Append(seqs, s)
           n == Len(seqs)
<1>1. /\ n \in Nat /\ Len(app) = n + 1 /\ app \in Seq(Seq(S)) /\ app # <<>>
      /\ app[n + 1] = s /\ \A i \in 1..n : app[i] = seqs[i]
  BY AppendProperties
<1>2. IsFlat(Flat(app), app, n + 1) /\ IsFlat(Flat(seqs), seqs, n)
  BY <1>1, FlatFound
<1>3. FlattenSeq(app) = Flat(app)[n + 1]
  BY <1>1, FlattenIsFlat
<1>4. CASE seqs = <<>>
  <2>1. n = 0 /\ FlattenSeq(seqs) = <<>>
    BY <1>4 DEF FlattenSeq
  <2>2. Flat(app)[1] = app[1]
    BY <1>2, <2>1 DEF IsFlat
  <2>3. <<>> \o s = s
    OBVIOUS
  <2>4. QED
    BY <1>1, <1>3, <2>1, <2>2, <2>3
<1>5. CASE seqs # <<>>
  <2>1. n \in 1..n /\ n + 1 \in 1..(n + 1) /\ n + 1 # 1
    BY <1>5
  <2> HIDE DEF app, n
  <2>2. Flat(app)[n + 1] = Flat(app)[(n + 1) - 1] \o app[n + 1]
    BY <1>2, <2>1 DEF IsFlat
  <2>3. (n + 1) - 1 = n
    BY <1>1
  <2>4. Flat(app)[n] = Flat(seqs)[n]
    <3>1. n \in Nat
      BY <1>1
    <3>2. \A i \in 1..n : app[i] = seqs[i]
      BY <1>1
    <3>3. \A i \in 1..n : Flat(app)[i] = Flat(seqs)[i]
      <4> DEFINE f == Flat(app)
                 g == Flat(seqs)
      <4>1. IsFlat(f, app, n + 1) /\ IsFlat(g, seqs, n)
        BY <1>2
      <4> HIDE DEF f, g
      <4>2. \A i \in 1..n : f[i] = g[i]
        BY <3>1, <3>2, <4>1, FlatIsUnique
      <4>3. QED
        BY <4>2 DEF f, g
    <3>4. QED
      BY <2>1, <3>3
  <2>5. FlattenSeq(seqs) = Flat(seqs)[n]
    BY <1>5, FlattenIsFlat DEF n
  <2>6. FlattenSeq(app) = FlattenSeq(seqs) \o s
    BY <1>1, <1>3, <2>2, <2>3, <2>4, <2>5
  <2>7. QED
    BY <2>6 DEF app
<1>6. QED
  BY <1>4, <1>5

\* Nothing collected joins to nothing.
LEMMA FlattenEmpty == FlattenSeq(<<>>) = <<>>
BY DEF FlattenSeq

---------------------------------------------------------------------------
(* Dot segments.                                                           *)

\* What _canonicalize_percent_encoding leaves of the tokens.
CleanTokens == Tokens \ {"%", "%2f", "%2e", "%c3"}
Strings == Seq(CleanTokens)

\* The dot segments of a path: "/." or "/.." at i, up to a slash or the end.
DotsAt(p, i) ==
    /\ i + 1 \in 1..Len(p) /\ p[i] = Slash /\ p[i + 1] = Dot
    /\ \/ i + 1 = Len(p)
       \/ p[i + 2] = Slash
       \/ p[i + 2] = Dot /\ (i + 2 = Len(p) \/ p[i + 3] = Slash)

\* A path without one, and a path that begins with a slash.
Undotted(p) == \A i \in 1..Len(p) : ~DotsAt(p, i)
Rooted(p) == p # <<>> => p[1] = Slash

\* What _remove_dot_segments collects: a slash and what follows up to the next.
Segments ==
    {s \in Strings : /\ s # <<>> /\ s[1] = Slash /\ ~DotsAt(s, 1)
                     /\ \A i \in 2..Len(s) : s[i] # Slash}

\* A set of numbers has a smallest one.
LEMMA SmallestExists ==
    ASSUME NEW T, T \subseteq Nat, T # {} PROVE \E m \in T : \A k \in T : m <= k
<1>1. PICK x \in T : \A y \in T : ~(<<y, x>> \in OpToRel(<, Nat))
  BY NatLessThanWellFounded, WFMin
<1>2. \A y \in T : ~(y < x)
  BY <1>1 DEF OpToRel
<1>3. QED
  BY <1>2

\* input_buffer up to its next slash, or all of it.
LEMMA FirstSegmentIs ==
    ASSUME NEW S, NEW b \in Seq(S), b # <<>>
    PROVE  \E n \in 1..Len(b) :
              /\ FirstSegment(b) = SubSeq(b, 1, n) /\ \A i \in 2..n : b[i] # Slash
              /\ n = Len(b) \/ b[n + 1] = Slash
<1> DEFINE next == {i \in 2..Len(b) : b[i] = Slash}
<1>0. Len(b) \in Nat /\ Len(b) >= 1
  OBVIOUS
<1>1. CASE next = {}
  <2>1. FirstSegment(b) = b
    BY <1>1 DEF FirstSegment
  <2>2. b = SubSeq(b, 1, Len(b))
    BY SubSeqFull
  <2>3. Len(b) \in 1..Len(b) /\ \A i \in 2..Len(b) : b[i] # Slash
    BY <1>0, <1>1
  <2>4. FirstSegment(b) = SubSeq(b, 1, Len(b))
    BY <2>1, <2>2
  <2>5. QED
    BY <2>3, <2>4
<1>2. CASE next # {}
  <2>1. \E i \in next : \A k \in next : i <= k
    <3>1. next \subseteq Nat
      OBVIOUS
    <3> HIDE DEF next
    <3>2. QED
      BY <1>2, <3>1, SmallestExists
  <2> DEFINE m == CHOOSE i \in next : \A k \in next : i <= k
  <2>2. m \in next /\ \A k \in next : m <= k
    <3> HIDE DEF next
    <3>1. QED
      BY <2>1
  <2>3. FirstSegment(b) = SubSeq(b, 1, m - 1)
    BY <1>2 DEF FirstSegment
  <2> HIDE DEF m
  <2>4. /\ m - 1 \in 1..Len(b) /\ b[(m - 1) + 1] = Slash
        /\ \A i \in 2..(m - 1) : b[i] # Slash
    BY <1>0, <2>2
  <2>5. QED
    BY <2>3, <2>4
<1>3. QED
  BY <1>1, <1>2

\* Undotted is what NoDotSegment says.
LEMMA UndottedPath ==
    ASSUME NEW S, NEW p \in Seq(S), Undotted(p) PROVE NoDotSegment(p)
<1> SUFFICES ASSUME NEW i \in 1..Len(p), p[i] = Slash
             PROVE  FirstSegment(After(p, i - 1)) \notin {<<Slash, Dot>>, <<Slash, Dot, Dot>>}
  BY DEF NoDotSegment
<1> DEFINE b == After(p, i - 1)
<1>1. /\ Len(p) \in Nat /\ b \in Seq(S) /\ Len(b) = Len(p) - (i - 1) /\ b # <<>>
      /\ \A k \in 1..Len(b) : b[k] = p[i - 1 + k]
  <2>1. i - 1 \in Int /\ i \in Int /\ (i - 1) + 1 = i /\ Len(p) \in Nat
    OBVIOUS
  <2>2. b = SubSeq(p, i, Len(p))
    BY <2>1 DEF After
  <2>3. \A k \in i..Len(p) : p[k] \in S
    OBVIOUS
  <2> HIDE DEF b
  <2>4. /\ SubSeq(p, i, Len(p)) \in Seq(S)
        /\ Len(SubSeq(p, i, Len(p))) = IF i <= Len(p) THEN Len(p) - i + 1 ELSE 0
        /\ \A k \in 1..(Len(p) - i + 1) : SubSeq(p, i, Len(p))[k] = p[i + k - 1]
    BY <2>1, <2>3, SubSeqProperties
  <2>5. b \in Seq(S) /\ Len(b) = Len(p) - (i - 1) /\ Len(b) >= 1
    BY <2>1, <2>2, <2>4
  <2>6. ASSUME NEW k \in 1..Len(b) PROVE b[k] = p[i - 1 + k]
    <3>1. k \in 1..(Len(p) - i + 1) /\ i - 1 + k = i + k - 1
      BY <2>1, <2>5
    <3>2. QED
      BY <2>2, <2>4, <3>1
  <2>7. QED
    BY <2>1, <2>5, <2>6
<1>2. PICK n \in 1..Len(b) :
         /\ FirstSegment(b) = SubSeq(b, 1, n) /\ \A k \in 2..n : b[k] # Slash
         /\ n = Len(b) \/ b[n + 1] = Slash
  <2> HIDE DEF b
  <2>1. QED
    BY <1>1, FirstSegmentIs
<1> HIDE DEF b
<1>3. /\ Len(SubSeq(b, 1, n)) = n /\ \A k \in 1..n : SubSeq(b, 1, n)[k] = b[k]
  BY <1>1
<1>4. ASSUME FirstSegment(b) = <<Slash, Dot>> PROVE FALSE
  <2>1. n = 2 /\ b[2] = Dot
    <3>1. Len(<<Slash, Dot>>) = 2 /\ <<Slash, Dot>>[2] = Dot
      OBVIOUS
    <3>2. n = 2
      BY <1>2, <1>3, <1>4, <3>1
    <3>3. QED
      BY <1>2, <1>3, <1>4, <3>1, <3>2
  <2>2. i + 1 \in 1..Len(p) /\ p[i + 1] = Dot
    BY <1>1, <2>1
  <2>3. i + 1 = Len(p) \/ p[i + 2] = Slash
    BY <1>1, <1>2, <2>1
  <2>4. QED
    BY <2>2, <2>3 DEF Undotted, DotsAt
<1>5. ASSUME FirstSegment(b) = <<Slash, Dot, Dot>> PROVE FALSE
  <2>1. n = 3 /\ b[2] = Dot /\ b[3] = Dot
    <3>1. /\ Len(<<Slash, Dot, Dot>>) = 3
          /\ <<Slash, Dot, Dot>>[2] = Dot /\ <<Slash, Dot, Dot>>[3] = Dot
      OBVIOUS
    <3>2. n = 3
      BY <1>2, <1>3, <1>5, <3>1
    <3>3. QED
      BY <1>2, <1>3, <1>5, <3>1, <3>2
  <2>2. i + 1 \in 1..Len(p) /\ p[i + 1] = Dot /\ p[i + 2] = Dot
    BY <1>1, <2>1
  <2>3. i + 2 = Len(p) \/ p[i + 3] = Slash
    BY <1>1, <1>2, <2>1, SMTT(20)
  <2>4. QED
    BY <2>2, <2>3 DEF Undotted, DotsAt
<1>6. QED
  BY <1>4, <1>5 DEF b

\* What is put behind an undotted path begins with a slash of its own.
LEMMA UndottedConcat ==
    ASSUME NEW p \in Strings, NEW s \in Segments, Undotted(p)
    PROVE  /\ p \o s \in Strings /\ p \o s # <<>> /\ Undotted(p \o s)
           /\ Rooted(p) => Rooted(p \o s)
<1> DEFINE q == p \o s
<1>1. /\ s \in Strings /\ Len(s) \in Nat /\ Len(s) >= 1 /\ Len(p) \in Nat /\ s[1] = Slash
      /\ ~DotsAt(s, 1) /\ \A i \in 2..Len(s) : s[i] # Slash
  BY DEF Segments, Strings
<1>2. /\ q \in Strings /\ Len(q) = Len(p) + Len(s)
      /\ \A i \in 1..Len(p) : q[i] = p[i]
      /\ \A i \in 1..Len(s) : q[Len(p) + i] = s[i]
  BY <1>1 DEF Strings
<1> HIDE DEF q
<1>3. ASSUME NEW i \in 1..Len(q), DotsAt(q, i) PROVE FALSE
  <2>1. Slash # Dot
    BY DEF Slash, Dot
  <2>2. CASE i > Len(p)
    <3>1. i = Len(p) + 1
      <4>1. i = Len(p) + (i - Len(p)) /\ i - Len(p) \in 1..Len(s)
        BY <1>1, <1>2, <2>2
      <4>2. q[i] = s[i - Len(p)]
        BY <1>2, <4>1
      <4>3. q[i] = Slash
        BY <1>3 DEF DotsAt
      <4>4. i - Len(p) \notin 2..Len(s)
        BY <1>1, <4>2, <4>3
      <4>5. QED
        BY <1>1, <4>1, <4>4
    <3>2. /\ 2 \in 1..Len(s) => q[i + 1] = s[2]
          /\ 3 \in 1..Len(s) => q[i + 2] = s[3]
          /\ 4 \in 1..Len(s) => q[i + 3] = s[4]
      BY <1>1, <1>2, <3>1
    <3>3. i + 1 \in 1..Len(q) /\ q[i + 1] = Dot
      BY <1>3 DEF DotsAt
    <3>4. 2 \in 1..Len(s) /\ s[2] = Dot
      BY <1>1, <1>2, <3>1, <3>2, <3>3
    <3>5. ~(1 + 1 = Len(s)) /\ s[3] # Slash /\ ~(s[3] = Dot /\ (3 = Len(s) \/ s[4] = Slash))
      BY <1>1, <3>4 DEF DotsAt
    <3>6. 3 \in 1..Len(s) /\ q[i + 2] = s[3]
      <4>1. PICK k \in Nat : k = Len(s)
        BY <1>1
      <4>2. 2 \in 1..k /\ k # 2
        BY <3>4, <3>5, <4>1
      <4>3. 3 \in 1..k
        BY <4>2
      <4>4. QED
        BY <3>2, <4>1, <4>3
    <3>7. ~(i + 1 = Len(q))
      BY <1>1, <1>2, <3>1, <3>6
    <3>8. q[i + 2] = Dot /\ (i + 2 = Len(q) \/ q[i + 3] = Slash)
      BY <1>3, <3>5, <3>6, <3>7 DEF DotsAt
    <3>9. 3 # Len(s)
      BY <3>5, <3>6, <3>8
    <3>10. 4 \in 1..Len(s) /\ q[i + 3] = s[4]
      <4>1. PICK k \in Nat : k = Len(s)
        BY <1>1
      <4>2. 3 \in 1..k /\ k # 3
        BY <3>6, <3>9, <4>1
      <4>3. 4 \in 1..k
        BY <4>2
      <4>4. QED
        BY <3>2, <4>1, <4>3
    <3>11. i + 2 # Len(q)
      BY <1>1, <1>2, <3>1, <3>10
    <3>12. QED
      BY <3>5, <3>6, <3>8, <3>10, <3>11
  <2>3. CASE i <= Len(p)
    <3>1. q[i] = p[i] /\ q[Len(p) + 1] = Slash
      BY <1>1, <1>2, <2>3
    <3>2. i # Len(p)
      BY <1>1, <1>2, <1>3, <2>1, <3>1 DEF DotsAt
    <3>3. i + 1 \in 1..Len(p) /\ q[i + 1] = p[i + 1]
      BY <1>1, <1>2, <2>3, <3>2
    <3>4. ~DotsAt(p, i)
      BY <2>3 DEF Undotted
    <3>5. i + 1 # Len(p) /\ p[i + 2] # Slash
      BY <1>3, <3>1, <3>3, <3>4 DEF DotsAt
    <3>6. i + 2 \in 1..Len(p) /\ q[i + 2] = p[i + 2]
      BY <1>1, <1>2, <3>3, <3>5
    <3>7. q[i + 2] = Dot
      BY <1>1, <1>2, <1>3, <3>3, <3>5, <3>6 DEF DotsAt
    <3>8. i + 2 # Len(p) /\ p[i + 3] # Slash
      BY <1>3, <3>1, <3>3, <3>4, <3>6, <3>7 DEF DotsAt
    <3>9. i + 3 \in 1..Len(p) /\ q[i + 3] = p[i + 3]
      BY <1>1, <1>2, <3>6, <3>8
    <3>10. QED
      BY <1>1, <1>2, <1>3, <2>1, <3>5, <3>6, <3>7, <3>8, <3>9 DEF DotsAt
  <2>4. QED
    BY <1>1, <1>2, <2>2, <2>3
<1>4. q # <<>> /\ (Rooted(p) => Rooted(q))
  <2>1. Len(q) >= 1
    BY <1>1, <1>2
  <2>2. CASE p = <<>>
    BY <1>1, <1>2, <2>1, <2>2 DEF Rooted
  <2>3. CASE p # <<>>
    <3>1. 1 \in 1..Len(p)
      BY <2>3 DEF Strings
    <3>2. q[1] = p[1]
      BY <1>2, <3>1
    <3>3. QED
      BY <2>1, <2>3, <3>2 DEF Rooted
  <2>4. QED
    BY <2>2, <2>3
<1>5. QED
  BY <1>2, <1>3, <1>4 DEF Undotted, q

\* The first segment and the rest of a rooted path.
LEMMA SplitPath ==
    ASSUME NEW b \in Strings, b # <<>>, Rooted(b)
    PROVE  \E n \in 1..Len(b) :
              /\ FirstSegment(b) \in Strings /\ After(b, Len(FirstSegment(b))) \in Strings
              /\ Len(FirstSegment(b)) = n /\ Len(After(b, Len(FirstSegment(b)))) = Len(b) - n
              /\ \A i \in 1..n : FirstSegment(b)[i] = b[i]
              /\ \A i \in 1..(Len(b) - n) : After(b, Len(FirstSegment(b)))[i] = b[i + n]
              /\ b[1] = Slash /\ \A i \in 2..n : b[i] # Slash
              /\ n = Len(b) \/ b[n + 1] = Slash
<1>1. PICK n \in 1..Len(b) :
         /\ FirstSegment(b) = SubSeq(b, 1, n) /\ \A i \in 2..n : b[i] # Slash
         /\ n = Len(b) \/ b[n + 1] = Slash
  BY FirstSegmentIs DEF Strings
<1>2. /\ Len(b) \in Nat /\ n \in Int /\ n + 1 \in Int /\ 1 <= n /\ n <= Len(b)
      /\ \A i \in 1..Len(b) : b[i] \in CleanTokens
  BY DEF Strings
<1>3. /\ SubSeq(b, 1, n) \in Strings /\ Len(SubSeq(b, 1, n)) = n
      /\ \A i \in 1..n : SubSeq(b, 1, n)[i] = b[i]
  <2>1. \A i \in 1..n : b[i] \in CleanTokens
    BY <1>2
  <2>2. /\ SubSeq(b, 1, n) \in Seq(CleanTokens)
        /\ Len(SubSeq(b, 1, n)) = IF 1 <= n THEN n - 1 + 1 ELSE 0
        /\ \A i \in 1..(n - 1 + 1) : SubSeq(b, 1, n)[i] = b[1 + i - 1]
    BY <1>2, <2>1, SubSeqProperties
  <2>3. QED
    BY <1>2, <2>2 DEF Strings
<1>4. /\ After(b, n) \in Strings /\ Len(After(b, n)) = Len(b) - n
      /\ \A i \in 1..(Len(b) - n) : After(b, n)[i] = b[i + n]
  <2>1. \A i \in (n + 1)..Len(b) : b[i] \in CleanTokens
    BY <1>2
  <2>2. /\ SubSeq(b, n + 1, Len(b)) \in Seq(CleanTokens)
        /\ Len(SubSeq(b, n + 1, Len(b))) = IF n + 1 <= Len(b) THEN Len(b) - (n + 1) + 1 ELSE 0
        /\ \A i \in 1..(Len(b) - (n + 1) + 1) : SubSeq(b, n + 1, Len(b))[i] = b[(n + 1) + i - 1]
    BY <1>2, <2>1, SubSeqProperties
  <2>3. QED
    BY <1>2, <2>2 DEF Strings, After
<1>5. b[1] = Slash
  BY DEF Rooted
<1>6. Len(FirstSegment(b)) = n
  BY <1>1, <1>3
<1>7. After(b, Len(FirstSegment(b))) = After(b, n)
  BY <1>6
<1> DEFINE r == After(b, Len(FirstSegment(b)))
<1>8. /\ r \in Strings /\ Len(r) = Len(b) - n
      /\ \A i \in 1..(Len(b) - n) : r[i] = b[i + n]
  <2> HIDE DEF r
  <2>1. r = After(b, n)
    BY <1>7 DEF r
  <2>2. QED
    BY <1>4, <2>1
<1>9. FirstSegment(b) \in Strings /\ \A i \in 1..n : FirstSegment(b)[i] = b[i]
  BY <1>1, <1>3
<1> HIDE DEF r
<1>10. QED
  BY <1>1, <1>5, <1>6, <1>8, <1>9 DEF r

\* Where the first segment ends, an undotted path goes on undotted, and the two
\* parts give it back.
LEMMA SplitUndotted ==
    ASSUME NEW b \in Strings, b # <<>>, Rooted(b)
    PROVE  LET f == FirstSegment(b)
               r == After(b, Len(f))
           IN  /\ f \in Strings /\ r \in Strings /\ Rooted(r) /\ f \o r = b
               /\ ~DotsAt(b, 1) => f \in Segments
               /\ Undotted(b) => Undotted(r)
<1> DEFINE f == FirstSegment(b)
           r == After(b, Len(f))
<1>1. PICK n \in 1..Len(b) :
         /\ f \in Strings /\ r \in Strings
         /\ Len(f) = n /\ Len(r) = Len(b) - n
         /\ \A i \in 1..n : f[i] = b[i]
         /\ \A i \in 1..(Len(b) - n) : r[i] = b[i + n]
         /\ b[1] = Slash /\ \A i \in 2..n : b[i] # Slash
         /\ n = Len(b) \/ b[n + 1] = Slash
  BY SplitPath
<1> HIDE DEF f, r
<1>2. Len(b) \in Nat /\ 1 <= n /\ n <= Len(b) /\ n \in Nat
  BY DEF Strings
<1>3. Rooted(r)
  <2>1. SUFFICES ASSUME r # <<>> PROVE r[1] = Slash
    BY DEF Rooted
  <2>2. 1 \in 1..(Len(b) - n)
    BY <1>1, <1>2, <2>1 DEF Strings
  <2>3. QED
    BY <1>1, <1>2, <2>2
<1>4. f \o r = b
  <2>1. /\ f \o r \in Strings /\ Len(f \o r) = Len(f) + Len(r)
        /\ \A i \in 1..(Len(f) + Len(r)) : (f \o r)[i] = IF i <= Len(f) THEN f[i] ELSE r[i - Len(f)]
    <3>1. f \in Seq(CleanTokens) /\ r \in Seq(CleanTokens)
      BY <1>1 DEF Strings
    <3>2. QED
      BY <3>1, ConcatProperties DEF Strings
  <2>2. Len(f \o r) = Len(b)
    BY <1>1, <1>2, <2>1
  <2>3. ASSUME NEW i \in 1..Len(b) PROVE (f \o r)[i] = b[i]
    <3>1. CASE i <= n
      BY <1>1, <1>2, <2>1, <3>1
    <3>2. CASE ~(i <= n)
      <4>1. i - n \in 1..(Len(b) - n) /\ (i - n) + n = i
        BY <1>2, <3>2
      <4>2. r[i - n] = b[i]
        BY <1>1, <4>1
      <4>3. QED
        BY <1>1, <1>2, <2>1, <3>2, <4>2
    <3>3. QED
      BY <3>1, <3>2
  <2> DEFINE q == f \o r
  <2>4. q \in Seq(CleanTokens) /\ b \in Seq(CleanTokens) /\ Len(q) = Len(b)
        /\ \A i \in 1..Len(q) : q[i] = b[i]
    BY <2>1, <2>2, <2>3 DEF Strings
  <2> HIDE DEF q
  <2>5. q = b
    BY <2>4, SeqEqual
  <2>6. QED
    BY <2>5 DEF q
<1>5. ASSUME ~DotsAt(b, 1) PROVE f \in Segments
  <2>1. ASSUME DotsAt(f, 1) PROVE FALSE
    <3>1. 1 + 1 \in 1..n /\ f[1] = Slash /\ f[1 + 1] = Dot
      BY <1>1, <2>1 DEF DotsAt
    <3>2. /\ f[1 + 1] = b[1 + 1] /\ 1 + 1 \in 1..Len(b) /\ b[1 + 1] = Dot
      BY <1>1, <1>2, <3>1
    <3>3. \/ n = 1 + 1
          \/ n >= 3 /\ f[1 + 2] = Dot /\ (n = 1 + 2 \/ (n >= 4 /\ f[1 + 3] = Slash))
          \/ n >= 3 /\ f[1 + 2] = Slash
      <4>1. CASE n = 2
        BY <4>1
      <4>2. CASE n = 3
        BY <1>1, <2>1, <4>2 DEF DotsAt
      <4>3. CASE n >= 4
        BY <1>1, <2>1, <4>3 DEF DotsAt
      <4>4. QED
        BY <1>2, <3>1, <4>1, <4>2, <4>3
    <3>4. CASE n = 2
      <4>1. 1 + 1 = Len(b) \/ b[1 + 2] = Slash
        BY <1>1, <3>4
      <4>2. QED
        BY <1>1, <1>5, <3>2, <4>1 DEF DotsAt
    <3>5. CASE n >= 3 /\ f[1 + 2] = Slash
      <4>1. 3 \in 1..n /\ 3 \in 2..n
        BY <1>2, <3>5
      <4>2. QED
        BY <1>1, <3>5, <4>1
    <3>6. CASE n = 3 /\ f[1 + 2] = Dot
      <4>1. 3 \in 1..n /\ (1 + 2 = Len(b) \/ b[1 + 3] = Slash)
        BY <1>1, <3>6
      <4>2. b[1 + 2] = Dot
        BY <1>1, <3>6, <4>1
      <4>3. QED
        BY <1>1, <1>5, <3>2, <4>1, <4>2 DEF DotsAt
    <3>7. CASE n >= 4 /\ f[1 + 3] = Slash
      <4>1. 4 \in 1..n /\ 4 \in 2..n
        BY <1>2, <3>7
      <4>2. QED
        BY <1>1, <3>7, <4>1
    <3>8. QED
      BY <1>2, <3>3, <3>4, <3>5, <3>6, <3>7
  <2>2. f # <<>> /\ f[1] = Slash
    BY <1>1, <1>2 DEF Strings
  <2>3. \A i \in 2..Len(f) : f[i] # Slash
    BY <1>1, <1>2
  <2>4. QED
    BY <1>1, <2>1, <2>2, <2>3 DEF Segments
<1>6. ASSUME Undotted(b) PROVE Undotted(r)
  <2>1. SUFFICES ASSUME NEW i \in 1..Len(r), DotsAt(r, i) PROVE FALSE
    BY DEF Undotted
  <2>0. PICK l \in Nat, m \in Nat : l = Len(b) /\ m = Len(r) /\ m = l - n /\ n <= l
    BY <1>1, <1>2
  <2>2. i + n \in 1..Len(b) /\ ~DotsAt(b, i + n) /\ i \in 1..(Len(b) - n)
    BY <1>1, <1>2, <1>6 DEF Undotted
  <2>3. i + 1 \in 1..(Len(b) - n) /\ r[i] = Slash /\ r[i + 1] = Dot
    BY <1>1, <2>1 DEF DotsAt
  <2>4. /\ b[i + n] = r[i] /\ (i + n) + 1 \in 1..Len(b)
        /\ b[(i + n) + 1] = r[i + 1]
        /\ i + 2 \in 1..(Len(b) - n) => b[(i + n) + 2] = r[i + 2]
        /\ i + 3 \in 1..(Len(b) - n) => b[(i + n) + 3] = r[i + 3]
    <3>1. /\ (i + 1) + n = (i + n) + 1 /\ (i + 2) + n = (i + n) + 2
          /\ (i + 3) + n = (i + n) + 3 /\ (i + n) + 1 \in 1..Len(b)
      BY <1>2, <2>3
    <3>2. b[i + n] = r[i]
      BY <1>1, <2>2
    <3>3. b[(i + 1) + n] = r[i + 1]
      BY <1>1, <2>3
    <3>4. /\ i + 2 \in 1..(Len(b) - n) => b[(i + 2) + n] = r[i + 2]
          /\ i + 3 \in 1..(Len(b) - n) => b[(i + 3) + n] = r[i + 3]
      BY <1>1
    <3>5. QED
      BY <3>1, <3>2, <3>3, <3>4
  <2>5. i + 1 # Len(r)
    <3>1. i + 1 = Len(r) => (i + n) + 1 = Len(b)
      <4>1. i + 1 = m => (i + n) + 1 = l
        BY <2>0
      <4>2. QED
        BY <2>0, <4>1
    <3>2. QED
      BY <2>2, <2>3, <2>4, <3>1 DEF DotsAt
  <2>6. i + 2 \in 1..(Len(b) - n)
    <3>1. i + 1 \in 1..(l - n) /\ i + 1 # m
      BY <2>0, <2>3, <2>5
    <3>2. i + 2 \in 1..(l - n)
      BY <2>0, <3>1
    <3>3. QED
      BY <2>0, <3>2
  <2>7. r[i + 2] # Slash
    BY <2>2, <2>3, <2>4, <2>6 DEF DotsAt
  <2>8. r[i + 2] = Dot /\ (i + 2 = Len(r) \/ r[i + 3] = Slash)
    BY <2>1, <2>5, <2>7 DEF DotsAt
  <2>9. i + 2 # Len(r)
    <3>1. i + 2 = Len(r) => (i + n) + 2 = Len(b)
      <4>1. i + 2 = m => (i + n) + 2 = l
        BY <2>0
      <4>2. QED
        BY <2>0, <4>1
    <3>2. QED
      BY <2>2, <2>3, <2>4, <2>6, <2>8, <3>1 DEF DotsAt
  <2>10. i + 3 \in 1..(Len(b) - n)
    <3>1. i + 2 \in 1..(l - n) /\ i + 2 # m
      BY <2>0, <2>6, <2>9
    <3>2. i + 3 \in 1..(l - n)
      BY <2>0, <3>1
    <3>3. QED
      BY <2>0, <3>2
  <2>11. QED
    BY <2>2, <2>3, <2>4, <2>6, <2>8, <2>9, <2>10 DEF DotsAt
<1>7. QED
  BY <1>1, <1>3, <1>4, <1>5, <1>6 DEF f, r

\* Two tokens that differ.
LEMMA SlashIsNotDot == Slash # Dot /\ Slash \in CleanTokens /\ Dot \in CleanTokens
BY DEF Slash, Dot, CleanTokens, Tokens, Escapes

\* input_buffer.startswith(p).
LEMMA BeginsIs ==
    ASSUME NEW b \in Strings, NEW p \in Strings
    PROVE  Begins(b, p) <=> Len(p) <= Len(b) /\ \A i \in 1..Len(p) : b[i] = p[i]
<1>1. Len(p) \in Nat /\ Len(b) \in Nat
  BY DEF Strings
<1>2. SubSeq(p, 1, Len(p)) = p
  BY SubSeqFull DEF Strings
<1>3. ASSUME Len(p) <= Len(b)
      PROVE  SubSeq(p, 1, Len(p)) = SubSeq(b, 1, Len(p)) <=> \A i \in 1..Len(p) : b[i] = p[i]
  <2>1. 1 \in Int /\ Len(p) \in Int /\ \A i \in 1..Len(p) : b[i] \in CleanTokens
    BY <1>1, <1>3 DEF Strings
  <2>2. /\ SubSeq(b, 1, Len(p)) \in Seq(CleanTokens)
        /\ Len(SubSeq(b, 1, Len(p))) = IF 1 <= Len(p) THEN Len(p) - 1 + 1 ELSE 0
        /\ \A i \in 1..(Len(p) - 1 + 1) : SubSeq(b, 1, Len(p))[i] = b[1 + i - 1]
    BY <2>1, SubSeqProperties
  <2> DEFINE q == SubSeq(b, 1, Len(p))
  <2>3. q \in Seq(CleanTokens) /\ Len(q) = Len(p) /\ \A i \in 1..Len(p) : q[i] = b[i]
    BY <1>1, <2>2
  <2> HIDE DEF q
  <2>4. p = q <=> \A i \in 1..Len(p) : b[i] = p[i]
    <3>1. ASSUME \A i \in 1..Len(p) : b[i] = p[i] PROVE p = q
      <4>1. p \in Seq(CleanTokens) /\ \A i \in 1..Len(p) : p[i] = q[i]
        BY <2>3, <3>1 DEF Strings
      <4>2. Len(p) = Len(q)
        BY <2>3
      <4>3. QED
        BY <2>3, <4>1, <4>2, SeqEqual
    <3>2. QED
      BY <2>3, <3>1
  <2>5. QED
    BY <1>2, <2>4 DEF q
<1>4. QED
  BY <1>1, <1>3 DEF Begins, IsPrefix

\* The four dot segments a buffer may begin with.
LEMMA DotsAtStart ==
    ASSUME NEW b \in Strings, b # <<>>, Rooted(b)
    PROVE  /\ DotsAt(b, 1) <=> \/ Begins(b, <<Slash, Dot, Slash>>) \/ b = <<Slash, Dot>>
                               \/ Begins(b, <<Slash, Dot, Dot, Slash>>) \/ b = <<Slash, Dot, Dot>>
           /\ Begins(b, <<Slash, Dot, Slash>>) =>
                 /\ Len(b) >= 3 /\ b[3] = Slash /\ b # <<Slash, Dot>>
                 /\ ~Begins(b, <<Slash, Dot, Dot, Slash>>) /\ b # <<Slash, Dot, Dot>>
           /\ Begins(b, <<Slash, Dot, Dot, Slash>>) =>
                 /\ Len(b) >= 4 /\ b[4] = Slash
                 /\ b # <<Slash, Dot>> /\ b # <<Slash, Dot, Dot>>
           /\ b = <<Slash, Dot>> => b # <<Slash, Dot, Dot>>
<1>1. Len(b) \in Nat /\ Len(b) >= 1 /\ b[1] = Slash
  BY DEF Strings, Rooted
<1>2. /\ <<Slash, Dot, Slash>> \in Strings /\ <<Slash, Dot, Dot, Slash>> \in Strings
      /\ <<Slash, Dot>> \in Seq(CleanTokens) /\ <<Slash, Dot, Dot>> \in Seq(CleanTokens)
  BY SlashIsNotDot DEF Strings
<1>3. Begins(b, <<Slash, Dot, Slash>>) <=> Len(b) >= 3 /\ b[2] = Dot /\ b[3] = Slash
  <2> DEFINE p == <<Slash, Dot, Slash>>
  <2>1. Len(p) = 3 /\ p[1] = Slash /\ p[2] = Dot /\ p[3] = Slash /\ p \in Strings
    BY <1>2
  <2> HIDE DEF p
  <2>2. Begins(b, p) <=> Len(p) <= Len(b) /\ \A i \in 1..Len(p) : b[i] = p[i]
    BY <2>1, BeginsIs
  <2>3. (\A i \in 1..3 : b[i] = p[i]) <=> b[1] = p[1] /\ b[2] = p[2] /\ b[3] = p[3]
    OBVIOUS
  <2>4. QED
    BY <1>1, <2>1, <2>2, <2>3 DEF p
<1>4. Begins(b, <<Slash, Dot, Dot, Slash>>)
         <=> Len(b) >= 4 /\ b[2] = Dot /\ b[3] = Dot /\ b[4] = Slash
  <2> DEFINE p == <<Slash, Dot, Dot, Slash>>
  <2>1. /\ Len(p) = 4 /\ p[1] = Slash /\ p[2] = Dot /\ p[3] = Dot /\ p[4] = Slash
        /\ p \in Strings
    BY <1>2
  <2> HIDE DEF p
  <2>2. Begins(b, p) <=> Len(p) <= Len(b) /\ \A i \in 1..Len(p) : b[i] = p[i]
    BY <2>1, BeginsIs
  <2>3. (\A i \in 1..4 : b[i] = p[i])
           <=> b[1] = p[1] /\ b[2] = p[2] /\ b[3] = p[3] /\ b[4] = p[4]
    OBVIOUS
  <2>4. QED
    BY <1>1, <2>1, <2>2, <2>3 DEF p
<1>5. b = <<Slash, Dot>> <=> Len(b) = 2 /\ b[2] = Dot
  <2> DEFINE p == <<Slash, Dot>>
  <2>1. Len(p) = 2 /\ p[1] = Slash /\ p[2] = Dot /\ p \in Seq(CleanTokens)
    BY <1>2
  <2> HIDE DEF p
  <2>2. ASSUME Len(b) = 2, b[2] = Dot PROVE b = p
    <3>1. \A i \in 1..Len(b) : b[i] = p[i]
      BY <1>1, <2>1, <2>2
    <3>2. b \in Seq(CleanTokens) /\ Len(b) = Len(p)
      BY <2>1, <2>2 DEF Strings
    <3>3. QED
      BY <2>1, <3>1, <3>2, SeqEqual
  <2>3. QED
    BY <2>1, <2>2 DEF p
<1>6. b = <<Slash, Dot, Dot>> <=> Len(b) = 3 /\ b[2] = Dot /\ b[3] = Dot
  <2> DEFINE p == <<Slash, Dot, Dot>>
  <2>1. Len(p) = 3 /\ p[1] = Slash /\ p[2] = Dot /\ p[3] = Dot /\ p \in Seq(CleanTokens)
    BY <1>2
  <2> HIDE DEF p
  <2>2. ASSUME Len(b) = 3, b[2] = Dot, b[3] = Dot PROVE b = p
    <3>1. \A i \in 1..Len(b) : b[i] = p[i]
      BY <1>1, <2>1, <2>2
    <3>2. b \in Seq(CleanTokens) /\ Len(b) = Len(p)
      BY <2>1, <2>2 DEF Strings
    <3>3. QED
      BY <2>1, <3>1, <3>2, SeqEqual
  <2>3. QED
    BY <2>1, <2>2 DEF p
<1>7. PICK l \in Nat : l = Len(b)
  BY <1>1
<1>8. DotsAt(b, 1) <=> \/ l >= 3 /\ b[2] = Dot /\ b[3] = Slash
                       \/ l = 2 /\ b[2] = Dot
                       \/ l >= 4 /\ b[2] = Dot /\ b[3] = Dot /\ b[4] = Slash
                       \/ l = 3 /\ b[2] = Dot /\ b[3] = Dot
  <2>1. DotsAt(b, 1) <=> /\ 2 <= l /\ b[2] = Dot
                         /\ \/ 2 = l \/ b[3] = Slash
                            \/ b[3] = Dot /\ (3 = l \/ b[4] = Slash)
    BY <1>1, <1>7 DEF DotsAt
  <2>2. QED
    BY <2>1
<1>9. QED
  BY <1>3, <1>4, <1>5, <1>6, <1>7, <1>8, SlashIsNotDot

\* After takes what follows.
LEMMA AfterIs ==
    ASSUME NEW b \in Strings, NEW n \in Nat, n < Len(b)
    PROVE  /\ After(b, n) \in Strings /\ After(b, n)[1] = b[n + 1]
<1>1. /\ Len(b) \in Nat /\ n + 1 \in Int /\ n + 1 <= Len(b) /\ Len(b) \in Int
      /\ \A i \in (n + 1)..Len(b) : b[i] \in CleanTokens
  BY DEF Strings
<1>2. /\ SubSeq(b, n + 1, Len(b)) \in Seq(CleanTokens)
      /\ \A i \in 1..(Len(b) - (n + 1) + 1) : SubSeq(b, n + 1, Len(b))[i] = b[(n + 1) + i - 1]
  BY <1>1, SubSeqProperties
<1>3. 1 \in 1..(Len(b) - (n + 1) + 1) /\ (n + 1) + 1 - 1 = n + 1
  BY <1>1
<1>4. QED
  BY <1>2, <1>3 DEF After, Strings

\* An iteration of _remove_dot_segments: the buffer stays rooted and what is collected
\* are segments.
LEMMA RemoveDotsKeeps ==
    ASSUME NEW b \in Strings, b # <<>>, Rooted(b), NEW segs \in Seq(Segments)
    PROVE  LET next == RemoveDots(b, segs)
           IN  next.buf \in Strings /\ Rooted(next.buf) /\ next.segs \in Seq(Segments)
<1> DEFINE f == FirstSegment(b)
           C1 == Begins(b, <<Slash, Dot, Slash>>)
           C2 == b = <<Slash, Dot>>
           C3 == Begins(b, <<Slash, Dot, Dot, Slash>>)
           C4 == b = <<Slash, Dot, Dot>>
           Ok(r) == r.buf \in Strings /\ Rooted(r.buf) /\ r.segs \in Seq(Segments)
<1>1. Up(segs) \in Seq(Segments)
  BY DEF Up, Front
<1>2. <<Slash>> \in Strings /\ Rooted(<<Slash>>)
  BY SlashIsNotDot DEF Strings, Rooted
<1>3. CASE C1
  <2>1. RemoveDots(b, segs) = [buf |-> After(b, 2), segs |-> segs]
    BY <1>3, DotsAtStart, Zenon DEF RemoveDots
  <2>2. Len(b) >= 3 /\ b[3] = Slash /\ Len(b) \in Nat
    <3>1. Len(b) \in Nat
      BY DEF Strings
    <3>2. QED
      BY <1>3, <3>1, DotsAtStart
  <2>3. After(b, 2) \in Strings /\ After(b, 2)[1] = b[2 + 1]
    BY <2>2, AfterIs
  <2>4. QED
    BY <2>1, <2>2, <2>3 DEF Rooted
<1>4. CASE ~C1 /\ C2
  <2>1. RemoveDots(b, segs) = [buf |-> <<Slash>>, segs |-> segs]
    BY <1>4, DotsAtStart, Zenon DEF RemoveDots
  <2>2. QED
    BY <1>2, <2>1
<1>5. CASE ~C1 /\ ~C2 /\ C3
  <2>1. RemoveDots(b, segs) = [buf |-> After(b, 3), segs |-> Up(segs)]
    BY <1>5, DotsAtStart, Zenon DEF RemoveDots
  <2>2. Len(b) >= 4 /\ b[4] = Slash /\ Len(b) \in Nat
    <3>1. Len(b) \in Nat
      BY DEF Strings
    <3>2. QED
      BY <1>5, <3>1, DotsAtStart
  <2>3. After(b, 3) \in Strings /\ After(b, 3)[1] = b[3 + 1]
    BY <2>2, AfterIs
  <2>4. QED
    BY <1>1, <2>1, <2>2, <2>3 DEF Rooted
<1>6. CASE ~C1 /\ ~C2 /\ ~C3 /\ C4
  <2>1. RemoveDots(b, segs) = [buf |-> <<Slash>>, segs |-> Up(segs)]
    BY <1>6 DEF RemoveDots
  <2>2. QED
    BY <1>1, <1>2, <2>1
<1>7. CASE ~C1 /\ ~C2 /\ ~C3 /\ ~C4
  <2>1. RemoveDots(b, segs) = [buf |-> After(b, Len(f)), segs |-> Append(segs, f)]
    BY <1>7 DEF RemoveDots
  <2>2. ~DotsAt(b, 1)
    BY <1>7, DotsAtStart
  <2>3. f \in Segments /\ After(b, Len(f)) \in Strings /\ Rooted(After(b, Len(f)))
    BY <2>2, SplitUndotted
  <2> HIDE DEF f
  <2>4. Append(segs, f) \in Seq(Segments)
    BY <2>3
  <2>5. QED
    BY <2>1, <2>3, <2>4
<1>8. QED
  BY <1>3, <1>4, <1>5, <1>6, <1>7

\* A path without dot segments is only cut into its segments.
LEMMA RemoveDotsUndotted ==
    ASSUME NEW b \in Strings, b # <<>>, Rooted(b), Undotted(b), NEW segs \in Seq(Segments)
    PROVE  \E f \in Segments, r \in Strings :
              /\ RemoveDots(b, segs) = [buf |-> r, segs |-> Append(segs, f)]
              /\ f \o r = b /\ Undotted(r)
<1> DEFINE f == FirstSegment(b)
<1>1. Len(b) \in Nat /\ 1 \in 1..Len(b)
  BY DEF Strings
<1>2. ~DotsAt(b, 1)
  BY <1>1 DEF Undotted
<1>3. RemoveDots(b, segs) = [buf |-> After(b, Len(f)), segs |-> Append(segs, f)]
  BY <1>2, DotsAtStart DEF RemoveDots
<1>4. /\ f \in Segments /\ After(b, Len(f)) \in Strings
      /\ f \o After(b, Len(f)) = b /\ Undotted(After(b, Len(f)))
  BY <1>2, SplitUndotted
<1> HIDE DEF f
<1>5. QED
  BY <1>3, <1>4

\* What segments are joined to has no dot segment.
LEMMA FlattenSegments ==
    \A segs \in Seq(Segments) :
       FlattenSeq(segs) \in Strings /\ Rooted(FlattenSeq(segs)) /\ Undotted(FlattenSeq(segs))
<1> DEFINE Ok(segs) == /\ FlattenSeq(segs) \in Strings /\ Rooted(FlattenSeq(segs))
                       /\ Undotted(FlattenSeq(segs))
           G == {n \in Nat : \A segs \in Seq(Segments) : Len(segs) = n => Ok(segs)}
<1>1. 0 \in G
  <2>1. SUFFICES ASSUME NEW segs \in Seq(Segments), Len(segs) = 0 PROVE Ok(segs)
    OBVIOUS
  <2>2. segs = <<>>
    BY <2>1
  <2>3. <<>> \in Strings /\ Rooted(<<>>) /\ Undotted(<<>>)
    BY DEF Strings, Rooted, Undotted
  <2>4. QED
    BY <2>2, <2>3, FlattenEmpty
<1>2. ASSUME NEW n \in Nat, n \in G PROVE n + 1 \in G
  <2>1. SUFFICES ASSUME NEW segs \in Seq(Segments), Len(segs) = n + 1 PROVE Ok(segs)
    OBVIOUS
  <2>2. PICK s \in Seq(Segments), f \in Segments : segs = Append(s, f)
    <3>1. segs # <<>>
      BY <2>1
    <3>2. QED
      BY <3>1, SequenceEmptyOrAppend
  <2>3. Len(s) = n
    BY <2>1, <2>2
  <2>4. Ok(s)
    BY <1>2, <2>3
  <2>5. s \in Seq(Seq(CleanTokens)) /\ f \in Seq(CleanTokens)
    BY DEF Segments, Strings
  <2>6. FlattenSeq(Append(s, f)) = FlattenSeq(s) \o f
    BY <2>5, FlattenAppend
  <2>7. /\ FlattenSeq(s) \o f \in Strings /\ Undotted(FlattenSeq(s) \o f)
        /\ Rooted(FlattenSeq(s) \o f)
    BY <2>4, UndottedConcat
  <2>8. QED
    BY <2>2, <2>6, <2>7
<1>3. Nat \subseteq G
  <2> HIDE DEF G
  <2>1. QED
    BY <1>1, <1>2, SetInduction
<1>4. QED
  BY <1>3

\* The normalized path.
LEMMA JoinedIsNormal ==
    ASSUME NEW segs \in Seq(Segments)
    PROVE  /\ Joined(segs) \in Strings /\ Joined(segs) # <<>> /\ Rooted(Joined(segs))
           /\ Undotted(Joined(segs))
<1> DEFINE p == FlattenSeq(segs)
<1>1. p \in Strings /\ Rooted(p) /\ Undotted(p)
  BY FlattenSegments
<1>2. /\ <<Slash>> \in Strings /\ <<Slash>> # <<>> /\ Rooted(<<Slash>>)
      /\ Undotted(<<Slash>>)
  BY SlashIsNotDot DEF Strings, Rooted, Undotted, DotsAt
<1> HIDE DEF p
<1>3. Joined(segs) = IF p = <<>> THEN <<Slash>> ELSE p
  BY DEF Joined, p
<1>4. QED
  BY <1>1, <1>2, <1>3

---------------------------------------------------------------------------
(* normalize_url as a function of its path.                                *)

\* The paths normalize_url is given, and the buffer its loop begins with.
UrlPaths == {p \in Seq(Tokens) : Rooted(p)}
Rewritten(path) ==
    LET p == IF path = NoPath THEN <<Slash>> ELSE path
    IN  [i \in DOMAIN p |-> Canonical(p[i])]

\* The iterations of _remove_dot_segments on a path, from the first to the n-th.
Iterates(buf, segs, n, path) ==
    /\ buf[0] = Rewritten(path) /\ segs[0] = <<>>
    /\ \A i \in 0..(n - 1) :
          LET next == RemoveDots(buf[i], segs[i])
          IN  buf[i] # <<>> /\ buf[i + 1] = next.buf /\ segs[i + 1] = next.segs

\* Iterating on a path, the loop arrives at this buffer and these segments.
Arrives(path, b, s) ==
    \E n \in Nat : \E buf, segs : Iterates(buf, segs, n, path) /\ buf[n] = b /\ segs[n] = s

\* _canonicalize_percent_encoding decodes or upper-cases every escape.
LEMMA RewrittenIsClean ==
    ASSUME NEW p \in UrlPaths, ~Malformed(p)
    PROVE  Rewritten(p) \in Strings /\ Rewritten(p) # <<>> /\ Rooted(Rewritten(p))
<1> DEFINE q == IF p = NoPath THEN <<Slash>> ELSE p
           w == [i \in DOMAIN q |-> Canonical(q[i])]
<1>1. /\ q \in Seq(Tokens) /\ q # <<>> /\ q[1] = Slash
      /\ \A i \in DOMAIN q : q[i] \in Tokens /\ q[i] \notin {"%", "%2f"}
  <2>1. CASE p = NoPath
    <3>1. q = <<Slash>> /\ Slash \in Tokens /\ Slash \notin {"%", "%2f"}
      BY <2>1 DEF Slash, Tokens
    <3> HIDE DEF q
    <3>2. QED
      BY <3>1
  <2>2. CASE p # NoPath
    BY <2>2 DEF UrlPaths, NoPath, Rooted, Malformed
  <2>3. QED
    BY <2>1, <2>2
<1> HIDE DEF q
<1>2. Len(q) \in Nat /\ Len(q) >= 1 /\ DOMAIN q = 1..Len(q)
  BY <1>1
<1>3. \A t \in Tokens : t \notin {"%", "%2f"} => Canonical(t) \in CleanTokens
  BY DEF Tokens, Escapes, Canonical, CleanTokens, Slash, Dot
<1>4. Canonical(Slash) = Slash
  BY DEF Canonical, Slash, Dot
<1>5. w \in [1..Len(q) -> CleanTokens] /\ w[1] = Slash
  BY <1>1, <1>2, <1>3, <1>4
<1>6. w \in Seq(CleanTokens) /\ Len(w) = Len(q)
  <2> HIDE DEF w
  <2>1. QED
    BY <1>2, <1>5
<1>7. w # <<>>
  BY <1>2, <1>6
<1>8. Rewritten(p) = w
  BY DEF Rewritten, q
<1> HIDE DEF w
<1>9. QED
  BY <1>5, <1>6, <1>7, <1>8 DEF Strings, Rooted

\* A path it has rewritten is left alone.
LEMMA RewrittenOnce ==
    ASSUME NEW p \in Strings, p # <<>> PROVE Rewritten(p) = p /\ ~Malformed(p)
<1>1. \A t \in CleanTokens : Canonical(t) = t /\ t \notin {"%", "%2f"}
  BY DEF Tokens, Escapes, Canonical, CleanTokens, Slash, Dot
<1>2. Rewritten(p) = [i \in DOMAIN p |-> Canonical(p[i])]
  BY DEF Rewritten, NoPath
<1>3. \A i \in DOMAIN p : p[i] \in CleanTokens
  BY DEF Strings
<1>4. [i \in DOMAIN p |-> Canonical(p[i])] = [i \in DOMAIN p |-> p[i]]
  BY <1>1, <1>3
<1>5. p = [i \in DOMAIN p |-> p[i]]
  BY DEF Strings
<1>6. QED
  BY <1>1, <1>2, <1>3, <1>4, <1>5 DEF Malformed

\* The loop begins with the rewritten path.
LEMMA LoopBegins == ASSUME NEW path PROVE Arrives(path, Rewritten(path), <<>>)
<1> DEFINE buf == [i \in {0} |-> Rewritten(path)]
           segs == [i \in {0} |-> <<>>]
<1>1. Iterates(buf, segs, 0, path) /\ buf[0] = Rewritten(path) /\ segs[0] = <<>>
  BY DEF Iterates
<1> HIDE DEF buf, segs
<1>2. QED
  BY <1>1 DEF Arrives

\* and goes on as long as the buffer is not empty.
LEMMA LoopGoesOn ==
    ASSUME NEW path, NEW b, NEW s, Arrives(path, b, s), b # <<>>
    PROVE  Arrives(path, RemoveDots(b, s).buf, RemoveDots(b, s).segs)
<1>1a. PICK n \in Nat : \E buf, segs :
            Iterates(buf, segs, n, path) /\ buf[n] = b /\ segs[n] = s
  BY DEF Arrives
<1>1. PICK buf, segs : Iterates(buf, segs, n, path) /\ buf[n] = b /\ segs[n] = s
  BY <1>1a
<1> DEFINE next == RemoveDots(b, s)
           buf2 == [i \in 0..(n + 1) |-> IF i = n + 1 THEN next.buf ELSE buf[i]]
           segs2 == [i \in 0..(n + 1) |-> IF i = n + 1 THEN next.segs ELSE segs[i]]
<1>2. /\ \A i \in 0..n : buf2[i] = buf[i] /\ segs2[i] = segs[i]
      /\ buf2[n + 1] = next.buf /\ segs2[n + 1] = next.segs
  OBVIOUS
<1> HIDE DEF buf2, segs2
<1>3. buf2[0] = Rewritten(path) /\ segs2[0] = <<>>
  BY <1>1, <1>2 DEF Iterates
<1>4. ASSUME NEW i \in 0..((n + 1) - 1)
      PROVE  LET r == RemoveDots(buf2[i], segs2[i])
             IN  buf2[i] # <<>> /\ buf2[i + 1] = r.buf /\ segs2[i + 1] = r.segs
  <2>1. CASE i = n
    BY <1>1, <1>2, <2>1
  <2>2. CASE i # n
    <3>1. i \in 0..(n - 1) /\ i \in 0..n /\ i + 1 \in 0..n
      BY <2>2
    <3>2. LET r == RemoveDots(buf[i], segs[i])
          IN  buf[i] # <<>> /\ buf[i + 1] = r.buf /\ segs[i + 1] = r.segs
      BY <1>1, <3>1 DEF Iterates
    <3>3. QED
      BY <1>2, <3>1, <3>2
  <2>3. QED
    BY <2>1, <2>2
<1>5. Iterates(buf2, segs2, n + 1, path)
  BY <1>3, <1>4 DEF Iterates
<1>6. QED
  BY <1>2, <1>5 DEF Arrives

\* The loop is a function of the path: it ends with the same segments every time.
LEMMA LoopEndsOnce ==
    ASSUME NEW path, NEW s, NEW t, Arrives(path, <<>>, s), Arrives(path, <<>>, t)
    PROVE  s = t
<1>1a. PICK n \in Nat : \E b1, s1 :
            Iterates(b1, s1, n, path) /\ b1[n] = <<>> /\ s1[n] = s
  BY DEF Arrives
<1>1. PICK b1, s1 : Iterates(b1, s1, n, path) /\ b1[n] = <<>> /\ s1[n] = s
  BY <1>1a
<1>2a. PICK m \in Nat : \E b2, s2 :
            Iterates(b2, s2, m, path) /\ b2[m] = <<>> /\ s2[m] = t
  BY DEF Arrives
<1>2. PICK b2, s2 : Iterates(b2, s2, m, path) /\ b2[m] = <<>> /\ s2[m] = t
  BY <1>2a
<1> DEFINE G == {i \in Nat : i <= n /\ i <= m => b1[i] = b2[i] /\ s1[i] = s2[i]}
<1>3. 0 \in G
  BY <1>1, <1>2 DEF Iterates
<1>4. ASSUME NEW i \in Nat, i \in G PROVE i + 1 \in G
  <2>1. SUFFICES ASSUME i + 1 <= n, i + 1 <= m PROVE b1[i + 1] = b2[i + 1] /\ s1[i + 1] = s2[i + 1]
    OBVIOUS
  <2>2. i \in 0..(n - 1) /\ i \in 0..(m - 1) /\ b1[i] = b2[i] /\ s1[i] = s2[i]
    BY <1>4, <2>1
  <2>3. b1[i + 1] = RemoveDots(b1[i], s1[i]).buf /\ s1[i + 1] = RemoveDots(b1[i], s1[i]).segs
    BY <1>1, <2>2 DEF Iterates
  <2>4. b2[i + 1] = RemoveDots(b2[i], s2[i]).buf /\ s2[i + 1] = RemoveDots(b2[i], s2[i]).segs
    BY <1>2, <2>2 DEF Iterates
  <2>5. QED
    BY <2>2, <2>3, <2>4
<1>5. Nat \subseteq G
  <2> HIDE DEF G
  <2>1. QED
    BY <1>3, <1>4, SetInduction
<1>6. \A i \in Nat : i <= n /\ i <= m => b1[i] = b2[i] /\ s1[i] = s2[i]
  BY <1>5
<1>7. ~(n < m)
  <2>1. SUFFICES ASSUME n < m PROVE FALSE
    OBVIOUS
  <2>2. n \in 0..(m - 1) /\ b1[n] = b2[n]
    BY <1>6, <2>1
  <2>3. b2[n] # <<>>
    BY <1>2, <2>2 DEF Iterates
  <2>4. QED
    BY <1>1, <2>2, <2>3
<1>8. ~(m < n)
  <2>1. SUFFICES ASSUME m < n PROVE FALSE
    OBVIOUS
  <2>2. m \in 0..(n - 1) /\ b1[m] = b2[m]
    BY <1>6, <2>1
  <2>3. b1[m] # <<>>
    BY <1>1, <2>2 DEF Iterates
  <2>4. QED
    BY <1>2, <2>2, <2>3
<1>9. n = m
  BY <1>7, <1>8
<1>10. s1[n] = s2[n]
  BY <1>6, <1>9
<1>11. QED
  BY <1>1, <1>2, <1>9, <1>10

---------------------------------------------------------------------------
(* The two cascades, and the order of the operations.                      *)

\* The fields of the record, so that an update of one leaves the others.
OutFields == DOMAIN NewDecision("ok", NoPath, <<>>, "MATCHED", "MATCHED", TRUE)

\* The two places where a decision ends, but not every URL reaches the second.
Stamped == out.pc \in {"stampConn", "stampInv", "decided", "raised"} \/ out.task # "decide"

FirstAddress == IF AllPublic(out.answer) THEN Head(out.answer) ELSE NoAddress

\* Which task a place belongs to.
TaskInv ==
    /\ out.pc \in {"resolve", "bindConn", "bindInv", "stampConn", "stampInv", "decided",
                  "raised"} => out.task = "decide"
    /\ out.pc \in {"construct", "ready"} => out.task = "construct"
    /\ out.pc \in {"fetch", "sent"} => out.task = "fetch"
    /\ out.task \in {"decide", "construct", "fetch"}

\* The record repeats evaluate_network's own cascade, or the URL did not normalize.
RecordInv ==
    /\ (out.task = "decide" /\ out.pc \in {"percent", "dots", "resolve"}) => out.action = "none"
    /\ (out.pc \in {"bindConn", "bindInv"} \/ Stamped) => out.action # "none"
    /\ out.action # "none" =>
          \/ out.action = "DENY" /\ out.reason = "URL_INVALID" /\ ~out.bound /\ Stamped
          \/ /\ <<out.action, out.reason>> =
                   Verdict(out.answer, out.tls, out.reval, out.enabled)
             /\ out.resolution = IF AllPublic(out.answer) THEN "ALL_ALLOWLISTED_PUBLIC"
                                                         ELSE "DENIED_MIXED"
             /\ out.selected = FirstAddress
             /\ Stamped => out.bound \/ out.answer = <<>>

\* The binding repeats the cascade of build_connection_binding.
BoundInv ==
    /\ out.bound => /\ out.answer # <<>> /\ Stamped
                    /\ <<out.status, out.event>> =
                          BindingStatus(out.answer, out.tls, out.reval, out.enabled)
                    /\ out.bselected = FirstAddress
    /\ ~out.bound => out.status = "DENIED"

\* The inductive invariant of a decision and its transport.
OutIInv ==
    /\ DOMAIN out = OutFields /\ out.answer \in Seq(AddressKinds) /\ out.bound \in BOOLEAN
    /\ TaskInv /\ RecordInv /\ BoundInv
    /\ OutAt("bindInv") => out.answer # <<>>
    /\ OutAt("raised") => out.answer = <<>>
    /\ (OutAt("ready") \/ out.task = "fetch") => BindingAccepted

\* Of an answer that is public throughout, the first address is one, and public.
LEMMA PublicAnswer ==
    ASSUME NEW answer \in Seq(AddressKinds), AllPublic(answer)
    PROVE  /\ answer # <<>> /\ Range(answer) = {"public"}
           /\ Head(answer) = "public" /\ Head(answer) \in Range(answer)
<1>1. answer # <<>> /\ \A i \in DOMAIN answer : answer[i] = "public"
  BY DEF AllPublic, Classify, AddressKinds
<1>2. 1 \in DOMAIN answer /\ Head(answer) = answer[1]
  BY <1>1
<1>3. Range(answer) = {"public"}
  BY <1>1, <1>2 DEF Range
<1>4. QED
  BY <1>1, <1>2, <1>3

\* The cascade of build_connection_binding passes its own validator and the two
\* cascades never differ about ALLOW.
LEMMA CascadesAgree ==
    ASSUME NEW answer \in Seq(AddressKinds), answer # <<>>, NEW tls, NEW reval, NEW enabled,
           NEW status, NEW event,
           <<status, event>> = BindingStatus(answer, tls, reval, enabled)
    PROVE  /\ status = "VALIDATED" <=>
                Verdict(answer, tls, reval, enabled) = <<"ALLOW", "NONE">>
           /\ status = "VALIDATED" <=> Verdict(answer, tls, reval, enabled)[1] = "ALLOW"
           /\ Verdict(answer, tls, reval, enabled)[2] \in ReasonClasses
           /\ status = "VALIDATED" => AllPublic(answer) /\ tls = "MATCHED" /\ event = "MATCHED"
           /\ ConnectionBindingValid(answer, tls, status, event,
                                     IF AllPublic(answer) THEN Head(answer) ELSE NoAddress)
<1>1. CASE ~AllPublic(answer)
  BY <1>1 DEF BindingStatus, Verdict, ConnectionBindingValid, ReasonClasses
<1>2. CASE AllPublic(answer)
  <2>1. Head(answer) \in Range(answer) /\ Head(answer) # NoAddress
    BY <1>2, PublicAnswer DEF NoAddress
  <2>2. CASE tls # "MATCHED"
    BY <1>2, <2>1, <2>2 DEF BindingStatus, Verdict, ConnectionBindingValid, ReasonClasses
  <2>3. CASE tls = "MATCHED" /\ reval # "MATCHED"
    BY <1>2, <2>1, <2>3 DEF BindingStatus, Verdict, ConnectionBindingValid, ReasonClasses
  <2>4. CASE tls = "MATCHED" /\ reval = "MATCHED" /\ ~enabled
    BY <1>2, <2>1, <2>4 DEF BindingStatus, Verdict, ConnectionBindingValid, ReasonClasses
  <2>5. CASE tls = "MATCHED" /\ reval = "MATCHED" /\ enabled
    BY <1>2, <2>1, <2>5 DEF BindingStatus, Verdict, ConnectionBindingValid, ReasonClasses
  <2>6. QED
    BY <2>2, <2>3, <2>4, <2>5
<1>3. QED
  BY <1>1, <1>2

\* The observations, which no step changes.
Observed == <<out.answer, out.tls, out.reval, out.enabled>>

\* A step of normalize_url, or one that moves on with a new path, only touches paths.
MovesOn ==
    /\ DOMAIN out' = OutFields /\ Observed' = Observed
    /\ UNCHANGED <<out.action, out.reason, out.resolution, out.selected, out.status, out.event,
                   out.bound, out.bselected, out.conn, out.inv, out.dconn, out.dinv, out.target>>

\* _canonicalize_percent_encoding, or a URL that does not normalize: in evaluate_network a
\* DENY with no binding, in a transport or a fetch a refusal.
LEMMA StepPercent == ASSUME OutIInv, Percent PROVE OutIInv'
<1> USE DEF OutIInv
<1>1. CASE out.shape = "ok" /\ ~Malformed(out.buf)
  <2>1. MovesOn /\ out'.pc = "dots" /\ out'.task = out.task /\ out'.path = out.path /\ out.pc = "percent"
    <3>1. PICK b : out' = [out EXCEPT !.pc = "dots", !.segs = <<>>, !.buf = b]
      BY <1>1, Zenon DEF Percent
    <3>2. QED
      BY <3>1 DEF Percent, OutAt, MovesOn, OutFields, NewDecision, Observed
  <2>2. QED
    BY <2>1
       DEF MovesOn, Observed, TaskInv, RecordInv, BoundInv, Stamped, FirstAddress, OutAt,
       BindingAccepted
<1>2. CASE ~(out.shape = "ok" /\ ~Malformed(out.buf)) /\ out.task = "decide"
  <2>1. /\ DOMAIN out' = OutFields /\ Observed' = Observed
        /\ out'.action = "DENY" /\ out'.reason = "URL_INVALID" /\ out'.pc = "stampConn"
        /\ out'.task = "decide" /\ out.pc = "percent"
        /\ out'.bound = out.bound /\ out'.status = out.status
    <3>1. out' = [out EXCEPT !.pc = "stampConn", !.action = "DENY", !.reason = "URL_INVALID"]
      BY <1>2 DEF Percent
    <3>2. out.pc = "percent"
      BY DEF Percent, OutAt
    <3>3. QED
      BY <1>2, <3>1, <3>2 DEF OutFields, NewDecision, Observed
  <2>2. ~out.bound
    BY <1>2, <2>1 DEF BoundInv, Stamped
  <2>3. QED
    BY <2>1, <2>2 DEF Observed, TaskInv, RecordInv, BoundInv, Stamped, OutAt
<1>3. CASE ~(out.shape = "ok" /\ ~Malformed(out.buf)) /\ out.task # "decide"
  <2>1. MovesOn /\ out'.pc = "refused" /\ out'.task = out.task /\ out'.path = out.path
    BY <1>3 DEF Percent, OutAt, MovesOn, OutFields, NewDecision, Observed
  <2>2. QED
    BY <1>3, <2>1
       DEF MovesOn, Observed, TaskInv, RecordInv, BoundInv, Stamped, FirstAddress, OutAt,
       BindingAccepted
<1>4. QED
  BY <1>1, <1>2, <1>3

\* An iteration of _remove_dot_segments only moves segments.
LEMMA StepDots == ASSUME OutIInv, Dots PROVE OutIInv'
<1>1. MovesOn /\ out'.pc = out.pc /\ out'.task = out.task /\ out'.path = out.path
  BY DEF OutIInv, Dots, OutAt, MovesOn, OutFields, NewDecision, Observed
<1>2. QED
  BY <1>1
     DEF OutIInv, MovesOn, Observed, TaskInv, RecordInv, BoundInv, Stamped, FirstAddress,
     OutAt, BindingAccepted

\* evaluate_resolution, and the verdict of the record.
LEMMA StepResolution == ASSUME OutIInv, Resolution PROVE OutIInv'
<1>1. /\ DOMAIN out' = OutFields /\ Observed' = Observed /\ out'.pc = "bindConn"
      /\ out'.task = out.task /\ out.pc = "resolve"
      /\ out'.action = Verdict(out.answer, out.tls, out.reval, out.enabled)[1]
      /\ out'.reason = Verdict(out.answer, out.tls, out.reval, out.enabled)[2]
      /\ out'.resolution = IF AllPublic(out.answer) THEN "ALL_ALLOWLISTED_PUBLIC"
                                                   ELSE "DENIED_MIXED"
      /\ out'.selected = FirstAddress
      /\ out'.bound = out.bound /\ out'.status = out.status
  BY DEF OutIInv, Resolution, OutAt, OutFields, NewDecision, Observed, FirstAddress
<1>2. ~out.bound /\ out.task = "decide"
  BY <1>1 DEF OutIInv, BoundInv, Stamped, TaskInv
<1>3. /\ <<out'.action, out'.reason>> = Verdict(out.answer, out.tls, out.reval, out.enabled)
      /\ out'.action \in {"DENY", "ALLOW"}
  BY <1>1 DEF Verdict
<1>4. QED
  BY <1>1, <1>2, <1>3
     DEF OutIInv, Observed, TaskInv, RecordInv, BoundInv, Stamped, FirstAddress, OutAt

\* The normalized path goes where normalize_url was called from.
LEMMA StepNormalized == ASSUME OutIInv, Normalized PROVE OutIInv'
<1>1. CASE out.task = "decide"
  <2>1. PICK p : out' = [out EXCEPT !.pc = "resolve", !.target = p]
    BY <1>1 DEF Normalized
  <2>2. /\ DOMAIN out' = OutFields /\ Observed' = Observed /\ out'.task = "decide"
        /\ out'.pc = "resolve" /\ out.pc = "dots"
        /\ out'.action = out.action /\ out'.bound = out.bound /\ out'.status = out.status
    BY <1>1, <2>1 DEF OutIInv, Normalized, OutAt, OutFields, NewDecision, Observed
  <2>3. out.action = "none" /\ ~out.bound /\ out.status = "DENIED"
    BY <1>1, <2>2 DEF OutIInv, RecordInv, BoundInv, Stamped
  <2>4. QED
    BY <2>2, <2>3 DEF OutIInv, Observed, TaskInv, RecordInv, BoundInv, Stamped, OutAt
<1>2. CASE out.task = "construct"
  <2>1. PICK p : out' = [out EXCEPT !.pc = "construct", !.path = p]
    BY <1>2 DEF Normalized
  <2>2. MovesOn /\ out'.pc = "construct" /\ out'.task = "construct"
    BY <1>2, <2>1 DEF OutIInv, MovesOn, OutFields, NewDecision, Observed
  <2>3. QED
    BY <1>2, <2>2
       DEF OutIInv, MovesOn, Observed, TaskInv, RecordInv, BoundInv, Stamped, FirstAddress,
       OutAt
<1>3. CASE out.task = "fetch"
  <2>1. PICK p : out' = [out EXCEPT !.pc = "fetch", !.asked = p]
    BY <1>3 DEF Normalized
  <2>2. MovesOn /\ out'.pc = "fetch" /\ out'.task = "fetch" /\ out'.path = out.path
    BY <1>3, <2>1 DEF OutIInv, MovesOn, OutFields, NewDecision, Observed
  <2>3. QED
    BY <1>3, <2>2
       DEF OutIInv, MovesOn, Observed, TaskInv, RecordInv, BoundInv, Stamped, FirstAddress,
       OutAt, BindingAccepted
<1>4. QED
  BY <1>1, <1>2, <1>3 DEF OutIInv, TaskInv

\* An empty answer skips build_connection_binding.
LEMMA StepBindConn == ASSUME OutIInv, BindConn PROVE OutIInv'
<1>1. PICK l \in {"stampConn", "bindInv"} :
         /\ DOMAIN out' = OutFields /\ Observed' = Observed
         /\ UNCHANGED <<out.action, out.reason, out.resolution, out.selected, out.status,
                        out.event, out.bound, out.bselected, out.task>>
         /\ out'.pc = l /\ out.pc = "bindConn" /\ (l = "stampConn" <=> out.answer = <<>>)
  <2>1. CASE out.answer = <<>>
    <3>1. out' = [out EXCEPT !.pc = "stampConn"] /\ out.pc = "bindConn"
      BY <2>1 DEF BindConn, OutAt
    <3>2. QED
      BY <2>1, <3>1 DEF OutIInv, OutFields, NewDecision, Observed
  <2>2. CASE out.answer # <<>>
    <3>1. out' = [out EXCEPT !.pc = "bindInv", !.conn = outEpoch] /\ out.pc = "bindConn"
      BY <2>2 DEF BindConn, OutAt
    <3>2. QED
      BY <2>2, <3>1 DEF OutIInv, OutFields, NewDecision, Observed
  <2>3. QED
    BY <2>1, <2>2
<1>2. out.task = "decide" /\ out.action # "none" /\ ~out.bound
  BY <1>1 DEF OutIInv, TaskInv, RecordInv, BoundInv, Stamped
<1>3. QED
  BY <1>1, <1>2
     DEF OutIInv, Observed, TaskInv, RecordInv, BoundInv, Stamped, FirstAddress, OutAt

\* The validator of the binding never refuses a binding that was just built.
LEMMA StepBindInv == ASSUME OutIInv, BindInv PROVE OutIInv'
<1>1. /\ out.pc = "bindInv" /\ out.task = "decide" /\ out.answer # <<>>
      /\ out.answer \in Seq(AddressKinds) /\ DOMAIN out = OutFields
      /\ ~out.bound /\ out.action # "none"
  BY DEF OutIInv, TaskInv, RecordInv, BoundInv, Stamped, OutAt, BindInv
<1>2. PICK st, ev : <<st, ev>> = BindingStatus(out.answer, out.tls, out.reval, out.enabled)
  BY DEF BindingStatus
<1>3. ConnectionBindingValid(out.answer, out.tls, st, ev, FirstAddress)
  BY <1>1, <1>2, CascadesAgree DEF FirstAddress
<1>4. out' = [out EXCEPT !.inv = outEpoch, !.bound = TRUE, !.bselected = FirstAddress,
                  !.status = st, !.event = ev, !.pc = "stampConn"]
  <2>1. /\ BindingStatus(out.answer, out.tls, out.reval, out.enabled)[1] = st
        /\ BindingStatus(out.answer, out.tls, out.reval, out.enabled)[2] = ev
    BY <1>2
  <2> DEFINE s == BindingStatus(out.answer, out.tls, out.reval, out.enabled)
  <2>2. out' = [out EXCEPT !.inv = outEpoch, !.bound = TRUE, !.bselected = FirstAddress,
                     !.status = s[1], !.event = s[2],
                     !.pc = IF ConnectionBindingValid(out.answer, out.tls, s[1], s[2], FirstAddress)
                            THEN "stampConn" ELSE "raised"]
    BY Zenon DEF BindInv, FirstAddress
  <2> HIDE DEF s
  <2>3. s[1] = st /\ s[2] = ev
    BY <2>1 DEF s
  <2>4. QED
    BY <1>3, <2>2, <2>3
<1>5. /\ DOMAIN out' = OutFields /\ Observed' = Observed /\ out'.pc = "stampConn"
      /\ UNCHANGED <<out.action, out.reason, out.resolution, out.selected, out.task>>
      /\ out'.bound = TRUE /\ out'.bselected = FirstAddress
      /\ out'.status = st /\ out'.event = ev
  BY <1>1, <1>4 DEF OutFields, NewDecision, Observed
<1>6. RecordInv'
  <2>1. /\ <<out.action, out.reason>> = Verdict(out.answer, out.tls, out.reval, out.enabled)
        /\ out.resolution = IF AllPublic(out.answer) THEN "ALL_ALLOWLISTED_PUBLIC"
                                                    ELSE "DENIED_MIXED"
        /\ out.selected = FirstAddress
    BY <1>1 DEF OutIInv, RecordInv, Stamped
  <2>2. QED
    BY <1>1, <1>5, <2>1 DEF Observed, RecordInv, Stamped, FirstAddress
<1>7. BoundInv'
  BY <1>1, <1>2, <1>5 DEF Observed, BoundInv, Stamped, FirstAddress
<1>8. QED
  BY <1>1, <1>5, <1>6, <1>7 DEF OutIInv, Observed, TaskInv, OutAt

\* The first epoch of the record.
LEMMA StepStampConn == ASSUME OutIInv, StampConn PROVE OutIInv'
<1>1. /\ DOMAIN out' = OutFields /\ Observed' = Observed
      /\ UNCHANGED <<out.action, out.reason, out.resolution, out.selected, out.status,
                     out.event, out.bound, out.bselected, out.task>>
      /\ out'.pc = "stampInv" /\ out.pc = "stampConn"
  BY DEF OutIInv, StampConn, OutAt, OutFields, NewDecision, Observed
<1>2. QED
  BY <1>1
     DEF OutIInv, Observed, TaskInv, RecordInv, BoundInv, Stamped, FirstAddress, OutAt

\* validate_outbound_decision only refuses the record of an empty answer.
LEMMA OnlyEmptyRaises ==
    ASSUME OutIInv, Stamped, out.answer # <<>> PROVE OutboundValid
<1>1. out.action # "none" /\ out.answer \in Seq(AddressKinds)
  BY DEF OutIInv, RecordInv
<1>2. CASE out.reason = "URL_INVALID" /\ out.action = "DENY"
  BY <1>2 DEF OutboundValid, ReasonClasses
<1>3. CASE ~(out.reason = "URL_INVALID" /\ out.action = "DENY")
  <2>1. /\ <<out.action, out.reason>> = Verdict(out.answer, out.tls, out.reval, out.enabled)
        /\ out.resolution = IF AllPublic(out.answer) THEN "ALL_ALLOWLISTED_PUBLIC"
                                                    ELSE "DENIED_MIXED"
        /\ out.bound
    BY <1>1, <1>3 DEF OutIInv, RecordInv
  <2>2. <<out.status, out.event>> = BindingStatus(out.answer, out.tls, out.reval, out.enabled)
    BY <2>1 DEF OutIInv, BoundInv
  <2>3. /\ Verdict(out.answer, out.tls, out.reval, out.enabled)[1] = out.action
        /\ Verdict(out.answer, out.tls, out.reval, out.enabled)[2] = out.reason
    BY <2>1
  <2>4. /\ out.status = "VALIDATED" <=> out.action = "ALLOW"
        /\ out.reason \in ReasonClasses
        /\ out.status = "VALIDATED" =>
              AllPublic(out.answer) /\ out.tls = "MATCHED" /\ out.event = "MATCHED"
    BY <1>1, <2>2, <2>3, CascadesAgree
  <2>5. QED
    BY <2>1, <2>4 DEF OutboundValid
<1>4. QED
  BY <1>2, <1>3

\* The last epoch of the record, and its validator.
LEMMA StepStampInv == ASSUME OutIInv, StampInv PROVE OutIInv'
<1>1. PICK l \in {"decided", "raised"} :
         /\ DOMAIN out' = OutFields /\ Observed' = Observed
         /\ UNCHANGED <<out.action, out.reason, out.resolution, out.selected, out.status,
                        out.event, out.bound, out.bselected, out.task>>
         /\ out'.pc = l /\ out.pc = "stampInv" /\ (l = "decided" <=> OutboundValid)
  <2>1. CASE OutboundValid
    <3>1. out' = [out EXCEPT !.pc = "decided", !.dinv = outEpoch] /\ out.pc = "stampInv"
      BY <2>1, Zenon DEF StampInv, OutAt
    <3>2. QED
      BY <2>1, <3>1 DEF OutIInv, OutFields, NewDecision, Observed
  <2>2. CASE ~OutboundValid
    <3>1. out' = [out EXCEPT !.pc = "raised", !.dinv = outEpoch] /\ out.pc = "stampInv"
      BY <2>2, Zenon DEF StampInv, OutAt
    <3>2. QED
      BY <2>2, <3>1 DEF OutIInv, OutFields, NewDecision, Observed
  <2>3. QED
    BY <2>1, <2>2
<1>2. l = "raised" => out.answer = <<>>
  BY <1>1, OnlyEmptyRaises DEF Stamped
<1>3. QED
  BY <1>1, <1>2
     DEF OutIInv, Observed, TaskInv, RecordInv, BoundInv, Stamped, FirstAddress, OutAt

\* A transport is given an endpoint.
LEMMA StepConstruct == ASSUME OutIInv, Construct PROVE OutIInv'
<1>1. PICK e : out' = [out EXCEPT !.pc = "percent", !.task = "construct",
                                  !.endpoint = e, !.buf = e]
  BY DEF Construct
<1>2. MovesOn /\ out'.pc = "percent" /\ out'.task = "construct" /\ out.pc = "decided"
  BY <1>1 DEF OutIInv, Construct, OutAt, MovesOn, OutFields, NewDecision, Observed
<1>3. QED
  BY <1>2 DEF OutIInv, MovesOn, Observed, TaskInv, RecordInv, BoundInv, Stamped,
     FirstAddress, OutAt

\* _validate_binding accepts what it checked.
LEMMA StepAccept == ASSUME OutIInv, Accept PROVE OutIInv'
<1>1. PICK l \in {"ready", "refused"} :
         out' = [out EXCEPT !.pc = l] /\ (l = "ready" => BindingAccepted)
  BY DEF Accept
<1>2. /\ MovesOn /\ out'.pc = l /\ out'.task = out.task /\ out.task = "construct"
      /\ out'.path = out.path
  BY <1>1 DEF OutIInv, TaskInv, Accept, OutAt, MovesOn, OutFields, NewDecision, Observed
<1>3. QED
  BY <1>1, <1>2
     DEF OutIInv, MovesOn, Observed, TaskInv, RecordInv, BoundInv, Stamped, FirstAddress,
     OutAt, BindingAccepted

\* A fetch normalizes its target with the accepted binding in place.
LEMMA StepFetch == ASSUME OutIInv, Fetch PROVE OutIInv'
<1>1. PICK e : out' = [out EXCEPT !.pc = "percent", !.task = "fetch", !.asked = e, !.buf = e]
  BY DEF Fetch
<1>2. /\ MovesOn /\ out'.pc = "percent" /\ out'.task = "fetch" /\ out.task = "construct"
      /\ out'.path = out.path /\ BindingAccepted
  BY <1>1 DEF OutIInv, TaskInv, Fetch, OutAt, MovesOn, OutFields, NewDecision, Observed
<1>3. QED
  BY <1>2 DEF OutIInv, MovesOn, Observed, TaskInv, RecordInv, BoundInv, Stamped,
     FirstAddress, OutAt,
     BindingAccepted

\* fetch compares its target and sends, or refuses.
LEMMA StepSend == ASSUME OutIInv, Send PROVE OutIInv'
<1>1. PICK l \in {"sent", "refused"} : out' = [out EXCEPT !.pc = l]
  BY DEF Send
<1>2. /\ MovesOn /\ out'.pc = l /\ out'.task = out.task /\ out.task = "fetch"
      /\ out'.path = out.path
  BY <1>1 DEF OutIInv, TaskInv, Send, OutAt, MovesOn, OutFields, NewDecision, Observed
<1>3. QED
  BY <1>2 DEF OutIInv, MovesOn, Observed, TaskInv, RecordInv, BoundInv, Stamped,
     FirstAddress, OutAt,
     BindingAccepted

\* A fresh decision satisfies the invariant.
LEMMA InitOut == ASSUME OutInit PROVE OutIInv
<1>1. PICK shape \in {"ok", "invalid"}, url \in OutPaths, answer \in OutAnswers,
           tls \in {"MATCHED", "MISMATCHED"},
           reval \in {"MATCHED", "MISMATCHED", "DENIED"}, enabled \in BOOLEAN :
           out = NewDecision(shape, url, answer, tls, reval, enabled)
  BY DEF OutInit
<1>2. /\ DOMAIN out = OutFields /\ out.answer \in Seq(AddressKinds) /\ out.bound = FALSE
      /\ out.pc = "percent" /\ out.task = "decide" /\ out.action = "none"
      /\ out.status = "DENIED"
  BY <1>1, OutboundAssumption DEF OutFields, NewDecision
<1>3. QED
  BY <1>2 DEF OutIInv, TaskInv, RecordInv, BoundInv, Stamped, OutAt

\* Every step of a decision and its transport keeps the invariant.
LEMMA NextOut == OutIInv /\ [OutNext]_outVars => OutIInv'
<1> SUFFICES ASSUME OutIInv, [OutNext]_outVars PROVE OutIInv'
  OBVIOUS
<1>1. CASE OutInvalidate \/ UNCHANGED outVars
  <2>1. out' = out
    BY <1>1 DEF OutInvalidate, outVars
  <2>2. QED
    BY <2>1 DEF OutIInv, TaskInv, RecordInv, BoundInv, Stamped, FirstAddress, OutAt,
       BindingAccepted
<1>2. QED
  BY <1>1, StepPercent, StepDots, StepNormalized, StepResolution, StepBindConn, StepBindInv,
     StepStampConn, StepStampInv, StepConstruct, StepAccept, StepFetch, StepSend
     DEF OutNext, OutStep

\* The decision's two cascades give one verdict.
OneVerdict ==
    /\ OutAt("raised") => out.answer = <<>>
    /\ OutAt("decided") => (out.action = "ALLOW" <=> (out.bound /\ out.status = "VALIDATED"))

\* What is sent was allowed and bound, whatever the paths.
SentAsDecided ==
    OutAt("sent") =>
        /\ out.action = "ALLOW" /\ Range(out.answer) = {"public"}
        /\ out.selected = "public" /\ out.bselected = "public"
        /\ out.path = out.target
        /\ out.conn = out.dconn /\ out.inv = out.dinv

\* The invariant of a decision and its transport holds throughout.
THEOREM OutboundInvariant == OutSpec => []OutIInv
<1>1. OutInit => OutIInv
  BY InitOut
<1>2. QED
  BY <1>1, NextOut, PTL DEF OutSpec

\* Whatever was observed, evaluate_network's cascade allows just when the one of
\* build_connection_binding validates, and it raises from its own validator only for
\* an empty answer: what JudgesAgree says of a decision.
LEMMA CascadesGiveOneVerdict == OutSpec => []OneVerdict
<1>1. ASSUME OutIInv PROVE OneVerdict
  <2>1. ASSUME OutAt("decided")
        PROVE  out.action = "ALLOW" <=> (out.bound /\ out.status = "VALIDATED")
    <3>1. Stamped /\ out.action # "none" /\ out.answer \in Seq(AddressKinds)
      BY <1>1, <2>1 DEF OutIInv, RecordInv, Stamped, OutAt
    <3>2. CASE out.bound
      <4>1. /\ <<out.status, out.event>> =
                   BindingStatus(out.answer, out.tls, out.reval, out.enabled)
            /\ out.answer # <<>>
        BY <1>1, <3>2 DEF OutIInv, BoundInv
      <4>2. Verdict(out.answer, out.tls, out.reval, out.enabled)[1] = out.action
        <5>1. <<out.action, out.reason>> =
                 Verdict(out.answer, out.tls, out.reval, out.enabled)
          BY <1>1, <3>1, <3>2 DEF OutIInv, RecordInv
        <5>2. QED
          BY <5>1
      <4>3. QED
        BY <3>1, <3>2, <4>1, <4>2, CascadesAgree
    <3>3. CASE ~out.bound
      <4>1. \/ out.action = "DENY"
            \/ /\ <<out.action, out.reason>> =
                     Verdict(out.answer, out.tls, out.reval, out.enabled)
               /\ out.answer = <<>>
        BY <1>1, <3>1, <3>3 DEF OutIInv, RecordInv
      <4>2. out.action = "DENY"
        BY <4>1 DEF Verdict
      <4>3. QED
        BY <3>3, <4>2
    <3>4. QED
      BY <3>2, <3>3
  <2>2. QED
    BY <1>1, <2>1 DEF OneVerdict, OutIInv
<1>2. QED
  BY <1>1, OutboundInvariant, PTL

\* A request is only sent for an ALLOW whose answer was public throughout, to the
\* decided path, on a binding and a record of the same epochs: SentWhereDecided but
\* for the spelling of the path.
LEMMA SendsAsDecided == OutSpec => []SentAsDecided
<1>1. ASSUME OutIInv, OutAt("sent") PROVE SentAsDecided
  <2>1. BindingAccepted /\ out.bound /\ out.answer \in Seq(AddressKinds)
    BY <1>1 DEF OutIInv, TaskInv, OutAt, BindingAccepted
  <2>2. /\ <<out.status, out.event>> = BindingStatus(out.answer, out.tls, out.reval, out.enabled)
        /\ out.answer # <<>> /\ out.bselected = FirstAddress
    BY <1>1, <2>1 DEF OutIInv, BoundInv
  <2>3. AllPublic(out.answer)
    BY <2>1, <2>2, CascadesAgree DEF BindingAccepted
  <2>4. QED
    BY <2>1, <2>2, <2>3, PublicAnswer DEF SentAsDecided, BindingAccepted, FirstAddress
<1>2. OutIInv => SentAsDecided
  BY <1>1 DEF SentAsDecided
<1>3. QED
  BY <1>2, OutboundInvariant, PTL

---------------------------------------------------------------------------
(* The paths of the decision and of its transport.                         *)

\* A path normalize_url returns.
Normal(p) == p \in Strings /\ p # <<>> /\ Rooted(p) /\ Undotted(p)

\* The decided path is what the loop makes of the URL.
TargetInv ==
    out.target # NoPath =>
        /\ Normal(out.target) /\ out.shape = "ok" /\ ~Malformed(out.url)
        /\ \E s : Arrives(out.url, <<>>, s) /\ out.target = Joined(s)

\* The decision's own path.
DecideInv ==
    /\ out.url \in UrlPaths /\ out.endpoint \in UrlPaths /\ out.target \in UrlPaths
    /\ out.buf \in UrlPaths
    /\ OutAt("dots") => out.buf \in Strings /\ out.segs \in Seq(Segments)
    /\ (out.pc \in {"resolve", "bindConn", "bindInv"} \/ out.action = "ALLOW") =>
          out.target # NoPath
    /\ (out.task = "decide" /\ OutAt("percent")) => out.buf = out.url
    /\ (out.task = "decide" /\ OutAt("dots")) =>
          /\ out.shape = "ok" /\ ~Malformed(out.url)
          /\ Arrives(out.url, out.buf, out.segs)

\* The path of a transport for the URL that was judged or for its normalized form.
Again == out.task = "construct" /\ out.action = "ALLOW" /\ out.endpoint \in {out.url, out.target}

AgainInv ==
    Again =>
        /\ OutAt("percent") => out.buf = out.endpoint
        /\ OutAt("dots") =>
              /\ out.endpoint = out.url => Arrives(out.url, out.buf, out.segs)
              /\ out.endpoint = out.target =>
                    FlattenSeq(out.segs) \o out.buf = out.target /\ Undotted(out.buf)
        /\ OutAt("construct") => out.path = out.target
        /\ OutAt("refused") => out.conn # out.dconn \/ out.inv # out.dinv

\* The inductive invariant of the paths.
PathInv == TargetInv /\ DecideInv /\ AgainInv

\* A rewritten path is a path.
LEMMA StringsArePaths == ASSUME NEW p \in Strings, Rooted(p) PROVE p \in UrlPaths
<1>1. CleanTokens \subseteq Tokens
  BY DEF CleanTokens
<1>2. p \in Seq(Tokens)
  BY <1>1, SeqMonotonic DEF Strings
<1>3. QED
  BY <1>2 DEF UrlPaths

\* The fields PathInv is about that only some steps touch.
SamePaths == UNCHANGED <<out.url, out.shape, out.target, out.endpoint, out.buf, out.segs>>

\* The buffer is rewritten; a transport for the decided URL is not refused.
LEMMA PathPercent == ASSUME OutIInv, PathInv, Percent PROVE PathInv'
<1>0. DOMAIN out = OutFields /\ out.pc = "percent"
  BY DEF OutIInv, Percent, OutAt
<1>1. CASE out.shape = "ok" /\ ~Malformed(out.buf)
  <2> DEFINE w == Rewritten(out.buf)
  <2>1. out' = [out EXCEPT !.pc = "dots", !.segs = <<>>, !.buf = w]
    BY <1>1, Zenon DEF Percent, Rewritten
  <2>2. w \in Strings /\ w # <<>> /\ Rooted(w) /\ w \in UrlPaths
    BY <1>1, RewrittenIsClean, StringsArePaths DEF PathInv, DecideInv
  <2>3. Arrives(out.buf, w, <<>>)
    BY LoopBegins
  <2> HIDE DEF w
  <2>4. /\ out'.pc = "dots" /\ out'.segs = <<>> /\ out'.buf = w /\ out'.task = out.task
        /\ UNCHANGED <<out.url, out.shape, out.target, out.endpoint, out.action>>
    BY <1>0, <2>1 DEF OutFields, NewDecision
  <2>5. TargetInv'
    BY <2>4 DEF PathInv, TargetInv
  <2>6. DecideInv'
    <3>1. <<>> \in Seq(Segments)
      OBVIOUS
    <3>2. ASSUME out.task = "decide"
          PROVE  out.shape = "ok" /\ ~Malformed(out.url) /\ Arrives(out.url, w, <<>>)
      BY <1>0, <1>1, <2>3, <3>2 DEF PathInv, DecideInv, OutAt
    <3>3. QED
      BY <2>2, <2>4, <3>1, <3>2 DEF PathInv, DecideInv, OutAt
  <2>7. AgainInv'
    <3>1. SUFFICES ASSUME Again
                   PROVE  /\ out.endpoint = out.url => Arrives(out.url, w, <<>>)
                          /\ out.endpoint = out.target =>
                                FlattenSeq(<<>>) \o w = out.target /\ Undotted(w)
      BY <2>4 DEF Again, AgainInv, OutAt
    <3>2. out.buf = out.endpoint /\ out.target # NoPath
      BY <1>0, <3>1 DEF PathInv, AgainInv, DecideInv, Again, OutAt
    <3>3. ASSUME out.endpoint = out.target
          PROVE  FlattenSeq(<<>>) \o w = out.target /\ Undotted(w)
      <4>1. Normal(out.target)
        BY <3>2 DEF PathInv, TargetInv
      <4>2. w = out.target
        BY <3>2, <3>3, <4>1, RewrittenOnce DEF w, Normal
      <4>3. <<>> \o w = w
        BY <2>2 DEF Strings
      <4>4. QED
        BY <4>1, <4>2, <4>3, FlattenEmpty DEF Normal
    <3>4. QED
      BY <2>3, <3>2, <3>3
  <2>8. QED
    BY <2>5, <2>6, <2>7 DEF PathInv
<1>2. CASE ~(out.shape = "ok" /\ ~Malformed(out.buf)) /\ out.task = "decide"
  <2>1. out' = [out EXCEPT !.pc = "stampConn", !.action = "DENY", !.reason = "URL_INVALID"]
    BY <1>2 DEF Percent
  <2>2. SamePaths /\ out'.pc = "stampConn" /\ out'.task = "decide" /\ out'.action = "DENY"
    BY <1>0, <1>2, <2>1 DEF SamePaths, OutFields, NewDecision
  <2>3. QED
    BY <2>2 DEF SamePaths, PathInv, TargetInv, DecideInv, AgainInv, Again, OutAt
<1>3. CASE ~(out.shape = "ok" /\ ~Malformed(out.buf)) /\ out.task # "decide"
  <2>1. out' = [out EXCEPT !.pc = "refused"]
    BY <1>3 DEF Percent
  <2>2. SamePaths /\ out'.pc = "refused" /\ UNCHANGED <<out.task, out.action>>
    BY <1>0, <2>1 DEF SamePaths, OutFields, NewDecision
  <2>3. ~Again
    <3>1. SUFFICES ASSUME Again PROVE FALSE
      OBVIOUS
    <3>2. out.buf = out.endpoint /\ out.target # NoPath
      BY <1>0, <3>1 DEF PathInv, AgainInv, DecideInv, Again, OutAt
    <3>3. out.shape = "ok" /\ ~Malformed(out.url) /\ Normal(out.target)
      BY <3>2 DEF PathInv, TargetInv
    <3>4. ~Malformed(out.target)
      BY <3>3, RewrittenOnce DEF Normal
    <3>5. QED
      BY <1>3, <3>1, <3>2, <3>3, <3>4 DEF Again
  <2>4. QED
    BY <1>3, <2>2, <2>3
       DEF SamePaths, PathInv, TargetInv, DecideInv, AgainInv, Again, OutAt
<1>4. QED
  BY <1>1, <1>2, <1>3

\* An iteration goes on from where the loop was, and leaves an undotted path whole.
LEMMA PathDots == ASSUME OutIInv, PathInv, Dots PROVE PathInv'
<1> DEFINE b == RemoveDots(out.buf, out.segs).buf
           s == RemoveDots(out.buf, out.segs).segs
<1>1. /\ DOMAIN out = OutFields /\ out.pc = "dots" /\ out.buf # <<>>
      /\ out' = [out EXCEPT !.buf = b, !.segs = s]
  BY DEF OutIInv, Dots, OutAt
<1>2. out.buf \in Strings /\ Rooted(out.buf) /\ out.segs \in Seq(Segments)
  BY <1>1 DEF PathInv, DecideInv, OutAt, UrlPaths
<1>3. b \in Strings /\ Rooted(b) /\ s \in Seq(Segments) /\ b \in UrlPaths
  <2>1. b \in Strings /\ Rooted(b) /\ s \in Seq(Segments)
    BY <1>1, <1>2, RemoveDotsKeeps
  <2>2. QED
    BY <2>1, StringsArePaths
<1>4. Arrives(out.url, out.buf, out.segs) => Arrives(out.url, b, s)
  BY <1>1, LoopGoesOn
<1>5. ASSUME FlattenSeq(out.segs) \o out.buf = out.target, Undotted(out.buf)
      PROVE  FlattenSeq(s) \o b = out.target /\ Undotted(b)
  <2>1. PICK f \in Segments, r \in Strings :
           /\ RemoveDots(out.buf, out.segs) = [buf |-> r, segs |-> Append(out.segs, f)]
           /\ f \o r = out.buf /\ Undotted(r)
    BY <1>1, <1>2, <1>5, RemoveDotsUndotted
  <2>2. b = r /\ s = Append(out.segs, f)
    BY <2>1
  <2>3. /\ out.segs \in Seq(Seq(CleanTokens)) /\ f \in Seq(CleanTokens)
        /\ r \in Seq(CleanTokens)
    <3>1. Segments \subseteq Seq(CleanTokens)
      BY DEF Segments, Strings
    <3>2. out.segs \in Seq(Seq(CleanTokens))
      BY <1>2, <3>1, SeqMonotonic
    <3>3. QED
      BY <3>1, <3>2 DEF Strings
  <2>4. FlattenSeq(Append(out.segs, f)) = FlattenSeq(out.segs) \o f
    BY <2>3, FlattenAppend
  <2>5. FlattenSeq(out.segs) \in Seq(CleanTokens)
    BY <1>2, FlattenSegments DEF Strings
  <2> DEFINE p == FlattenSeq(out.segs)
  <2>6. (p \o f) \o r = p \o (f \o r)
    <3> HIDE DEF p
    <3>1. p \in Seq(CleanTokens)
      BY <2>5 DEF p
    <3>2. QED
      BY <2>3, <3>1, ConcatAssociative
  <2>7. QED
    BY <1>5, <2>1, <2>2, <2>4, <2>6
<1> HIDE DEF b, s
<1>6. /\ out'.pc = "dots" /\ out'.segs = s /\ out'.buf = b /\ out'.task = out.task
      /\ UNCHANGED <<out.url, out.shape, out.target, out.endpoint, out.action>>
  BY <1>1 DEF OutFields, NewDecision
<1>7. TargetInv'
  BY <1>6 DEF PathInv, TargetInv
<1>8. DecideInv'
  BY <1>1, <1>3, <1>4, <1>6 DEF PathInv, DecideInv, OutAt
<1>9. AgainInv'
  BY <1>1, <1>4, <1>5, <1>6 DEF PathInv, AgainInv, Again, OutAt
<1>10. QED
  BY <1>7, <1>8, <1>9 DEF PathInv

\* A transport for the decided URL arrives at the decided path.
LEMMA PathNormalized == ASSUME OutIInv, PathInv, Normalized PROVE PathInv'
<1> DEFINE p == Joined(out.segs)
<1>1. DOMAIN out = OutFields /\ out.pc = "dots" /\ out.buf = <<>> /\ out.segs \in Seq(Segments)
  BY DEF OutIInv, Normalized, OutAt, PathInv, DecideInv
<1>2. Normal(p) /\ p \in UrlPaths /\ p # NoPath
  BY <1>1, JoinedIsNormal, StringsArePaths DEF Normal, NoPath
<1>3. CASE out.task = "decide"
  <2>1. out' = [out EXCEPT !.pc = "resolve", !.target = p]
    BY <1>3 DEF Normalized
  <2>2. /\ out.shape = "ok" /\ ~Malformed(out.url) /\ Arrives(out.url, <<>>, out.segs)
    BY <1>1, <1>3 DEF PathInv, DecideInv, OutAt
  <2>3. \E s : Arrives(out.url, <<>>, s) /\ p = Joined(s)
    BY <2>2
  <2> HIDE DEF p
  <2>4. /\ out'.pc = "resolve" /\ out'.target = p /\ out'.task = "decide"
        /\ UNCHANGED <<out.url, out.shape, out.endpoint, out.buf, out.segs, out.action>>
    BY <1>1, <1>3, <2>1 DEF OutFields, NewDecision
  <2>5. TargetInv'
    BY <1>2, <2>2, <2>3, <2>4 DEF TargetInv
  <2>6. DecideInv' /\ AgainInv'
    BY <1>2, <2>4 DEF PathInv, DecideInv, AgainInv, Again, OutAt
  <2>7. QED
    BY <2>5, <2>6 DEF PathInv
<1>4. CASE out.task = "construct"
  <2>1. out' = [out EXCEPT !.pc = "construct", !.path = p]
    BY <1>4 DEF Normalized
  <2>2. ASSUME Again PROVE p = out.target
    <3>1. out.target # NoPath
      BY <2>2 DEF PathInv, DecideInv, Again
    <3>2. CASE out.endpoint = out.url
      <4>1. Arrives(out.url, <<>>, out.segs)
        BY <1>1, <2>2, <3>2 DEF PathInv, AgainInv, OutAt
      <4>2. PICK s : Arrives(out.url, <<>>, s) /\ out.target = Joined(s)
        BY <3>1 DEF PathInv, TargetInv
      <4>3. s = out.segs
        BY <4>1, <4>2, LoopEndsOnce
      <4>4. QED
        BY <4>2, <4>3
    <3>3. CASE out.endpoint = out.target
      <4>1. FlattenSeq(out.segs) \o <<>> = out.target
        BY <1>1, <2>2, <3>3 DEF PathInv, AgainInv, OutAt
      <4>2. FlattenSeq(out.segs) \in Seq(CleanTokens)
        BY <1>1, FlattenSegments DEF Strings
      <4>3. FlattenSeq(out.segs) \o <<>> = FlattenSeq(out.segs)
        BY <4>2, ConcatEmptySeq
      <4>4. FlattenSeq(out.segs) = out.target
        BY <4>1, <4>3
      <4>5. QED
        BY <3>1, <4>4 DEF Joined, NoPath
    <3>4. QED
      BY <2>2, <3>2, <3>3 DEF Again
  <2> HIDE DEF p
  <2>3. /\ out'.pc = "construct" /\ out'.path = p /\ out'.task = "construct"
        /\ SamePaths /\ UNCHANGED out.action
    BY <1>1, <1>4, <2>1 DEF OutFields, NewDecision, SamePaths
  <2>4. TargetInv' /\ DecideInv'
    BY <2>3 DEF SamePaths, PathInv, TargetInv, DecideInv, OutAt
  <2>5. Again' => Again
    BY <1>4, <2>3 DEF SamePaths, Again
  <2>6. AgainInv'
    BY <2>2, <2>3, <2>5 DEF SamePaths, AgainInv, OutAt
  <2>7. QED
    BY <2>4, <2>6 DEF PathInv
<1>5. CASE out.task = "fetch"
  <2>1. out' = [out EXCEPT !.pc = "fetch", !.asked = p]
    BY <1>5 DEF Normalized
  <2> HIDE DEF p
  <2>2. out'.pc = "fetch" /\ out'.task = "fetch" /\ SamePaths /\ UNCHANGED out.action
    BY <1>1, <1>5, <2>1 DEF OutFields, NewDecision, SamePaths
  <2>3. QED
    BY <2>2 DEF SamePaths, PathInv, TargetInv, DecideInv, AgainInv, Again, OutAt
<1>6. QED
  BY <1>3, <1>4, <1>5 DEF OutIInv, TaskInv

\* Only a URL that normalized gets a verdict.
LEMMA PathResolution == ASSUME OutIInv, PathInv, Resolution PROVE PathInv'
<1>1. /\ SamePaths /\ out'.pc = "bindConn" /\ out'.task = out.task /\ out.pc = "resolve"
  BY DEF OutIInv, Resolution, OutAt, OutFields, NewDecision, SamePaths
<1>2. out.task = "decide" /\ out.target # NoPath
  BY <1>1 DEF OutIInv, TaskInv, PathInv, DecideInv
<1>3. QED
  BY <1>1, <1>2 DEF SamePaths, PathInv, TargetInv, DecideInv, AgainInv, Again, OutAt

\* The binding and the stamps leave the paths alone.
LEMMA PathRecord ==
    ASSUME OutIInv, PathInv, BindConn \/ BindInv \/ StampConn \/ StampInv PROVE PathInv'
<1>1. /\ SamePaths /\ out'.task = out.task /\ out'.action = out.action
      /\ out.pc \in {"bindConn", "bindInv", "stampConn", "stampInv"}
      /\ out'.pc \in {"bindInv", "stampConn", "stampInv", "decided", "raised"}
      /\ out'.pc = "bindInv" => out.pc = "bindConn"
  <2>1. CASE BindConn
    <3>1. CASE out.answer = <<>>
      <4>1. out' = [out EXCEPT !.pc = "stampConn"] /\ out.pc = "bindConn"
        BY <2>1, <3>1 DEF BindConn, OutAt
      <4>2. QED
        BY <4>1 DEF OutIInv, OutFields, NewDecision, SamePaths
    <3>2. CASE out.answer # <<>>
      <4>1. out' = [out EXCEPT !.pc = "bindInv", !.conn = outEpoch] /\ out.pc = "bindConn"
        BY <2>1, <3>2 DEF BindConn, OutAt
      <4>2. QED
        BY <4>1 DEF OutIInv, OutFields, NewDecision, SamePaths
    <3>3. QED
      BY <3>1, <3>2
  <2>2. CASE BindInv
    <3> DEFINE s == BindingStatus(out.answer, out.tls, out.reval, out.enabled)
               first == IF AllPublic(out.answer) THEN Head(out.answer) ELSE NoAddress
               l == IF ConnectionBindingValid(out.answer, out.tls, s[1], s[2], first)
                    THEN "stampConn" ELSE "raised"
    <3>1. out' = [out EXCEPT !.inv = outEpoch, !.bound = TRUE, !.bselected = first,
                      !.status = s[1], !.event = s[2], !.pc = l]
      BY <2>2, Zenon DEF BindInv
    <3>2. l \in {"stampConn", "raised"} /\ out.pc = "bindInv" /\ DOMAIN out = OutFields
      BY <2>2 DEF OutIInv, BindInv, OutAt
    <3> HIDE DEF s, first, l
    <3>3. QED
      BY <3>1, <3>2 DEF OutFields, NewDecision, SamePaths
  <2>3. CASE StampConn
    BY <2>3 DEF OutIInv, StampConn, OutAt, OutFields, NewDecision, SamePaths
  <2>4. CASE StampInv
    <3>1. CASE OutboundValid
      <4>1. out' = [out EXCEPT !.pc = "decided", !.dinv = outEpoch] /\ out.pc = "stampInv"
        BY <2>4, <3>1, Zenon DEF StampInv, OutAt
      <4>2. QED
        BY <4>1 DEF OutIInv, OutFields, NewDecision, SamePaths
    <3>2. CASE ~OutboundValid
      <4>1. out' = [out EXCEPT !.pc = "raised", !.dinv = outEpoch] /\ out.pc = "stampInv"
        BY <2>4, <3>2, Zenon DEF StampInv, OutAt
      <4>2. QED
        BY <4>1 DEF OutIInv, OutFields, NewDecision, SamePaths
    <3>3. QED
      BY <3>1, <3>2
  <2>5. QED
    BY <2>1, <2>2, <2>3, <2>4
<1>2. TargetInv' /\ DecideInv'
  BY <1>1 DEF SamePaths, PathInv, TargetInv, DecideInv, OutAt
<1>3. AgainInv'
  BY <1>1 DEF AgainInv, Again, OutAt
<1>4. QED
  BY <1>2, <1>3 DEF PathInv

\* A transport begins with its endpoint.
LEMMA PathConstruct == ASSUME OutIInv, PathInv, Construct PROVE PathInv'
<1>1. PICK e \in {out.url, out.target} \cup OutPaths :
         out' = [out EXCEPT !.pc = "percent", !.task = "construct", !.endpoint = e, !.buf = e]
  BY DEF Construct
<1>2. e \in UrlPaths
  BY OutboundAssumption DEF PathInv, DecideInv, UrlPaths, Rooted
<1>3. /\ out'.pc = "percent" /\ out'.task = "construct" /\ out'.endpoint = e /\ out'.buf = e
      /\ UNCHANGED <<out.url, out.shape, out.target, out.action>>
  BY <1>1 DEF OutIInv, OutFields, NewDecision
<1>4. TargetInv' /\ DecideInv'
  BY <1>2, <1>3 DEF PathInv, TargetInv, DecideInv, OutAt
<1>5. AgainInv'
  BY <1>3 DEF AgainInv, OutAt
<1>6. QED
  BY <1>4, <1>5 DEF PathInv

\* An ALLOW is only refused for a path that is not the decided one, or for epochs that
\* differ.
LEMMA AllowAccepted ==
    ASSUME OutIInv, out.action = "ALLOW", Stamped, out.answer # <<>>, out.path = out.target,
           out.conn = out.dconn, out.inv = out.dinv
    PROVE  BindingAccepted
<1>1. /\ <<out.action, out.reason>> = Verdict(out.answer, out.tls, out.reval, out.enabled)
      /\ out.resolution = IF AllPublic(out.answer) THEN "ALL_ALLOWLISTED_PUBLIC" ELSE "DENIED_MIXED"
      /\ out.selected = FirstAddress /\ out.bound
  BY DEF OutIInv, RecordInv
<1>2. /\ <<out.status, out.event>> = BindingStatus(out.answer, out.tls, out.reval, out.enabled)
      /\ out.bselected = FirstAddress /\ out.answer \in Seq(AddressKinds)
  BY <1>1 DEF OutIInv, BoundInv
<1>3. Verdict(out.answer, out.tls, out.reval, out.enabled)[1] = "ALLOW"
  BY <1>1
<1>4. /\ out.status = "VALIDATED" /\ AllPublic(out.answer) /\ out.tls = "MATCHED"
      /\ out.event = "MATCHED"
      /\ ConnectionBindingValid(out.answer, out.tls, out.status, out.event,
                                IF AllPublic(out.answer) THEN Head(out.answer) ELSE NoAddress)
  BY <1>2, <1>3, CascadesAgree
<1>5. QED
  BY <1>1, <1>2, <1>4 DEF BindingAccepted, FirstAddress

\* _validate_binding only refuses a transport for the decided URL over epochs.
LEMMA PathAccept == ASSUME OutIInv, PathInv, Accept PROVE PathInv'
<1>1. PICK l \in {"ready", "refused"} :
         out' = [out EXCEPT !.pc = l] /\ (l = "refused" <=> ~BindingAccepted)
  BY DEF Accept
<1>2. /\ SamePaths /\ out'.pc = l /\ out.pc = "construct"
      /\ UNCHANGED <<out.task, out.action, out.conn, out.inv, out.dconn, out.dinv>>
  BY <1>1 DEF OutIInv, Accept, OutAt, OutFields, NewDecision, SamePaths
<1>3. TargetInv' /\ DecideInv'
  BY <1>2 DEF SamePaths, PathInv, TargetInv, DecideInv, OutAt
<1>4. AgainInv'
  <2>1. SUFFICES ASSUME Again, l = "refused", out.conn = out.dconn, out.inv = out.dinv
                 PROVE  FALSE
    BY <1>2 DEF SamePaths, AgainInv, Again, OutAt
  <2>2. out.path = out.target /\ out.action = "ALLOW" /\ Stamped
    BY <1>2, <2>1 DEF PathInv, AgainInv, Again, OutAt, Stamped
  <2>3. out.answer # <<>>
    BY <2>2 DEF OutIInv, RecordInv, Verdict
  <2>4. QED
    BY <1>1, <2>1, <2>2, <2>3, AllowAccepted
<1>5. QED
  BY <1>3, <1>4 DEF PathInv

\* A fetch begins with its target.
LEMMA PathFetch == ASSUME OutIInv, PathInv, Fetch PROVE PathInv'
<1>1. PICK e \in {out.url, out.endpoint, out.target} \cup OutPaths :
         out' = [out EXCEPT !.pc = "percent", !.task = "fetch", !.asked = e, !.buf = e]
  BY DEF Fetch
<1>2. e \in UrlPaths
  BY OutboundAssumption DEF PathInv, DecideInv, UrlPaths, Rooted
<1>3. /\ out'.pc = "percent" /\ out'.task = "fetch" /\ out'.buf = e
      /\ UNCHANGED <<out.url, out.shape, out.target, out.endpoint, out.action>>
  BY <1>1 DEF OutIInv, OutFields, NewDecision
<1>4. QED
  BY <1>2, <1>3 DEF PathInv, TargetInv, DecideInv, AgainInv, Again, OutAt

\* Sending leaves the paths alone.
LEMMA PathSend == ASSUME OutIInv, PathInv, Send PROVE PathInv'
<1>1. PICK l \in {"sent", "refused"} : out' = [out EXCEPT !.pc = l]
  BY DEF Send
<1>2. SamePaths /\ out'.pc = l /\ out.task = "fetch" /\ UNCHANGED <<out.task, out.action>>
  BY <1>1 DEF OutIInv, TaskInv, Send, OutAt, OutFields, NewDecision, SamePaths
<1>3. QED
  BY <1>2 DEF SamePaths, PathInv, TargetInv, DecideInv, AgainInv, Again, OutAt

\* Before a decision there is no target.
LEMMA InitPath == ASSUME OutInit PROVE PathInv
<1>1. PICK shape \in {"ok", "invalid"}, url \in OutPaths, answer \in OutAnswers,
           tls \in {"MATCHED", "MISMATCHED"},
           reval \in {"MATCHED", "MISMATCHED", "DENIED"}, enabled \in BOOLEAN :
           out = NewDecision(shape, url, answer, tls, reval, enabled)
  BY DEF OutInit
<1>2. url \in UrlPaths /\ NoPath \in UrlPaths
  BY OutboundAssumption DEF UrlPaths, Rooted, NoPath
<1>3. /\ out.url = url /\ out.buf = url /\ out.endpoint = NoPath /\ out.target = NoPath
      /\ out.pc = "percent" /\ out.task = "decide" /\ out.action = "none"
  BY <1>1 DEF NewDecision
<1>4. QED
  BY <1>2, <1>3 DEF PathInv, TargetInv, DecideInv, AgainInv, Again, OutAt

\* Every step keeps the invariant of the paths.
LEMMA NextPath == OutIInv /\ PathInv /\ [OutNext]_outVars => PathInv'
<1> SUFFICES ASSUME OutIInv, PathInv, [OutNext]_outVars PROVE PathInv'
  OBVIOUS
<1>1. CASE OutInvalidate \/ UNCHANGED outVars
  <2>1. out' = out
    BY <1>1 DEF OutInvalidate, outVars
  <2>2. QED
    BY <2>1 DEF PathInv, TargetInv, DecideInv, AgainInv, Again, OutAt
<1>2. QED
  BY <1>1, PathPercent, PathDots, PathNormalized, PathResolution, PathRecord, PathConstruct,
     PathAccept, PathFetch, PathSend DEF OutNext, OutStep

\* The invariants of the cascades and of the paths hold throughout.
THEOREM PathsInvariant == OutSpec => [](OutIInv /\ PathInv)
<1>1. OutInit => PathInv
  BY InitPath
<1>2. QED
  BY <1>1, NextPath, OutboundInvariant, PTL DEF OutSpec

\* The three judges of an outbound call agree whatever was observed and however the
\* URL is spelled: evaluate_network allows just when build_connection_binding
\* validates, raises only for an empty answer, and a transport for the URL or for its
\* normalized form, which is normalized again, is accepted unless the epoch moved.
THEOREM JudgesGiveOneVerdict == OutSpec => []JudgesAgree
<1>1. ASSUME OutIInv, PathInv, OneVerdict PROVE JudgesAgree
  BY <1>1 DEF JudgesAgree, OneVerdict, PathInv, AgainInv, Again
<1>2. QED
  BY <1>1, PathsInvariant, CascadesGiveOneVerdict, PTL

\* A request is only sent for an ALLOW whose answer was public throughout, on a binding
\* and a record of the same epochs, and to the decided path, which has no dot segment
\* and no escaped delimiter left in it.
THEOREM SentWhereItWasDecided == OutSpec => []SentWhereDecided
<1>1. ASSUME OutIInv, PathInv, SentAsDecided, OutAt("sent") PROVE SentWhereDecided
  <2>1. Normal(out.target)
    BY <1>1 DEF SentAsDecided, PathInv, DecideInv, TargetInv
  <2>2. out.path = out.target
    BY <1>1 DEF SentAsDecided
  <2>3. NoDotSegment(out.target)
    BY <2>1, UndottedPath DEF Normal, Strings
  <2>4. Range(out.target) \cap {"%", "%2f", "%2e", "%c3"} = {}
    <3>1. \A i \in DOMAIN out.target : out.target[i] \in CleanTokens
      BY <2>1 DEF Normal, Strings
    <3>2. QED
      BY <3>1 DEF Range, CleanTokens
  <2>5. QED
    BY <1>1, <2>2, <2>3, <2>4 DEF SentAsDecided, SentWhereDecided
<1>2. ASSUME ~OutAt("sent") PROVE SentWhereDecided
  BY <1>2 DEF SentWhereDecided
<1>3. QED
  BY <1>1, <1>2, PathsInvariant, SendsAsDecided, PTL

---------------------------------------------------------------------------
(* The types.                                                              *)

\* What OutTypeOK says of the fields the other invariants do not type.
FieldsTyped ==
    /\ out.pc \in OutPCs
    /\ out.path \in UrlPaths /\ out.asked \in UrlPaths
    /\ out.action \in {"none", "ALLOW", "DENY"}
    /\ out.reason \in ReasonClasses \cup {"DNS_UNVALIDATED"}
    /\ out.status \in {"VALIDATED", "DENIED", "STALE"}
    /\ out.event \in {"MATCHED", "MISMATCHED", "DENIED"}
    /\ out.selected \in AddressKinds \cup {NoAddress}
    /\ out.bselected \in AddressKinds \cup {NoAddress}
    /\ out.conn \in OutEpochs /\ out.inv \in OutEpochs
    /\ out.dconn \in OutEpochs /\ out.dinv \in OutEpochs
    /\ outEpoch \in 0..OutMaxEpoch

\* The fields that only the judges write.
SameVerdict ==
    UNCHANGED <<out.action, out.reason, out.status, out.event, out.selected, out.bselected,
                out.conn, out.inv, out.dconn, out.dinv, outEpoch>>

\* The judges stay within their vocabularies.
LEMMA VerdictsAre ==
    ASSUME NEW answer \in Seq(AddressKinds), NEW tls, NEW reval, NEW enabled
    PROVE  /\ Verdict(answer, tls, reval, enabled)[1] \in {"none", "ALLOW", "DENY"}
           /\ Verdict(answer, tls, reval, enabled)[2] \in ReasonClasses \cup {"DNS_UNVALIDATED"}
           /\ BindingStatus(answer, tls, reval, enabled)[1] \in {"VALIDATED", "DENIED", "STALE"}
           /\ BindingStatus(answer, tls, reval, enabled)[2] \in {"MATCHED", "MISMATCHED", "DENIED"}
           /\ (IF AllPublic(answer) THEN Head(answer) ELSE NoAddress) \in AddressKinds \cup {NoAddress}
<1>1. Verdict(answer, tls, reval, enabled) \in
         {<<"DENY", "DNS_UNVALIDATED">>, <<"DENY", "PRIVATE_ADDRESS">>,
          <<"DENY", "TLS_IDENTITY_MISMATCH">>, <<"DENY", "DNS_REBINDING">>,
          <<"DENY", "EXACT_BINDING_MISSING">>, <<"ALLOW", "NONE">>}
  BY DEF Verdict
<1>2. BindingStatus(answer, tls, reval, enabled) \in
         {<<"DENIED", "DENIED">>, <<"DENIED", "MISMATCHED">>, <<"STALE", "MISMATCHED">>,
          <<"VALIDATED", "MATCHED">>}
  BY DEF BindingStatus
<1>3. AllPublic(answer) => Head(answer) \in AddressKinds
  BY PublicAnswer DEF AddressKinds
<1>4. QED
  BY <1>1, <1>2, <1>3 DEF ReasonClasses

\* Every operation of a decision and its transport keeps the fields typed.
LEMMA FieldsStep ==
    ASSUME OutIInv, PathInv, FieldsTyped, OutStep PROVE FieldsTyped'
<1>0. DOMAIN out = OutFields /\ out.answer \in Seq(AddressKinds)
  BY DEF OutIInv
<1>1. ASSUME SameVerdict, out'.pc \in OutPCs, out'.path \in UrlPaths, out'.asked \in UrlPaths
      PROVE  FieldsTyped'
  BY <1>1 DEF SameVerdict, FieldsTyped
<1>2. CASE Percent
  <2>1. CASE out.shape = "ok" /\ ~Malformed(out.buf)
    <3>1. PICK b : out' = [out EXCEPT !.pc = "dots", !.segs = <<>>, !.buf = b]
      BY <1>2, <2>1, Zenon DEF Percent
    <3>2. outEpoch' = outEpoch
      BY <1>2 DEF Percent
    <3>3. QED
      BY <1>0, <1>1, <3>1, <3>2
         DEF OutFields, NewDecision, SameVerdict, FieldsTyped, OutPCs
  <2>2. CASE ~(out.shape = "ok" /\ ~Malformed(out.buf)) /\ out.task = "decide"
    <3>1. out' = [out EXCEPT !.pc = "stampConn", !.action = "DENY", !.reason = "URL_INVALID"]
      BY <1>2, <2>2 DEF Percent
    <3>2. outEpoch' = outEpoch
      BY <1>2 DEF Percent
    <3>3. QED
      BY <1>0, <3>1, <3>2 DEF OutFields, NewDecision, FieldsTyped, OutPCs, ReasonClasses
  <2>3. CASE ~(out.shape = "ok" /\ ~Malformed(out.buf)) /\ out.task # "decide"
    <3>1. out' = [out EXCEPT !.pc = "refused"] /\ outEpoch' = outEpoch
      BY <1>2, <2>3 DEF Percent
    <3>2. QED
      BY <1>0, <1>1, <3>1 DEF OutFields, NewDecision, SameVerdict, FieldsTyped, OutPCs
  <2>4. QED
    BY <2>1, <2>2, <2>3
<1>3. CASE Dots
  <2>1. PICK b, s : out' = [out EXCEPT !.buf = b, !.segs = s]
    BY <1>3 DEF Dots
  <2>2. outEpoch' = outEpoch
    BY <1>3 DEF Dots
  <2>3. QED
    BY <1>0, <1>1, <2>1, <2>2 DEF OutFields, NewDecision, SameVerdict, FieldsTyped
<1>4. CASE Normalized
  <2> DEFINE p == Joined(out.segs)
  <2>1. p \in UrlPaths
    <3>1. out.segs \in Seq(Segments)
      BY <1>4 DEF Normalized, PathInv, DecideInv
    <3>2. QED
      BY <3>1, JoinedIsNormal, StringsArePaths
  <2>2. /\ out.task = "decide" => out' = [out EXCEPT !.pc = "resolve", !.target = p]
        /\ out.task = "construct" => out' = [out EXCEPT !.pc = "construct", !.path = p]
        /\ out.task = "fetch" => out' = [out EXCEPT !.pc = "fetch", !.asked = p]
        /\ out.task \in {"decide", "construct", "fetch"} /\ outEpoch' = outEpoch
    BY <1>4 DEF Normalized, OutIInv, TaskInv
  <2> HIDE DEF p
  <2>3. CASE out.task = "decide"
    <3>1. out' = [out EXCEPT !.pc = "resolve", !.target = p] /\ outEpoch' = outEpoch
      BY <2>2, <2>3
    <3>2. /\ out'.pc = "resolve" /\ out'.asked = out.asked /\ out'.path = out.path
          /\ SameVerdict
      BY <1>0, <3>1 DEF OutFields, NewDecision, SameVerdict
    <3>3. QED
      BY <1>1, <3>2 DEF FieldsTyped, OutPCs
  <2>4. CASE out.task = "construct"
    <3>1. out' = [out EXCEPT !.pc = "construct", !.path = p] /\ outEpoch' = outEpoch
      BY <2>2, <2>4
    <3>2. out'.pc = "construct" /\ out'.path = p /\ out'.asked = out.asked /\ SameVerdict
      BY <1>0, <3>1 DEF OutFields, NewDecision, SameVerdict
    <3>3. QED
      BY <1>1, <2>1, <3>2 DEF FieldsTyped, OutPCs
  <2>5. CASE out.task = "fetch"
    <3>1. out' = [out EXCEPT !.pc = "fetch", !.asked = p] /\ outEpoch' = outEpoch
      BY <2>2, <2>5
    <3>2. out'.pc = "fetch" /\ out'.asked = p /\ out'.path = out.path /\ SameVerdict
      BY <1>0, <3>1 DEF OutFields, NewDecision, SameVerdict
    <3>3. QED
      BY <1>1, <2>1, <3>2 DEF FieldsTyped, OutPCs
  <2>6. QED
    BY <2>2, <2>3, <2>4, <2>5
<1>5. CASE Resolution
  <2> DEFINE v == Verdict(out.answer, out.tls, out.reval, out.enabled)
             r == IF AllPublic(out.answer) THEN "ALL_ALLOWLISTED_PUBLIC" ELSE "DENIED_MIXED"
             f == IF AllPublic(out.answer) THEN Head(out.answer) ELSE NoAddress
  <2>1. /\ out' = [out EXCEPT !.pc = "bindConn", !.resolution = r, !.selected = f,
                     !.action = v[1], !.reason = v[2]]
        /\ outEpoch' = outEpoch
    BY <1>5, Zenon DEF Resolution
  <2>2. /\ v[1] \in {"none", "ALLOW", "DENY"} /\ v[2] \in ReasonClasses \cup {"DNS_UNVALIDATED"}
        /\ f \in AddressKinds \cup {NoAddress}
    BY <1>0, VerdictsAre
  <2> HIDE DEF v, r, f
  <2>3. QED
    BY <1>0, <2>1, <2>2 DEF OutFields, NewDecision, FieldsTyped, OutPCs
<1>6. CASE BindConn
  <2>1. CASE out.answer = <<>>
    <3>1. out' = [out EXCEPT !.pc = "stampConn"] /\ outEpoch' = outEpoch
      BY <1>6, <2>1 DEF BindConn
    <3>2. QED
      BY <1>0, <1>1, <3>1 DEF OutFields, NewDecision, SameVerdict, FieldsTyped, OutPCs
  <2>2. CASE out.answer # <<>>
    <3>1. out' = [out EXCEPT !.pc = "bindInv", !.conn = outEpoch] /\ outEpoch' = outEpoch
      BY <1>6, <2>2 DEF BindConn
    <3>2. QED
      BY <1>0, <3>1 DEF OutFields, NewDecision, FieldsTyped, OutPCs, OutEpochs
  <2>3. QED
    BY <2>1, <2>2
<1>7. CASE BindInv
  <2> DEFINE s == BindingStatus(out.answer, out.tls, out.reval, out.enabled)
             first == IF AllPublic(out.answer) THEN Head(out.answer) ELSE NoAddress
             l == IF ConnectionBindingValid(out.answer, out.tls, s[1], s[2], first)
                  THEN "stampConn" ELSE "raised"
  <2>1. /\ out' = [out EXCEPT !.inv = outEpoch, !.bound = TRUE, !.bselected = first,
                     !.status = s[1], !.event = s[2], !.pc = l]
        /\ outEpoch' = outEpoch
    BY <1>7, Zenon DEF BindInv
  <2>2. l \in {"stampConn", "raised"}
    OBVIOUS
  <2>3. /\ s[1] \in {"VALIDATED", "DENIED", "STALE"}
        /\ s[2] \in {"MATCHED", "MISMATCHED", "DENIED"}
        /\ first \in AddressKinds \cup {NoAddress}
    BY <1>0, VerdictsAre
  <2> HIDE DEF s, first, l
  <2>4. QED
    BY <1>0, <2>1, <2>2, <2>3 DEF OutFields, NewDecision, FieldsTyped, OutPCs, OutEpochs
<1>8. CASE StampConn
  <2>1. out' = [out EXCEPT !.pc = "stampInv", !.dconn = outEpoch] /\ outEpoch' = outEpoch
    BY <1>8 DEF StampConn
  <2>2. QED
    BY <1>0, <2>1 DEF OutFields, NewDecision, FieldsTyped, OutPCs, OutEpochs
<1>9. CASE StampInv
  <2> DEFINE l == IF OutboundValid THEN "decided" ELSE "raised"
  <2>1. out' = [out EXCEPT !.pc = l, !.dinv = outEpoch] /\ outEpoch' = outEpoch
    BY <1>9, Zenon DEF StampInv
  <2>2. l \in {"decided", "raised"}
    OBVIOUS
  <2> HIDE DEF l
  <2>3. QED
    BY <1>0, <2>1, <2>2 DEF OutFields, NewDecision, FieldsTyped, OutPCs, OutEpochs
<1>10. CASE Construct
  <2>1. PICK e : out' = [out EXCEPT !.pc = "percent", !.task = "construct",
                                    !.endpoint = e, !.buf = e]
    BY <1>10 DEF Construct
  <2>2. outEpoch' = outEpoch
    BY <1>10 DEF Construct
  <2>3. QED
    BY <1>0, <1>1, <2>1, <2>2 DEF OutFields, NewDecision, SameVerdict, FieldsTyped, OutPCs
<1>11. CASE Accept \/ Send
  <2>1. PICK l \in {"ready", "refused", "sent"} : out' = [out EXCEPT !.pc = l]
    BY <1>11 DEF Accept, Send
  <2>2. outEpoch' = outEpoch
    BY <1>11 DEF Accept, Send
  <2>3. QED
    BY <1>0, <1>1, <2>1, <2>2 DEF OutFields, NewDecision, SameVerdict, FieldsTyped, OutPCs
<1>12. CASE Fetch
  <2>1. PICK e \in {out.url, out.endpoint, out.target} \cup OutPaths :
           out' = [out EXCEPT !.pc = "percent", !.task = "fetch", !.asked = e, !.buf = e]
    BY <1>12 DEF Fetch
  <2>2. e \in UrlPaths /\ outEpoch' = outEpoch
    BY <1>12, OutboundAssumption DEF Fetch, PathInv, DecideInv, UrlPaths, Rooted
  <2>3. QED
    BY <1>0, <1>1, <2>1, <2>2 DEF OutFields, NewDecision, SameVerdict, FieldsTyped, OutPCs
<1>13. QED
  BY <1>2, <1>3, <1>4, <1>5, <1>6, <1>7, <1>8, <1>9, <1>10, <1>11, <1>12 DEF OutStep

\* A decision and its transport keep their types, and input_buffer always begins with a
\* slash, so that two branches of _remove_dot_segments are never taken.
THEOREM OutboundTypeCorrect == OutSpec => []OutTypeOK
<1>1. OutInit => FieldsTyped
  <2>1. ASSUME OutInit PROVE FieldsTyped
    <3>1. PICK shape \in {"ok", "invalid"}, url \in OutPaths, answer \in OutAnswers,
               tls \in {"MATCHED", "MISMATCHED"},
               reval \in {"MATCHED", "MISMATCHED", "DENIED"}, enabled \in BOOLEAN :
               out = NewDecision(shape, url, answer, tls, reval, enabled)
      BY <2>1 DEF OutInit
    <3>2. NoPath \in UrlPaths
      BY DEF UrlPaths, Rooted, NoPath
    <3>3. outEpoch \in 0..OutMaxEpoch
      BY <2>1, OutboundAssumption DEF OutInit
    <3>4. QED
      BY <3>1, <3>2, <3>3 DEF NewDecision, FieldsTyped, OutPCs, ReasonClasses, OutEpochs
  <2>2. QED
    BY <2>1
<1>2. OutIInv /\ PathInv /\ FieldsTyped /\ [OutNext]_outVars => FieldsTyped'
  <2>1. SUFFICES ASSUME OutIInv, PathInv, FieldsTyped, [OutNext]_outVars PROVE FieldsTyped'
    OBVIOUS
  <2>2. CASE OutInvalidate
    BY <2>1, <2>2, OutboundAssumption DEF OutInvalidate, FieldsTyped
  <2>3. CASE UNCHANGED outVars
    BY <2>1, <2>3 DEF outVars, FieldsTyped
  <2>4. QED
    BY <2>1, <2>2, <2>3, FieldsStep DEF OutNext
<1>3. ASSUME OutIInv, PathInv, FieldsTyped PROVE OutTypeOK
  <2>1. \A p \in UrlPaths : IsPath(p) /\ (p # <<>> => p[1] = Slash)
    BY DEF UrlPaths, IsPath, Rooted, Range
  <2>2. out.task \in {"decide", "construct", "fetch"}
    BY <1>3 DEF OutIInv, TaskInv
  <2>3. QED
    BY <1>3, <2>1, <2>2 DEF PathInv, DecideInv, FieldsTyped, OutTypeOK
<1>4. QED
  BY <1>1, <1>2, <1>3, PathsInvariant, PTL DEF OutSpec
=============================================================================
