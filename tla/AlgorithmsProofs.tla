-------------------------- MODULE AlgorithmsProofs --------------------------
(***************************************************************************)
(* The algorithms compute what they should, for inputs of every length:    *)
(* proofs by induction on the loops.  Texts a shell reads, base64, the     *)
(* blocks of a digest, the arithmetic of big integers and the signature.   *)
(***************************************************************************)
EXTENDS Algorithms, SequenceTheorems, WellFoundedInduction, TLAPS

----------------------------------------------------------------------------
(* Induction, for a set of numbers.  *)
LEMMA NatSet ==
    ASSUME NEW S, S \subseteq Nat, 0 \in S, \A n \in S : n + 1 \in S
    PROVE  S = Nat
<1> DEFINE T == Nat \ S
<1>1. ASSUME T # {} PROVE FALSE
  <2>1. PICK k \in T : \A j \in T : <<j, k>> \notin OpToRel(<, Nat)
        BY <1>1, NatLessThanWellFounded, WFMin, Zenon
  <2>2. \A j \in T : ~(j < k)
        BY <2>1 DEF OpToRel
  <2>3. k # 0 /\ k - 1 \in Nat /\ k - 1 \notin T
        BY <2>2
  <2> QED
      BY <2>3
<1> QED
    BY <1>1

(* The same up to a bound.  *)
LEMMA UpTo ==
    ASSUME NEW n \in Nat, NEW S, 0 \in S, \A k \in 0..(n - 1) : k \in S => k + 1 \in S
    PROVE  \A k \in 0..n : k \in S
<1> DEFINE T == {k \in Nat : k <= n => k \in S}
<1>1. 0 \in T
    OBVIOUS
<1>2. \A k \in T : k + 1 \in T
    OBVIOUS
<1>3. T = Nat
  <2> HIDE DEF T
  <2>1. T \subseteq Nat
        BY DEF T
  <2> QED
      BY <1>1, <1>2, <2>1, NatSet, Zenon
<1> QED
    BY <1>3

(* A loop of n passes has a run.  *)
IsRun(g, n, S, base, step) ==
    g \in [0..n -> S] /\ g[0] = base /\ \A k \in 1..n : g[k] = step[k][g[k - 1]]

LEMMA Iteration ==
    ASSUME NEW n \in Nat, NEW S, NEW base \in S, NEW step \in [1..n -> [S -> S]]
    PROVE  \E g : IsRun(g, n, S, base, step)
<1> DEFINE Runs(m, g) == g \in [0..m -> S] /\ g[0] = base /\ \A k \in 1..m : g[k] = step[k][g[k - 1]]
           T == {m \in 0..n : \E g : Runs(m, g)}
<1>1. 0 \in T
  <2>1. \E g : Runs(0, g)
    <3>1. Runs(0, [k \in 0..0 |-> base])
        OBVIOUS
    <3> HIDE DEF Runs
    <3> QED
        BY <3>1
  <2> HIDE DEF Runs
  <2> QED
      BY <2>1
<1>2. \A m \in 0..(n - 1) : m \in T => m + 1 \in T
  <2> SUFFICES ASSUME NEW m \in 0..(n - 1), m \in T PROVE m + 1 \in T
      OBVIOUS
  <2>1. PICK g : Runs(m, g)
      OBVIOUS
  <2> DEFINE v == step[m + 1][g[m]]
             h == [k \in 0..(m + 1) |-> IF k = m + 1 THEN v ELSE g[k]]
  <2>2. g[m] \in S /\ step[m + 1] \in [S -> S]
        BY <2>1
  <2>3. v \in S
        BY <2>2
  <2>4. h \in [0..(m + 1) -> S] /\ h[0] = base
        BY <2>1, <2>3
  <2>5. ASSUME NEW k \in 1..(m + 1) PROVE h[k] = step[k][h[k - 1]]
    <3>1. CASE k = m + 1
      <4>1. h[k] = v /\ h[k - 1] = g[m]
            BY <3>1
      <4> QED
          BY <4>1, <3>1
    <3>2. CASE k # m + 1
      <4>1. k \in 1..m /\ h[k] = g[k] /\ h[k - 1] = g[k - 1]
            BY <3>2
      <4> QED
          BY <4>1, <2>1
    <3> QED
        BY <3>1, <3>2
  <2>6. Runs(m + 1, h)
        BY <2>4, <2>5
  <2> HIDE DEF Runs, h
  <2> QED
      BY <2>6
<1>3. n \in T
  <2> HIDE DEF T
  <2>1. \A k \in 0..n : k \in T
        BY <1>1, <1>2, UpTo, Zenon
  <2> QED
      BY <2>1
<1> QED
    BY <1>3 DEF IsRun

LEMMA RunPasses ==
    ASSUME NEW g, NEW n \in Nat, NEW S, NEW base, NEW step, IsRun(g, n, S, base, step)
    PROVE  /\ \A k \in 0..n : g[k] \in S
           /\ g[0] = base
           /\ \A k \in 1..n : k - 1 \in 0..n /\ g[k - 1] \in S /\ g[k] = step[k][g[k - 1]]
BY DEF IsRun

----------------------------------------------------------------------------
(* The places of a concatenation.  *)
LEMMA ConcatPlaces ==
    ASSUME NEW S, NEW s, NEW t, NEW u, s \in Seq(S), t \in Seq(S), u = s \o t
    PROVE  /\ u \in Seq(S)
           /\ Len(s) \in Nat /\ Len(t) \in Nat
           /\ Len(u) = Len(s) + Len(t)
           /\ \A p \in 1..Len(s) : u[p] = s[p]
           /\ \A p \in 1..Len(t) : u[Len(s) + p] = t[p]
OBVIOUS

(* FlattenSeq joins its parts one after the other.  *)
LEMMA FlattenJoins ==
    ASSUME NEW S, NEW seqs, seqs \in Seq(Seq(S))
    PROVE  \E g : /\ g \in [0..Len(seqs) -> Seq(S)]
                  /\ g[0] = <<>>
                  /\ \A k \in 0..(Len(seqs) - 1) : g[k + 1] = g[k] \o seqs[k + 1]
                  /\ FlattenSeq(seqs) = g[Len(seqs)]
<1> DEFINE n == Len(seqs)
           Eq(f) == f = [i \in 1..n |-> IF i = 1 THEN seqs[i] ELSE f[i - 1] \o seqs[i]]
           flat == CHOOSE f : Eq(f)
           step == [k \in 1..n |-> [s \in Seq(S) |-> s \o seqs[k]]]
<1>0. n \in Nat /\ \A k \in 1..n : seqs[k] \in Seq(S)
    OBVIOUS
<1>1. PICK g : IsRun(g, n, Seq(S), <<>>, step)
  <2> DEFINE T == Seq(S)
             empty == <<>>
  <2>1. empty \in T /\ step \in [1..n -> [T -> T]]
        BY <1>0, ConcatProperties
  <2> HIDE DEF step, n, T, empty
  <2>2. \E g : IsRun(g, n, T, empty, step)
        BY <2>1, <1>0, Iteration
  <2> QED
      BY <2>2 DEF T, empty
<1>2. g \in [0..n -> Seq(S)] /\ g[0] = <<>>
    BY <1>1 DEF IsRun
<1>3. ASSUME NEW k \in 0..(n - 1) PROVE g[k + 1] = g[k] \o seqs[k + 1]
  <2>0. k + 1 \in 1..n /\ k \in 0..n /\ (k + 1) - 1 = k
        BY <1>0
  <2>1. g[k] \in Seq(S)
        BY <2>0, <1>2
  <2>2. g[k + 1] = step[k + 1][g[(k + 1) - 1]]
    <3> HIDE DEF step, n
    <3>1. \A j \in 1..n : g[j] = step[j][g[j - 1]]
          BY <1>1 DEF IsRun
    <3> QED
        BY <3>1, <2>0, Zenon
  <2>3. step[k + 1] = [s \in Seq(S) |-> s \o seqs[k + 1]]
        BY <2>0
  <2> HIDE DEF step
  <2> QED
      BY <2>0, <2>1, <2>2, <2>3
<1>4. CASE n = 0
  <2>1. seqs = <<>>
        BY <1>4
  <2>2. FlattenSeq(seqs) = g[n]
        BY <2>1, <1>2, <1>4 DEF FlattenSeq
  <2> QED
      BY <2>2, <1>2, <1>3
<1>5. CASE n # 0
  <2>1. FlattenSeq(seqs) = flat[n]
        BY <1>5 DEF FlattenSeq
  <2> DEFINE h == [k \in 1..n |-> g[k]]
  <2>2. ASSUME NEW i \in 1..n PROVE h[i] = IF i = 1 THEN seqs[i] ELSE h[i - 1] \o seqs[i]
    <3>1. i - 1 \in 0..(n - 1) /\ (i - 1) + 1 = i /\ h[i] = g[i]
        OBVIOUS
    <3>2. g[i] = g[i - 1] \o seqs[i] /\ seqs[i] \in Seq(S)
          BY <3>1, <1>3, <1>0
    <3>3. CASE i = 1
      <4>1. i - 1 = 0 /\ g[i - 1] = <<>>
            BY <3>3, <1>2
      <4> QED
          BY <4>1, <3>1, <3>2, <3>3, ConcatEmptySeq
    <3>4. CASE i # 1
      <4>1. h[i - 1] = g[i - 1]
            BY <3>4
      <4> QED
          BY <4>1, <3>1, <3>2, <3>4
    <3> QED
        BY <3>3, <3>4
  <2>3. Eq(h)
        BY <2>2
  <2>4. Eq(flat)
    <3> HIDE DEF Eq, h
    <3> QED
        BY <2>3
  <2>5. ASSUME NEW i \in 1..n PROVE flat[i] = IF i = 1 THEN seqs[i] ELSE flat[i - 1] \o seqs[i]
    <3> DEFINE F == [i_1 \in 1..n |-> IF i_1 = 1 THEN seqs[i_1] ELSE flat[i_1 - 1] \o seqs[i_1]]
    <3>1. flat = F
          BY <2>4
    <3> HIDE DEF flat
    <3>2. F[i] = IF i = 1 THEN seqs[i] ELSE flat[i - 1] \o seqs[i]
        OBVIOUS
    <3> HIDE DEF F
    <3> QED
        BY <3>1, <3>2
  <2> HIDE DEF flat, Eq
  <2> DEFINE P == {i \in Nat : i = 0 \/ flat[i] = g[i]}
  <2>6. ASSUME NEW i \in 0..(n - 1), i \in P PROVE i + 1 \in P
    <3>1. i + 1 \in 1..n /\ (i + 1) - 1 = i /\ (i + 1 = 1 <=> i = 0)
          OBVIOUS
    <3>2. g[i + 1] = g[i] \o seqs[i + 1] /\ seqs[i + 1] \in Seq(S)
          BY <1>3, <1>0, <3>1
    <3>3. flat[i + 1] = IF i + 1 = 1 THEN seqs[i + 1] ELSE flat[(i + 1) - 1] \o seqs[i + 1]
          BY <2>5, <3>1, Zenon
    <3>6. flat[(i + 1) - 1] = flat[i]
          BY <3>1
    <3>4. CASE i = 0
      <4>1. g[i + 1] = seqs[i + 1]
            BY <3>2, <3>4, <1>2, ConcatEmptySeq
      <4> QED
          BY <4>1, <3>3, <3>4
    <3>5. CASE i # 0
      <4>1. flat[i] = g[i]
            BY <3>5, <2>6
      <4>2. flat[i + 1] = flat[i] \o seqs[i + 1]
            BY <3>5, <3>1, <3>3, <3>6
      <4>3. flat[i + 1] = g[i + 1] /\ i + 1 \in Nat
            BY <4>1, <4>2, <3>2
      <4> QED
          BY <4>3
    <3> QED
        BY <3>4, <3>5
  <2>7. \A i \in 0..n : i \in P
    <3>1. 0 \in P
        OBVIOUS
    <3> HIDE DEF P, n
    <3> QED
        BY <3>1, <2>6, <1>0, UpTo
  <2>8. FlattenSeq(seqs) = g[n]
        BY <2>1, <2>7, <1>5, <1>0
  <2> HIDE DEF n
  <2> QED
      BY <2>8, <1>2, <1>3 DEF n
<1> QED
    BY <1>4, <1>5, <1>0

(* Where the parts are in it.  *)
IsLayout(ends, flat, n, seqs) ==
    /\ ends \in [0..n -> Nat]
    /\ ends[0] = 0
    /\ Len(flat) = ends[n]
    /\ \A k \in 0..(n - 1) :
         /\ ends[k + 1] = ends[k] + Len(seqs[k + 1])
         /\ ends[k + 1] <= Len(flat)
         /\ \A j \in 1..Len(seqs[k + 1]) : flat[ends[k] + j] = seqs[k + 1][j]

LEMMA FlattenPlaces ==
    ASSUME NEW S, NEW seqs, seqs \in Seq(Seq(S))
    PROVE  /\ FlattenSeq(seqs) \in Seq(S)
           /\ \E ends : IsLayout(ends, FlattenSeq(seqs), Len(seqs), seqs)
<1> DEFINE n == Len(seqs)
<1>0. n \in Nat /\ \A k \in 0..(n - 1) : k + 1 \in 1..n /\ seqs[k + 1] \in Seq(S)
    OBVIOUS
<1>1. PICK g : /\ g \in [0..n -> Seq(S)]
               /\ g[0] = <<>>
               /\ \A k \in 0..(n - 1) : g[k + 1] = g[k] \o seqs[k + 1]
               /\ FlattenSeq(seqs) = g[n]
    BY FlattenJoins
<1> HIDE DEF n
<1> DEFINE ends == [k \in 0..n |-> Len(g[k])]
           size == [k \in 1..n |-> Len(seqs[k])]
<1>2. /\ ends \in [0..n -> Nat] /\ size \in [1..n -> Nat]
      /\ \A k \in 0..n : g[k] \in Seq(S) /\ ends[k] = Len(g[k])
      /\ \A k \in 1..n : seqs[k] \in Seq(S) /\ size[k] = Len(seqs[k])
  <2>1. \A k \in 0..n : g[k] \in Seq(S) /\ Len(g[k]) \in Nat
        BY <1>1
  <2>2. \A k \in 1..n : seqs[k] \in Seq(S) /\ Len(seqs[k]) \in Nat
        BY DEF n
  <2> HIDE DEF n
  <2> QED
      BY <2>1, <2>2
<1> HIDE DEF n, ends, size
<1>3. ASSUME NEW k \in 0..(n - 1)
      PROVE  /\ k \in 0..n /\ k + 1 \in 0..n /\ k + 1 \in 1..n
             /\ ends[k] \in Nat /\ ends[k + 1] \in Nat /\ size[k + 1] \in Nat
             /\ ends[k + 1] = ends[k] + size[k + 1]
             /\ \A p \in 1..ends[k] : g[k + 1][p] = g[k][p]
             /\ \A j \in 1..size[k + 1] : g[k + 1][ends[k] + j] = seqs[k + 1][j]
  <2>1. k \in 0..n /\ k + 1 \in 0..n /\ k + 1 \in 1..n
        BY <1>0
  <2>2. PICK s, t, u : s = g[k] /\ t = seqs[k + 1] /\ u = g[k + 1]
      OBVIOUS
  <2>3. s \in Seq(S) /\ t \in Seq(S) /\ u = s \o t /\ Len(s) = ends[k] /\ Len(t) = size[k + 1]
          /\ Len(u) = ends[k + 1]
    <3>1. g[k] \in Seq(S) /\ ends[k] = Len(g[k]) /\ g[k + 1] = g[k] \o seqs[k + 1]
          BY <2>1, <1>1, <1>2, Zenon
    <3>2. seqs[k + 1] \in Seq(S) /\ size[k + 1] = Len(seqs[k + 1])
          BY <2>1, <1>2, Zenon
    <3>3. ends[k + 1] = Len(g[k + 1])
          BY <2>1, <1>2, Zenon
    <3> QED
        BY <2>2, <3>1, <3>2, <3>3, Zenon
  <2>4. /\ Len(s) \in Nat /\ Len(t) \in Nat
        /\ Len(u) = Len(s) + Len(t)
        /\ \A p \in 1..Len(s) : u[p] = s[p]
        /\ \A p \in 1..Len(t) : u[Len(s) + p] = t[p]
    <3>1. s \in Seq(S) /\ t \in Seq(S) /\ u = s \o t
          BY <2>3
    <3> QED
        BY <3>1
  <2>5. /\ ends[k] \in Nat /\ size[k + 1] \in Nat /\ ends[k + 1] = ends[k] + size[k + 1]
        /\ \A p \in 1..ends[k] : u[p] = s[p]
        /\ \A p \in 1..size[k + 1] : u[ends[k] + p] = t[p]
        BY ONLY <2>3, <2>4, Zenon
  <2>6. ends[k + 1] \in Nat
        BY <2>5
  <2> QED
      BY <2>1, <2>2, <2>5, <2>6, Zenon
<1> DEFINE Holds(m, k) == /\ ends[k + 1] <= ends[m]
                          /\ \A j \in 1..size[k + 1] : g[m][ends[k] + j] = seqs[k + 1][j]
           P == {m \in Nat : \A k \in 0..(m - 1) : Holds(m, k)}
<1>4. 0 \in P
    OBVIOUS
<1>5. ASSUME NEW m \in 0..(n - 1), m \in P PROVE m + 1 \in P
  <2>0. m + 1 \in Nat /\ (m + 1) - 1 = m
        BY <1>0
  <2> SUFFICES ASSUME NEW k \in 0..m PROVE Holds(m + 1, k)
    <3> HIDE DEF Holds
    <3> QED
        BY <2>0
  <2>1. k \in 0..(n - 1)
        BY <1>0
  <2>2. CASE k = m
    <3>1. Holds(m + 1, m)
          BY <1>3
    <3> HIDE DEF Holds
    <3> QED
        BY <2>2, <3>1
  <2>3. CASE k # m
    <3>1. k \in 0..(m - 1)
          BY <2>3
    <3>2. Holds(m, k)
          BY <3>1, <1>5
    <3>3. ends[k + 1] = ends[k] + size[k + 1] /\ ends[k] \in Nat /\ size[k + 1] \in Nat
          BY <2>1, <1>3
    <3>4. /\ ends[m + 1] = ends[m] + size[m + 1] /\ ends[m] \in Nat /\ size[m + 1] \in Nat
          /\ \A p \in 1..ends[m] : g[m + 1][p] = g[m][p]
          BY <1>3
    <3>5. ends[k + 1] <= ends[m + 1]
          BY <3>2, <3>3, <3>4
    <3>6. ASSUME NEW j \in 1..size[k + 1] PROVE g[m + 1][ends[k] + j] = seqs[k + 1][j]
      <4>1. ends[k] + j \in 1..ends[m]
            BY <3>2, <3>3, <3>4
      <4> QED
          BY <4>1, <3>2, <3>4
    <3> QED
        BY <3>5, <3>6
  <2> QED
      BY <2>2, <2>3
<1>6. n \in P
  <2> HIDE DEF P
  <2>1. \A m \in 0..n : m \in P
        BY <1>0, <1>4, <1>5, UpTo
  <2> QED
      BY <2>1, <1>0
<1>7. n \in 0..n /\ 0 \in 0..n
    BY <1>0
<1>8. ends[0] = 0 /\ Len(FlattenSeq(seqs)) = ends[n] /\ FlattenSeq(seqs) \in Seq(S)
  <2>1. Len(g[0]) = 0
        BY <1>1
  <2> QED
      BY <2>1, <1>1, <1>2, <1>7
<1>9. ASSUME NEW k \in 0..(n - 1)
      PROVE  /\ ends[k + 1] = ends[k] + Len(seqs[k + 1])
             /\ ends[k + 1] <= Len(FlattenSeq(seqs))
             /\ \A j \in 1..Len(seqs[k + 1]) : FlattenSeq(seqs)[ends[k] + j] = seqs[k + 1][j]
  <2>1. ends[k + 1] = ends[k] + size[k + 1] /\ size[k + 1] = Len(seqs[k + 1])
        BY <1>2, <1>3
  <2>2. Holds(n, k)
        BY <1>6
  <2> QED
      BY <1>1, <1>8, <2>1, <2>2, Zenon
<1>10. IsLayout(ends, FlattenSeq(seqs), n, seqs)
    BY <1>2, <1>8, <1>9, Zenon DEF IsLayout
<1> QED
    BY <1>8, <1>10 DEF n

----------------------------------------------------------------------------
(* Shell quoting.  *)
ShellStates == [mode : {"plain", "quoted", "escaped"}, word : Seq(Bytes256), words : Nat]

LEMMA ShellStepType ==
    ASSUME NEW s \in ShellStates, NEW c \in Bytes256
    PROVE  ShellStep(s, c) \in ShellStates
<1>1. /\ s = [mode |-> s.mode, word |-> s.word, words |-> s.words]
      /\ s.mode \in {"plain", "quoted", "escaped"} /\ s.word \in Seq(Bytes256) /\ s.words \in Nat
    BY DEF ShellStates
<1>2. Append(s.word, c) \in Seq(Bytes256)
    BY <1>1
<1>3. (IF c \in {Space, TAB, LF} THEN s.words + 1 ELSE s.words) \in Nat
    BY <1>1
<1>4. /\ [s EXCEPT !.mode = "plain"] \in ShellStates
      /\ [s EXCEPT !.mode = "quoted"] \in ShellStates
      /\ [s EXCEPT !.mode = "escaped"] \in ShellStates
      /\ [s EXCEPT !.word = Append(@, c)] \in ShellStates
      /\ [s EXCEPT !.mode = "plain", !.word = Append(@, c)] \in ShellStates
    BY <1>1, <1>2 DEF ShellStates
<1>5. [s EXCEPT !.word = Append(@, c), !.words = IF c \in {Space, TAB, LF} THEN @ + 1
        ELSE @] \in ShellStates
    BY <1>1, <1>2, <1>3 DEF ShellStates
<1> QED
    BY <1>1, <1>4, <1>5, Zenon DEF ShellStep

ShellStart == [mode |-> "plain", word |-> <<>>, words |-> 1]

LEMMA ShellWordRuns ==
    ASSUME NEW text, text \in Seq(Bytes256)
    PROVE  \E f : /\ f[0] = ShellStart
                  /\ \A k \in 0..(Len(text) - 1) : f[k + 1] = ShellStep(f[k], text[k + 1])
                  /\ ShellWord(text) = f[Len(text)]
<1> DEFINE n == Len(text)
           Eq(f) == f = [k \in 0..n |-> IF k = 0 THEN [mode |-> "plain", word |-> <<>>, words |-> 1]
                                        ELSE ShellStep(f[k - 1], text[k])]
           f == CHOOSE f : Eq(f)
           step == [k \in 1..n |-> [s \in ShellStates |-> ShellStep(s, text[k])]]
<1>0. n \in Nat /\ \A k \in 1..n : text[k] \in Bytes256
    OBVIOUS
<1>1. PICK g : IsRun(g, n, ShellStates, ShellStart, step)
  <2>1. ShellStart \in ShellStates
        BY DEF ShellStart, ShellStates
  <2>2. step \in [1..n -> [ShellStates -> ShellStates]]
        BY <1>0, ShellStepType
  <2> HIDE DEF step, n
  <2> QED
      BY <1>0, <2>1, <2>2, Iteration
<1>2. Eq(g)
  <2>1. g \in [0..n -> ShellStates] /\ g[0] = ShellStart
        BY <1>1 DEF IsRun
  <2>2. ASSUME NEW k \in 1..n PROVE g[k] = ShellStep(g[k - 1], text[k])
    <3>1. g[k - 1] \in ShellStates
          BY <2>1, <1>0
    <3>2. g[k] = step[k][g[k - 1]]
      <4> HIDE DEF step
      <4> QED
          BY <1>1 DEF IsRun
    <3>3. step[k] = [s \in ShellStates |-> ShellStep(s, text[k])]
          OBVIOUS
    <3> HIDE DEF step
    <3> QED
        BY <3>1, <3>2, <3>3
  <2> HIDE DEF n, step
  <2> QED
      BY <2>1, <2>2, <1>0 DEF ShellStart
<1>3. Eq(f)
  <2> HIDE DEF Eq
  <2> QED
      BY <1>2
<1>4. ShellWord(text) = f[n]
    BY DEF ShellWord
<1> HIDE DEF f
<1>5. f[0] = ShellStart
    BY <1>3, <1>0 DEF ShellStart
<1>6. ASSUME NEW k \in 0..(n - 1) PROVE f[k + 1] = ShellStep(f[k], text[k + 1])
  <2>1. k + 1 \in 0..n /\ k + 1 # 0 /\ (k + 1) - 1 = k
        BY <1>0
  <2>2. f[k + 1] = ShellStep(f[(k + 1) - 1], text[k + 1])
        BY <2>1, <1>3
  <2> QED
      BY <2>1, <2>2
<1> QED
    BY <1>4, <1>5, <1>6

ShellAt(mode, word) == [mode |-> mode, word |-> word, words |-> 1]

LEMMA ShellSteps ==
    ASSUME NEW w
    PROVE  /\ ShellStep(ShellStart, Quote) = ShellAt("quoted", <<>>)
           /\ \A c : c # Quote => ShellStep(ShellAt("quoted", w), c) = ShellAt("quoted", Append(w, c))
           /\ ShellStep(ShellAt("quoted", w), Quote) = ShellAt("plain", w)
           /\ ShellStep(ShellAt("plain", w), Backslash) = ShellAt("escaped", w)
           /\ ShellStep(ShellAt("escaped", w), Quote) = ShellAt("plain", Append(w, Quote))
           /\ ShellStep(ShellAt("plain", w), Quote) = ShellAt("quoted", w)
<1>1. Quote # Backslash /\ ShellStart = ShellAt("plain", <<>>)
    BY DEF Quote, Backslash, ShellStart, ShellAt
<1>2. ASSUME NEW m, NEW v
      PROVE  ShellAt(m, v).mode = m /\ ShellAt(m, v).word = v /\ ShellAt(m, v).words = 1
    BY DEF ShellAt
<1>3. ASSUME NEW m, NEW v, NEW l
      PROVE  /\ [ShellAt(m, v) EXCEPT !.mode = l] = ShellAt(l, v)
             /\ [ShellAt(m, v) EXCEPT !.word = l] = ShellAt(m, l)
    BY DEF ShellAt
<1> DEFINE q == ShellAt("quoted", w)
<1>4. ASSUME NEW c, c # Quote PROVE ShellStep(q, c) = ShellAt("quoted", Append(w, c))
  <2>1. q.mode = "quoted" /\ q.word = w
        BY <1>2
  <2>2. [q EXCEPT !.word = Append(w, c)] = ShellAt("quoted", Append(w, c))
    <3> DEFINE a == Append(w, c)
    <3> HIDE DEF a
    <3>1. [q EXCEPT !.word = a] = ShellAt("quoted", a)
          BY <1>3
    <3> QED
        BY <3>1 DEF a
  <2> HIDE DEF q
  <2> QED
      BY <2>1, <2>2, <1>4, Zenon DEF ShellStep
<1>5. ShellStep(q, Quote) = ShellAt("plain", w)
  <2>1. q.mode = "quoted" /\ q.word = w /\ [q EXCEPT !.mode = "plain"] = ShellAt("plain", w)
        BY <1>2, <1>3
  <2> HIDE DEF q
  <2> QED
      BY <2>1, Zenon DEF ShellStep
<1>6. ASSUME NEW v
      PROVE  /\ ShellStep(ShellAt("plain", v), Backslash) = ShellAt("escaped", v)
             /\ ShellStep(ShellAt("plain", v), Quote) = ShellAt("quoted", v)
  <2> DEFINE r == ShellAt("plain", v)
  <2>0. r = ShellAt("plain", v)
        OBVIOUS
  <2>1. r.mode = "plain" /\ r.mode # "quoted" /\ r.mode # "escaped"
        BY <1>2
  <2>2. [r EXCEPT !.mode = "escaped"] = ShellAt("escaped", v)
          /\ [r EXCEPT !.mode = "quoted"] = ShellAt("quoted", v)
        BY <1>3
  <2> HIDE DEF r
  <2>3. ShellStep(r, Backslash) = [r EXCEPT !.mode = "escaped"]
        BY <2>1, <1>1 DEF ShellStep
  <2>4. ShellStep(r, Quote) = [r EXCEPT !.mode = "quoted"]
        BY <2>1, <1>1 DEF ShellStep
  <2> QED
      BY <2>0, <2>2, <2>3, <2>4
<1>7. ShellStep(ShellAt("escaped", w), Quote) = ShellAt("plain", Append(w, Quote))
  <2> DEFINE r == ShellAt("escaped", w)
  <2>1. r.mode = "escaped" /\ r.word = w /\ r.words = 1
        BY <1>2
  <2> HIDE DEF r
  <2> QED
      BY <2>1 DEF ShellStep, ShellAt
<1> QED
    BY <1>1, <1>4, <1>5, <1>6, <1>7

(* The states at the ends of a text's parts.  *)
LEMMA ShellQuoteRead ==
    ASSUME NEW s, s \in Seq(Bytes256)
    PROVE  ShellWord(ShellQuote(s)) = ShellAt("plain", s)
<1> DEFINE parts == [k \in DOMAIN s |-> IF s[k] = Quote THEN <<Quote, Backslash, Quote, Quote>>
             ELSE <<s[k]>>]
           mid == FlattenSeq(parts)
           n == Len(s)
           text == ShellQuote(s)
<1>0. n \in Nat /\ DOMAIN s = 1..n /\ \A k \in 1..n : s[k] \in Bytes256
    OBVIOUS
<1>1. \A k \in 1..n : /\ s[k] = Quote => parts[k] = <<Quote, Backslash, Quote, Quote>>
                      /\ s[k] # Quote => parts[k] = <<s[k]>>
    BY <1>0
<1>2. parts \in Seq(Seq(Bytes256)) /\ Len(parts) = n
  <2>1. ASSUME NEW k \in 1..n PROVE parts[k] \in Seq(Bytes256)
    <3>1. s[k] \in Bytes256 /\ {Quote, Backslash} \subseteq Bytes256
          BY <1>0 DEF Quote, Backslash, Bytes256
    <3>2. <<Quote, Backslash, Quote, Quote>> \in Seq(Bytes256) /\ <<s[k]>> \in Seq(Bytes256)
          BY <3>1
    <3> QED
        BY <3>2, <1>1
  <2> QED
      BY <2>1, <1>0
<1> HIDE DEF parts
<1>3. PICK ends : IsLayout(ends, mid, n, parts) /\ mid \in Seq(Bytes256)
    BY <1>2, FlattenPlaces
<1> HIDE DEF mid
<1>4. /\ text \in Seq(Bytes256) /\ Len(text) = ends[n] + 2
      /\ text[1] = Quote /\ text[ends[n] + 2] = Quote
      /\ \A k \in 1..ends[n] : text[k + 1] = mid[k]
  <2>1. Quote \in Bytes256
        BY DEF Quote, Bytes256
  <2>2. text = <<Quote>> \o mid \o <<Quote>>
        BY DEF ShellQuote, mid, parts
  <2> HIDE DEF text
  <2>3. mid \in Seq(Bytes256) /\ Len(mid) = ends[n]
        BY <1>3 DEF IsLayout
  <2>4. /\ text \in Seq(Bytes256) /\ Len(text) = Len(mid) + 2
        /\ text[1] = Quote /\ text[Len(mid) + 2] = Quote
        /\ \A k \in 1..Len(mid) : text[k + 1] = mid[k]
        BY <2>1, <2>2, <2>3
  <2> QED
      BY <2>3, <2>4, Zenon
<1> HIDE DEF text
<1>5. PICK f : /\ f[0] = ShellStart
               /\ \A k \in 0..(Len(text) - 1) : f[k + 1] = ShellStep(f[k], text[k + 1])
               /\ ShellWord(text) = f[Len(text)]
    BY <1>4, ShellWordRuns
<1> DEFINE P == {k \in Nat : f[ends[k] + 1] = ShellAt("quoted", SubSeq(s, 1, k))}
<1>a. \A k \in 0..n : ends[k] \in Nat
    BY <1>3 DEF IsLayout
<1>b. ends[0] = 0 /\ ends[n] = Len(mid)
    BY <1>3 DEF IsLayout
<1> HIDE DEF n
<1>r. ASSUME NEW k \in 0..(ends[n] + 1) PROVE f[k + 1] = ShellStep(f[k], text[k + 1])
    BY <1>a, <1>4, <1>5, <1>0
<1>6. 0 \in P
  <2>1. f[1] = ShellStep(ShellStart, Quote)
    <3>1. 0 \in 0..(ends[n] + 1)
          BY <1>a, <1>0
    <3>2. f[0 + 1] = ShellStep(f[0], text[0 + 1])
          BY <3>1, <1>r, Zenon
    <3> QED
        BY <3>2, <1>4, <1>5
  <2>2. SubSeq(s, 1, 0) = <<>>
      OBVIOUS
  <2>3. f[1] = ShellAt("quoted", SubSeq(s, 1, 0))
        BY <2>1, <2>2, ShellSteps
  <2> QED
      BY <2>3, <1>b
<1>7. ASSUME NEW k \in 0..(n - 1), k \in P PROVE k + 1 \in P
  <2> DEFINE e == ends[k]
             w == SubSeq(s, 1, k)
             c == s[k + 1]
  <2>1. /\ e \in Nat /\ f[e + 1] = ShellAt("quoted", w)
        /\ k + 1 \in 1..n /\ k \in 0..n
        BY <1>a, <1>0, <1>7
  <2>n. k + 1 \in Nat
        BY <2>1, <1>0
  <2>2. SubSeq(s, 1, k + 1) = Append(w, c)
        BY <1>0, <2>1 DEF n
  <2>3. /\ ends[k + 1] = e + Len(parts[k + 1])
        /\ ends[k + 1] <= Len(mid)
        /\ \A j \in 1..Len(parts[k + 1]) : mid[e + j] = parts[k + 1][j]
        BY <1>3 DEF IsLayout
  <2>p. /\ c # Quote => parts[k + 1] = <<c>>
        /\ c = Quote => parts[k + 1] = <<Quote, Backslash, Quote, Quote>>
    <3>1. \A j \in 1..n : /\ s[j] = Quote => parts[j] = <<Quote, Backslash, Quote, Quote>>
                          /\ s[j] # Quote => parts[j] = <<s[j]>>
          BY <1>0 DEF parts
    <3> QED
        BY <3>1, <2>1, Zenon
  <2> PICK part : part = parts[k + 1]
      OBVIOUS
  <2> HIDE DEF e, w, c
  <2>q. ends[k + 1] = e + Len(part) /\ ends[k + 1] <= ends[n]
          /\ \A j \in 1..Len(part) : mid[e + j] = part[j]
        BY <2>3, <1>b, Zenon
  <2>r. ASSUME NEW j \in 1..Len(part), part \in Seq(Bytes256)
        PROVE f[(e + j) + 1] = ShellStep(f[e + j], part[j])
    <3>1. e + j \in 1..ends[n] /\ e + j \in 0..(ends[n] + 1)
          BY <2>q, <2>1, <1>a, <1>0
    <3>2. text[(e + j) + 1] = part[j]
          BY <3>1, <2>q, <1>4
    <3>3. f[(e + j) + 1] = ShellStep(f[e + j], text[(e + j) + 1])
          BY <3>1, <1>r, Zenon
    <3> QED
        BY <3>2, <3>3
  <2>t. part \in Seq(Bytes256)
        BY <1>2, <1>0, <2>1
  <2>4. CASE c # Quote
    <3>1. part = <<c>>
          BY <2>4, <2>p
    <3>2. 1 \in 1..Len(part) /\ part[1] = c /\ ends[k + 1] = e + 1
          BY <3>1, <2>q
    <3>3. f[(e + 1) + 1] = ShellStep(ShellAt("quoted", w), c)
          BY <3>2, <2>1, <2>r, <2>t
    <3>4. f[ends[k + 1] + 1] = ShellAt("quoted", Append(w, c))
          BY <3>2, <3>3, <2>4, ShellSteps
    <3>5. f[ends[k + 1] + 1] = ShellAt("quoted", SubSeq(s, 1, k + 1))
          BY <3>4, <2>2, Zenon
    <3> QED
        BY <3>5, <2>n
  <2>5. CASE c = Quote
    <3>1. part = <<Quote, Backslash, Quote, Quote>>
          BY <2>5, <2>p
    <3>2. /\ 1 \in 1..Len(part) /\ 2 \in 1..Len(part) /\ 3 \in 1..Len(part) /\ 4 \in 1..Len(part)
          /\ part[1] = Quote /\ part[2] = Backslash /\ part[3] = Quote /\ part[4] = Quote
          /\ ends[k + 1] = e + 4
          BY <3>1, <2>q
    <3>3. f[(e + 1) + 1] = ShellAt("plain", w)
          BY <3>2, <2>1, <2>r, <2>t, ShellSteps
    <3>4. f[(e + 2) + 1] = ShellAt("escaped", w)
      <4>1. (e + 1) + 1 = e + 2
            BY <2>1
      <4> QED
          BY <4>1, <3>2, <3>3, <2>r, <2>t, ShellSteps
    <3>5. f[(e + 3) + 1] = ShellAt("plain", Append(w, Quote))
      <4>1. (e + 2) + 1 = e + 3
            BY <2>1
      <4> QED
          BY <4>1, <3>2, <3>4, <2>r, <2>t, ShellSteps
    <3>6. f[(e + 4) + 1] = ShellAt("quoted", Append(w, Quote))
      <4>1. (e + 3) + 1 = e + 4
            BY <2>1
      <4> DEFINE v == Append(w, Quote)
      <4>2. f[(e + 3) + 1] = ShellAt("plain", v)
            BY <3>5
      <4> HIDE DEF v
      <4>3. f[(e + 4) + 1] = ShellAt("quoted", v)
            BY <4>1, <4>2, <3>2, <2>r, <2>t, ShellSteps
      <4> QED
          BY <4>3 DEF v
    <3>7. f[ends[k + 1] + 1] = ShellAt("quoted", SubSeq(s, 1, k + 1))
          BY <3>2, <3>6, <2>5, <2>2, Zenon
    <3> QED
        BY <3>7, <2>n
  <2> QED
      BY <2>4, <2>5
<1>8. n \in P
  <2> HIDE DEF P
  <2>1. \A k \in 0..n : k \in P
        BY <1>0, <1>6, <1>7, UpTo
  <2> QED
      BY <2>1, <1>0
<1>9. f[ends[n] + 2] = ShellAt("plain", s)
  <2>1. f[ends[n] + 1] = ShellAt("quoted", SubSeq(s, 1, n)) /\ ends[n] \in Nat
        BY <1>8, <1>a, <1>0
  <2>2. SubSeq(s, 1, n) = s
        BY SubSeqFull DEF n
  <2>3. ends[n] + 1 \in 0..(ends[n] + 1) /\ (ends[n] + 1) + 1 = ends[n] + 2
        BY <2>1
  <2>4. f[(ends[n] + 1) + 1] = ShellStep(f[ends[n] + 1], text[(ends[n] + 1) + 1])
        BY <2>3, <1>r, Zenon
  <2> QED
      BY <2>1, <2>2, <2>3, <2>4, <1>4, ShellSteps
<1> QED
    BY <1>4, <1>5, <1>9 DEF text

(* What a state of the specification is: a job, and its result once done.  *)
Computed == job \in Jobs /\ JobsAssumed(job) /\ (done => out = Result(job))

LEMMA ComputedHolds == Spec => []Computed
<1>1. Init => Computed
    BY JobsAssumption, Zenon DEF Init, Computed
<1>2. Computed /\ [Next]_vars => Computed'
  <2> SUFFICES ASSUME Computed, [Next]_vars PROVE Computed'
      OBVIOUS
  <2>1. CASE Compute
        BY <2>1, Zenon DEF Compute, Computed
  <2>2. CASE UNCHANGED vars
        BY <2>2, Zenon DEF vars, Computed
  <2> QED
      BY <2>1, <2>2, Zenon DEF Next, Finished
<1> QED
    BY <1>1, <1>2, PTL DEF Spec

(* A shell that reads a quoted text reads one word, the text, whatever     *)
(* bytes and quotes are in it and however long it is (util.cpp:119-129,    *)
(* every command line LocalExecutor and CommandBuilder build).             *)
THEOREM ShellWordsAreTexts == Spec => []ShellWordIsText
<1>1. Computed => ShellWordIsText
  <2> SUFFICES ASSUME Computed, done, job.kind = "shell"
               PROVE  ShellWord(out) = [mode |-> "plain", word |-> job.s, words |-> 1]
      BY Zenon DEF ShellWordIsText, Answered
  <2>1. out = ShellQuote(job.s)
        BY DEF Computed, Result
  <2>2. job.s \in Seq(Bytes256)
        BY DEF Computed, JobsAssumed
  <2> QED
      BY <2>1, <2>2, ShellQuoteRead DEF ShellAt
<1> QED
    BY <1>1, ComputedHolds, PTL

----------------------------------------------------------------------------
(* base64.  *)
DecodeStates == [mode : {"read", "stop", "bad"}, n : Nat, bits : {0, 2, 4, 6}, out : Seq(Bytes256)]

DecodeStart == Reading(0, 0, <<>>)

LEMMA ReadingType ==
    ASSUME NEW n \in Nat, NEW bits \in {0, 2, 4, 6}, NEW w \in Seq(Bytes256)
    PROVE  Reading(n, bits, w) \in DecodeStates
BY DEF Reading, DecodeStates

LEMMA ShiftedByte ==
    ASSUME NEW n \in Nat, NEW bits \in {2, 4, 6}
    PROVE  Shifted(n, bits) \in Bytes256
<1>1. \A m \in Nat : m % 256 \in 0..255 /\ m \div 4 \in Nat /\ m \div 16 \in Nat
    OBVIOUS
<1>2. CASE bits = 2
    BY <1>1, <1>2 DEF Shifted, Bytes256
<1>3. CASE bits = 4
    BY <1>1, <1>3 DEF Shifted, Bytes256
<1>4. CASE bits = 6
    BY <1>1, <1>4 DEF Shifted, Bytes256
<1> QED
    BY <1>2, <1>3, <1>4

LEMMA ShiftIn == \A n \in Nat : \A v \in 0..63 : (n * 64 + v) % Window \in Nat
BY DEF Window

LEMMA DecodeCharType ==
    ASSUME NEW alphabet, NEW stops, NEW s \in DecodeStates, NEW c
    PROVE  DecodeChar(alphabet, stops, s, c) \in DecodeStates
<1> DEFINE values == {v \in 0..63 : Char(alphabet, v) = c}
           v == CHOOSE v \in 0..63 : Char(alphabet, v) = c
           n == (s.n * 64 + v) % Window
<1>1. /\ s = [mode |-> s.mode, n |-> s.n, bits |-> s.bits, out |-> s.out]
      /\ s.mode \in {"read", "stop", "bad"} /\ s.n \in Nat /\ s.bits \in {0, 2, 4, 6}
      /\ s.out \in Seq(Bytes256)
    BY DEF DecodeStates
<1>2. [s EXCEPT !.mode = "stop"] \in DecodeStates /\ [s EXCEPT !.mode = "bad"] \in DecodeStates
    BY <1>1 DEF DecodeStates
<1>3. CASE values # {}
  <2>1. v \in 0..63
        BY <1>3
  <2> HIDE DEF v
  <2>2. n \in Nat
        BY <2>1, <1>1, ShiftIn, Zenon
  <2> HIDE DEF n
  <2>3. CASE s.bits + 6 >= 8
    <3>1. s.bits \in {2, 4, 6} /\ s.bits - 2 \in {0, 2, 4, 6}
          BY <1>1, <2>3
    <3>2. Append(s.out, Shifted(n, s.bits)) \in Seq(Bytes256)
          BY <3>1, <2>2, <1>1, ShiftedByte
    <3>3. Reading(n, s.bits - 2, Append(s.out, Shifted(n, s.bits))) \in DecodeStates
          BY <3>1, <3>2, <2>2, ReadingType
    <3> QED
        BY <3>3, <2>3, <1>1, <1>2 DEF DecodeChar, n, v
  <2>4. CASE ~(s.bits + 6 >= 8)
    <3>1. s.bits + 6 \in {0, 2, 4, 6}
          BY <1>1, <2>4
    <3>2. Reading(n, s.bits + 6, s.out) \in DecodeStates
          BY <3>1, <2>2, <1>1, ReadingType
    <3> QED
        BY <3>2, <2>4, <1>1, <1>2 DEF DecodeChar, n, v
  <2> QED
      BY <2>3, <2>4
<1>4. CASE values = {}
  <2>1. CharValues(alphabet, c) = {}
        BY <1>4 DEF CharValues
  <2>2. CASE s.mode # "read"
        BY <2>2, Zenon DEF DecodeChar
  <2>3. CASE s.mode = "read" /\ c \in stops
        BY <2>3, <1>2, Zenon DEF DecodeChar
  <2>4. CASE s.mode = "read" /\ c \notin stops
        BY <2>4, <2>1, <1>2, Zenon DEF DecodeChar
  <2> QED
      BY <2>2, <2>3, <2>4, Zenon
<1> QED
    BY <1>3, <1>4

(* The loop over a text.  *)
IsPass(f, alphabet, stops, start, text) ==
    /\ \A k \in 0..Len(text) : f[k] \in DecodeStates
    /\ f[0] = start
    /\ \A k \in 0..(Len(text) - 1) : f[k + 1] = DecodeChar(alphabet, stops, f[k], text[k + 1])

LEMMA DecodeCharsRuns ==
    ASSUME NEW alphabet, NEW stops, NEW start \in DecodeStates, NEW text, text \in Seq(Bytes256)
    PROVE  \E f : IsPass(f, alphabet, stops, start, text)
                    /\ DecodeChars(alphabet, stops, start, text) = f[Len(text)]
<1> DEFINE n == Len(text)
           T == DecodeStates
           base == start
           Eq(f) == f = [k \in 0..n |-> IF k = 0 THEN start
             ELSE DecodeChar(alphabet, stops, f[k - 1], text[k])]
           f == CHOOSE f : Eq(f)
           step == [k \in 1..n |-> [s \in T |-> DecodeChar(alphabet, stops, s, text[k])]]
<1>0. n \in Nat
    OBVIOUS
<1>b. base \in T
    OBVIOUS
<1>t. ASSUME NEW k \in 1..n, NEW s \in T PROVE DecodeChar(alphabet, stops, s, text[k]) \in T
    BY DecodeCharType
<1>1. PICK g : IsRun(g, n, T, base, step)
  <2>1. step \in [1..n -> [T -> T]]
    <3> HIDE DEF n, T
    <3> QED
        BY <1>t
  <2> HIDE DEF step, n, T, base
  <2> QED
      BY <1>0, <1>b, <2>1, Iteration
<1>2. Eq(g)
  <2>1. g \in [0..n -> T] /\ g[0] = base
    <3> HIDE DEF n, T, base, step
    <3> QED
        BY <1>1 DEF IsRun
  <2>2. ASSUME NEW k \in 1..n PROVE g[k] = DecodeChar(alphabet, stops, g[k - 1], text[k])
    <3>1. g[k - 1] \in T
      <4> HIDE DEF n, T
      <4> QED
          BY <2>1, <1>0
    <3>2. g[k] = step[k][g[k - 1]]
      <4> HIDE DEF step, n, T, base
      <4> QED
          BY <1>1 DEF IsRun
    <3>3. step[k] = [s \in T |-> DecodeChar(alphabet, stops, s, text[k])]
      <4> HIDE DEF n, T
      <4> QED
          OBVIOUS
    <3> HIDE DEF step, n, T
    <3> QED
        BY <3>1, <3>2, <3>3
  <2> HIDE DEF n, step, T
  <2> QED
      BY <2>1, <2>2, <1>0
<1>3. Eq(f)
  <2> HIDE DEF Eq
  <2> QED
      BY <1>2
<1>4. DecodeChars(alphabet, stops, start, text) = f[n]
    BY DEF DecodeChars
<1> HIDE DEF f
<1>5. f[0] = start
  <2> HIDE DEF n
  <2> QED
      BY <1>3, <1>0
<1>6. ASSUME NEW k \in 0..(n - 1) PROVE f[k + 1] = DecodeChar(alphabet, stops, f[k], text[k + 1])
  <2> HIDE DEF n
  <2>1. k + 1 \in 0..n /\ k + 1 # 0 /\ (k + 1) - 1 = k
        BY <1>0
  <2>2. f[k + 1] = DecodeChar(alphabet, stops, f[(k + 1) - 1], text[k + 1])
        BY <2>1, <1>3
  <2> QED
      BY <2>1, <2>2
<1>7. \A k \in 0..n : f[k] \in T
  <2> HIDE DEF T, Eq
  <2> DEFINE P == {k \in Nat : f[k] \in T}
  <2>1. 0 \in P
        BY <1>5, <1>b
  <2>2. ASSUME NEW k \in 0..(n - 1), k \in P PROVE k + 1 \in P
    <3> HIDE DEF n
    <3>1. k + 1 \in 1..n /\ f[k] \in T
          BY <1>0, <2>2
    <3>2. DecodeChar(alphabet, stops, f[k], text[k + 1]) \in T
          BY <3>1, <1>t, Zenon
    <3>3. f[k + 1] \in T /\ k + 1 \in Nat
          BY <3>1, <3>2, <1>6
    <3> QED
        BY <3>3
  <2> HIDE DEF P, n
  <2>3. \A k \in 0..n : k \in P
        BY <1>0, <2>1, <2>2, UpTo, Zenon
  <2> QED
      BY <2>3, <1>0 DEF P
<1> QED
    BY <1>4, <1>5, <1>6, <1>7 DEF IsPass

IsStretch(t, text, j) ==
    /\ t \in Seq(Bytes256)
    /\ Len(t) = IF 64 * j < Len(text) THEN 64 ELSE Len(text) - 64 * (j - 1)
    /\ Len(t) \in 1..64
    /\ \A i \in 1..Len(t) : 64 * (j - 1) + i \in 1..Len(text) /\ t[i] = text[64 * (j - 1) + i]

LEMMA StretchPlaces ==
    ASSUME NEW text, text \in Seq(Bytes256), NEW j \in 1..Stretches(text)
    PROVE  IsStretch(Stretch(text, j), text, j)
<1>1. \A l \in Nat : \A k \in 1..((l + 63) \div 64) :
        /\ k \in Nat /\ 64 * k - 63 \in 1..l
        /\ 64 * k < l => 64 * k - (64 * k - 63) + 1 = 64
        /\ ~(64 * k < l) => l - (64 * k - 63) + 1 = l - 64 * (k - 1) /\ l - 64 * (k - 1) \in 1..64
    OBVIOUS
<1> DEFINE from == 64 * j - 63
           to == IF 64 * j < Len(text) THEN 64 * j ELSE Len(text)
<1>2. Len(text) \in Nat /\ j \in 1..((Len(text) + 63) \div 64)
    BY DEF Stretches
<1>3. from \in 1..Len(text) /\ to \in Nat /\ to <= Len(text) /\ from <= to
  <2> DEFINE l == Len(text)
  <2>1. 64 * j - 63 \in 1..l /\ l \in Nat /\ j \in Nat
        BY <1>1, <1>2
  <2> HIDE DEF l
  <2>2. 64 * j - 63 \in 1..l /\ (64 * j < l => 64 * j \in Nat /\ 64 * j <= l /\ 64 * j - 63 <= 64 * j)
        BY <2>1
  <2> QED
      BY <2>1, <2>2 DEF l
<1>4. SubSeq(text, from, to) \in Seq(Bytes256) /\ Len(SubSeq(text, from, to)) = to - from + 1
      /\ \A i \in 1..(to - from + 1) : SubSeq(text, from, to)[i] = text[from + i - 1]
  <2> HIDE DEF from, to
  <2> QED
      BY <1>3
<1>5. j \in Nat /\ from - 1 = 64 * (j - 1) /\ from = 64 * (j - 1) + 1
  <2>1. j \in Nat
        BY <1>1, <1>2
  <2> QED
      BY <2>1
<1>6. to - from + 1 = (IF 64 * j < Len(text) THEN 64
        ELSE Len(text) - 64 * (j - 1)) /\ to - from + 1 \in 1..64
  <2> DEFINE l == Len(text)
  <2>1. /\ l \in Nat
        /\ 64 * j < l => 64 * j - (64 * j - 63) + 1 = 64
        /\ ~(64 * j < l) => l - (64 * j - 63) + 1 = l - 64 * (j - 1) /\ l - 64 * (j - 1) \in 1..64
        BY <1>1, <1>2
  <2> HIDE DEF l
  <2>2. (IF 64 * j < l THEN 64 * j ELSE l) - (64 * j - 63) + 1 = (IF 64 * j < l THEN 64
          ELSE l - 64 * (j - 1))
        BY <2>1
  <2>3. (IF 64 * j < l THEN 64 ELSE l - 64 * (j - 1)) \in 1..64
        BY <2>1
  <2> QED
      BY <2>2, <2>3 DEF l
<1>7. Stretch(text, j) = SubSeq(text, from, to)
    BY DEF Stretch
<1> HIDE DEF from, to
<1>8. \A i \in 1..(to - from + 1) : from + i - 1 = 64 * (j - 1) + i /\ 64 * (j - 1) + i \in 1..Len(text)
    BY <1>3, <1>5, <1>2
<1> QED
    BY <1>4, <1>6, <1>7, <1>8 DEF IsStretch

LEMMA DecodeStateRuns ==
    ASSUME NEW alphabet, NEW stops, NEW text, text \in Seq(Bytes256)
    PROVE  \E f : /\ \A k \in 0..Stretches(text) : f[k] \in DecodeStates
                  /\ f[0] = DecodeStart
                  /\ \A k \in 0..(Stretches(text) - 1) : f[k + 1] = IF f[k].mode # "read" THEN f[k]
                     ELSE DecodeChars(alphabet, stops, f[k], Stretch(text, k + 1))
                  /\ DecodeState(alphabet, stops, text) = f[Stretches(text)]
<1> DEFINE n == Stretches(text)
           T == DecodeStates
           base == DecodeStart
           Eq(f) == f = [k \in 0..n |-> IF k = 0 THEN DecodeStart
             ELSE IF f[k - 1].mode # "read" THEN f[k - 1]
               ELSE DecodeChars(alphabet, stops, f[k - 1], Stretch(text, k))]
           f == CHOOSE f : Eq(f)
           step == [k \in 1..n |-> [s \in T |-> IF s.mode # "read" THEN s
             ELSE DecodeChars(alphabet, stops, s, Stretch(text, k))]]
<1>0. n \in Nat
    BY DEF Stretches
<1>b. base \in T
    BY EmptySeq, ReadingType DEF DecodeStart
<1>t. ASSUME NEW k \in 1..n, NEW s \in T 
      PROVE  (IF s.mode # "read" THEN s ELSE DecodeChars(alphabet, stops, s, Stretch(text, k))) \in T
  <2>1. Stretch(text, k) \in Seq(Bytes256)
        BY StretchPlaces DEF IsStretch
  <2>2. PICK p : /\ IsPass(p, alphabet, stops, s, Stretch(text, k))
                 /\ DecodeChars(alphabet, stops, s, Stretch(text, k)) = p[Len(Stretch(text, k))]
        BY <2>1, DecodeCharsRuns, Zenon
  <2>3. Len(Stretch(text, k)) \in 0..Len(Stretch(text, k))
        BY <2>1
  <2>4. DecodeChars(alphabet, stops, s, Stretch(text, k)) \in DecodeStates
        BY <2>2, <2>3, Zenon DEF IsPass
  <2>5. CASE s.mode # "read"
        BY <2>5
  <2>6. CASE s.mode = "read"
        BY <2>4, <2>6, Zenon
  <2> QED
      BY <2>5, <2>6
<1>1. PICK g : IsRun(g, n, T, base, step)
  <2>1. step \in [1..n -> [T -> T]]
    <3> HIDE DEF n, T
    <3> QED
        BY <1>t
  <2> HIDE DEF step, n, T, base
  <2> QED
      BY <1>0, <1>b, <2>1, Iteration
<1>2. Eq(g)
  <2>1. g \in [0..n -> T] /\ g[0] = base
    <3> HIDE DEF n, T, base, step
    <3> QED
        BY <1>1 DEF IsRun
  <2>2. ASSUME NEW k \in 1..n PROVE g[k] = IF g[k - 1].mode # "read" THEN g[k - 1]
                 ELSE DecodeChars(alphabet, stops, g[k - 1], Stretch(text, k))
    <3>1. g[k - 1] \in T
      <4> HIDE DEF n, T
      <4> QED
          BY <2>1, <1>0
    <3>2. g[k] = step[k][g[k - 1]]
      <4> HIDE DEF step, n, T, base
      <4> QED
          BY <1>1 DEF IsRun
    <3>3. step[k] = [s \in T |-> IF s.mode # "read" THEN s
            ELSE DecodeChars(alphabet, stops, s, Stretch(text, k))]
      <4> HIDE DEF n, T
      <4> QED
          OBVIOUS
    <3> HIDE DEF step, n, T
    <3> QED
        BY <3>1, <3>2, <3>3
  <2> HIDE DEF n, step, T
  <2> QED
      BY <2>1, <2>2, <1>0
<1>3. Eq(f)
  <2> HIDE DEF Eq
  <2> QED
      BY <1>2
<1>4. DecodeState(alphabet, stops, text) = f[n]
    BY DEF DecodeState, DecodeStart
<1> HIDE DEF f
<1>5. f[0] = DecodeStart
  <2> HIDE DEF n
  <2> QED
      BY <1>3, <1>0
<1>6. ASSUME NEW k \in 0..(n - 1) PROVE f[k + 1] = IF f[k].mode # "read" THEN f[k]
               ELSE DecodeChars(alphabet, stops, f[k], Stretch(text, k + 1))
  <2> HIDE DEF n
  <2>1. k + 1 \in 0..n /\ k + 1 # 0 /\ (k + 1) - 1 = k
        BY <1>0
  <2>2. f[k + 1] = IF f[(k + 1) - 1].mode # "read" THEN f[(k + 1) - 1]
          ELSE DecodeChars(alphabet, stops, f[(k + 1) - 1], Stretch(text, k + 1))
        BY <2>1, <1>3
  <2> QED
      BY <2>1, <2>2
<1>7. \A k \in 0..n : f[k] \in T
  <2> HIDE DEF T, Eq
  <2> DEFINE P == {k \in Nat : f[k] \in T}
  <2>1. 0 \in P
        BY <1>5, <1>b
  <2>2. ASSUME NEW k \in 0..(n - 1), k \in P PROVE k + 1 \in P
    <3> HIDE DEF n
    <3>1. k + 1 \in 1..n /\ f[k] \in T
          BY <1>0, <2>2
    <3>2. (IF f[k].mode # "read" THEN f[k]
            ELSE DecodeChars(alphabet, stops, f[k], Stretch(text, k + 1))) \in T
          BY <3>1, <1>t, Zenon
    <3>3. f[k + 1] \in T /\ k + 1 \in Nat
          BY <3>1, <3>2, <1>6
    <3> QED
        BY <3>3
  <2> HIDE DEF P, n
  <2>3. \A k \in 0..n : k \in P
        BY <1>0, <2>1, <2>2, UpTo, Zenon
  <2> QED
      BY <2>3, <1>0 DEF P
<1> QED
    BY <1>4, <1>5, <1>6, <1>7

(* A stretch after the end of the text changes nothing.  *)
LEMMA DecodeCharsStopped ==
    ASSUME NEW alphabet, NEW stops, NEW start \in DecodeStates, start.mode # "read",
           NEW text, text \in Seq(Bytes256)
    PROVE  DecodeChars(alphabet, stops, start, text) = start
<1> DEFINE n == Len(text)
<1>0. n \in Nat
    OBVIOUS
<1>1. PICK f : /\ f[0] = start
               /\ \A k \in 0..(n - 1) : f[k + 1] = DecodeChar(alphabet, stops, f[k], text[k + 1])
               /\ DecodeChars(alphabet, stops, start, text) = f[n]
    BY DecodeCharsRuns DEF IsPass
<1> HIDE DEF n
<1> DEFINE P == {k \in Nat : f[k] = start}
<1>2. 0 \in P
    BY <1>1
<1>3. ASSUME NEW k \in 0..(n - 1), k \in P PROVE k + 1 \in P
  <2>1. f[k + 1] = DecodeChar(alphabet, stops, start, text[k + 1]) /\ k + 1 \in Nat
        BY <1>1, <1>3, <1>0
  <2>2. DecodeChar(alphabet, stops, start, text[k + 1]) = start
        BY Zenon DEF DecodeChar
  <2> QED
      BY <2>1, <2>2
<1> HIDE DEF P
<1>4. \A k \in 0..n : k \in P
    BY <1>0, <1>2, <1>3, UpTo, Zenon
<1> QED
    BY <1>0, <1>1, <1>4 DEF P

(* The stretches make one pass over the text.  *)
LEMMA DecodeRuns ==
    ASSUME NEW alphabet, NEW stops, NEW text, text \in Seq(Bytes256)
    PROVE  \E f : /\ IsPass(f, alphabet, stops, DecodeStart, text)
                  /\ DecodeState(alphabet, stops, text) = f[Len(text)]
<1> DEFINE n == Len(text)
           m == Stretches(text)
           place(j) == IF 64 * j < n THEN 64 * j ELSE n
<1>0. n \in Nat /\ m \in Nat
    BY DEF Stretches
<1>p. /\ place(0) = 0 /\ place(m) = n
      /\ \A j \in 0..(m - 1) : place(j) = 64 * j /\ 64 * j <= n
  <2> DEFINE l == n
  <2>1. l \in Nat /\ m = (l + 63) \div 64
        BY DEF Stretches
  <2> HIDE DEF l, m
  <2>2. /\ (IF 64 * 0 < l THEN 64 * 0 ELSE l) = 0
        /\ (IF 64 * m < l THEN 64 * m ELSE l) = l
        /\ \A j \in 0..(m - 1) : 64 * j < l
        BY <2>1
  <2> QED
      BY <2>2 DEF l
<1>1. PICK f : IsPass(f, alphabet, stops, DecodeStart, text)
  <2>1. DecodeStart \in DecodeStates
        BY EmptySeq, ReadingType DEF DecodeStart
  <2> QED
      BY <2>1, DecodeCharsRuns, Zenon
<1>f. /\ \A k \in 0..n : f[k] \in DecodeStates
      /\ f[0] = DecodeStart
      /\ \A k \in 0..(n - 1) : f[k + 1] = DecodeChar(alphabet, stops, f[k], text[k + 1])
    BY <1>1 DEF IsPass
<1>2. PICK h : /\ \A j \in 0..m : h[j] \in DecodeStates
               /\ h[0] = DecodeStart
               /\ \A j \in 0..(m - 1) :
                    h[j + 1] = IF h[j].mode # "read" THEN h[j]
                               ELSE DecodeChars(alphabet, stops, h[j], Stretch(text, j + 1))
               /\ DecodeState(alphabet, stops, text) = h[m]
    BY DecodeStateRuns
<1> DEFINE P == {j \in Nat : h[j] = f[place(j)]}
<1>3. 0 \in P
    BY <1>f, <1>2, <1>p
<1>4. ASSUME NEW j \in 0..(m - 1), j \in P PROVE j + 1 \in P
  <2> DEFINE t == Stretch(text, j + 1)
             len == Len(t)
  <2>1. /\ t \in Seq(Bytes256) /\ len = (IF 64 * (j + 1) < n THEN 64 ELSE n - 64 * j)
        /\ \A i \in 1..len : 64 * j + i \in 1..n /\ t[i] = text[64 * j + i]
    <3> DEFINE q == j + 1
    <3>1. q \in 1..m /\ q - 1 = j
      <4> HIDE DEF m
      <4> QED
          BY <1>0
    <3> HIDE DEF q
    <3>2. IsStretch(Stretch(text, q), text, q)
          BY <3>1, StretchPlaces, Zenon
    <3> PICK u : u = Stretch(text, q)
        OBVIOUS
    <3>3. /\ u \in Seq(Bytes256) /\ Len(u) = (IF 64 * q < n THEN 64 ELSE n - 64 * j)
          /\ \A i \in 1..Len(u) : 64 * j + i \in 1..n /\ u[i] = text[64 * j + i]
          BY <3>1, <3>2, Zenon DEF IsStretch
    <3> QED
        BY <3>3 DEF q
  <2>2. len \in Nat
        BY <2>1
  <2>3. h[j] = f[64 * j] /\ h[j] \in DecodeStates
        BY <1>2, <1>4, <1>p, <1>0
  <2>4. h[j + 1] = DecodeChars(alphabet, stops, h[j], t)
    <3>1. h[j + 1] = IF h[j].mode # "read" THEN h[j] ELSE DecodeChars(alphabet, stops, h[j], t)
          BY <1>2
    <3>2. CASE h[j].mode # "read"
      <4>1. DecodeChars(alphabet, stops, h[j], t) = h[j]
        <5> HIDE DEF t
        <5> QED
            BY <3>2, <2>1, <2>3, DecodeCharsStopped
      <4> QED
          BY <3>1, <3>2, <4>1
    <3> QED
        BY <3>1, <3>2
  <2>5. PICK d : /\ \A i \in 0..len : d[i] \in DecodeStates
                 /\ d[0] = h[j]
                 /\ \A i \in 0..(len - 1) : d[i + 1] = DecodeChar(alphabet, stops, d[i], t[i + 1])
                 /\ DecodeChars(alphabet, stops, h[j], t) = d[len]
    <3>1. t \in Seq(Bytes256) /\ h[j] \in DecodeStates
          BY <2>1, <2>3
    <3> HIDE DEF t
    <3>2. PICK d : IsPass(d, alphabet, stops, h[j], t) /\ DecodeChars(alphabet, stops, h[j], t) = d[Len(t)]
          BY <3>1, DecodeCharsRuns, Zenon
    <3> QED
        BY <3>2 DEF IsPass
  <2> HIDE DEF len, t
  <2> DEFINE Q == {i \in Nat : d[i] = f[64 * j + i]}
  <2>6. 0 \in Q
        BY <2>3, <2>5
  <2>7. ASSUME NEW i \in 0..(len - 1), i \in Q PROVE i + 1 \in Q
    <3>1. i + 1 \in 1..len /\ 64 * j + (i + 1) = (64 * j + i) + 1 /\ i + 1 \in Nat
          BY <2>2
    <3>2. d[i + 1] = DecodeChar(alphabet, stops, f[64 * j + i], text[64 * j + (i + 1)])
          BY <3>1, <2>1, <2>5, <2>7
    <3>3. 64 * j + i \in 0..(n - 1)
          BY <3>1, <2>1
    <3>4. f[(64 * j + i) + 1] = DecodeChar(alphabet, stops, f[64 * j + i], text[(64 * j + i) + 1])
          BY <3>3, <1>f
    <3> QED
        BY <3>1, <3>2, <3>4
  <2>8. d[len] = f[64 * j + len]
    <3> HIDE DEF Q
    <3>1. \A i \in 0..len : i \in Q
          BY <2>2, <2>6, <2>7, UpTo, Zenon
    <3> QED
        BY <3>1, <2>2 DEF Q
  <2>9. place(j + 1) = 64 * j + len /\ j + 1 \in Nat
    <3> HIDE DEF n, m
    <3> QED
        BY <2>1, <1>0
  <2>10. h[j + 1] = f[place(j + 1)]
        BY <2>4, <2>5, <2>8, <2>9
  <2> QED
      BY <2>9, <2>10
<1>5. h[m] = f[n]
  <2> HIDE DEF P, m
  <2>1. \A j \in 0..m : j \in P
        BY <1>0, <1>3, <1>4, UpTo, Zenon
  <2>2. m \in P
        BY <2>1, <1>0
  <2> QED
      BY <2>2, <1>p DEF P
<1> QED
    BY <1>1, <1>2, <1>5

Alphabets == {Std, Url}
StopSets  == SUBSET {Equals, LF, CR}

LEMMA CharFacts ==
    ASSUME NEW a \in Alphabets, NEW v \in 0..63, NEW w \in 0..63
    PROVE  /\ Char(a, v) \in Bytes256 /\ Char(a, v) \notin {Equals, LF, CR}
           /\ Char(a, v) = Char(a, w) => v = w
<1>1. PICK x, y : a[1] = x /\ a[2] = y /\ <<x, y>> \in {<<43, 47>>, <<45, 95>>}
    BY DEF Std, Url, Alphabets
<1>2. \A u \in 0..63 : Char(a, u) = IF u < 26 THEN 65 + u ELSE IF u < 52 THEN 71 + u
                         ELSE IF u < 62 THEN u - 4
                                    ELSE IF u = 62 THEN x ELSE y
    BY <1>1 DEF Char
<1>3. x \in {43, 45} /\ y \in {47, 95}
    BY <1>1
<1> QED
    BY <1>2, <1>3 DEF Equals, LF, CR, Bytes256

Next6(n, v) == (n * 64 + v) % Window

Joined1(v, w) == v * 4 + w \div 16
Joined2(v, w) == (v % 16) * 16 + w \div 4
Joined3(v, w) == (v % 4) * 64 + w

LEMMA NextByte ==
    ASSUME NEW n \in Nat, NEW v \in 0..63, NEW w \in 0..63
    PROVE  /\ Next6(n, v) \in Nat
           /\ Shifted(Next6(Next6(n, v), w), 6) = Joined1(v, w)
           /\ Shifted(Next6(Next6(n, v), w), 4) = Joined2(v, w)
           /\ Shifted(Next6(Next6(n, v), w), 2) = Joined3(v, w)
<1>1. Next6(n, v) \in Nat /\ Next6(Next6(n, v), w) = v * 64 + w
    BY DEF Next6, Window
<1>2. /\ Shifted(v * 64 + w, 6) = v * 4 + w \div 16
      /\ Shifted(v * 64 + w, 4) = (v % 16) * 16 + w \div 4
      /\ Shifted(v * 64 + w, 2) = (v % 4) * 64 + w
    BY DEF Shifted
<1> QED
    BY <1>1, <1>2 DEF Joined1, Joined2, Joined3

(* The four sextets of three bytes.  *)
Six1(x)    == x \div 4
Six2(x, y) == (x % 4) * 16 + y \div 16
Six3(y, z) == (y % 16) * 4 + z \div 64
Six4(z)    == z % 64

LEMMA SixBitsRange ==
    ASSUME NEW x \in Bytes256, NEW y \in Bytes256, NEW z \in Bytes256
    PROVE  Six1(x) \in 0..63 /\ Six2(x, y) \in 0..63 /\ Six3(y, z) \in 0..63 /\ Six4(z) \in 0..63
<1>1. x \in 0..255 /\ y \in 0..255 /\ z \in 0..255
    BY DEF Bytes256
<1> QED
    BY <1>1, SMT DEF Six1, Six2, Six3, Six4

LEMMA Rejoined ==
    ASSUME NEW x \in Bytes256, NEW y \in Bytes256, NEW z \in Bytes256
    PROVE  /\ Joined1(Six1(x), Six2(x, y)) = x
           /\ Joined2(Six2(x, y), Six3(y, z)) = y
           /\ Joined3(Six3(y, z), Six4(z)) = z
<1>1. x \in 0..255 /\ y \in 0..255 /\ z \in 0..255
    BY DEF Bytes256
<1> QED
    BY <1>1, SMT DEF Six1, Six2, Six3, Six4, Joined1, Joined2, Joined3

LEMMA SixBits ==
    ASSUME NEW x \in Bytes256, NEW y \in Bytes256, NEW z \in Bytes256
    PROVE  LET n == x * 65536 + y * 256 + z
           IN  /\ n \div 262144 = Six1(x)
               /\ (n \div 4096) % 64 = Six2(x, y)
               /\ (n \div 64) % 64 = Six3(y, z)
               /\ n % 64 = Six4(z)
<1> DEFINE v1 == Six1(x)  v2 == Six2(x, y)  v3 == Six3(y, z)  v4 == Six4(z)
<1>1. x \in 0..255 /\ y \in 0..255 /\ z \in 0..255
    BY DEF Bytes256
<1>2. v1 \in 0..63 /\ v2 \in 0..63 /\ v3 \in 0..63 /\ v4 \in 0..63
    BY SixBitsRange
<1>3. x * 65536 + y * 256 + z = 262144 * v1 + 4096 * v2 + 64 * v3 + v4
    BY <1>1, SMT DEF Six1, Six2, Six3, Six4
<1> HIDE DEF v1, v2, v3, v4
<1>4. LET n == 262144 * v1 + 4096 * v2 + 64 * v3 + v4
      IN  n \div 262144 = v1 /\ (n \div 4096) % 64 = v2 /\ (n \div 64) % 64 = v3 /\ n % 64 = v4
  <2> DEFINE n == 262144 * v1 + 4096 * v2 + 64 * v3 + v4
  <2>1. n \div 262144 = v1
        BY <1>2, SMT
  <2>2. n \div 4096 = 64 * v1 + v2
        BY <1>2, SMT
  <2>3. n \div 64 = 4096 * v1 + 64 * v2 + v3
        BY <1>2, SMT
  <2>4. n % 64 = v4
        BY <1>2, SMT
  <2>5. (64 * v1 + v2) % 64 = v2 /\ (4096 * v1 + 64 * v2 + v3) % 64 = v3
        BY <1>2, SMT
  <2> HIDE DEF n
  <2> QED
      BY <2>1, <2>2, <2>3, <2>4, <2>5, SMT DEF n
<1> QED
    BY <1>3, <1>4, SMT DEF v1, v2, v3, v4

LEMMA DecodeOne ==
    ASSUME NEW a \in Alphabets, NEW stops \in StopSets, NEW v \in 0..63,
           NEW n, NEW bits \in {0, 2, 4, 6}, NEW w
    PROVE  /\ bits = 0 => DecodeChar(a, stops, Reading(n, bits, w), Char(a, v)) = Reading(Next6(n, v), 6, w)
           /\ bits # 0 => DecodeChar(a, stops, Reading(n, bits, w), Char(a, v)) =
                              Reading(Next6(n, v), bits - 2, Append(w, Shifted(Next6(n, v), bits)))
<1> DEFINE s == Reading(n, bits, w)
           c == Char(a, v)
           u == CHOOSE x \in 0..63 : Char(a, x) = c
<1>1. c \notin stops
    BY CharFacts DEF StopSets
<1>2. u \in 0..63 /\ Char(a, u) = c
    OBVIOUS
<1>3. u = v
  <2> HIDE DEF u, c
  <2>1. Char(a, u) = Char(a, v)
        BY <1>2 DEF c
  <2> QED
      BY <1>2, <2>1, CharFacts
<1>4. CharValues(a, c) # {}
    BY DEF CharValues
<1>5. s.mode = "read" /\ s.n = n /\ s.bits = bits /\ s.out = w
    BY DEF Reading
<1> DEFINE m == (s.n * 64 + u) % Window
<1>7. m = Next6(n, v)
    BY <1>3, <1>5, Zenon DEF Next6
<1>8. DecodeChar(a, stops, s, c) =
          IF s.bits + 6 >= 8 THEN Reading(m, s.bits - 2, Append(s.out, Shifted(m, s.bits)))
          ELSE Reading(m, s.bits + 6, s.out)
  <2> HIDE DEF s, c
  <2> QED
      BY <1>1, <1>4, <1>5, Zenon DEF DecodeChar, m, u
<1> HIDE DEF s, m, c, u
<1>9. DecodeChar(a, stops, s, c) =
          IF bits + 6 >= 8 THEN Reading(m, bits - 2, Append(w, Shifted(m, bits)))
          ELSE Reading(m, bits + 6, w)
    BY <1>5, <1>8, Zenon
<1>10. CASE bits = 0
  <2>1. ~(bits + 6 >= 8) /\ bits + 6 = 6
        BY <1>10
  <2>2. DecodeChar(a, stops, s, c) = Reading(m, 6, w)
        BY <2>1, <1>9
  <2> QED
      BY <2>2, <1>7, <1>10, Zenon DEF s, c
<1>11. CASE bits # 0
  <2>1. bits + 6 >= 8
        BY <1>11
  <2>2. DecodeChar(a, stops, s, c) = Reading(m, bits - 2, Append(w, Shifted(m, bits)))
        BY <2>1, <1>9, Zenon
  <2> QED
      BY <2>2, <1>7, <1>11, Zenon DEF s, c
<1> QED
    BY <1>10, <1>11

LEMMA DecodeFirst ==
    ASSUME NEW a \in Alphabets, NEW stops \in StopSets, NEW v \in 0..63, NEW n, NEW w
    PROVE  DecodeChar(a, stops, Reading(n, 0, w), Char(a, v)) = Reading(Next6(n, v), 6, w)
<1>1. 0 \in {0, 2, 4, 6}
    OBVIOUS
<1> QED
    BY <1>1, DecodeOne

LEMMA DecodeMore ==
    ASSUME NEW a \in Alphabets, NEW stops \in StopSets, NEW v \in 0..63, NEW n, NEW w,
           NEW bits \in {2, 4, 6}
    PROVE  DecodeChar(a, stops, Reading(n, bits, w), Char(a, v)) =
               Reading(Next6(n, v), bits - 2, Append(w, Shifted(Next6(n, v), bits)))
<1>1. bits \in {0, 2, 4, 6} /\ bits # 0
    OBVIOUS
<1> QED
    BY <1>1, DecodeOne

Stopped(n, bits, bytes) == [mode |-> "stop", n |-> n, bits |-> bits, out |-> bytes]

LEMMA DecodeStop ==
    ASSUME NEW a, NEW stops, NEW c \in stops, NEW n, NEW bits, NEW w
    PROVE  DecodeChar(a, stops, Reading(n, bits, w), c) = Stopped(n, bits, w)
<1> PICK s, r : s = Reading(n, bits, w) /\ r = Stopped(n, bits, w)
    OBVIOUS
<1>1. s.mode = "read" /\ [s EXCEPT !.mode = "stop"] = r
    BY DEF Reading, Stopped
<1> QED
    BY <1>1, Zenon DEF DecodeChar

LEMMA DecodeStopped ==
    ASSUME NEW a, NEW stops, NEW c, NEW n, NEW bits, NEW w
    PROVE  DecodeChar(a, stops, Stopped(n, bits, w), c) = Stopped(n, bits, w)
<1> PICK r : r = Stopped(n, bits, w)
    OBVIOUS
<1>1. r.mode # "read"
    BY DEF Stopped
<1> QED
    BY <1>1, Zenon DEF DecodeChar

(* The bytes a state has read, and that no character was bad.  *)
HasRead(s, bytes) == s.mode # "bad" /\ s.out = bytes

LEMMA HaveRead ==
    ASSUME NEW n, NEW bits, NEW w
    PROVE  HasRead(Reading(n, bits, w), w) /\ HasRead(Stopped(n, bits, w), w)
BY DEF Reading, Stopped, HasRead

LEMMA Repeats ==
    ASSUME NEW S, NEW c \in S, NEW m \in Nat
    PROVE  /\ [k \in 1..m |-> c] \in Seq(S) /\ Len([k \in 1..m |-> c]) = m
           /\ \A k \in 1..m : [j \in 1..m |-> c][k] = c
OBVIOUS

LEMMA Pair ==
    ASSUME NEW S, NEW x \in S, NEW y \in S
    PROVE Append(<<x>>, y) = <<x, y>>
<1> PICK s, u, v : s = <<x>> /\ u = Append(s, y) /\ v = <<x, y>>
    OBVIOUS
<1>1. s \in Seq(S) /\ Len(s) = 1 /\ s[1] = x
    OBVIOUS
<1>2. v \in Seq(S) /\ Len(v) = 2 /\ v[1] = x /\ v[2] = y
    OBVIOUS
<1>3. u \in Seq(S) /\ Len(u) = 2 /\ u[1] = x /\ u[2] = y
    BY <1>1
<1>4. Len(u) = Len(v) /\ \A i \in 1..Len(u) : u[i] = v[i]
    BY <1>2, <1>3
<1>5. u = v
    BY <1>2, <1>3, <1>4, SeqEqual, Zenon
<1> QED
    BY <1>5

LEMMA Triple ==
    ASSUME NEW S, NEW x \in S, NEW y \in S, NEW z \in S
    PROVE Append(<<x, y>>, z) = <<x, y, z>>
<1> PICK s, u, v : s = <<x, y>> /\ u = Append(s, z) /\ v = <<x, y, z>>
    OBVIOUS
<1>1. s \in Seq(S) /\ Len(s) = 2 /\ s[1] = x /\ s[2] = y
    OBVIOUS
<1>2. v \in Seq(S) /\ Len(v) = 3 /\ v[1] = x /\ v[2] = y /\ v[3] = z
    OBVIOUS
<1>3. u \in Seq(S) /\ Len(u) = 3 /\ u[1] = x /\ u[2] = y /\ u[3] = z
    BY <1>1
<1>4. Len(u) = Len(v) /\ \A i \in 1..Len(u) : u[i] = v[i]
    BY <1>2, <1>3
<1>5. u = v
    BY <1>2, <1>3, <1>4, SeqEqual, Zenon
<1> QED
    BY <1>5

(* A group of one to three bytes, the missing ones zero, and its          *)
(* characters.                                                             *)
Groups == {g \in Seq(Bytes256) : Len(g) \in 1..3}
Byte1(g) == g[1]
Byte2(g) == IF Len(g) > 1 THEN g[2] ELSE 0
Byte3(g) == IF Len(g) > 2 THEN g[3] ELSE 0

LEMMA GroupBytes ==
    ASSUME NEW g \in Groups
    PROVE  Byte1(g) \in Bytes256 /\ Byte2(g) \in Bytes256 /\ Byte3(g) \in Bytes256
<1>1. 0 \in Bytes256
    BY DEF Bytes256
<1>2. g \in Seq(Bytes256) /\ Len(g) \in 1..3
    BY DEF Groups
<1>3. \A k \in 1..Len(g) : g[k] \in Bytes256
    BY <1>2
<1> QED
    BY <1>1, <1>2, <1>3 DEF Byte1, Byte2, Byte3

LEMMA GroupChars ==
    ASSUME NEW a \in Alphabets, NEW pad \in BOOLEAN, NEW g \in Groups
    PROVE  /\ EncodeGroup(a, pad, g) \in Seq(Bytes256)
           /\ Len(EncodeGroup(a, pad, g)) = IF pad THEN 4 ELSE Len(g) + 1
           /\ EncodeGroup(a, pad, g)[1] = Char(a, Six1(Byte1(g)))
           /\ EncodeGroup(a, pad, g)[2] = Char(a, Six2(Byte1(g), Byte2(g)))
           /\ Len(g) > 1 => EncodeGroup(a, pad, g)[3] = Char(a, Six3(Byte2(g), Byte3(g)))
           /\ Len(g) > 2 => EncodeGroup(a, pad, g)[4] = Char(a, Six4(Byte3(g)))
           /\ \A k \in (Len(g) + 2)..Len(EncodeGroup(a, pad, g)) : EncodeGroup(a, pad, g)[k] = Equals
<1>p. PICK x, y, z, l, e : x = Byte1(g) /\ y = Byte2(g) /\ z = Byte3(g) /\ l = Len(g)
                             /\ e = EncodeGroup(a, pad, g)
    OBVIOUS
<1>g. g \in Seq(Bytes256) /\ x \in Bytes256 /\ y \in Bytes256 /\ z \in Bytes256
    BY <1>p, GroupBytes, Zenon DEF Groups
<1>l. l \in 1..3
    BY <1>p DEF Groups
<1> DEFINE n == g[1] * 65536 + (IF Len(g) > 1 THEN g[2] * 256 ELSE 0) + (IF Len(g) > 2 THEN g[3] ELSE 0)
           chars == <<n \div 262144, (n \div 4096) % 64, (n \div 64) % 64, n % 64>>
           v == <<Six1(x), Six2(x, y), Six3(y, z), Six4(z)>>
           head == [k \in 1..(l + 1) |-> Char(a, chars[k])]
           tail == IF pad THEN [k \in 1..(3 - l) |-> Equals] ELSE <<>>
<1>1. n = x * 65536 + y * 256 + z
    BY <1>p, <1>g, SMT DEF Bytes256, Byte1, Byte2, Byte3, Groups
<1>2. chars = v
  <2>1. LET m == x * 65536 + y * 256 + z
        IN  <<m \div 262144, (m \div 4096) % 64, (m \div 64) % 64, m % 64>> = v
        BY <1>g, SixBits, SMT
  <2> QED
      BY <1>1, <2>1, SMT
<1>3. e = head \o tail
    BY <1>p, SMT DEF EncodeGroup
<1> HIDE DEF n, chars
<1>4. \A k \in 1..4 : v[k] \in 0..63
  <2>1. Six1(x) \in 0..63 /\ Six2(x, y) \in 0..63 /\ Six3(y, z) \in 0..63 /\ Six4(z) \in 0..63
        BY <1>g, SixBitsRange, Zenon
  <2> PICK v1, v2, v3, v4 : v1 = Six1(x) /\ v2 = Six2(x, y) /\ v3 = Six3(y, z) /\ v4 = Six4(z)
      OBVIOUS
  <2>2. v = <<v1, v2, v3, v4>> /\ v1 \in 0..63 /\ v2 \in 0..63 /\ v3 \in 0..63 /\ v4 \in 0..63
        BY <2>1, Zenon
  <2> HIDE DEF v
  <2>3. v[1] = v1 /\ v[2] = v2 /\ v[3] = v3 /\ v[4] = v4
        BY <2>2
  <2>4. v[1] \in 0..63 /\ v[2] \in 0..63 /\ v[3] \in 0..63 /\ v[4] \in 0..63
        BY <2>2, <2>3, Zenon
  <2> SUFFICES ASSUME NEW k \in 1..4 PROVE v[k] \in 0..63
      OBVIOUS
  <2>5. k = 1 \/ k = 2 \/ k = 3 \/ k = 4
      OBVIOUS
  <2> QED
      BY <2>4, <2>5, Zenon
<1> HIDE DEF v
<1>6. head \in Seq(Bytes256) /\ Len(head) = l + 1 /\ \A k \in 1..(l + 1) : head[k] = Char(a, v[k])
  <2>1. ASSUME NEW k \in 1..(l + 1) PROVE Char(a, v[k]) \in Bytes256
    <3>1. k \in 1..4
          BY <1>l
    <3> QED
        BY <3>1, <1>4, CharFacts
  <2> QED
      BY <2>1, <1>2, <1>l
<1>7. /\ tail \in Seq(Bytes256) /\ Len(tail) = IF pad THEN 3 - l ELSE 0
      /\ \A k \in 1..Len(tail) : tail[k] = Equals
  <2>0. Equals \in Bytes256
        BY DEF Equals, Bytes256
  <2>1. CASE pad = TRUE
    <3>1. 3 - l \in Nat
          BY <1>l
    <3>2. tail = [k \in 1..(3 - l) |-> Equals]
          BY <2>1
    <3> HIDE DEF tail
    <3>3. tail \in Seq(Bytes256) /\ Len(tail) = 3 - l /\ \A k \in 1..(3 - l) : tail[k] = Equals
          BY <2>0, <3>1, <3>2, Repeats, Zenon
    <3> QED
        BY <2>1, <3>3
  <2>2. CASE pad = FALSE
    <3>1. tail = <<>>
          BY <2>2
    <3> HIDE DEF tail
    <3> QED
        BY <2>2, <3>1
  <2> QED
      BY <2>1, <2>2
<1> HIDE DEF head, tail
<1>9. /\ e \in Seq(Bytes256) /\ Len(e) = Len(head) + Len(tail)
      /\ \A k \in 1..Len(head) : e[k] = head[k]
      /\ \A k \in 1..Len(tail) : e[Len(head) + k] = tail[k]
  <2> PICK s, t : s = head /\ t = tail
      OBVIOUS
  <2>1. s \in Seq(Bytes256) /\ t \in Seq(Bytes256) /\ e = s \o t
        BY <1>3, <1>6, <1>7, Zenon
  <2>2. /\ e \in Seq(Bytes256) /\ Len(e) = Len(s) + Len(t)
        /\ \A k \in 1..Len(s) : e[k] = s[k]
        /\ \A k \in 1..Len(t) : e[Len(s) + k] = t[k]
        BY <2>1
  <2> QED
      BY <2>2, Zenon
<1>10. \A k \in (l + 2)..Len(e) : e[k] = Equals
  <2> TAKE k \in (l + 2)..Len(e)
  <2>0. Len(tail) \in Nat /\ Len(head) = l + 1 /\ Len(e) = (l + 1) + Len(tail)
    <3>1. Len(tail) \in Nat
          BY <1>7
    <3> QED
        BY <3>1, <1>6, <1>9, Zenon
  <2>1. k - (l + 1) \in 1..Len(tail) /\ Len(head) + (k - (l + 1)) = k
        BY <2>0, <1>l
  <2> QED
      BY <2>1, <1>7, <1>9, Zenon
<1>11. \A k \in 1..(l + 1) : e[k] = Char(a, v[k])
    BY <1>6, <1>9, <1>l
<1>12. v[1] = Six1(x) /\ v[2] = Six2(x, y) /\ v[3] = Six3(y, z) /\ v[4] = Six4(z)
    BY SMT DEF v
<1>13. /\ e[1] = Char(a, v[1]) /\ e[2] = Char(a, v[2])
       /\ l > 1 => e[3] = Char(a, v[3])
       /\ l > 2 => e[4] = Char(a, v[4])
    BY <1>11, <1>l
<1>14. Len(e) = IF pad THEN 4 ELSE l + 1
  <2>1. Len(head) = l + 1 /\ Len(tail) = (IF pad THEN 3 - l ELSE 0) /\ Len(e) = Len(head) + Len(tail)
        BY <1>6, <1>7, <1>9
  <2>2. CASE pad = TRUE
        BY <2>1, <2>2, <1>l
  <2>3. CASE pad = FALSE
        BY <2>1, <2>3, <1>l
  <2> QED
      BY <2>2, <2>3
<1> QED
    BY <1>p, <1>9, <1>10, <1>12, <1>13, <1>14, Zenon

(* The decoder's states after the second, the third and the fourth         *)
(* character of three bytes.                                               *)
Pass1(a, stops, q, w, x)       == DecodeChar(a, stops, Reading(q, 0, w), Char(a, Six1(x)))
Pass2(a, stops, q, w, x, y)    == DecodeChar(a, stops, Pass1(a, stops, q, w, x), Char(a, Six2(x, y)))
Pass3(a, stops, q, w, x, y, z) == DecodeChar(a, stops, Pass2(a, stops, q, w, x, y), Char(a, Six3(y, z)))
Pass4(a, stops, q, w, x, y, z) == DecodeChar(a, stops, Pass3(a, stops, q, w, x, y, z), Char(a, Six4(z)))

GroupIsRead(a, stops, q, w, x, y, z) ==
    \E n2, n3, n4 \in Nat :
        /\ Pass2(a, stops, q, w, x, y) = Reading(n2, 4, Append(w, x))
        /\ Pass3(a, stops, q, w, x, y, z) = Reading(n3, 2, Append(Append(w, x), y))
        /\ Pass4(a, stops, q, w, x, y, z) = Reading(n4, 0, Append(Append(Append(w, x), y), z))

LEMMA GroupDecoded ==
    ASSUME NEW a \in Alphabets, NEW stops \in StopSets, NEW q \in Nat, NEW w,
           NEW x \in Bytes256, NEW y \in Bytes256, NEW z \in Bytes256
    PROVE  GroupIsRead(a, stops, q, w, x, y, z)
<1> PICK v1, v2, v3, v4 : v1 = Six1(x) /\ v2 = Six2(x, y) /\ v3 = Six3(y, z) /\ v4 = Six4(z)
    OBVIOUS
<1>s. PICK s1, s2, s3, s4 : /\ s1 = Pass1(a, stops, q, w, x) /\ s2 = Pass2(a, stops, q, w, x, y)
                            /\ s3 = Pass3(a, stops, q, w, x, y, z) /\ s4 = Pass4(a, stops, q, w, x, y, z)
    OBVIOUS
<1>t. /\ s1 = DecodeChar(a, stops, Reading(q, 0, w), Char(a, v1))
         /\ s2 = DecodeChar(a, stops, s1, Char(a, v2))
      /\ s3 = DecodeChar(a, stops, s2, Char(a, v3)) /\ s4 = DecodeChar(a, stops, s3, Char(a, v4))
    BY <1>s, Zenon DEF Pass1, Pass2, Pass3, Pass4
<1>1. v1 \in 0..63 /\ v2 \in 0..63 /\ v3 \in 0..63 /\ v4 \in 0..63
    BY SixBitsRange, Zenon
<1>2. Joined1(v1, v2) = x /\ Joined2(v2, v3) = y /\ Joined3(v3, v4) = z
    BY Rejoined, ZenonT(30)
<1> PICK n1, n2, n3, n4 : n1 = Next6(q, v1) /\ n2 = Next6(n1, v2) /\ n3 = Next6(n2, v3)
                            /\ n4 = Next6(n3, v4)
    OBVIOUS
<1>a. n1 \in Nat /\ Shifted(n2, 6) = Joined1(v1, v2)
    BY <1>1, NextByte, Zenon
<1>b. n2 \in Nat /\ Shifted(n3, 4) = Joined2(v2, v3)
    BY <1>a, <1>1, NextByte, Zenon
<1>c. n3 \in Nat /\ Shifted(n4, 2) = Joined3(v3, v4)
    BY <1>b, <1>1, NextByte, Zenon
<1>3. n4 \in Nat
    BY <1>c, <1>1, NextByte, Zenon
<1>4. Shifted(n2, 6) = x /\ Shifted(n3, 4) = y /\ Shifted(n4, 2) = z
    BY <1>2, <1>a, <1>b, <1>c, Zenon
<1>5. 6 - 2 = 4 /\ 4 - 2 = 2 /\ 2 - 2 = 0 /\ 2 \in {2, 4, 6} /\ 4 \in {2, 4, 6} /\ 6 \in {2, 4, 6}
    OBVIOUS
<1>6. s1 = Reading(n1, 6, w)
    BY <1>t, <1>1, DecodeFirst
<1>7. s2 = Reading(n2, 4, Append(w, x))
  <2>0. DecodeChar(a, stops, Reading(n1, 6, w), Char(a, v2)) =
            Reading(Next6(n1, v2), 6 - 2, Append(w, Shifted(Next6(n1, v2), 6)))
        BY <1>1, <1>5, DecodeMore
  <2>1. s2 = Reading(n2, 6 - 2, Append(w, Shifted(n2, 6)))
        BY <2>0, <1>t, <1>6, Zenon
  <2> QED
      BY <2>1, <1>4, <1>5, Zenon
<1>8. s3 = Reading(n3, 2, Append(Append(w, x), y))
  <2>0. DecodeChar(a, stops, Reading(n2, 4, Append(w, x)), Char(a, v3)) =
            Reading(Next6(n2, v3), 4 - 2, Append(Append(w, x), Shifted(Next6(n2, v3), 4)))
        BY <1>1, <1>5, DecodeMore
  <2>1. s3 = Reading(n3, 4 - 2, Append(Append(w, x), Shifted(n3, 4)))
        BY <2>0, <1>t, <1>7, Zenon
  <2> QED
      BY <2>1, <1>4, <1>5, Zenon
<1>9. s4 = Reading(n4, 0, Append(Append(Append(w, x), y), z))
  <2>0. DecodeChar(a, stops, Reading(n3, 2, Append(Append(w, x), y)), Char(a, v4)) =
            Reading(Next6(n3, v4), 2 - 2, Append(Append(Append(w, x), y), Shifted(Next6(n3, v4), 2)))
        BY <1>1, <1>5, DecodeMore
  <2>1. s4 = Reading(n4, 2 - 2, Append(Append(Append(w, x), y), Shifted(n4, 2)))
        BY <2>0, <1>t, <1>8, Zenon
  <2> QED
      BY <2>1, <1>4, <1>5, Zenon
<1> QED
    BY <1>s, <1>a, <1>b, <1>c, <1>3, <1>7, <1>8, <1>9, ZenonT(30) DEF GroupIsRead

LEMMA JoinBytes ==
    ASSUME NEW w, w \in Seq(Bytes256), NEW g, g \in Seq(Bytes256)
    PROVE  /\ Len(g) = 1 => w \o g = Append(w, g[1])
           /\ Len(g) = 2 => w \o g = Append(Append(w, g[1]), g[2])
           /\ Len(g) = 3 => w \o g = Append(Append(Append(w, g[1]), g[2]), g[3])
<1>1. \A x \in Bytes256 : Append(w, x) = w \o <<x>>
    BY AppendIsConcat, Zenon
<1>2. \A v \in Seq(Bytes256) : \A y \in Bytes256 : Append(w \o v, y) = w \o Append(v, y)
  <2> TAKE v \in Seq(Bytes256)
  <2> TAKE y \in Bytes256
  <2>1. <<y>> \in Seq(Bytes256) /\ w \o v \in Seq(Bytes256)
        OBVIOUS
  <2>2. Append(w \o v, y) = (w \o v) \o <<y>> /\ Append(v, y) = v \o <<y>>
        BY <2>1, AppendIsConcat, Zenon
  <2>3. (w \o v) \o <<y>> = w \o (v \o <<y>>)
        BY <2>1, ConcatAssociative
  <2> QED
      BY <2>2, <2>3, Zenon
<1>3. \A x \in Bytes256 : \A y \in Bytes256 : \A z \in Bytes256 :
        /\ <<x>> \in Seq(Bytes256) /\ <<x, y>> \in Seq(Bytes256)
        /\ Append(<<x>>, y) = <<x, y>> /\ Append(<<x, y>>, z) = <<x, y, z>>
  <2> TAKE x \in Bytes256
  <2> TAKE y \in Bytes256
  <2> TAKE z \in Bytes256
  <2>1. <<x>> \in Seq(Bytes256) /\ <<x, y>> \in Seq(Bytes256)
        OBVIOUS
  <2>2. Append(<<x>>, y) = <<x, y>>
        BY Pair
  <2>3. Append(<<x, y>>, z) = <<x, y, z>>
        BY Triple
  <2> QED
      BY <2>1, <2>2, <2>3
<1>4. /\ Len(g) = 1 => g = <<g[1]>> /\ g[1] \in Bytes256
      /\ Len(g) = 2 => g = <<g[1], g[2]>> /\ g[1] \in Bytes256 /\ g[2] \in Bytes256
      /\ Len(g) = 3 => g = <<g[1], g[2], g[3]>> /\ g[1] \in Bytes256 /\ g[2] \in Bytes256
         /\ g[3] \in Bytes256
    OBVIOUS
<1>5. ASSUME Len(g) = 1 PROVE w \o g = Append(w, g[1])
    BY <1>1, <1>4, <1>5, Zenon
<1>6. ASSUME Len(g) = 2 PROVE w \o g = Append(Append(w, g[1]), g[2])
  <2>1. w \o <<g[1], g[2]>> = Append(w \o <<g[1]>>, g[2])
    <3>0. g[1] \in Bytes256 /\ g[2] \in Bytes256
          BY <1>4, <1>6
    <3>1. <<g[1]>> \in Seq(Bytes256) /\ Append(<<g[1]>>, g[2]) = <<g[1], g[2]>>
          BY <3>0, <1>3, Zenon
    <3> QED
        BY <3>0, <3>1, <1>2, Zenon
  <2> QED
      BY <2>1, <1>1, <1>4, <1>6, Zenon
<1>7. ASSUME Len(g) = 3 PROVE w \o g = Append(Append(Append(w, g[1]), g[2]), g[3])
  <2>1. w \o <<g[1], g[2]>> = Append(w \o <<g[1]>>, g[2])
    <3>0. g[1] \in Bytes256 /\ g[2] \in Bytes256
          BY <1>4, <1>7
    <3>1. <<g[1]>> \in Seq(Bytes256) /\ Append(<<g[1]>>, g[2]) = <<g[1], g[2]>>
          BY <3>0, <1>3, Zenon
    <3> QED
        BY <3>0, <3>1, <1>2, Zenon
  <2>2. w \o <<g[1], g[2], g[3]>> = Append(w \o <<g[1], g[2]>>, g[3])
    <3>1. /\ <<g[1], g[2]>> \in Seq(Bytes256) /\ g[3] \in Bytes256
          /\ Append(<<g[1], g[2]>>, g[3]) = <<g[1], g[2], g[3]>>
          BY <1>3, <1>4, <1>7, Zenon
    <3>2. Append(w \o <<g[1], g[2]>>, g[3]) = w \o Append(<<g[1], g[2]>>, g[3])
          BY <3>1, <1>2, Zenon
    <3> QED
        BY <3>1, <3>2, Zenon
  <2> QED
      BY <2>1, <2>2, <1>1, <1>4, <1>7, Zenon
<1> QED
    BY <1>5, <1>6, <1>7

(* Between groups no bits are left over.  *)
AtGroup(s, bytes) == \E r \in Nat : s = Reading(r, 0, bytes)

(* The decoder over the characters of one group.  *)
GroupRun(a, stops, e, s0, s1, s2, s3, s4, last) ==
    /\ s1 = DecodeChar(a, stops, s0, e[1])
    /\ s2 = DecodeChar(a, stops, s1, e[2])
    /\ Len(e) > 2 => s3 = DecodeChar(a, stops, s2, e[3])
    /\ Len(e) > 3 => s4 = DecodeChar(a, stops, s3, e[4])
    /\ Len(e) = 2 => last = s2
    /\ Len(e) = 3 => last = s3
    /\ Len(e) = 4 => last = s4

(* A padded text is read by a decoder that stops at its padding.  *)
PadStops(pad, stops) == pad = TRUE => Equals \in stops

LEMMA GroupPassed ==
    ASSUME NEW a \in Alphabets, NEW stops \in StopSets, NEW pad \in BOOLEAN, PadStops(pad, stops),
           NEW g \in Groups, NEW q \in Nat, NEW w, w \in Seq(Bytes256),
           NEW s1, NEW s2, NEW s3, NEW s4, NEW last,
           GroupRun(a, stops, EncodeGroup(a, pad, g), Reading(q, 0, w), s1, s2, s3, s4, last)
    PROVE  /\ HasRead(last, w \o g)
           /\ Len(g) = 3 => AtGroup(last, w \o g)
<1>p. PICK x, y, z, l, e : /\ x = Byte1(g) /\ y = Byte2(g) /\ z = Byte3(g) /\ l = Len(g)
                           /\ e = EncodeGroup(a, pad, g)
    OBVIOUS
<1>r. /\ s1 = DecodeChar(a, stops, Reading(q, 0, w), e[1])
      /\ s2 = DecodeChar(a, stops, s1, e[2])
      /\ Len(e) > 2 => s3 = DecodeChar(a, stops, s2, e[3])
      /\ Len(e) > 3 => s4 = DecodeChar(a, stops, s3, e[4])
      /\ Len(e) = 2 => last = s2
      /\ Len(e) = 3 => last = s3
      /\ Len(e) = 4 => last = s4
    BY <1>p, Zenon DEF GroupRun
<1>1. x \in Bytes256 /\ y \in Bytes256 /\ z \in Bytes256
    BY <1>p, GroupBytes, Zenon
<1>l. l \in 1..3
    BY <1>p DEF Groups
<1>g. g \in Seq(Bytes256)
    BY DEF Groups
<1>2. /\ Len(e) = IF pad THEN 4 ELSE l + 1
      /\ e[1] = Char(a, Six1(x))
      /\ e[2] = Char(a, Six2(x, y))
      /\ l > 1 => e[3] = Char(a, Six3(y, z))
      /\ l > 2 => e[4] = Char(a, Six4(z))
      /\ \A k \in (l + 2)..Len(e) : e[k] = Equals
    BY <1>p, GroupChars, Zenon
<1>0. x = g[1] /\ (l > 1 => y = g[2]) /\ (l > 2 => z = g[3])
    BY <1>p DEF Byte1, Byte2, Byte3
<1>u. PICK u3, u4 : u3 = DecodeChar(a, stops, s2, Char(a, Six3(y, z)))
                      /\ u4 = DecodeChar(a, stops, u3, Char(a, Six4(z)))
    OBVIOUS
<1>3. PICK n2, n3, n4 \in Nat : /\ s2 = Reading(n2, 4, Append(w, x))
                                /\ u3 = Reading(n3, 2, Append(Append(w, x), y))
                                /\ u4 = Reading(n4, 0, Append(Append(Append(w, x), y), z))
  <2>1. s1 = Pass1(a, stops, q, w, x)
        BY <1>2, <1>r, Zenon DEF Pass1
  <2>2. s2 = Pass2(a, stops, q, w, x, y)
        BY <1>2, <1>r, <2>1, Zenon DEF Pass2
  <2>3. u3 = Pass3(a, stops, q, w, x, y, z)
        BY <1>u, <2>2, Zenon DEF Pass3
  <2>4. u4 = Pass4(a, stops, q, w, x, y, z)
        BY <1>u, <2>3, Zenon DEF Pass4
  <2>5. PICK n2, n3, n4 \in Nat :
            /\ Pass2(a, stops, q, w, x, y) = Reading(n2, 4, Append(w, x))
            /\ Pass3(a, stops, q, w, x, y, z) = Reading(n3, 2, Append(Append(w, x), y))
            /\ Pass4(a, stops, q, w, x, y, z) = Reading(n4, 0, Append(Append(Append(w, x), y), z))
    <3>1. GroupIsRead(a, stops, q, w, x, y, z)
          BY <1>1, GroupDecoded, Zenon
    <3> QED
        BY <3>1, Zenon DEF GroupIsRead
  <2> QED
      BY <2>2, <2>3, <2>4, <2>5, Zenon
<1>4. CASE l = 3
  <2>1. Len(e) = 4
        BY <1>2, <1>4
  <2>2. last = u4
        BY <2>1, <1>2, <1>4, <1>u, <1>r
  <2>3. w \o g = Append(Append(Append(w, x), y), z)
    <3>1. Len(g) = 3 /\ x = g[1] /\ y = g[2] /\ z = g[3]
          BY <1>p, <1>0, <1>4
    <3> QED
        BY <3>1, <1>g, JoinBytes, Zenon
  <2>4. last = Reading(n4, 0, w \o g)
        BY <2>2, <2>3, <1>3, Zenon
  <2>5. HasRead(Reading(n4, 0, w \o g), w \o g)
        BY HaveRead, Zenon
  <2> QED
      BY <2>4, <2>5, <1>3, Zenon DEF AtGroup
<1>5. CASE l = 2
  <2>1. w \o g = Append(Append(w, x), y) /\ Len(g) # 3
    <3>1. Len(g) = 2 /\ Len(g) # 3 /\ x = g[1] /\ y = g[2]
          BY <1>p, <1>0, <1>5
    <3> QED
        BY <3>1, <1>g, JoinBytes, Zenon
  <2>2. e[3] = Char(a, Six3(y, z)) /\ Len(e) > 2
        BY <1>2, <1>5
  <2>3. s3 = Reading(n3, 2, w \o g)
        BY <2>1, <2>2, <1>u, <1>3, <1>r, Zenon
  <2>4. CASE pad = FALSE
    <3>1. last = s3
          BY <2>4, <1>2, <1>5, <1>r
    <3>o. HasRead(Reading(n3, 2, w \o g), w \o g)
          BY HaveRead, Zenon
    <3> QED
        BY <2>1, <2>3, <3>1, <3>o, Zenon
  <2>5. CASE pad = TRUE
    <3>1. Len(e) = 4
          BY <2>5, <1>2, <1>5
    <3>2. 4 \in (l + 2)..Len(e)
          BY <3>1, <1>5
    <3>3. e[4] = Equals
          BY <3>2, <1>2, Zenon
    <3>4. last = DecodeChar(a, stops, s3, Equals) /\ Equals \in stops
      <4>1. Equals \in stops
            BY <2>5, Zenon DEF PadStops
      <4>2. Len(e) > 2 /\ Len(e) > 3
            BY <3>1
      <4> QED
          BY <3>1, <3>3, <1>r, <4>1, <4>2, Zenon
    <3>5. last = Stopped(n3, 2, w \o g)
      <4>1. DecodeChar(a, stops, Reading(n3, 2, w \o g), Equals) = Stopped(n3, 2, w \o g)
            BY <3>4, DecodeStop
      <4> QED
          BY <3>4, <2>3, <4>1, Zenon
    <3>o. HasRead(Stopped(n3, 2, w \o g), w \o g)
          BY HaveRead, Zenon
    <3> QED
        BY <2>1, <3>5, <3>o, Zenon
  <2> QED
      BY <2>4, <2>5
<1>6. CASE l = 1
  <2>1. w \o g = Append(w, x) /\ Len(g) # 3
    <3>1. Len(g) = 1 /\ Len(g) # 3 /\ x = g[1]
          BY <1>p, <1>0, <1>6
    <3> QED
        BY <3>1, <1>g, JoinBytes, Zenon
  <2>2. s2 = Reading(n2, 4, w \o g)
        BY <2>1, <1>3, Zenon
  <2>3. CASE pad = FALSE
    <3>1. last = s2
          BY <2>3, <1>2, <1>6, <1>r
    <3>o. HasRead(Reading(n2, 4, w \o g), w \o g)
          BY HaveRead, Zenon
    <3> QED
        BY <2>1, <2>2, <3>1, <3>o, Zenon
  <2>4. CASE pad = TRUE
    <3>1. Len(e) = 4
          BY <2>4, <1>2, <1>6
    <3>2. 3 \in (l + 2)..Len(e) /\ 4 \in (l + 2)..Len(e)
          BY <3>1, <1>6
    <3>3. e[3] = Equals /\ e[4] = Equals
          BY <3>2, <1>2, Zenon
    <3>4. s3 = DecodeChar(a, stops, s2, Equals) /\ last = DecodeChar(a, stops, s3, Equals)
            /\ Equals \in stops
      <4>1. Equals \in stops
            BY <2>4, Zenon DEF PadStops
      <4>2. Len(e) > 2 /\ Len(e) > 3
            BY <3>1
      <4> QED
          BY <3>1, <3>3, <1>r, <4>1, <4>2, Zenon
    <3>5. s3 = Stopped(n2, 4, w \o g)
      <4>1. DecodeChar(a, stops, Reading(n2, 4, w \o g), Equals) = Stopped(n2, 4, w \o g)
            BY <3>4, DecodeStop
      <4> QED
          BY <3>4, <2>2, <4>1, Zenon
    <3>6. last = Stopped(n2, 4, w \o g)
      <4>1. DecodeChar(a, stops, Stopped(n2, 4, w \o g), Equals) = Stopped(n2, 4, w \o g)
            BY DecodeStopped
      <4> QED
          BY <3>4, <3>5, <4>1, Zenon
    <3>o. HasRead(Stopped(n2, 4, w \o g), w \o g)
          BY HaveRead, Zenon
    <3> QED
        BY <2>1, <3>6, <3>o, Zenon
  <2> QED
      BY <2>3, <2>4
<1> QED
    BY <1>l, <1>4, <1>5, <1>6

LEMMA SubSeqJoin ==
    ASSUME NEW S, NEW s, s \in Seq(S), NEW i \in Nat, NEW j \in Nat, i <= j, j <= Len(s)
    PROVE  SubSeq(s, 1, i) \o SubSeq(s, i + 1, j) = SubSeq(s, 1, j)
<1>0. PICK u, v, w : u = SubSeq(s, 1, i) /\ v = SubSeq(s, i + 1, j) /\ w = SubSeq(s, 1, j)
    OBVIOUS
<1>1. u \in Seq(S) /\ Len(u) = i /\ \A p \in 1..i : u[p] = s[p]
    BY <1>0
<1>2. v \in Seq(S) /\ Len(v) = j - i /\ \A p \in 1..(j - i) : v[p] = s[i + p]
    BY <1>0
<1>3. w \in Seq(S) /\ Len(w) = j /\ \A p \in 1..j : w[p] = s[p]
    BY <1>0
<1>t. PICK t : t = u \o v
    OBVIOUS
<1>4. /\ t \in Seq(S) /\ Len(t) = Len(u) + Len(v)
      /\ \A p \in 1..Len(u) : t[p] = u[p]
      /\ \A p \in 1..Len(v) : t[Len(u) + p] = v[p]
  <2>1. u \in Seq(S) /\ v \in Seq(S)
        BY <1>1, <1>2
  <2> QED
      BY <2>1, <1>t, ConcatPlaces
<1>5. \A p \in 1..j : t[p] = w[p]
  <2> TAKE p \in 1..j
  <2>1. CASE p <= i
        BY <2>1, <1>1, <1>3, <1>4
  <2>2. CASE p > i
    <3>1. p - i \in 1..(j - i) /\ i + (p - i) = p
          BY <2>2
    <3>2. t[Len(u) + (p - i)] = v[p - i] /\ v[p - i] = s[i + (p - i)]
          BY <3>1, <1>2, <1>4, Zenon
    <3> QED
        BY <3>1, <3>2, <1>1, <1>3
  <2>3. p <= i \/ p > i
        OBVIOUS
  <2> QED
      BY <2>1, <2>2, <2>3
<1>6. Len(t) = Len(w) /\ Len(t) = j
    BY <1>1, <1>2, <1>3, <1>4
<1>7. t = w
    BY <1>3, <1>4, <1>5, <1>6, SeqEqual, Zenon
<1> QED
    BY <1>0, <1>t, <1>7, Zenon

LEMMA EncodedDecodes ==
    ASSUME NEW a \in Alphabets, NEW stops \in StopSets, NEW pad \in BOOLEAN, PadStops(pad, stops),
           NEW bytes, bytes \in Seq(Bytes256)
    PROVE  HasRead(DecodeState(a, stops, Encode(a, pad, bytes)), bytes)
<1> DEFINE n == Len(bytes)
           m == (n + 2) \div 3
           upto(k) == IF 3 * k < n THEN 3 * k ELSE n
           part(k) == SubSeq(bytes, 3 * k - 2, upto(k))
           parts == [k \in 1..m |-> EncodeGroup(a, pad, part(k))]
           text == FlattenSeq(parts)
           sofar(k) == SubSeq(bytes, 1, 3 * k)
<1>t. Encode(a, pad, bytes) = text
    BY Zenon DEF Encode
<1>n. n \in Nat
    OBVIOUS
<1> HIDE DEF n
<1>m. m \in Nat /\ 3 * m < n + 3 /\ n <= 3 * m
    BY <1>n
<1> HIDE DEF m
<1>k. \A k \in 1..m : /\ k \in Nat /\ k - 1 \in 0..m /\ 3 * (k - 1) < n /\ 3 * (k - 1) \in Nat
                         /\ 3 * (k - 1) + 1 = 3 * k - 2
                      /\ upto(k) \in Nat /\ upto(k) <= n /\ 3 * (k - 1) < upto(k)
                      /\ upto(k) - 3 * (k - 1) \in 1..3
                      /\ 3 * k <= n => upto(k) = 3 * k /\ upto(k) - 3 * (k - 1) = 3
    BY <1>n, <1>m
<1>1. \A k \in 1..m : /\ part(k) \in Groups
                      /\ 3 * k <= n => Len(part(k)) = 3
                      /\ sofar(k - 1) \o part(k) = SubSeq(bytes, 1, upto(k))
                      /\ sofar(k - 1) \in Seq(Bytes256)
  <2> SUFFICES ASSUME NEW k \in 1..m
               PROVE  /\ part(k) \in Groups
                      /\ 3 * k <= n => Len(part(k)) = 3
                      /\ sofar(k - 1) \o part(k) = SubSeq(bytes, 1, upto(k))
                      /\ sofar(k - 1) \in Seq(Bytes256)
      OBVIOUS
  <2> PICK i, j : i = 3 * (k - 1) /\ j = upto(k)
      OBVIOUS
  <2> HIDE DEF upto
  <2>1. i \in Nat /\ j \in Nat /\ i <= j /\ j <= n /\ j - i \in 1..3 /\ i + 1 = 3 * k - 2
          /\ (3 * k <= n => j - i = 3)
        BY <1>k
  <2>2. SubSeq(bytes, 1, i) \o SubSeq(bytes, i + 1, j) = SubSeq(bytes, 1, j)
    <3>1. j <= Len(bytes)
          BY <2>1 DEF n
    <3> QED
        BY <3>1, <2>1, SubSeqJoin, Zenon
  <2>3. SubSeq(bytes, i + 1, j) \in Seq(Bytes256) /\ Len(SubSeq(bytes, i + 1, j)) = j - i
        BY <2>1 DEF n
  <2>4. SubSeq(bytes, 1, i) \in Seq(Bytes256)
        BY <2>1 DEF n
  <2>5. part(k) = SubSeq(bytes, i + 1, j) /\ sofar(k - 1) = SubSeq(bytes, 1, i)
        BY <2>1
  <2> HIDE DEF part, sofar
  <2>6. part(k) \in Groups
        BY <2>1, <2>3, <2>5 DEF Groups
  <2> QED
      BY <2>1, <2>2, <2>3, <2>4, <2>5, <2>6
<1> HIDE DEF upto, part
<1>2. \A k \in 1..m : parts[k] = EncodeGroup(a, pad, part(k)) /\ parts[k] \in Seq(Bytes256)
                        /\ Len(parts[k]) \in 2..4
  <2> TAKE k \in 1..m
  <2> PICK g, e : g = part(k) /\ e = EncodeGroup(a, pad, g)
      OBVIOUS
  <2>1. e \in Seq(Bytes256) /\ Len(e) = (IF pad THEN 4 ELSE Len(g) + 1) /\ Len(g) \in 1..3
    <3>1. g \in Groups
          BY <1>1
    <3>2. Len(g) \in 1..3
          BY <3>1 DEF Groups
    <3> QED
        BY <3>1, <3>2, GroupChars, Zenon
  <2>q. PICK l, h : l = Len(e) /\ h = Len(g)
      OBVIOUS
  <2>p. l = (IF pad THEN 4 ELSE h + 1) /\ h \in 1..3
        BY <2>1, <2>q, Zenon
  <2>2. l \in 2..4
    <3>1. CASE pad = TRUE
          BY <3>1, <2>p
    <3>2. CASE pad = FALSE
      <4>1. l = h + 1 /\ h \in 1..3
            BY <3>2, <2>p, Zenon
      <4> QED
          BY <4>1
    <3> QED
        BY <3>1, <3>2
  <2>3. parts[k] = e
        BY Zenon
  <2> QED
      BY <2>q, <2>1, <2>2, <2>3, Zenon
<1>3. parts \in Seq(Seq(Bytes256)) /\ Len(parts) = m
    BY <1>2, <1>m
<1> HIDE DEF parts
<1>4. text \in Seq(Bytes256) /\ \E ends : IsLayout(ends, text, m, parts)
    BY <1>3, FlattenPlaces, Zenon
<1> HIDE DEF text
<1>5. PICK ends : IsLayout(ends, text, m, parts)
    BY <1>4, Zenon
<1>6. PICK f : IsPass(f, a, stops, DecodeStart, text) /\ DecodeState(a, stops, text) = f[Len(text)]
    BY <1>4, DecodeRuns, Zenon
<1>7. \A k \in 1..m : \A q \in Nat :
        f[ends[k - 1]] = Reading(q, 0, sofar(k - 1)) =>
            /\ HasRead(f[ends[k]], SubSeq(bytes, 1, upto(k)))
            /\ 3 * k <= n => AtGroup(f[ends[k]], SubSeq(bytes, 1, upto(k)))
  <2> SUFFICES ASSUME NEW k \in 1..m, NEW q \in Nat, f[ends[k - 1]] = Reading(q, 0, sofar(k - 1))
               PROVE  /\ HasRead(f[ends[k]], SubSeq(bytes, 1, upto(k)))
                      /\ 3 * k <= n => AtGroup(f[ends[k]], SubSeq(bytes, 1, upto(k)))
      BY Zenon
  <2>p. PICK i, e, g, l, w : i = ends[k - 1] /\ e = parts[k] /\ g = part(k) /\ l = Len(e)
                               /\ w = sofar(k - 1)
      OBVIOUS
  <2>1. l \in 2..4 /\ g \in Groups /\ w \in Seq(Bytes256) /\ e = EncodeGroup(a, pad, g)
        BY <2>p, <1>1, <1>2, Zenon
  <2>2. i \in Nat /\ i + l <= Len(text) /\ ends[k] = i + l /\ \A p \in 1..l : text[i + p] = e[p]
    <3>1. k - 1 \in 0..(m - 1) /\ k - 1 \in 0..m /\ (k - 1) + 1 = k
          BY <1>m
    <3>2. /\ ends[(k - 1) + 1] = ends[k - 1] + Len(parts[(k - 1) + 1])
          /\ ends[(k - 1) + 1] <= Len(text)
          /\ \A p \in 1..Len(parts[(k - 1) + 1]) : text[ends[k - 1] + p] = parts[(k - 1) + 1][p]
          BY <3>1, <1>5, Zenon DEF IsLayout
    <3>3. ends[k - 1] \in Nat
          BY <3>1, <1>5 DEF IsLayout
    <3> QED
        BY <2>p, <3>1, <3>2, <3>3, Zenon
  <2>3. \A p \in 0..(l - 1) : f[i + p + 1] = DecodeChar(a, stops, f[i + p], e[p + 1])
    <3> TAKE p \in 0..(l - 1)
    <3>1. i + p \in 0..(Len(text) - 1) /\ p + 1 \in 1..l /\ i + (p + 1) = i + p + 1
      <4> PICK L : L = Len(text)
          OBVIOUS
      <4>0. Len(text) \in Nat
            BY <1>4
      <4>1. L \in Nat /\ i + l <= L /\ i \in Nat /\ l \in 2..4
            BY <4>0, <2>1, <2>2, Zenon
      <4>2. i + p \in 0..(L - 1) /\ p + 1 \in 1..l /\ i + (p + 1) = i + p + 1
            BY <4>1
      <4> QED
          BY <4>2, Zenon
    <3>2. f[i + p + 1] = DecodeChar(a, stops, f[i + p], text[i + p + 1])
          BY <3>1, <1>6, Zenon DEF IsPass
    <3>3. text[i + (p + 1)] = e[p + 1]
          BY <3>1, <2>2, Zenon
    <3> QED
        BY <3>1, <3>2, <3>3, Zenon
  <2>4. GroupRun(a, stops, EncodeGroup(a, pad, g), f[i], f[i + 1], f[i + 2], f[i + 3], f[i + 4], f[i + l])
    <3>1. f[i + 1] = DecodeChar(a, stops, f[i], e[1])
      <4>1. 0 \in 0..(l - 1) /\ i + 0 + 1 = i + 1 /\ i + 0 = i /\ 0 + 1 = 1
            BY <2>1, <2>2
      <4> QED
          BY <4>1, <2>3
    <3>2. f[i + 2] = DecodeChar(a, stops, f[i + 1], e[2])
      <4>1. 1 \in 0..(l - 1) /\ i + 1 + 1 = i + 2 /\ 1 + 1 = 2
            BY <2>1, <2>2
      <4> QED
          BY <4>1, <2>3
    <3>3. l > 2 => f[i + 3] = DecodeChar(a, stops, f[i + 2], e[3])
      <4>1. l > 2 => 2 \in 0..(l - 1) /\ i + 2 + 1 = i + 3 /\ 2 + 1 = 3
            BY <2>1, <2>2
      <4> QED
          BY <4>1, <2>3
    <3>4. l > 3 => f[i + 4] = DecodeChar(a, stops, f[i + 3], e[4])
      <4>1. l > 3 => 3 \in 0..(l - 1) /\ i + 3 + 1 = i + 4 /\ 3 + 1 = 4
            BY <2>1, <2>2
      <4> QED
          BY <4>1, <2>3
    <3> QED
        BY <2>1, <2>p, <3>1, <3>2, <3>3, <3>4, Zenon DEF GroupRun
  <2>5. GroupRun(a, stops, EncodeGroup(a, pad, g), Reading(q, 0, w), f[i + 1], f[i + 2], f[i + 3], f[i + 4], f[i + l])
        BY <2>p, <2>4, Zenon
  <2>6. /\ HasRead(f[i + l], w \o g)
        /\ Len(g) = 3 => AtGroup(f[i + l], w \o g)
        BY <2>1, <2>5, GroupPassed, Zenon
  <2>7. w \o g = SubSeq(bytes, 1, upto(k)) /\ (3 * k <= n => Len(g) = 3)
        BY <2>p, <1>1, Zenon
  <2> QED
      BY <2>2, <2>6, <2>7, Zenon
<1> DEFINE P == {k \in 0..m : 3 * k <= n => AtGroup(f[ends[k]], sofar(k))}
<1>8. \A k \in 0..m : k \in P
  <2>1. 0 \in P
    <3>1. f[ends[0]] = Reading(0, 0, <<>>)
          BY <1>5, <1>6, Zenon DEF IsLayout, IsPass, DecodeStart
    <3>2. sofar(0) = <<>>
          OBVIOUS
    <3>3. 0 \in 0..m /\ 0 \in Nat
          BY <1>m
    <3> QED
        BY <3>1, <3>2, <3>3, Zenon DEF AtGroup
  <2>2. ASSUME NEW k \in 0..(m - 1), k \in P PROVE k + 1 \in P
    <3>1. k + 1 \in 1..m /\ k + 1 \in 0..m /\ (k + 1) - 1 = k
          BY <1>m
    <3> SUFFICES ASSUME 3 * (k + 1) <= n PROVE AtGroup(f[ends[k + 1]], sofar(k + 1))
        BY <3>1, Zenon
    <3>2. 3 * k <= n
          BY <1>n, <1>m
    <3>3. PICK q \in Nat : f[ends[k]] = Reading(q, 0, sofar(k))
          BY <2>2, <3>2, Zenon DEF AtGroup
    <3>4. AtGroup(f[ends[k + 1]], SubSeq(bytes, 1, upto(k + 1)))
      <4>1. f[ends[(k + 1) - 1]] = Reading(q, 0, sofar((k + 1) - 1))
            BY <3>1, <3>3, Zenon
      <4> QED
          BY <4>1, <3>1, <1>7, Zenon
    <3>5. SubSeq(bytes, 1, upto(k + 1)) = sofar(k + 1)
      <4>1. upto(k + 1) = 3 * (k + 1)
            BY <3>1, <1>k, Zenon
      <4> QED
          BY <4>1, Zenon
    <3> QED
        BY <3>4, <3>5, Zenon
  <2> HIDE DEF P
  <2> QED
      BY <2>1, <2>2, <1>m, UpTo, Zenon
<1>9. HasRead(f[ends[m]], bytes)
  <2>1. CASE m = 0
    <3>1. n = 0
          BY <2>1, <1>n, <1>m
    <3>2. bytes = <<>>
          BY <3>1 DEF n
    <3>3. f[ends[0]] = Reading(0, 0, <<>>)
          BY <1>5, <1>6, Zenon DEF IsLayout, IsPass, DecodeStart
    <3> QED
        BY <2>1, <3>2, <3>3, HaveRead, Zenon
  <2>2. CASE m # 0
    <3>1. m \in 1..m /\ m - 1 \in 0..m /\ 3 * (m - 1) <= n
          BY <2>2, <1>n, <1>m
    <3>2. PICK q \in Nat : f[ends[m - 1]] = Reading(q, 0, sofar(m - 1))
          BY <3>1, <1>8, Zenon DEF AtGroup
    <3>3. HasRead(f[ends[m]], SubSeq(bytes, 1, upto(m)))
          BY <3>1, <3>2, <1>7, Zenon
    <3>4. upto(m) = n
          BY <1>n, <1>m DEF upto
    <3>5. SubSeq(bytes, 1, n) = bytes
          BY SubSeqFull DEF n
    <3> QED
        BY <3>3, <3>4, <3>5, Zenon
  <2> QED
      BY <2>1, <2>2
<1>10. ends[m] = Len(text)
    BY <1>5, Zenon DEF IsLayout
<1> QED
    BY <1>t, <1>6, <1>9, <1>10, Zenon

(* Base64 and base64url give back what they were given: every byte text, of *)
(* whatever length, with padding and without it (util.cpp:38-96,           *)
(* sha256.cpp:239-287: the commands and the tokens are sent as base64).    *)
THEOREM Base64TextsRoundTrip == Spec => []Base64RoundTrips
<1>1. Computed => Base64RoundTrips
  <2> SUFFICES ASSUME Computed, done, job.kind = "base64"
               PROVE  \A k \in 1..2 : out[k].ok /\ out[k].out = job.bytes
      BY Zenon DEF Base64RoundTrips, Answered
  <2>1. out = <<Base64Decode(Base64Encode(job.bytes)), Base64UrlDecode(Base64UrlEncode(job.bytes))>>
        BY DEF Computed, Result
  <2>2. job.bytes \in Seq(Bytes256)
        BY DEF Computed, JobsAssumed
  <2>3. /\ {Equals, LF, CR} \in StopSets /\ {Equals} \in StopSets
        /\ Equals \in {Equals, LF, CR} /\ Equals \in {Equals} /\ Std \in Alphabets /\ Url \in Alphabets
        BY DEF StopSets, Alphabets
  <2>p. PadStops(TRUE, {Equals, LF, CR}) /\ PadStops(FALSE, {Equals})
        BY <2>3, Zenon DEF PadStops
  <2>4. HasRead(DecodeState(Std, {Equals, LF, CR}, Base64Encode(job.bytes)), job.bytes)
        BY <2>2, <2>3, <2>p, EncodedDecodes, Zenon DEF Base64Encode
  <2>5. HasRead(DecodeState(Url, {Equals}, Base64UrlEncode(job.bytes)), job.bytes)
        BY <2>2, <2>3, <2>p, EncodedDecodes, Zenon DEF Base64UrlEncode
  <2>6. \A s : HasRead(s, job.bytes) =>
            [ok |-> s.mode # "bad", out |-> s.out].ok
              /\ [ok |-> s.mode # "bad", out |-> s.out].out = job.bytes
        BY DEF HasRead
  <2>7. PICK d1, d2 : d1 = Base64Decode(Base64Encode(job.bytes))
                        /\ d2 = Base64UrlDecode(Base64UrlEncode(job.bytes))
        OBVIOUS
  <2>8. d1.ok /\ d1.out = job.bytes
        BY <2>4, <2>6, <2>7, Zenon DEF Base64Decode, Decode
  <2>9. d2.ok /\ d2.out = job.bytes
        BY <2>5, <2>6, <2>7, Zenon DEF Base64UrlDecode, Decode
  <2>10. out[1] = d1 /\ out[2] = d2
        BY <2>1, <2>7
  <2> QED
      BY <2>8, <2>9, <2>10
<1> QED
    BY <1>1, ComputedHolds, PTL

----------------------------------------------------------------------------
(* SHA-256.  *)

(* A context that was given the first i bytes of M: the blocks full so     *)
(* far, and what comes after them.                                         *)
Off(k) == k * BlockSize
BlocksTo(M, q) == [k \in 1..q |-> SubSeq(M, Off(k - 1) + 1, Off(k))]
AtBlock(ctx, M, i, q) ==
    /\ Off(q) <= i /\ i < Off(q) + BlockSize
    /\ ctx.h = BlocksTo(M, q)
    /\ ctx.buf = SubSeq(M, Off(q) + 1, i)
At(ctx, M, i) == \E q \in Nat : AtBlock(ctx, M, i, q)

LEMMA Sizes ==
    /\ BlockSize \in Nat /\ LengthSize \in Nat /\ DigestSize \in Nat
    /\ 0 < LengthSize /\ LengthSize < BlockSize /\ 0 < DigestSize /\ DigestSize <= BlockSize
BY DigestAssumption

LEMMA Offs ==
    /\ Off(0) = 0
    /\ \A k \in Nat : Off(k) \in Nat /\ Off(k + 1) = Off(k) + BlockSize
    /\ \A j, k \in Nat : j < k => Off(j) + BlockSize <= Off(k)
<1>1. Off(0) = 0
    BY Sizes DEF Off
<1>2. \A k \in Nat : Off(k) \in Nat /\ Off(k + 1) = Off(k) + BlockSize
    BY Sizes DEF Off
<1>3. \A j, k \in Nat : j < k => Off(j) + BlockSize <= Off(k)
  <2> SUFFICES ASSUME NEW j \in Nat, NEW k \in Nat, j < k PROVE Off(j) + BlockSize <= Off(k)
      OBVIOUS
  <2>1. PICK d \in Nat : k = j + 1 + d
    <3>1. k - j - 1 \in Nat /\ k = j + 1 + (k - j - 1)
          OBVIOUS
    <3> QED
        BY <3>1
  <2>2. k * BlockSize = j * BlockSize + BlockSize + d * BlockSize
        BY <2>1, Sizes
  <2>3. d * BlockSize \in Nat /\ j * BlockSize \in Nat
        BY Sizes
  <2> QED
      BY <2>2, <2>3, Sizes DEF Off
<1> QED
    BY <1>1, <1>2, <1>3

(* Parts of a sequence.  *)
LEMMA SubSeqPart ==
    ASSUME NEW S, NEW M, M \in Seq(S), NEW a \in Nat, NEW b \in Nat, a <= b, b <= Len(M)
    PROVE  /\ SubSeq(M, a + 1, b) \in Seq(S)
           /\ Len(SubSeq(M, a + 1, b)) = b - a
           /\ \A p \in 1..(b - a) : SubSeq(M, a + 1, b)[p] = M[a + p]
OBVIOUS

LEMMA SubSeqParts ==
    ASSUME NEW S, NEW M, M \in Seq(S), NEW a \in Nat, NEW b \in Nat,
           NEW c \in Nat, a <= b, b <= c, c <= Len(M)
    PROVE  /\ SubSeq(M, a + 1, b) \in Seq(S)
           /\ Len(SubSeq(M, a + 1, b)) = b - a
           /\ SubSeq(M, a + 1, b) \o SubSeq(M, b + 1, c) = SubSeq(M, a + 1, c)
           /\ SubSeq(SubSeq(M, a + 1, c), 1, b - a) = SubSeq(M, a + 1, b)
           /\ SubSeq(SubSeq(M, a + 1, c), (b - a) + 1, c - a) = SubSeq(M, b + 1, c)
<1>0. PICK u, v, w : u = SubSeq(M, a + 1, b) /\ v = SubSeq(M, b + 1, c) /\ w = SubSeq(M, a + 1, c)
    OBVIOUS
<1>1. u \in Seq(S) /\ Len(u) = b - a /\ \A p \in 1..(b - a) : u[p] = M[a + p]
    BY <1>0
<1>2. v \in Seq(S) /\ Len(v) = c - b /\ \A p \in 1..(c - b) : v[p] = M[b + p]
    BY <1>0
<1>3. w \in Seq(S) /\ Len(w) = c - a /\ \A p \in 1..(c - a) : w[p] = M[a + p]
    BY <1>0
<1>t. PICK t : t = u \o v
    OBVIOUS
<1>4. /\ t \in Seq(S) /\ Len(t) = Len(u) + Len(v)
      /\ \A p \in 1..Len(u) : t[p] = u[p]
      /\ \A p \in 1..Len(v) : t[Len(u) + p] = v[p]
  <2>1. u \in Seq(S) /\ v \in Seq(S)
        BY <1>1, <1>2
  <2> QED
      BY <2>1, <1>t, ConcatPlaces
<1>5. \A p \in 1..(c - a) : t[p] = w[p]
  <2> TAKE p \in 1..(c - a)
  <2>1. CASE p <= b - a
    <3>1. p \in 1..(b - a)
          BY <2>1
    <3> QED
        BY <3>1, <1>1, <1>3, <1>4
  <2>2. CASE p > b - a
    <3>1. p - (b - a) \in 1..(c - b) /\ b + (p - (b - a)) = a + p /\ (b - a) + (p - (b - a)) = p
          BY <2>2
    <3>2. t[Len(u) + (p - (b - a))] = v[p - (b - a)] /\ v[p - (b - a)] = M[b + (p - (b - a))]
          BY <3>1, <1>2, <1>4, Zenon
    <3>3. t[p] = M[a + p]
          BY <3>1, <3>2, <1>1, Zenon
    <3> QED
        BY <3>3, <1>3
  <2>3. p <= b - a \/ p > b - a
        OBVIOUS
  <2> QED
      BY <2>1, <2>2, <2>3
<1>6. Len(t) = Len(w) /\ Len(t) = c - a
    BY <1>1, <1>2, <1>3, <1>4
<1>7. t = w
    BY <1>3, <1>4, <1>5, <1>6, SeqEqual, Zenon
<1>8. SubSeq(w, 1, b - a) = u
  <2> PICK x : x = SubSeq(w, 1, b - a)
      OBVIOUS
  <2>1. x \in Seq(S) /\ Len(x) = b - a /\ \A p \in 1..(b - a) : x[p] = w[p]
        BY <1>3
  <2>2. \A p \in 1..(b - a) : x[p] = u[p]
        BY <2>1, <1>1, <1>3
  <2> QED
      BY <2>1, <2>2, <1>1, SeqEqual, Zenon
<1>9. SubSeq(w, (b - a) + 1, c - a) = v
  <2>0. PICK x : x = SubSeq(w, (b - a) + 1, c - a)
      OBVIOUS
  <2>1. x \in Seq(S) /\ Len(x) = c - b /\ \A p \in 1..(c - b) : x[p] = w[(b - a) + p]
    <3>1. PICK d \in Nat, e \in Nat : d = b - a /\ e = c - a /\ d <= e
          OBVIOUS
    <3>2. x = SubSeq(w, d + 1, e) /\ Len(w) = e /\ e - d = c - b /\ e <= Len(w)
      <4>1. e <= e /\ e - d = c - b
            BY <3>1
      <4> QED
          BY <3>1, <4>1, <2>0, <1>3, Zenon
    <3>3. x \in Seq(S) /\ Len(x) = e - d /\ \A p \in 1..(e - d) : x[p] = w[d + p]
      <4>1. /\ SubSeq(w, d + 1, e) \in Seq(S) /\ Len(SubSeq(w, d + 1, e)) = e - d
            /\ \A p \in 1..(e - d) : SubSeq(w, d + 1, e)[p] = w[d + p]
            BY <3>1, <3>2, <1>3, SubSeqPart
      <4> QED
          BY <3>2, <4>1, Zenon
    <3> QED
        BY <3>1, <3>2, <3>3, Zenon
  <2>2. \A p \in 1..(c - b) : x[p] = v[p]
    <3> TAKE p \in 1..(c - b)
    <3>1. (b - a) + p \in 1..(c - a) /\ a + ((b - a) + p) = b + p
          OBVIOUS
    <3>2. w[(b - a) + p] = M[a + ((b - a) + p)]
          BY <3>1, <1>3, Zenon
    <3>3. x[p] = M[b + p] /\ v[p] = M[b + p]
          BY <3>1, <3>2, <2>1, <1>2, Zenon
    <3> QED
        BY <3>3, Zenon
  <2> QED
      BY <2>0, <2>1, <2>2, <1>2, SeqEqual, Zenon
<1> QED
    BY <1>0, <1>1, <1>t, <1>7, <1>8, <1>9, Zenon

(* A pass of update reads on in M.  *)
FilledTo(r, ctx, M, i, j) ==
    \E t \in Nat : /\ i + t <= j /\ (i < j => t >= 1)
                   /\ At(r.ctx, M, i + t)
                   /\ r.rest = SubSeq(M, (i + t) + 1, j)
                   /\ r.ctx.totalLen = ctx.totalLen

LEMMA BlocksSeq ==
    ASSUME NEW S, NEW M, M \in Seq(S), NEW q \in Nat, Off(q) <= Len(M)
    PROVE  /\ BlocksTo(M, q) \in Seq(Seq(S)) /\ Len(BlocksTo(M, q)) = q
           /\ \A k \in 1..q : BlocksTo(M, q)[k] = SubSeq(M, Off(k - 1) + 1, Off(k))
<1>1. ASSUME NEW k \in 1..q PROVE SubSeq(M, Off(k - 1) + 1, Off(k)) \in Seq(S)
  <2>1. k - 1 \in Nat /\ k \in Nat /\ k - 1 < k /\ (k < q \/ k = q)
        OBVIOUS
  <2>2. Off(k - 1) \in Nat /\ Off(k) \in Nat /\ Off(q) \in Nat /\ Off(k - 1) + BlockSize <= Off(k)
        /\ (k < q => Off(k) + BlockSize <= Off(q))
        BY <2>1, Offs, Zenon
  <2>3. Off(k - 1) <= Off(k) /\ Off(k) <= Len(M)
        BY <2>1, <2>2, Sizes
  <2> QED
      BY <2>2, <2>3, SubSeqPart, Zenon
<1>2. PICK T : T = Seq(S)
    OBVIOUS
<1>3. PICK f : f = BlocksTo(M, q)
    OBVIOUS
<1>4. f \in [1..q -> T] /\ \A k \in 1..q : f[k] = SubSeq(M, Off(k - 1) + 1, Off(k))
    BY <1>1, <1>2, <1>3, Zenon DEF BlocksTo
<1>5. f \in Seq(T) /\ Len(f) = q
    BY <1>4
<1> QED
    BY <1>2, <1>3, <1>4, <1>5, Zenon

LEMMA Filled ==
    ASSUME NEW S, NEW M, M \in Seq(S), NEW i \in Nat, NEW j \in Nat, i <= j, j <= Len(M),
           NEW ctx, At(ctx, M, i)
    PROVE  FilledTo(Fill(ctx, SubSeq(M, i + 1, j)), ctx, M, i, j)
<1>1. PICK q \in Nat : AtBlock(ctx, M, i, q)
    BY Zenon DEF At
<1>2. PICK h, b, n, data : h = ctx.h /\ b = ctx.buf /\ n = ctx.totalLen /\ data = SubSeq(M, i + 1, j)
    OBVIOUS
<1>3. PICK o : o = Off(q)
    OBVIOUS
<1>4. o \in Nat /\ o <= i /\ i < o + BlockSize /\ Off(q + 1) = o + BlockSize
    BY <1>1, <1>3, Offs, Zenon DEF AtBlock
<1>5. b = SubSeq(M, o + 1, i) /\ h = BlocksTo(M, q)
    BY <1>1, <1>2, <1>3, Zenon DEF AtBlock
<1>6. Len(b) = i - o /\ Len(data) = j - i
    BY <1>2, <1>4, <1>5, SubSeqPart
<1> DEFINE room == BlockSize - (i - o)
           take == IF room > j - i THEN j - i ELSE room
<1>7. /\ take \in Nat /\ i + take <= j /\ i + take <= o + BlockSize /\ (i < j => take >= 1)
      /\ i + take \in Nat /\ o <= i + take /\ i <= i + take /\ (i + take) - i = take /\ i + take <= Len(M)
      /\ (i + take) - o \in Nat
    BY <1>4, Sizes
<1>8. PICK t \in Nat : t = take
    BY <1>7
<1> HIDE DEF take, room
<1>9. PICK e \in Nat : e = i + t /\ e - i = t /\ i <= e /\ e <= j /\ o <= e /\ e <= o + BlockSize
                         /\ e <= Len(M)
    BY <1>7, <1>8, Zenon
<1>10. /\ SubSeq(data, 1, t) = SubSeq(M, i + 1, e)
       /\ SubSeq(data, t + 1, j - i) = SubSeq(M, e + 1, j)
  <2>1. /\ SubSeq(SubSeq(M, i + 1, j), 1, e - i) = SubSeq(M, i + 1, e)
        /\ SubSeq(SubSeq(M, i + 1, j), (e - i) + 1, j - i) = SubSeq(M, e + 1, j)
        BY <1>9, SubSeqParts
  <2> QED
      BY <2>1, <1>2, <1>9, Zenon
<1>11. b \o SubSeq(data, 1, t) = SubSeq(M, o + 1, e) /\ Len(SubSeq(M, o + 1, e)) = e - o
         /\ SubSeq(M, o + 1, e) \in Seq(S)
  <2>1. SubSeq(M, o + 1, i) \o SubSeq(M, i + 1, e) = SubSeq(M, o + 1, e)
        BY <1>4, <1>9, SubSeqParts
  <2>2. Len(SubSeq(M, o + 1, e)) = e - o /\ SubSeq(M, o + 1, e) \in Seq(S)
        BY <1>4, <1>9, SubSeqPart, ZenonT(30)
  <2> QED
      BY <2>1, <2>2, <1>5, <1>10, Zenon
<1>12. PICK c : c = SubSeq(M, o + 1, e)
    OBVIOUS
<1>13. Fill(ctx, data) =
          [ctx  |-> [h        |-> IF Len(c) = BlockSize THEN Append(h, c) ELSE h,
                     buf      |-> IF Len(c) = BlockSize THEN <<>> ELSE c,
                     totalLen |-> n],
           rest |-> SubSeq(M, e + 1, j)]
  <2>1. (IF BlockSize - Len(ctx.buf) > Len(data) THEN Len(data) ELSE BlockSize - Len(ctx.buf)) = t
        BY <1>2, <1>6, <1>8 DEF take, room
  <2>2. ctx.buf \o SubSeq(data, 1, t) = c
        BY <1>2, <1>11, <1>12, Zenon
  <2>3. SubSeq(data, t + 1, Len(data)) = SubSeq(M, e + 1, j)
        BY <1>6, <1>10, Zenon
  <2> QED
      BY <2>1, <2>2, <2>3, <1>2, Zenon DEF Fill, Block
<1>14. PICK r : r = Fill(ctx, data)
    OBVIOUS
<1>15. /\ r.ctx.h = IF Len(c) = BlockSize THEN Append(h, c) ELSE h
       /\ r.ctx.buf = IF Len(c) = BlockSize THEN <<>> ELSE c
       /\ r.ctx.totalLen = n
       /\ r.rest = SubSeq(M, e + 1, j)
    BY <1>13, <1>14
<1>16. At(r.ctx, M, e)
  <2>1. CASE e = o + BlockSize
    <3>1. Len(c) = BlockSize
          BY <2>1, <1>4, <1>11, <1>12, Sizes
    <3>2. q + 1 \in Nat /\ Off(q + 1) = e
          BY <2>1, <1>4
    <3>3. r.ctx.buf = SubSeq(M, Off(q + 1) + 1, e)
      <4>1. SubSeq(M, e + 1, e) = <<>>
            BY <1>9
      <4> QED
          BY <4>1, <3>1, <3>2, <1>15, Zenon
    <3>4. r.ctx.h = BlocksTo(M, q + 1)
      <4>0. PICK u, v : u = BlocksTo(M, q) /\ v = BlocksTo(M, q + 1)
            OBVIOUS
      <4>1. u \in Seq(Seq(S)) /\ Len(u) = q /\ \A k \in 1..q : u[k] = SubSeq(M, Off(k - 1) + 1, Off(k))
        <5>1. Off(q) <= Len(M)
              BY <1>3, <1>9, <1>4, Sizes
        <5> QED
            BY <4>0, <5>1, BlocksSeq, Zenon
      <4>2. /\ v \in Seq(Seq(S)) /\ Len(v) = q + 1
            /\ \A k \in 1..(q + 1) : v[k] = SubSeq(M, Off(k - 1) + 1, Off(k))
        <5>1. Off(q + 1) <= Len(M)
              BY <3>2, <1>9, Zenon
        <5> QED
            BY <4>0, <3>2, <5>1, BlocksSeq, Zenon
      <4>3. v[q + 1] = c
        <5>1. q + 1 \in 1..(q + 1) /\ (q + 1) - 1 = q
              OBVIOUS
        <5> QED
            BY <5>1, <4>2, <3>2, <1>3, <1>12, Zenon
      <4>4. Append(u, c) = v
        <5>1. c \in Seq(S)
              BY <1>11, <1>12, Zenon
        <5>2. PICK w : w = Append(u, c)
              OBVIOUS
        <5>3. w \in Seq(Seq(S)) /\ Len(w) = q + 1 /\ w[q + 1] = c /\ \A k \in 1..q : w[k] = u[k]
              BY <5>1, <5>2, <4>1
        <5>4. \A k \in 1..(q + 1) : w[k] = v[k]
          <6> TAKE k \in 1..(q + 1)
          <6>1. CASE k = q + 1
                BY <6>1, <5>3, <4>3, Zenon
          <6>2. CASE k # q + 1
            <7>1. k \in 1..q
                  BY <6>2
            <7> QED
                BY <7>1, <5>3, <4>1, <4>2, Zenon
          <6> QED
              BY <6>1, <6>2
        <5> QED
            BY <5>2, <5>3, <5>4, <4>2, SeqEqual, Zenon
      <4> QED
          BY <4>0, <4>4, <3>1, <1>5, <1>15, Zenon
    <3>5. Off(q + 1) <= e /\ e < Off(q + 1) + BlockSize
          BY <3>2, Sizes
    <3> QED
        BY <3>2, <3>3, <3>4, <3>5, Zenon DEF At, AtBlock
  <2>2. CASE e # o + BlockSize
    <3>1. Len(c) # BlockSize /\ e < o + BlockSize
          BY <2>2, <1>4, <1>9, <1>11, <1>12, Sizes
    <3>2. r.ctx.buf = SubSeq(M, Off(q) + 1, e) /\ r.ctx.h = BlocksTo(M, q)
          BY <3>1, <1>3, <1>5, <1>12, <1>15, Zenon
    <3> QED
        BY <3>1, <3>2, <1>3, <1>9, Zenon DEF At, AtBlock
  <2> QED
      BY <2>1, <2>2
<1> QED
  <2>1. (i < j => t >= 1) /\ i + t <= j
        BY <1>7, <1>8, Zenon
  <2> QED
      BY <2>1, <1>2, <1>9, <1>14, <1>15, <1>16, Zenon DEF FilledTo

(* The states of a context and of a pass of update.  *)
CtxStates(S)  == [h : Seq(Seq(S)), buf : {b \in Seq(S) : Len(b) < BlockSize}, totalLen : Nat]
PassStates(S) == [ctx : CtxStates(S), rest : Seq(S)]

LEMMA FillType ==
    ASSUME NEW S, NEW s \in PassStates(S)
    PROVE  Fill(s.ctx, s.rest) \in PassStates(S)
<1>1. PICK ctx, data : ctx = s.ctx /\ data = s.rest
    OBVIOUS
<1>2. ctx \in CtxStates(S) /\ data \in Seq(S)
    BY <1>1 DEF PassStates
<1>3. PICK h, b, n : h = ctx.h /\ b = ctx.buf /\ n = ctx.totalLen
    OBVIOUS
<1>4. h \in Seq(Seq(S)) /\ b \in Seq(S) /\ Len(b) < BlockSize /\ n \in Nat
    BY <1>2, <1>3 DEF CtxStates
<1>5. PICK l, m : l = Len(b) /\ m = Len(data)
    OBVIOUS
<1>6. l \in Nat /\ m \in Nat /\ l < BlockSize
  <2>1. Len(b) \in Nat /\ Len(data) \in Nat
        BY <1>2, <1>4
  <2> QED
      BY <2>1, <1>4, <1>5, Zenon
<1> DEFINE take == IF BlockSize - l > m THEN m ELSE BlockSize - l
<1>7. take \in Nat /\ take <= m /\ l + take <= BlockSize
    BY <1>6, Sizes
<1>8. PICK t : t = take
    OBVIOUS
<1> HIDE DEF take
<1>9. PICK u, v, c : u = SubSeq(data, 1, t) /\ v = SubSeq(data, t + 1, m) /\ c = b \o u
    OBVIOUS
<1>10. u \in Seq(S) /\ Len(u) = t /\ v \in Seq(S)
  <2>1. t \in Nat /\ t <= Len(data) /\ m = Len(data)
        BY <1>5, <1>7, <1>8, Zenon
  <2> QED
      BY <2>1, <1>2, <1>9
<1>11. c \in Seq(S) /\ Len(c) = Len(b) + Len(u)
  <2>1. c = b \o u
        BY <1>9
  <2> QED
      BY <2>1, <1>4, <1>10, ConcatPlaces
<1>12. Len(c) <= BlockSize /\ Len(c) \in Nat
  <2>1. Len(c) = l + t /\ l + t <= BlockSize
        BY <1>5, <1>7, <1>8, <1>10, <1>11, Zenon
  <2>2. l + t \in Nat
        BY <1>6, <1>7, <1>8
  <2> QED
      BY <2>1, <2>2, Zenon
<1>13. PICK h2, b2 : /\ h2 = IF Len(c) = BlockSize THEN Append(h, c) ELSE h
                     /\ b2 = IF Len(c) = BlockSize THEN <<>> ELSE c
    OBVIOUS
<1>14. h2 \in Seq(Seq(S)) /\ b2 \in Seq(S) /\ Len(b2) < BlockSize
  <2>1. CASE Len(c) = BlockSize
    <3>1. b2 = <<>> /\ h2 = Append(h, c)
          BY <2>1, <1>13, Zenon
    <3>2. b2 \in Seq(S) /\ Len(b2) = 0
          BY <3>1
    <3>3. Len(b2) < BlockSize
          BY <3>2, Sizes
    <3>4. PICK T : T = Seq(S)
          OBVIOUS
    <3>5. h2 \in Seq(T)
          BY <3>1, <3>4, <1>4, <1>11
    <3> QED
        BY <3>2, <3>3, <3>4, <3>5, Zenon
  <2>2. CASE Len(c) # BlockSize
    <3>1. b2 = c /\ h2 = h
          BY <2>2, <1>13, Zenon
    <3>2. Len(c) < BlockSize
          BY <2>2, <1>12, Sizes
    <3> QED
        BY <3>1, <3>2, <1>4, <1>11, Zenon
  <2> QED
      BY <2>1, <2>2
<1>15. Fill(ctx, data) = [ctx |-> [h |-> h2, buf |-> b2, totalLen |-> n], rest |-> v]
  <2>1. (IF BlockSize - Len(ctx.buf) > Len(data) THEN Len(data) ELSE BlockSize - Len(ctx.buf)) = t
        BY <1>3, <1>5, <1>8, Zenon DEF take
  <2>2. ctx.buf \o SubSeq(data, 1, t) = c
        BY <1>3, <1>9, Zenon
  <2>3. SubSeq(data, t + 1, Len(data)) = v
        BY <1>5, <1>9, Zenon
  <2> QED
      BY <2>1, <2>2, <2>3, <1>3, <1>13, Zenon DEF Fill, Block
<1>16. [h |-> h2, buf |-> b2, totalLen |-> n] \in CtxStates(S)
    BY <1>4, <1>14 DEF CtxStates
<1> QED
    BY <1>1, <1>10, <1>15, <1>16 DEF PassStates

(* The passes of update.  *)
LEMMA UpdateRuns ==
    ASSUME NEW S, NEW ctx \in CtxStates(S), NEW data, data \in Seq(S)
    PROVE  \E f : /\ \A k \in 0..Len(data) : f[k] \in PassStates(S)
                  /\ f[0] = [ctx |-> [ctx EXCEPT !.totalLen = @ + Len(data)], rest |-> data]
                  /\ \A k \in 0..(Len(data) - 1) : f[k + 1] = Fill(f[k].ctx, f[k].rest)
                  /\ Update(ctx, data) = f[Len(data)].ctx
<1> DEFINE n == Len(data)
           T == PassStates(S)
           base == [ctx |-> [ctx EXCEPT !.totalLen = @ + Len(data)], rest |-> data]
           Eq(f) == f = [k \in 0..n |->
                        IF k = 0 THEN [ctx |-> [ctx EXCEPT !.totalLen = @ + Len(data)], rest |-> data]
                                 ELSE Fill(f[k - 1].ctx, f[k - 1].rest)]
           f == CHOOSE f : Eq(f)
           step == [k \in 1..n |-> [s \in T |-> Fill(s.ctx, s.rest)]]
<1>0. n \in Nat
    OBVIOUS
<1>b. base \in T
  <2>1. PICK h, b, x, y : h = ctx.h /\ b = ctx.buf /\ x = ctx.totalLen /\ y = ctx.totalLen + Len(data)
        OBVIOUS
  <2>2. h \in Seq(Seq(S)) /\ b \in {b2 \in Seq(S) : Len(b2) < BlockSize} /\ ctx.totalLen \in Nat
        BY <2>1 DEF CtxStates
  <2>3. y \in Nat
        BY <2>1, <2>2
  <2>4. [ctx EXCEPT !.totalLen = @ + Len(data)] = [h |-> h, buf |-> b, totalLen |-> y]
        BY <2>1, SMTT(30) DEF CtxStates
  <2>5. [h |-> h, buf |-> b, totalLen |-> y] \in CtxStates(S)
        BY <2>2, <2>3 DEF CtxStates
  <2>6. [ctx EXCEPT !.totalLen = @ + Len(data)] \in CtxStates(S)
        BY <2>4, <2>5, Zenon
  <2> QED
      BY <2>6 DEF PassStates
<1>t. ASSUME NEW k \in 1..n, NEW s \in T PROVE Fill(s.ctx, s.rest) \in T
    BY FillType
<1>1. PICK g : IsRun(g, n, T, base, step)
  <2>1. step \in [1..n -> [T -> T]]
    <3> HIDE DEF n, T
    <3> QED
        BY <1>t
  <2> HIDE DEF step, n, T, base
  <2> QED
      BY <1>0, <1>b, <2>1, Iteration
<1>2. Eq(g)
  <2>1. g \in [0..n -> T] /\ g[0] = base
    <3> HIDE DEF n, T, base, step
    <3> QED
        BY <1>1 DEF IsRun
  <2>2. ASSUME NEW k \in 1..n PROVE g[k] = Fill(g[k - 1].ctx, g[k - 1].rest)
    <3>1. g[k - 1] \in T
      <4> HIDE DEF n, T
      <4> QED
          BY <2>1, <1>0
    <3>2. g[k] = step[k][g[k - 1]]
      <4> HIDE DEF step, n, T, base
      <4> QED
          BY <1>1 DEF IsRun
    <3>3. step[k] = [s \in T |-> Fill(s.ctx, s.rest)]
      <4> HIDE DEF n, T
      <4> QED
          OBVIOUS
    <3> HIDE DEF step, n, T
    <3> QED
        BY <3>1, <3>2, <3>3
  <2> HIDE DEF n, step, T
  <2> QED
      BY <2>1, <2>2, <1>0
<1>3. Eq(f)
  <2> HIDE DEF Eq
  <2> QED
      BY <1>2
<1>4. Update(ctx, data) = f[n].ctx
    BY Zenon DEF Update
<1> HIDE DEF f
<1>5. f[0] = [ctx |-> [ctx EXCEPT !.totalLen = @ + Len(data)], rest |-> data]
  <2> HIDE DEF n
  <2> QED
      BY <1>3, <1>0
<1>6. ASSUME NEW k \in 0..(n - 1) PROVE f[k + 1] = Fill(f[k].ctx, f[k].rest)
  <2> HIDE DEF n
  <2>1. k + 1 \in 0..n /\ k + 1 # 0 /\ (k + 1) - 1 = k
        BY <1>0
  <2>2. f[k + 1] = Fill(f[(k + 1) - 1].ctx, f[(k + 1) - 1].rest)
        BY <2>1, <1>3
  <2> QED
      BY <2>1, <2>2
<1>7. \A k \in 0..n : f[k] \in T
  <2> HIDE DEF T, Eq
  <2> DEFINE P == {k \in Nat : f[k] \in T}
  <2>1. 0 \in P
        BY <1>5, <1>b
  <2>2. ASSUME NEW k \in 0..(n - 1), k \in P PROVE k + 1 \in P
    <3> HIDE DEF n
    <3>1. k + 1 \in 1..n /\ f[k] \in T
          BY <1>0, <2>2
    <3>2. Fill(f[k].ctx, f[k].rest) \in T
          BY <3>1, <1>t, Zenon
    <3>3. f[k + 1] \in T /\ k + 1 \in Nat
          BY <3>1, <3>2, <1>6
    <3> QED
        BY <3>3
  <2> HIDE DEF P, n
  <2>3. \A k \in 0..n : k \in P
        BY <1>0, <2>1, <2>2, UpTo, Zenon
  <2> QED
      BY <2>3, <1>0 DEF P
<1> QED
    BY <1>4, <1>5, <1>6, <1>7

Passed(s, M, i, j, k, total) ==
    \E p \in Nat : /\ i + k <= p /\ p <= j
                   /\ At(s.ctx, M, p)
                   /\ s.rest = SubSeq(M, p + 1, j)
                   /\ s.ctx.totalLen = total

(* update reads all of what it is given, in whatever state it is called.   *)
LEMMA Updated ==
    ASSUME NEW S, NEW M, M \in Seq(S), NEW i \in Nat, NEW j \in Nat, i <= j, j <= Len(M),
           NEW ctx \in CtxStates(S), At(ctx, M, i)
    PROVE  /\ Update(ctx, SubSeq(M, i + 1, j)) \in CtxStates(S)
           /\ At(Update(ctx, SubSeq(M, i + 1, j)), M, j)
           /\ Update(ctx, SubSeq(M, i + 1, j)).totalLen = ctx.totalLen + (j - i)
<1>1. PICK data : data = SubSeq(M, i + 1, j)
    OBVIOUS
<1>2. data \in Seq(S) /\ Len(data) = j - i
    BY <1>1, SubSeqPart
<1>3. PICK n \in Nat : n = j - i
    OBVIOUS
<1>4. PICK f : /\ \A k \in 0..Len(data) : f[k] \in PassStates(S)
               /\ f[0] = [ctx |-> [ctx EXCEPT !.totalLen = @ + Len(data)], rest |-> data]
               /\ \A k \in 0..(Len(data) - 1) : f[k + 1] = Fill(f[k].ctx, f[k].rest)
               /\ Update(ctx, data) = f[Len(data)].ctx
  <2>1. data \in Seq(S)
        BY <1>2
  <2> QED
      BY <2>1, UpdateRuns
<1>5. Len(data) = n
    BY <1>2, <1>3, Zenon
<1> DEFINE total == ctx.totalLen + n
           P == {k \in 0..n : Passed(f[k], M, i, j, k, total)}
<1>6. 0 \in P
  <2>1. PICK s : s = f[0]
        OBVIOUS
  <2>2. s = [ctx |-> [ctx EXCEPT !.totalLen = @ + n], rest |-> data]
        BY <2>1, <1>4, <1>5, Zenon
  <2>3. PICK x : x = s.ctx
        OBVIOUS
  <2>4. x = [ctx EXCEPT !.totalLen = @ + n] /\ s.rest = data
        BY <2>2, <2>3
  <2>5. x.h = ctx.h /\ x.buf = ctx.buf /\ x.totalLen = total
        BY <2>4 DEF CtxStates
  <2>6. At(x, M, i)
        BY <2>5, Zenon DEF At, AtBlock
  <2>7. i + 0 <= i /\ 0 \in 0..n
        BY <1>3
  <2> QED
      BY <2>1, <2>3, <2>4, <2>5, <2>6, <2>7, <1>1, Zenon DEF Passed
<1>7. ASSUME NEW k \in 0..(n - 1), k \in P PROVE k + 1 \in P
  <2>1. PICK s, r : s = f[k] /\ r = f[k + 1]
        OBVIOUS
  <2>2. r = Fill(s.ctx, s.rest)
        BY <2>1, <1>4, <1>5, Zenon
  <2>3. PICK p \in Nat : /\ i + k <= p /\ p <= j
                         /\ At(s.ctx, M, p)
                         /\ s.rest = SubSeq(M, p + 1, j)
                         /\ s.ctx.totalLen = total
        BY <1>7, <2>1, Zenon DEF Passed
  <2>4. FilledTo(r, s.ctx, M, p, j)
    <3>1. FilledTo(Fill(s.ctx, SubSeq(M, p + 1, j)), s.ctx, M, p, j)
          BY <2>3, Filled
    <3> QED
        BY <3>1, <2>2, <2>3, Zenon
  <2>5. PICK t \in Nat : /\ p + t <= j /\ (p < j => t >= 1)
                         /\ At(r.ctx, M, p + t)
                         /\ r.rest = SubSeq(M, (p + t) + 1, j)
                         /\ r.ctx.totalLen = s.ctx.totalLen
        BY <2>4, Zenon DEF FilledTo
  <2>6. i + (k + 1) <= p + t /\ p + t \in Nat /\ k + 1 \in 0..n
        BY <1>3, <2>3, <2>5
  <2> HIDE DEF total
  <2>7. Passed(r, M, i, j, k + 1, total)
        BY <2>3, <2>5, <2>6, Zenon DEF Passed
  <2> QED
      BY <2>1, <2>6, <2>7, Zenon
<1>8. Passed(f[n], M, i, j, n, total)
  <2> HIDE DEF P
  <2>1. \A k \in 0..n : k \in P
        BY <1>6, <1>7, UpTo
  <2>2. n \in 0..n
        OBVIOUS
  <2> QED
      BY <2>1, <2>2, Zenon DEF P
<1>9. PICK s : s = f[n]
    OBVIOUS
<1>10. PICK p \in Nat : i + n <= p /\ p <= j /\ At(s.ctx, M, p) /\ s.ctx.totalLen = total
    BY <1>8, <1>9, Zenon DEF Passed
<1>11. p = j
    BY <1>3, <1>10
<1>12. s.ctx \in CtxStates(S)
  <2>1. s \in PassStates(S)
    <3>1. n \in 0..n
          OBVIOUS
    <3> QED
        BY <3>1, <1>4, <1>5, <1>9, Zenon
  <2> QED
      BY <2>1 DEF PassStates
<1> QED
    BY <1>1, <1>3, <1>4, <1>5, <1>9, <1>10, <1>11, <1>12, Zenon

LEMMA UpdateType ==
    ASSUME NEW S, NEW ctx \in CtxStates(S), NEW data, data \in Seq(S)
    PROVE  Update(ctx, data) \in CtxStates(S)
<1>1. PICK f : /\ \A k \in 0..Len(data) : f[k] \in PassStates(S)
               /\ f[0] = [ctx |-> [ctx EXCEPT !.totalLen = @ + Len(data)], rest |-> data]
               /\ \A k \in 0..(Len(data) - 1) : f[k + 1] = Fill(f[k].ctx, f[k].rest)
               /\ Update(ctx, data) = f[Len(data)].ctx
    BY UpdateRuns
<1>2. Len(data) \in 0..Len(data)
    OBVIOUS
<1>3. PICK s : s = f[Len(data)]
    OBVIOUS
<1>4. s \in PassStates(S) /\ Update(ctx, data) = s.ctx
    BY <1>1, <1>2, <1>3, Zenon
<1> QED
    BY <1>4 DEF PassStates

(* The zeros of final.  *)
LEMMA PadRuns ==
    ASSUME NEW S, Null \in S, NEW ctx \in CtxStates(S)
    PROVE  \E f : /\ \A k \in 0..BlockSize : f[k] \in CtxStates(S)
                  /\ f[0] = ctx
                  /\ \A k \in 0..(BlockSize - 1) :
                     f[k + 1] = (IF Len(f[k].buf) = BlockSize - LengthSize THEN f[k]
                       ELSE Update(f[k], <<Null>>))
                  /\ PadZeros(ctx) = f[BlockSize]
<1> DEFINE n == BlockSize
           T == CtxStates(S)
           base == ctx
           Eq(f) == f = [k \in 0..n |-> IF k = 0 THEN ctx
             ELSE (IF Len(f[k - 1].buf) = BlockSize - LengthSize THEN f[k - 1]
               ELSE Update(f[k - 1], <<Null>>))]
           f == CHOOSE f : Eq(f)
           step == [k \in 1..n |-> [s \in T |-> (IF Len(s.buf) = BlockSize - LengthSize THEN s
             ELSE Update(s, <<Null>>))]]
<1>0. n \in Nat
    BY Sizes
<1>b. base \in T
    OBVIOUS
<1>t. ASSUME NEW k \in 1..n, NEW s \in T PROVE (IF Len(s.buf) = BlockSize - LengthSize THEN s
               ELSE Update(s, <<Null>>)) \in T
  <2>1. <<Null>> \in Seq(S)
        OBVIOUS
  <2>2. Update(s, <<Null>>) \in T
    <3> HIDE DEF n
    <3> QED
        BY <2>1, UpdateType, Zenon
  <2> HIDE DEF T
  <2>3. CASE Len(s.buf) = BlockSize - LengthSize
        BY <2>3, Zenon
  <2>4. CASE Len(s.buf) # BlockSize - LengthSize
        BY <2>2, <2>4, Zenon
  <2> QED
      BY <2>3, <2>4, Zenon
<1>1. PICK g : IsRun(g, n, T, base, step)
  <2>1. step \in [1..n -> [T -> T]]
    <3> HIDE DEF n, T
    <3> QED
        BY <1>t
  <2> HIDE DEF step, n, T, base
  <2> QED
      BY <1>0, <1>b, <2>1, Iteration
<1>2. Eq(g)
  <2>1. g \in [0..n -> T] /\ g[0] = base
    <3> HIDE DEF n, T, base, step
    <3> QED
        BY <1>1 DEF IsRun
  <2>2. ASSUME NEW k \in 1..n PROVE g[k] = (IF Len(g[k - 1].buf) = BlockSize - LengthSize THEN g[k - 1]
                 ELSE Update(g[k - 1], <<Null>>))
    <3>1. g[k - 1] \in T
      <4> HIDE DEF n, T
      <4> QED
          BY <2>1, <1>0
    <3>2. g[k] = step[k][g[k - 1]]
      <4> HIDE DEF step, n, T, base
      <4> QED
          BY <1>1 DEF IsRun
    <3>3. step[k] = [s \in T |-> (IF Len(s.buf) = BlockSize - LengthSize THEN s ELSE Update(s, <<Null>>))]
      <4> HIDE DEF n, T
      <4> QED
          OBVIOUS
    <3> HIDE DEF step, n, T
    <3> QED
        BY <3>1, <3>2, <3>3
  <2> HIDE DEF n, step, T
  <2> QED
      BY <2>1, <2>2, <1>0
<1>3. Eq(f)
  <2> HIDE DEF Eq
  <2> QED
      BY <1>2
<1>4. PadZeros(ctx) = f[n]
    BY Zenon DEF PadZeros
<1> HIDE DEF f
<1>5. f[0] = ctx
  <2> HIDE DEF n
  <2> QED
      BY <1>3, <1>0
<1>6. ASSUME NEW k \in 0..(n - 1) PROVE f[k + 1] = (IF Len(f[k].buf) = BlockSize - LengthSize THEN f[k]
               ELSE Update(f[k], <<Null>>))
  <2> HIDE DEF n
  <2>1. k + 1 \in 0..n /\ k + 1 # 0 /\ (k + 1) - 1 = k
        BY <1>0
  <2>2. f[k + 1] = (IF Len(f[(k + 1) - 1].buf) = BlockSize - LengthSize THEN f[(k + 1) - 1]
          ELSE Update(f[(k + 1) - 1], <<Null>>))
        BY <2>1, <1>3
  <2> QED
      BY <2>1, <2>2
<1>7. \A k \in 0..n : f[k] \in T
  <2> HIDE DEF T, Eq
  <2> DEFINE P == {k \in Nat : f[k] \in T}
  <2>1. 0 \in P
        BY <1>5, <1>b
  <2>2. ASSUME NEW k \in 0..(n - 1), k \in P PROVE k + 1 \in P
    <3> HIDE DEF n
    <3>1. k + 1 \in 1..n /\ f[k] \in T
          BY <1>0, <2>2
    <3>2. (IF Len(f[k].buf) = BlockSize - LengthSize THEN f[k] ELSE Update(f[k], <<Null>>)) \in T
          BY <3>1, <1>t, Zenon
    <3>3. f[k + 1] \in T /\ k + 1 \in Nat
          BY <3>1, <3>2, <1>6
    <3> QED
        BY <3>3
  <2> HIDE DEF P, n
  <2>3. \A k \in 0..n : k \in P
        BY <1>0, <2>1, <2>2, UpTo, Zenon
  <2> QED
      BY <2>3, <1>0 DEF P
<1> QED
    BY <1>4, <1>5, <1>6, <1>7

LEMMA BufLen ==
    ASSUME NEW S, NEW M, M \in Seq(S), NEW n \in Nat, NEW z \in 0..(BlockSize - 1), NEW Q \in Nat,
           n + 1 + z + LengthSize = Off(Q), Off(Q) <= Len(M),
           NEW ctx, NEW i \in (n + 1)..(n + 1 + z), At(ctx, M, i)
    PROVE  Len(ctx.buf) = BlockSize - LengthSize <=> i = n + 1 + z
<1>1. PICK q \in Nat : AtBlock(ctx, M, i, q)
    BY Zenon DEF At
<1>2. PICK o, e \in Nat : o = Off(q) /\ e = Off(Q)
    BY Offs
<1>3. o \in Nat /\ o <= i /\ i < o + BlockSize /\ n + 1 + z + LengthSize = e
    BY <1>1, <1>2, Offs, Zenon DEF AtBlock
<1>4. Len(ctx.buf) = i - o
  <2>1. ctx.buf = SubSeq(M, o + 1, i)
        BY <1>1, <1>2, Zenon DEF AtBlock
  <2>2. e <= Len(M)
        BY <1>2, Zenon
  <2>3. i \in Nat /\ i <= Len(M)
        BY <1>2, <1>3, <2>2, Sizes
  <2>4. Len(SubSeq(M, o + 1, i)) = i - o
        BY <1>3, <2>3, SubSeqPart
  <2> QED
      BY <2>1, <2>4, Zenon
<1>5. q + 1 \in Nat /\ Off(q + 1) = o + BlockSize
    BY <1>2, Offs
<1>6. /\ q + 1 < Q => o + BlockSize + BlockSize <= e
      /\ Q < q + 1 => e + BlockSize <= o + BlockSize
      /\ q + 1 = Q => e = o + BlockSize
    BY <1>2, <1>5, Offs, Zenon
<1>7. q + 1 < Q \/ Q < q + 1 \/ q + 1 = Q
    OBVIOUS
<1>8. i - o = BlockSize - LengthSize <=> i = n + 1 + z
  <2>1. /\ q + 1 < Q => i + LengthSize + BlockSize < e + LengthSize
        /\ Q < q + 1 => e <= i
    <3>1. ASSUME q + 1 < Q PROVE i + LengthSize + BlockSize < e + LengthSize
          BY <3>1, <1>3, <1>6, Sizes
    <3>2. ASSUME Q < q + 1 PROVE e <= i
          BY <3>2, <1>3, <1>6, Sizes
    <3> QED
        BY <3>1, <3>2
  <2>2. CASE q + 1 = Q
    <3>1. e = o + BlockSize
          BY <2>2, <1>6
    <3> QED
        BY <3>1, <1>3, Sizes
  <2>3. CASE q + 1 < Q
    <3>1. o + BlockSize + BlockSize <= e
          BY <2>3, <1>6
    <3> QED
        BY <3>1, <1>3, Sizes
  <2>4. CASE Q < q + 1
    <3>1. e <= o
      <4>1. e + BlockSize <= o + BlockSize
            BY <2>4, <1>6
      <4> QED
          BY <4>1, <1>3, Sizes
    <3> QED
        BY <3>1, <1>3, Sizes
  <2> QED
      BY <2>2, <2>3, <2>4, <1>7
<1> QED
    BY <1>4, <1>8, Zenon

(* M is what final makes of the n bytes it begins with: a bit, z zeros and *)
(* the length, Q blocks in all.                                            *)
PaddedTo(M, n, z, Q) ==
    /\ n + 1 + z + LengthSize = Off(Q) /\ Len(M) = Off(Q)
    /\ M[n + 1] = Byte(128)
    /\ \A p \in 1..z : M[n + 1 + p] = Null
    /\ SubSeq(M, (n + 1 + z) + 1, Len(M)) = LengthBytes(8 * n)

LEMMA SubSeqOne ==
    ASSUME NEW S, NEW M, M \in Seq(S), NEW i \in Nat, i < Len(M)
    PROVE  SubSeq(M, i + 1, i + 1) = <<M[i + 1]>>
<1>1. PICK u, v, x : u = SubSeq(M, i + 1, i + 1) /\ v = <<x>> /\ x = M[i + 1]
    OBVIOUS
<1>2. u \in Seq(S) /\ Len(u) = 1 /\ \A p \in 1..1 : u[p] = M[i + p]
  <2>1. i + 1 \in Nat /\ i <= i + 1 /\ i + 1 <= Len(M) /\ (i + 1) - i = 1
        OBVIOUS
  <2> QED
      BY <1>1, <2>1, SubSeqPart
<1>3. x \in S
    BY <1>1
<1>4. v \in Seq(S) /\ Len(v) = 1 /\ v[1] = x
    BY <1>1, <1>3
<1>5. \A p \in 1..1 : u[p] = v[p]
    BY <1>1, <1>2, <1>4
<1> QED
    BY <1>1, <1>2, <1>4, <1>5, SeqEqual, Zenon

LEMMA UpdatedOne ==
    ASSUME NEW S, NEW M, M \in Seq(S), NEW i \in Nat, i < Len(M), NEW x, x = M[i + 1],
           NEW ctx \in CtxStates(S), At(ctx, M, i)
    PROVE  Update(ctx, <<x>>) \in CtxStates(S) /\ At(Update(ctx, <<x>>), M, i + 1)
<1>1. i + 1 \in Nat /\ i <= i + 1 /\ i + 1 <= Len(M)
    OBVIOUS
<1>2. /\ Update(ctx, SubSeq(M, i + 1, i + 1)) \in CtxStates(S)
      /\ At(Update(ctx, SubSeq(M, i + 1, i + 1)), M, i + 1)
    BY <1>1, Updated, Zenon
<1>3. SubSeq(M, i + 1, i + 1) = <<x>>
    BY SubSeqOne, Zenon
<1> QED
    BY <1>2, <1>3, Zenon

LEMMA FinalWhole ==
    ASSUME NEW S, NEW M, M \in Seq(S), Null \in S, NEW n \in Nat, NEW z \in 0..(BlockSize - 1),
           NEW Q \in Nat,
           PaddedTo(M, n, z, Q), NEW ctx \in CtxStates(S), At(ctx, M, n), ctx.totalLen = n
    PROVE  Final(ctx) = DigestOf(BlocksTo(M, Q))
<1>1. PICK e \in Nat, z0 \in Nat : /\ e = Off(Q) /\ z0 = z /\ z0 < BlockSize
                                   /\ n + 1 + z0 + LengthSize = e /\ Len(M) = e
  <2>1. Off(Q) \in Nat /\ n + 1 + z + LengthSize = Off(Q) /\ Len(M) = Off(Q)
        BY Offs, Zenon DEF PaddedTo
  <2>2. z \in Nat /\ z < BlockSize
        BY Sizes
  <2> QED
      BY <2>1, <2>2, Zenon
<1>2. n < Len(M) /\ n + 1 + z0 < Len(M) /\ n + 1 + z0 \in Nat
    BY <1>1, Sizes
<1>3. PICK c1 : c1 = Update(ctx, <<Byte(128)>>)
    OBVIOUS
<1>4. c1 \in CtxStates(S) /\ At(c1, M, n + 1)
  <2>1. Byte(128) = M[n + 1]
        BY Zenon DEF PaddedTo
  <2>2. Update(ctx, <<Byte(128)>>) \in CtxStates(S) /\ At(Update(ctx, <<Byte(128)>>), M, n + 1)
        BY <2>1, <1>2, UpdatedOne, Zenon
  <2> QED
      BY <1>3, <2>2, Zenon
<1>5. PICK f : /\ \A k \in 0..BlockSize : f[k] \in CtxStates(S)
               /\ f[0] = c1
               /\ \A k \in 0..(BlockSize - 1) :
                  f[k + 1] = (IF Len(f[k].buf) = BlockSize - LengthSize THEN f[k]
                    ELSE Update(f[k], <<Null>>))
               /\ PadZeros(c1) = f[BlockSize]
    BY <1>4, PadRuns
<1> DEFINE upto(k) == n + 1 + (IF k < z0 THEN k ELSE z0)
           P == {k \in 0..BlockSize : At(f[k], M, upto(k))}
<1>6. 0 \in P
  <2>1. upto(0) = n + 1 /\ 0 \in 0..BlockSize
        BY Sizes
  <2> HIDE DEF upto
  <2> QED
      BY <2>1, <1>4, <1>5, Zenon
<1>7. ASSUME NEW k \in 0..(BlockSize - 1), k \in P PROVE k + 1 \in P
  <2>1. PICK s, r : s = f[k] /\ r = f[k + 1]
        OBVIOUS
  <2>2. k \in 0..BlockSize /\ k + 1 \in 0..BlockSize /\ k \in Nat
        BY Sizes
  <2>3. s \in CtxStates(S) /\ r = (IF Len(s.buf) = BlockSize - LengthSize THEN s ELSE Update(s, <<Null>>))
        BY <2>1, <2>2, <1>5, Zenon
  <2>4. At(s, M, upto(k))
    <3> HIDE DEF upto
    <3> QED
        BY <1>7, <2>1, Zenon
  <2>5. PICK i \in Nat : i = upto(k) /\ i \in (n + 1)..(n + 1 + z0)
        BY <2>2
  <2>6. Len(s.buf) = BlockSize - LengthSize <=> i = n + 1 + z0
    <3>1. z0 \in 0..(BlockSize - 1) /\ n + 1 + z0 + LengthSize = Off(Q) /\ Off(Q) <= Len(M)
          BY <1>1, Sizes
    <3>2. At(s, M, i)
      <4> HIDE DEF upto
      <4> QED
          BY <2>4, <2>5, Zenon
    <3> HIDE DEF upto
    <3> QED
        BY <3>1, <3>2, <2>5, BufLen
  <2>7. CASE k < z0
    <3>1. i = n + 1 + k /\ i # n + 1 + z0 /\ upto(k + 1) = i + 1 /\ i < Len(M) /\ k + 1 \in 1..z0
          BY <2>7, <2>2, <2>5, <1>1, <1>2
    <3>2. M[n + 1 + (k + 1)] = Null
          BY <3>1, <1>1, Zenon DEF PaddedTo
    <3>3. M[i + 1] = Null
      <4>1. n + 1 + (k + 1) = i + 1
            BY <3>1, <2>2
      <4> QED
          BY <3>2, <4>1, Zenon
    <3>4. r = Update(s, <<Null>>)
          BY <3>1, <2>3, <2>6, Zenon
    <3> HIDE DEF upto
    <3>5. At(Update(s, <<Null>>), M, i + 1)
          BY <3>1, <3>3, <2>3, <2>4, <2>5, UpdatedOne, Zenon
    <3> QED
        BY <3>1, <3>4, <3>5, <2>1, <2>2, Zenon
  <2>8. CASE ~(k < z0)
    <3>1. i = n + 1 + z0 /\ upto(k + 1) = i
          BY <2>8, <2>2, <2>5, <1>1
    <3>2. r = s
          BY <3>1, <2>3, <2>6, Zenon
    <3> HIDE DEF upto
    <3> QED
        BY <3>1, <3>2, <2>1, <2>2, <2>4, <2>5, Zenon
  <2> QED
      BY <2>7, <2>8
<1>8. BlockSize \in P
  <2> HIDE DEF P
  <2>1. \A k \in 0..BlockSize : k \in P
        BY <1>6, <1>7, Sizes, UpTo
  <2>2. BlockSize \in 0..BlockSize
        BY Sizes
  <2> QED
      BY <2>1, <2>2, Zenon
<1>9. PICK c2 : c2 = PadZeros(c1)
    OBVIOUS
<1>10. c2 \in CtxStates(S) /\ At(c2, M, n + 1 + z0)
  <2>1. upto(BlockSize) = n + 1 + z0 /\ BlockSize \in 0..BlockSize
        BY <1>1, Sizes
  <2> HIDE DEF upto
  <2> QED
      BY <2>1, <1>5, <1>8, <1>9, Zenon
<1>11. PICK c3 : c3 = Update(c2, LengthBytes(ctx.totalLen * 8))
    OBVIOUS
<1>12. At(c3, M, e)
  <2>1. LengthBytes(ctx.totalLen * 8) = SubSeq(M, (n + 1 + z0) + 1, e)
    <3>1. n * 8 = 8 * n
          OBVIOUS
    <3>2. SubSeq(M, (n + 1 + z) + 1, Len(M)) = LengthBytes(8 * n)
          BY Zenon DEF PaddedTo
    <3> QED
        BY <3>1, <3>2, <1>1, Zenon
  <2>2. n + 1 + z0 <= e /\ e <= Len(M)
        BY <1>1, <1>2
  <2>3. At(Update(c2, SubSeq(M, (n + 1 + z0) + 1, e)), M, e)
        BY <2>2, <1>2, <1>10, Updated, Zenon
  <2> QED
      BY <2>1, <2>3, <1>11, Zenon
<1>13. c3.h = BlocksTo(M, Q)
  <2>1. PICK q \in Nat : AtBlock(c3, M, e, q)
        BY <1>12, Zenon DEF At
  <2>2. PICK o \in Nat : o = Off(q)
        BY Offs
  <2>3. o <= e /\ e < o + BlockSize
        BY <2>1, <2>2, Zenon DEF AtBlock
  <2>4. (q < Q => o + BlockSize <= e) /\ (Q < q => e + BlockSize <= o)
        BY <2>2, <1>1, Offs, Zenon
  <2>5. q = Q
        BY <2>3, <2>4, Sizes
  <2> QED
      BY <2>1, <2>5, Zenon DEF AtBlock
<1> QED
    BY <1>3, <1>9, <1>11, <1>13 DEF Final

(* Whole blocks, and what is left.  *)
LEMMA OffFloor ==
    ASSUME NEW x \in Nat
    PROVE  \E q \in Nat : Off(q) <= x /\ x < Off(q) + BlockSize
<1> DEFINE P == {y \in Nat : \E q \in Nat : Off(q) <= y /\ y < Off(q) + BlockSize}
<1>1. 0 \in P
    BY Offs, Sizes
<1>2. ASSUME NEW y \in P PROVE y + 1 \in P
  <2>1. PICK q, o \in Nat : q \in Nat /\ o = Off(q) /\ Off(q + 1) = o + BlockSize /\ o <= y
                              /\ y < o + BlockSize
        BY Offs
  <2>2. CASE y + 1 < o + BlockSize
        BY <2>1, <2>2
  <2>3. CASE y + 1 = o + BlockSize
    <3>1. q + 1 \in Nat /\ Off(q + 1) <= y + 1 /\ y + 1 < Off(q + 1) + BlockSize /\ y + 1 \in Nat
          BY <2>1, <2>3, Sizes
    <3> QED
        BY <3>1
  <2>4. y + 1 < o + BlockSize \/ y + 1 = o + BlockSize
        BY <2>1, Sizes
  <2> QED
      BY <2>2, <2>3, <2>4
<1>3. P = Nat
  <2> HIDE DEF P
  <2>1. P \subseteq Nat
        BY DEF P
  <2> QED
      BY <1>1, <1>2, <2>1, NatSet, Zenon
<1> QED
    BY <1>3

LEMMA OffDivides ==
    ASSUME NEW q \in Nat
    PROVE  Off(q) % BlockSize = 0 /\ Off(q) \div BlockSize = q
BY Sizes DEF Off

LEMMA OffOfMultiple ==
    ASSUME NEW x \in Nat, x % BlockSize = 0
    PROVE  \E q \in Nat : x = Off(q)
BY Sizes DEF Off

(* There is one number of zeros.  *)
LEMMA ZerosOf ==
    ASSUME NEW n \in Nat
    PROVE  \E z \in 0..(BlockSize - 1), Q \in Nat :
              /\ n + 1 + z + LengthSize = Off(Q)
              /\ z = CHOOSE y \in 0..(BlockSize - 1) : (n + 1 + y + LengthSize) % BlockSize = 0
<1> DEFINE Fits(y) == (n + 1 + y + LengthSize) % BlockSize = 0
<1>1. PICK x \in Nat : x = n + 1 + LengthSize
    BY Sizes
<1>2. PICK q, o \in Nat : /\ q \in Nat /\ o = Off(q) /\ Off(q + 1) = o + BlockSize
                          /\ o <= x /\ x < o + BlockSize
    BY OffFloor, Offs
<1>3. \E y \in 0..(BlockSize - 1) : Fits(y)
  <2>1. CASE x = o
    <3>1. n + 1 + 0 + LengthSize = Off(q) /\ 0 \in 0..(BlockSize - 1)
      <4>1. n + 1 + 0 + LengthSize = x /\ 0 \in 0..(BlockSize - 1)
            BY <1>1, Sizes
      <4> QED
          BY <4>1, <2>1, <1>2, Zenon
    <3>2. Off(q) % BlockSize = 0
          BY <1>2, OffDivides
    <3> QED
        BY <3>1, <3>2, Zenon
  <2>2. CASE x # o
    <3>1. PICK y \in 0..(BlockSize - 1) : n + 1 + y + LengthSize = o + BlockSize
      <4>1. PICK d \in Int : d = (o + BlockSize) - x
            BY <1>1, <1>2, Sizes
      <4>2. o <= x /\ x < o + BlockSize
            BY <1>2, Zenon
      <4>3. d \in 0..(BlockSize - 1)
            BY <4>1, <4>2, <2>2, Sizes
      <4>4. n + 1 + d + LengthSize = o + BlockSize
            BY <4>1, <1>1, Sizes
      <4> QED
          BY <4>3, <4>4, Zenon
    <3>2. Off(q + 1) % BlockSize = 0
      <4>1. q + 1 \in Nat
            BY <1>2
      <4> QED
          BY <4>1, OffDivides
    <3> QED
        BY <3>1, <3>2, <1>2, Zenon
  <2> QED
      BY <2>1, <2>2
<1>4. PICK z : z = CHOOSE y \in 0..(BlockSize - 1) : Fits(y)
    OBVIOUS
<1>5. z \in 0..(BlockSize - 1) /\ Fits(z)
    BY <1>3, <1>4, Zenon
<1>6. \E Q \in Nat : n + 1 + z + LengthSize = Off(Q)
  <2>1. n + 1 + z + LengthSize \in Nat
        BY <1>5, Sizes
  <2> QED
      BY <2>1, <1>5, OffOfMultiple, Zenon
<1> QED
    BY <1>4, <1>5, <1>6, Zenon

(* What final makes of the bytes.  *)
Padded(bytes, z) == bytes \o <<Byte(128)>> \o [k \in 1..z |-> Null] \o LengthBytes(8 * Len(bytes))

LengthDigits(n) == {LengthBytes(8 * n)[k] : k \in 1..LengthSize}
Padding(S, n)   == S \cup {Null, Byte(128)} \cup LengthDigits(n)

LEMMA LengthBytesSeq ==
    ASSUME NEW n \in Nat
    PROVE  LengthBytes(8 * n) \in Seq(LengthDigits(n)) /\ Len(LengthBytes(8 * n)) = LengthSize
<1>1. PICK f : f = LengthBytes(8 * n)
    OBVIOUS
<1>2. f = [k \in 1..LengthSize |-> f[k]]
    BY <1>1, Zenon DEF LengthBytes
<1>3. PICK D : D = {f[k] : k \in 1..LengthSize}
    OBVIOUS
<1>4. f \in [1..LengthSize -> D]
    BY <1>2, <1>3, Zenon
<1>5. f \in Seq(D) /\ Len(f) = LengthSize
    BY <1>4, Sizes
<1>6. D = LengthDigits(n)
    BY <1>1, <1>3, Zenon DEF LengthDigits
<1> QED
    BY <1>1, <1>5, <1>6, Zenon

LEMMA SeqIn ==
    ASSUME NEW S, NEW T, S \subseteq T, NEW s, s \in Seq(S)
    PROVE  s \in Seq(T)
OBVIOUS

LEMMA PaddedParts ==
    ASSUME NEW S, NEW bytes, bytes \in Seq(S), NEW z \in 0..(BlockSize - 1), NEW Q \in Nat,
           Len(bytes) + 1 + z + LengthSize = Off(Q)
    PROVE  /\ Padded(bytes, z) \in Seq(Padding(S, Len(bytes)))
           /\ PaddedTo(Padded(bytes, z), Len(bytes), z, Q)
           /\ Len(bytes) \in Nat /\ Len(bytes) <= Len(Padded(bytes, z))
           /\ \A p \in 1..Len(bytes) : Padded(bytes, z)[p] = bytes[p]
<1>1. PICK n \in Nat : n = Len(bytes)
    OBVIOUS
<1>2. PICK T : T = Padding(S, n)
    OBVIOUS
<1>3. Byte(128) \in T /\ Null \in T /\ S \subseteq T /\ LengthDigits(n) \subseteq T
    BY <1>2, Zenon DEF Padding
<1>4. PICK b : b = bytes
    OBVIOUS
<1>5. b \in Seq(T) /\ Len(b) = n
    BY <1>1, <1>3, <1>4, SeqIn, Zenon
<1>6. PICK x, y : x = Byte(128) /\ y = Null
    OBVIOUS
<1>7. PICK one : one = <<x>>
    OBVIOUS
<1>8. one \in Seq(T) /\ Len(one) = 1 /\ one[1] = x
    BY <1>3, <1>6, <1>7
<1>9. PICK z0 \in Nat : z0 = z
    OBVIOUS
<1>10. PICK nulls : nulls = [k \in 1..z0 |-> y]
    OBVIOUS
<1>11. nulls \in Seq(T) /\ Len(nulls) = z0 /\ \A p \in 1..z0 : nulls[p] = y
    BY <1>3, <1>6, <1>10
<1>12. PICK w : w = LengthBytes(8 * n)
    OBVIOUS
<1>13. w \in Seq(T) /\ Len(w) = LengthSize
  <2>1. w \in Seq(LengthDigits(n)) /\ Len(w) = LengthSize
        BY <1>12, LengthBytesSeq, Zenon
  <2> QED
      BY <2>1, <1>3, SeqIn, Zenon
<1>14. PICK u : u = b \o one
    OBVIOUS
<1>15. u \in Seq(T) /\ Len(u) = n + 1 /\ (\A p \in 1..n : u[p] = b[p]) /\ u[n + 1] = x
  <2>0. b \in Seq(T) /\ one \in Seq(T)
        BY <1>5, <1>8
  <2>1. /\ u \in Seq(T) /\ Len(u) = Len(b) + Len(one)
        /\ \A p \in 1..Len(b) : u[p] = b[p]
        /\ \A p \in 1..Len(one) : u[Len(b) + p] = one[p]
        BY <2>0, <1>14, ConcatPlaces
  <2>2. 1 \in 1..1
        OBVIOUS
  <2> QED
      BY <2>1, <2>2, <1>5, <1>8, Zenon
<1>16. PICK v : v = u \o nulls
    OBVIOUS
<1>17. /\ v \in Seq(T) /\ Len(v) = n + 1 + z0
       /\ \A p \in 1..(n + 1) : v[p] = u[p]
       /\ \A p \in 1..z0 : v[n + 1 + p] = y
  <2>0. u \in Seq(T) /\ nulls \in Seq(T)
        BY <1>11, <1>15
  <2>1. /\ v \in Seq(T) /\ Len(v) = Len(u) + Len(nulls)
        /\ \A p \in 1..Len(u) : v[p] = u[p]
        /\ \A p \in 1..Len(nulls) : v[Len(u) + p] = nulls[p]
        BY <2>0, <1>16, ConcatPlaces
  <2> QED
      BY <2>1, <1>11, <1>15, Zenon
<1>18. PICK m : m = v \o w
    OBVIOUS
<1>19. /\ m \in Seq(T) /\ Len(m) = n + 1 + z0 + LengthSize
       /\ \A p \in 1..(n + 1 + z0) : m[p] = v[p]
       /\ \A p \in 1..LengthSize : m[(n + 1 + z0) + p] = w[p]
  <2>0. v \in Seq(T) /\ w \in Seq(T)
        BY <1>13, <1>17
  <2>1. /\ m \in Seq(T) /\ Len(m) = Len(v) + Len(w)
        /\ \A p \in 1..Len(v) : m[p] = v[p]
        /\ \A p \in 1..Len(w) : m[Len(v) + p] = w[p]
        BY <2>0, <1>18, ConcatPlaces
  <2> QED
      BY <2>1, <1>13, <1>17, Zenon
<1>20. m = Padded(bytes, z)
    BY <1>1, <1>4, <1>6, <1>7, <1>9, <1>10, <1>12, <1>14, <1>16, <1>18, Zenon DEF Padded
<1>21. SubSeq(m, (n + 1 + z0) + 1, Len(m)) = w
  <2>0. PICK r : r = SubSeq(m, (n + 1 + z0) + 1, Len(m))
        OBVIOUS
  <2>1. PICK a, c \in Nat : a = n + 1 + z0 /\ c = n + 1 + z0 + LengthSize
        BY Sizes
  <2>2. a <= c /\ c - a = LengthSize /\ a \in Nat
        BY <2>1, Sizes
  <2>3. /\ SubSeq(m, a + 1, c) \in Seq(T) /\ Len(SubSeq(m, a + 1, c)) = c - a
        /\ \A p \in 1..(c - a) : SubSeq(m, a + 1, c)[p] = m[a + p]
    <3>1. a \in Nat /\ c \in Nat /\ a <= c /\ c <= Len(m) /\ m \in Seq(T)
          BY <2>1, <2>2, <1>19
    <3> QED
        BY <3>1, SubSeqPart
  <2>4. SubSeq(m, a + 1, c) = r
        BY <2>0, <2>1, <1>19, Zenon
  <2>5. r \in Seq(T) /\ Len(r) = Len(w) /\ \A p \in 1..Len(r) : r[p] = w[p]
        BY <2>1, <2>2, <2>3, <2>4, <1>13, <1>19, ZenonT(30)
  <2>6. r = w
        BY <2>5, <1>13, SeqEqual, Zenon
  <2> QED
      BY <2>0, <2>6, Zenon
<1>22. PaddedTo(m, n, z, Q)
  <2>1. n + 1 + z + LengthSize = Off(Q) /\ Len(m) = Off(Q)
        BY <1>1, <1>9, <1>19, Zenon
  <2>2. m[n + 1] = x /\ \A p \in 1..z0 : m[n + 1 + p] = y
    <3>1. n + 1 \in 1..(n + 1 + z0) /\ n + 1 \in 1..(n + 1)
            /\ \A p \in 1..z0 : n + 1 + p \in 1..(n + 1 + z0)
          OBVIOUS
    <3> QED
        BY <3>1, <1>15, <1>17, <1>19, Zenon
  <2> QED
      BY <2>1, <2>2, <1>6, <1>9, <1>12, <1>21, Zenon DEF PaddedTo
<1>23. n <= Len(m) /\ \A p \in 1..n : m[p] = b[p]
  <2>1. /\ n <= n + 1 + z0 + LengthSize
        /\ \A p \in 1..n : p \in 1..(n + 1) /\ p \in 1..(n + 1 + z0)
        BY Sizes
  <2> QED
      BY <2>1, <1>15, <1>17, <1>19, Zenon
<1> QED
    BY <1>1, <1>2, <1>4, <1>19, <1>20, <1>22, <1>23, Zenon

LEMMA BlocksOf ==
    ASSUME NEW S, NEW bytes, bytes \in Seq(S)
    PROVE  \E z \in 0..(BlockSize - 1), Q \in Nat :
              /\ Len(bytes) + 1 + z + LengthSize = Off(Q)
              /\ Blocks(bytes) = BlocksTo(Padded(bytes, z), Q)
<1>1. Len(bytes) \in Nat
    OBVIOUS
<1>2. PICK z \in 0..(BlockSize - 1), Q \in Nat :
              /\ Len(bytes) + 1 + z + LengthSize = Off(Q)
              /\ z = CHOOSE y \in 0..(BlockSize - 1) : (Len(bytes) + 1 + y + LengthSize) % BlockSize = 0
    BY <1>1, ZerosOf
<1>3. PICK m : m = Padded(bytes, z)
    OBVIOUS
<1>4. Len(m) \div BlockSize = Q
  <2>1. Len(m) = Off(Q)
        BY <1>2, <1>3, PaddedParts, ZenonT(30) DEF PaddedTo
  <2> QED
      BY <2>1, OffDivides, Zenon
<1>5. Blocks(bytes) = [k \in 1..(Len(m) \div BlockSize) |-> SubSeq(m, (k - 1) * BlockSize + 1, k * BlockSize)]
  <2> DEFINE c == CHOOSE y \in 0..(BlockSize - 1) : (Len(bytes) + 1 + y + LengthSize) % BlockSize = 0
  <2>1. Blocks(bytes) = [k \in 1..(Len(Padded(bytes, c)) \div BlockSize) |->
                            SubSeq(Padded(bytes, c), (k - 1) * BlockSize + 1, k * BlockSize)]
        BY Zenon DEF Blocks, Padded
  <2>2. c = z
        BY <1>2, Zenon
  <2> HIDE DEF c
  <2> QED
      BY <2>1, <2>2, <1>3, Zenon
<1>6. BlocksTo(m, Q) = [k \in 1..Q |-> SubSeq(m, (k - 1) * BlockSize + 1, k * BlockSize)]
    BY Zenon DEF BlocksTo, Off
<1> QED
    BY <1>2, <1>3, <1>4, <1>5, <1>6, Zenon

(* What a context was given does not depend on what comes after it.  *)
LEMMA SubSeqPrefix ==
    ASSUME NEW S, NEW M, NEW W, M \in Seq(S), W \in Seq(S), NEW n \in Nat, n <= Len(M), n <= Len(W),
           \A p \in 1..n : M[p] = W[p], NEW a \in Nat, NEW b \in Nat, a <= b, b <= n
    PROVE  SubSeq(M, a + 1, b) = SubSeq(W, a + 1, b)
<1>1. PICK u, v : u = SubSeq(M, a + 1, b) /\ v = SubSeq(W, a + 1, b)
    OBVIOUS
<1>2. b <= Len(M) /\ b <= Len(W) /\ \A p \in 1..(b - a) : a + p \in 1..n
    OBVIOUS
<1>3. /\ u \in Seq(S) /\ Len(u) = b - a /\ \A p \in 1..(b - a) : u[p] = M[a + p]
      /\ v \in Seq(S) /\ Len(v) = b - a /\ \A p \in 1..(b - a) : v[p] = W[a + p]
    BY <1>1, <1>2, SubSeqPart
<1>4. Len(u) = Len(v) /\ \A p \in 1..Len(u) : u[p] = v[p]
    BY <1>2, <1>3, Zenon
<1>5. u = v
    BY <1>3, <1>4, SeqEqual, Zenon
<1> QED
    BY <1>1, <1>5, Zenon

LEMMA AtPrefix ==
    ASSUME NEW S, NEW M, NEW W, M \in Seq(S), W \in Seq(S), NEW n \in Nat, n <= Len(M), n <= Len(W),
           \A p \in 1..n : M[p] = W[p], NEW ctx, At(ctx, M, n)
    PROVE  At(ctx, W, n)
<1>1. PICK q \in Nat : AtBlock(ctx, M, n, q)
    BY Zenon DEF At
<1>2. Off(q) \in Nat /\ Off(q) <= n
    BY <1>1, Offs, Zenon DEF AtBlock
<1>3. SubSeq(M, Off(q) + 1, n) = SubSeq(W, Off(q) + 1, n)
  <2>1. n <= n
        OBVIOUS
  <2> QED
      BY <2>1, <1>2, SubSeqPrefix
<1>4. ASSUME NEW k \in 1..q PROVE SubSeq(M, Off(k - 1) + 1, Off(k)) = SubSeq(W, Off(k - 1) + 1, Off(k))
  <2>1. k - 1 \in Nat /\ k \in Nat /\ k - 1 < k /\ (k < q \/ k = q)
        OBVIOUS
  <2>2. Off(k - 1) \in Nat /\ Off(k) \in Nat /\ Off(k - 1) + BlockSize <= Off(k)
        /\ (k < q => Off(k) + BlockSize <= Off(q))
        BY <2>1, Offs, Zenon
  <2>3. Off(k - 1) <= Off(k) /\ Off(k) <= n
        BY <1>2, <2>1, <2>2, Sizes
  <2> QED
      BY <2>2, <2>3, SubSeqPrefix, SMTT(30)
<1>5. BlocksTo(M, q) = BlocksTo(W, q)
    BY <1>4, Zenon DEF BlocksTo
<1>6. AtBlock(ctx, W, n, q)
    BY <1>1, <1>3, <1>5, Zenon DEF AtBlock
<1> QED
    BY <1>6, Zenon DEF At

(* A context that was given the bytes, in whatever pieces.  *)
Given(ctx, bytes, S) ==
    /\ bytes \in Seq(S)
    /\ ctx \in CtxStates(S)
    /\ At(ctx, bytes, Len(bytes))
    /\ ctx.totalLen = Len(bytes)

LEMMA GivenNone ==
    ASSUME NEW S
    PROVE  Given(NewCtx, <<>>, S)
<1>1. PICK c, e : c = NewCtx /\ e = <<>>
    OBVIOUS
<1>2. c.h = <<>> /\ c.buf = <<>> /\ c.totalLen = 0
    BY <1>1 DEF NewCtx
<1>3. e \in Seq(S) /\ Len(e) = 0
    BY <1>1
<1>4. c \in CtxStates(S)
  <2>1. c = [h |-> <<>>, buf |-> <<>>, totalLen |-> 0]
        BY <1>1 DEF NewCtx
  <2>2. <<>> \in {b \in Seq(S) : Len(b) < BlockSize}
        BY Sizes
  <2>3. <<>> \in Seq(Seq(S)) /\ 0 \in Nat
        OBVIOUS
  <2> QED
      BY <2>1, <2>2, <2>3 DEF CtxStates
<1>5. At(c, e, 0)
  <2>1. Off(0) = 0
        BY Offs, Zenon
  <2>2. 0 <= 0 /\ 0 < 0 + BlockSize
        BY Sizes
  <2>3. BlocksTo(e, 0) = <<>>
    <3>1. BlocksTo(e, 0) = [k \in 1..0 |-> SubSeq(e, Off(k - 1) + 1, Off(k))]
          BY Zenon DEF BlocksTo
    <3> QED
        BY <3>1
  <2>4. SubSeq(e, 0 + 1, 0) = <<>>
        BY <1>3
  <2>5. AtBlock(c, e, 0, 0)
        BY <2>1, <2>2, <2>3, <2>4, <1>2, Zenon DEF AtBlock
  <2>6. 0 \in Nat
        OBVIOUS
  <2> QED
      BY <2>5, <2>6, Zenon DEF At
<1> QED
    BY <1>1, <1>2, <1>3, <1>4, <1>5, Zenon DEF Given

LEMMA GivenMore ==
    ASSUME NEW S, NEW ctx, NEW bytes, Given(ctx, bytes, S), NEW data, data \in Seq(S)
    PROVE  Given(Update(ctx, data), bytes \o data, S)
<1>1. PICK m : m = bytes \o data
    OBVIOUS
<1>2. bytes \in Seq(S) /\ ctx \in CtxStates(S) /\ At(ctx, bytes, Len(bytes)) /\ ctx.totalLen = Len(bytes)
    BY Zenon DEF Given
<1>3. /\ m \in Seq(S) /\ Len(m) = Len(bytes) + Len(data)
      /\ \A p \in 1..Len(bytes) : m[p] = bytes[p]
      /\ \A p \in 1..Len(data) : m[Len(bytes) + p] = data[p]
  <2>1. bytes \in Seq(S)
        BY <1>2
  <2> QED
      BY <2>1, <1>1, ConcatPlaces
<1>4. PICK n, d \in Nat : n = Len(bytes) /\ d = Len(data)
    BY <1>2
<1>5. Len(m) = n + d /\ n <= n + d /\ n + d \in Nat /\ (n + d) - n = d /\ n <= Len(m) /\ n <= n
      /\ n + d <= Len(m)
    BY <1>3, <1>4
<1>6. At(ctx, m, n)
    BY <1>2, <1>3, <1>4, <1>5, AtPrefix, Zenon
<1>7. SubSeq(m, n + 1, n + d) = data
  <2>1. PICK u : u = SubSeq(m, n + 1, n + d)
        OBVIOUS
  <2>2. u \in Seq(S) /\ Len(u) = d /\ \A p \in 1..d : u[p] = m[n + p]
        BY <2>1, <1>3, <1>5, SubSeqPart
  <2>3. Len(u) = Len(data) /\ \A p \in 1..Len(u) : u[p] = data[p]
        BY <2>2, <1>3, <1>4, Zenon
  <2>4. u = data
        BY <2>2, <2>3, SeqEqual, Zenon
  <2> QED
      BY <2>1, <2>4, Zenon
<1>8. /\ Update(ctx, SubSeq(m, n + 1, n + d)) \in CtxStates(S)
      /\ At(Update(ctx, SubSeq(m, n + 1, n + d)), m, n + d)
      /\ Update(ctx, SubSeq(m, n + 1, n + d)).totalLen = ctx.totalLen + ((n + d) - n)
  <2>1. PICK j \in Nat : j = n + d
        BY <1>5
  <2>2. m \in Seq(S) /\ n <= j /\ j <= Len(m) /\ ctx \in CtxStates(S) /\ At(ctx, m, n)
        BY <2>1, <1>2, <1>3, <1>5, <1>6, Zenon
  <2>3. /\ Update(ctx, SubSeq(m, n + 1, j)) \in CtxStates(S)
        /\ At(Update(ctx, SubSeq(m, n + 1, j)), m, j)
        /\ Update(ctx, SubSeq(m, n + 1, j)).totalLen = ctx.totalLen + (j - n)
        BY <2>2, Updated
  <2> QED
      BY <2>1, <2>3, Zenon
<1> QED
    BY <1>1, <1>2, <1>3, <1>4, <1>5, <1>7, <1>8, Zenon DEF Given

(* final answers the digest of what the context was given.  *)
LEMMA FinalHash ==
    ASSUME NEW S, NEW ctx, NEW bytes, Given(ctx, bytes, S)
    PROVE  Final(ctx) = Hash(bytes)
<1>1. bytes \in Seq(S) /\ ctx \in CtxStates(S) /\ At(ctx, bytes, Len(bytes)) /\ ctx.totalLen = Len(bytes)
    BY Zenon DEF Given
<1>2. PICK z \in 0..(BlockSize - 1), Q \in Nat :
              /\ Len(bytes) + 1 + z + LengthSize = Off(Q)
              /\ Blocks(bytes) = BlocksTo(Padded(bytes, z), Q)
    BY <1>1, BlocksOf, Zenon
<1>3. PICK T, m : T = Padding(S, Len(bytes)) /\ m = Padded(bytes, z)
    OBVIOUS
<1>4. /\ m \in Seq(T) /\ PaddedTo(m, Len(bytes), z, Q)
      /\ Len(bytes) \in Nat /\ Len(bytes) <= Len(m)
      /\ \A p \in 1..Len(bytes) : m[p] = bytes[p]
    BY <1>1, <1>2, <1>3, PaddedParts, Zenon
<1>5. S \subseteq T /\ Null \in T
    BY <1>3, Zenon DEF Padding
<1>6. bytes \in Seq(T)
    BY <1>1, <1>5, SeqIn, Zenon
<1>7. ctx \in CtxStates(T)
  <2>1. PICK U, V : U = Seq(S) /\ V = Seq(T)
        OBVIOUS
  <2>2. U \subseteq V
        BY <2>1, <1>5, SeqIn, Zenon
  <2>3. Seq(U) \subseteq Seq(V)
        BY <2>2, SeqIn, Zenon
  <2>4. {b \in U : Len(b) < BlockSize} \subseteq {b \in V : Len(b) < BlockSize}
        BY <2>2, Zenon
  <2>5. ctx \in [h : Seq(U), buf : {b \in U : Len(b) < BlockSize}, totalLen : Nat]
        BY <1>1, <2>1, Zenon DEF CtxStates
  <2>6. ctx \in [h : Seq(V), buf : {b \in V : Len(b) < BlockSize}, totalLen : Nat]
        BY <2>3, <2>4, <2>5
  <2> QED
      BY <2>1, <2>6, Zenon DEF CtxStates
<1>8. At(ctx, m, Len(bytes))
  <2>1. Len(bytes) <= Len(bytes) /\ \A p \in 1..Len(bytes) : bytes[p] = m[p]
        BY <1>4
  <2> QED
      BY <2>1, <1>1, <1>4, <1>6, AtPrefix, Zenon
<1>9. Final(ctx) = DigestOf(BlocksTo(m, Q))
    BY <1>1, <1>4, <1>5, <1>7, <1>8, FinalWhole, Zenon
<1> QED
    BY <1>2, <1>3, <1>9, Zenon DEF Hash

(* A context that is given pieces.  *)
LEMMA UpdatesRuns ==
    ASSUME NEW S, NEW chunks, chunks \in Seq(Seq(S))
    PROVE  \E f : /\ \A k \in 0..Len(chunks) : f[k] \in CtxStates(S)
                  /\ f[0] = NewCtx
                  /\ \A k \in 0..(Len(chunks) - 1) : f[k + 1] = Update(f[k], chunks[k + 1])
                  /\ Updates(chunks) = f[Len(chunks)]
<1> DEFINE n == Len(chunks)
           T == CtxStates(S)
           base == NewCtx
           Eq(f) == f = [k \in 0..n |-> IF k = 0 THEN NewCtx ELSE Update(f[k - 1], chunks[k])]
           f == CHOOSE f : Eq(f)
           step == [k \in 1..n |-> [s \in T |-> Update(s, chunks[k])]]
<1>0. n \in Nat
    OBVIOUS
<1>b. base \in T
    BY GivenNone, Zenon DEF Given
<1>t. ASSUME NEW k \in 1..n, NEW s \in T PROVE Update(s, chunks[k]) \in T
  <2>1. chunks[k] \in Seq(S)
        OBVIOUS
  <2> HIDE DEF n
  <2> QED
      BY <2>1, UpdateType, Zenon
<1>1. PICK g : IsRun(g, n, T, base, step)
  <2>1. step \in [1..n -> [T -> T]]
    <3> HIDE DEF n, T
    <3> QED
        BY <1>t
  <2> HIDE DEF step, n, T, base
  <2> QED
      BY <1>0, <1>b, <2>1, Iteration
<1>2. Eq(g)
  <2>1. g \in [0..n -> T] /\ g[0] = base
    <3> HIDE DEF n, T, base, step
    <3> QED
        BY <1>1 DEF IsRun
  <2>2. ASSUME NEW k \in 1..n PROVE g[k] = Update(g[k - 1], chunks[k])
    <3>1. g[k - 1] \in T
      <4> HIDE DEF n, T
      <4> QED
          BY <2>1, <1>0
    <3>2. g[k] = step[k][g[k - 1]]
      <4> HIDE DEF step, n, T, base
      <4> QED
          BY <1>1 DEF IsRun
    <3>3. step[k] = [s \in T |-> Update(s, chunks[k])]
      <4> HIDE DEF n, T
      <4> QED
          OBVIOUS
    <3> HIDE DEF step, n, T
    <3> QED
        BY <3>1, <3>2, <3>3
  <2> HIDE DEF n, step, T
  <2> QED
      BY <2>1, <2>2, <1>0
<1>3. Eq(f)
  <2> HIDE DEF Eq
  <2> QED
      BY <1>2
<1>4. Updates(chunks) = f[n]
    BY Zenon DEF Updates
<1> HIDE DEF f
<1>5. f[0] = NewCtx
  <2> HIDE DEF n
  <2> QED
      BY <1>3, <1>0
<1>6. ASSUME NEW k \in 0..(n - 1) PROVE f[k + 1] = Update(f[k], chunks[k + 1])
  <2> HIDE DEF n
  <2>1. k + 1 \in 0..n /\ k + 1 # 0 /\ (k + 1) - 1 = k
        BY <1>0
  <2>2. f[k + 1] = Update(f[(k + 1) - 1], chunks[k + 1])
        BY <2>1, <1>3
  <2> QED
      BY <2>1, <2>2
<1>7. \A k \in 0..n : f[k] \in T
  <2> HIDE DEF T, Eq
  <2> DEFINE P == {k \in Nat : f[k] \in T}
  <2>1. 0 \in P
        BY <1>5, <1>b
  <2>2. ASSUME NEW k \in 0..(n - 1), k \in P PROVE k + 1 \in P
    <3> HIDE DEF n
    <3>1. k + 1 \in 1..n /\ f[k] \in T
          BY <1>0, <2>2
    <3>2. Update(f[k], chunks[k + 1]) \in T
          BY <3>1, <1>t, Zenon
    <3>3. f[k + 1] \in T /\ k + 1 \in Nat
          BY <3>1, <3>2, <1>6
    <3> QED
        BY <3>3
  <2> HIDE DEF P, n
  <2>3. \A k \in 0..n : k \in P
        BY <1>0, <2>1, <2>2, UpTo, Zenon
  <2> QED
      BY <2>3, <1>0 DEF P
<1> QED
    BY <1>4, <1>5, <1>6, <1>7

LEMMA GivenPieces ==
    ASSUME NEW S, NEW chunks, chunks \in Seq(Seq(S))
    PROVE  Given(Updates(chunks), FlattenSeq(chunks), S)
<1> DEFINE n == Len(chunks)
<1>0. n \in Nat /\ \A k \in 0..(n - 1) : chunks[k + 1] \in Seq(S)
    OBVIOUS
<1>1. PICK f : /\ \A k \in 0..n : f[k] \in CtxStates(S)
               /\ f[0] = NewCtx
               /\ \A k \in 0..(n - 1) : f[k + 1] = Update(f[k], chunks[k + 1])
               /\ Updates(chunks) = f[n]
    BY UpdatesRuns
<1>2. PICK g : /\ g \in [0..n -> Seq(S)]
               /\ g[0] = <<>>
               /\ \A k \in 0..(n - 1) : g[k + 1] = g[k] \o chunks[k + 1]
               /\ FlattenSeq(chunks) = g[n]
    BY FlattenJoins
<1> HIDE DEF n
<1> DEFINE P == {k \in 0..n : Given(f[k], g[k], S)}
<1>3. 0 \in P
  <2>1. 0 \in 0..n
        BY <1>0
  <2> QED
      BY <2>1, <1>1, <1>2, GivenNone, Zenon
<1>4. ASSUME NEW k \in 0..(n - 1), k \in P PROVE k + 1 \in P
  <2>1. k + 1 \in 0..n
        BY <1>0
  <2>2. Given(f[k], g[k], S)
        BY <1>4, Zenon
  <2>3. Given(Update(f[k], chunks[k + 1]), g[k] \o chunks[k + 1], S)
        BY <2>2, <1>0, GivenMore, Zenon
  <2> QED
      BY <2>1, <2>3, <1>1, <1>2, Zenon
<1>5. n \in P
  <2> HIDE DEF P
  <2>1. \A k \in 0..n : k \in P
        BY <1>0, <1>3, <1>4, UpTo, Zenon
  <2>2. n \in 0..n
        BY <1>0
  <2> QED
      BY <2>1, <2>2, Zenon
<1> QED
    BY <1>1, <1>2, <1>5, Zenon

(* The key of an HMAC, and what it is xored to.  *)
LEMMA DigestSeq ==
    ASSUME NEW h
    PROVE  \E S : DigestOf(h) \in Seq(S)
<1>1. PICK f : f = DigestOf(h)
    OBVIOUS
<1>2. f = [k \in 1..DigestSize |-> f[k]]
    BY <1>1, Zenon DEF DigestOf
<1>3. PICK S : S = {f[k] : k \in 1..DigestSize}
    OBVIOUS
<1>4. f \in [1..DigestSize -> S]
    BY <1>2, <1>3, Zenon
<1>5. f \in Seq(S)
    BY <1>4, Sizes
<1> QED
    BY <1>1, <1>5, Zenon

LEMMA XorSeq ==
    ASSUME NEW S, NEW s, s \in Seq(S), NEW pad
    PROVE  \E T : Xor(s, pad) \in Seq(T)
<1>1. PICK f : f = Xor(s, pad)
    OBVIOUS
<1>2. PICK n \in Nat : n = Len(s) /\ DOMAIN s = 1..n
    OBVIOUS
<1>3. f = [k \in 1..n |-> f[k]]
    BY <1>1, <1>2, Zenon DEF Xor
<1>4. PICK T : T = {f[k] : k \in 1..n}
    OBVIOUS
<1>5. f \in [1..n -> T]
    BY <1>3, <1>4, Zenon
<1>6. f \in Seq(T)
    BY <1>5
<1> QED
    BY <1>1, <1>6, Zenon

LEMMA Sha256Hash ==
    ASSUME NEW S, NEW data, data \in Seq(S)
    PROVE  Sha256(data) = Hash(data)
<1>1. Given(Update(NewCtx, data), <<>> \o data, S)
    BY GivenNone, GivenMore, Zenon
<1>2. <<>> \o data = data
    OBVIOUS
<1> QED
    BY <1>1, <1>2, FinalHash, Zenon DEF Sha256

LEMMA TwoParts ==
    ASSUME NEW S, NEW T, NEW a, NEW b, a \in Seq(S), b \in Seq(T)
    PROVE  Final(Update(Update(NewCtx, a), b)) = Hash(a \o b)
<1>1. PICK U : U = S \cup T
    OBVIOUS
<1>2. S \subseteq U /\ T \subseteq U
    BY <1>1, Zenon
<1>3. a \in Seq(U) /\ b \in Seq(U)
    BY <1>2, SeqIn, Zenon
<1>4. Given(Update(NewCtx, a), <<>> \o a, U)
    BY <1>3, GivenNone, GivenMore, Zenon
<1>5. <<>> \o a = a
    BY <1>3
<1>6. Given(Update(Update(NewCtx, a), b), a \o b, U)
    BY <1>3, <1>4, <1>5, GivenMore, Zenon
<1> QED
    BY <1>6, FinalHash, Zenon

LEMMA HashSeq ==
    ASSUME NEW bytes
    PROVE  \E S : Hash(bytes) \in Seq(S)
BY DigestSeq, Zenon DEF Hash

ZerosTo(key) == key \o [k \in 1..(BlockSize - Len(key)) |-> Null]

LEMMA ZerosToSeq ==
    ASSUME NEW S, NEW key, key \in Seq(S)
    PROVE  \E T : ZerosTo(key) \in Seq(T)
<1>1. PICK y, nulls : y = Null /\ nulls = [k \in 1..(BlockSize - Len(key)) |-> y]
    OBVIOUS
<1>2. PICK d \in Int : d = BlockSize - Len(key)
    BY Sizes
<1>3. PICK T : T = S \cup {y}
    OBVIOUS
<1>4. nulls \in Seq(T)
  <2>1. nulls = [k \in 1..d |-> y] /\ y \in T
        BY <1>1, <1>2, <1>3, Zenon
  <2>2. nulls \in [1..d -> T]
        BY <2>1, Zenon
  <2>3. CASE d \in Nat
        BY <2>2, <2>3
  <2>4. CASE d \notin Nat
    <3>1. 1..d = 1..0
          BY <2>4
    <3> QED
        BY <2>2, <3>1
  <2> QED
      BY <2>3, <2>4
<1>5. key \in Seq(T)
    BY <1>3, SeqIn
<1>6. key \o nulls \in Seq(T)
    BY <1>4, <1>5
<1> QED
    BY <1>1, <1>6, Zenon DEF ZerosTo

LEMMA HmacHash ==
    ASSUME NEW S, NEW key, key \in Seq(S), NEW T, NEW message, message \in Seq(T), NEW k,
           k = ZerosTo(IF Len(key) > BlockSize THEN Hash(key) ELSE key)
    PROVE  HmacSha256(key, message) = Hash(Xor(k, 92) \o Hash(Xor(k, 54) \o message))
<1>1. KeyBlock(key) = k
  <2>1. Sha256(key) = Hash(key)
        BY Sha256Hash, Zenon
  <2> QED
      BY <2>1, Zenon DEF KeyBlock, ZerosTo
<1>2. \E U : k \in Seq(U)
  <2>1. PICK V : Hash(key) \in Seq(V)
        BY HashSeq, Zenon
  <2>2. CASE Len(key) > BlockSize
        BY <2>1, <2>2, ZerosToSeq, Zenon
  <2>3. CASE ~(Len(key) > BlockSize)
        BY <2>3, ZerosToSeq, Zenon
  <2> QED
      BY <2>2, <2>3, Zenon
<1>3. PICK V, W : Xor(k, 54) \in Seq(V) /\ Xor(k, 92) \in Seq(W)
    BY <1>2, XorSeq, Zenon
<1>4. Final(Update(Update(NewCtx, Xor(k, 54)), message)) = Hash(Xor(k, 54) \o message)
    BY <1>3, TwoParts
<1>5. PICK d : d = Hash(Xor(k, 54) \o message)
    OBVIOUS
<1>6. \E U : d \in Seq(U)
    BY <1>5, HashSeq, Zenon
<1>7. Final(Update(Update(NewCtx, Xor(k, 92)), d)) = Hash(Xor(k, 92) \o d)
    BY <1>3, <1>6, TwoParts
<1> QED
    BY <1>1, <1>4, <1>5, <1>7, Zenon DEF HmacSha256

(* SHA-256 of a message in pieces is that of the whole, padded to blocks   *)
(* once and in one way, and an HMAC is RFC 2104's two hashes, for messages *)
(* and keys of every length and blocks of every size (sha256.cpp:108-228). *)
THEOREM DigestsAreWhole == Spec => []DigestWhole
<1>1. Computed => DigestWhole
  <2> SUFFICES ASSUME Computed, done PROVE DigestWhole
      BY Zenon DEF DigestWhole, Answered
  <2>1. CASE job.kind = "hash"
    <3>1. out = Final(Updates(job.chunks))
          BY <2>1 DEF Computed, Result
    <3>2. job.chunks \in Seq(Seq(Data))
          BY <2>1 DEF Computed, JobsAssumed
    <3>3. out = Hash(FlattenSeq(job.chunks))
          BY <3>1, <3>2, GivenPieces, FinalHash, Zenon
    <3>4. job.kind # "hmac"
          BY <2>1
    <3> QED
        BY <3>3, <3>4, Zenon DEF DigestWhole, Answered
  <2>2. CASE job.kind = "hmac"
    <3>1. out = HmacSha256(job.key, job.message)
          BY <2>2 DEF Computed, Result
    <3>2. job.key \in Seq(Data) /\ job.message \in Seq(Data)
          BY <2>2 DEF Computed, JobsAssumed
    <3>3. job.kind # "hash"
          BY <2>2
    <3> DEFINE k == ZerosTo(IF Len(job.key) > BlockSize THEN Hash(job.key) ELSE job.key)
    <3>4. out = Hash(Xor(k, 92) \o Hash(Xor(k, 54) \o job.message))
      <4> HIDE DEF k
      <4>1. k = ZerosTo(IF Len(job.key) > BlockSize THEN Hash(job.key) ELSE job.key)
            BY Zenon DEF k
      <4> QED
          BY <4>1, <3>1, <3>2, HmacHash
    <3> QED
        BY <3>3, <3>4, Zenon DEF DigestWhole, Answered, ZerosTo
  <2>3. CASE job.kind # "hash" /\ job.kind # "hmac"
        BY <2>3, Zenon DEF DigestWhole, Answered
  <2> QED
      BY <2>1, <2>2, <2>3, Zenon
<1> QED
    BY <1>1, ComputedHolds, PTL

----------------------------------------------------------------------------
(* Big integers.  *)

(* A function on the numbers that a recursion defines.  *)
Recurs(f, S, base, step) ==
    f \in [Nat -> S] /\ f[0] = base /\ \A k \in Nat : f[k + 1] = step[k][f[k]]

LEMMA NatRecursion ==
    ASSUME NEW S, NEW base \in S, NEW step \in [Nat -> [S -> S]]
    PROVE  \E f : Recurs(f, S, base, step)
<1> DEFINE st(n) == [k \in 1..n |-> step[k - 1]]
           Run(n, g) == g \in [0..n -> S] /\ g[0] = base /\ \A k \in 1..n : g[k] = step[k - 1][g[k - 1]]
           G(n) == CHOOSE g : Run(n, g)
           f == [n \in Nat |-> G(n)[n]]
<1>1. ASSUME NEW n \in Nat PROVE Run(n, G(n))
  <2>1. st(n) \in [1..n -> [S -> S]]
        OBVIOUS
  <2>2. PICK g : IsRun(g, n, S, base, st(n))
    <3> HIDE DEF st
    <3> QED
        BY <2>1, Iteration
  <2>3. \A k \in 1..n : st(n)[k] = step[k - 1]
        OBVIOUS
  <2> HIDE DEF st
  <2>4. Run(n, g)
        BY <2>2, <2>3, Zenon DEF IsRun
  <2> HIDE DEF Run
  <2> QED
      BY <2>4, Zenon
<1>2. ASSUME NEW n \in Nat PROVE G(n + 1)[n] = G(n)[n]
  <2>1. PICK g, h : g = G(n) /\ h = G(n + 1)
        OBVIOUS
  <2>2. Run(n, g) /\ Run(n + 1, h)
    <3>1. n + 1 \in Nat
          OBVIOUS
    <3> HIDE DEF Run, G
    <3> QED
        BY <2>1, <1>1, <3>1, Zenon
  <2> DEFINE P == {k \in 0..n : h[k] = g[k]}
  <2>3. 0 \in P
        BY <2>2
  <2>4. ASSUME NEW k \in 0..(n - 1), k \in P PROVE k + 1 \in P
    <3>1. k + 1 \in 1..n /\ k + 1 \in 1..(n + 1) /\ (k + 1) - 1 = k /\ k + 1 \in 0..n
          OBVIOUS
    <3>2. g[k + 1] = step[(k + 1) - 1][g[(k + 1) - 1]] /\ h[k + 1] = step[(k + 1) - 1][h[(k + 1) - 1]]
          BY <2>2, <3>1, Zenon
    <3> QED
        BY <2>4, <3>1, <3>2, Zenon
  <2>5. n \in P
    <3> HIDE DEF P
    <3>1. \A k \in 0..n : k \in P
          BY <2>3, <2>4, UpTo
    <3> QED
        BY <3>1
  <2> HIDE DEF G
  <2> QED
      BY <2>1, <2>5
<1>3. f \in [Nat -> S]
  <2>1. ASSUME NEW n \in Nat PROVE G(n)[n] \in S
    <3>1. PICK g : g = G(n)
          OBVIOUS
    <3>2. Run(n, g)
      <4> HIDE DEF Run, G
      <4> QED
          BY <3>1, <1>1, Zenon
    <3>3. g[n] \in S
          BY <3>2
    <3> HIDE DEF G
    <3> QED
        BY <3>1, <3>3, Zenon
  <2> HIDE DEF G
  <2> QED
      BY <2>1
<1>4. f[0] = base
  <2>1. PICK g : g = G(0)
        OBVIOUS
  <2>2. Run(0, g)
    <3>1. 0 \in Nat
          OBVIOUS
    <3> HIDE DEF Run, G
    <3> QED
        BY <2>1, <3>1, <1>1, Zenon
  <2>3. f[0] = g[0]
    <3> HIDE DEF G
    <3> QED
        BY <2>1
  <2> QED
      BY <2>2, <2>3
<1>5. ASSUME NEW k \in Nat PROVE f[k + 1] = step[k][f[k]]
  <2>1. PICK g : g = G(k + 1)
        OBVIOUS
  <2>2. Run(k + 1, g)
    <3>1. k + 1 \in Nat
          OBVIOUS
    <3> HIDE DEF Run, G
    <3> QED
        BY <2>1, <3>1, <1>1, Zenon
  <2>3. f[k + 1] = g[k + 1] /\ f[k] = g[k]
    <3> HIDE DEF G
    <3> QED
        BY <2>1, <1>2
  <2>4. k + 1 \in 1..(k + 1) /\ (k + 1) - 1 = k
        OBVIOUS
  <2>5. g[k + 1] = step[(k + 1) - 1][g[(k + 1) - 1]]
        BY <2>2, <2>4, Zenon
  <2> QED
      BY <2>3, <2>4, <2>5, Zenon
<1> HIDE DEF f
<1> QED
    BY <1>3, <1>4, <1>5, Zenon DEF Recurs

(* Powers.  *)
LEMMA PowRuns ==
    ASSUME NEW b \in Nat
    PROVE  \E h \in [Nat -> Nat] :
              /\ h[0] = 1
              /\ \A k \in Nat : h[k + 1] = b * h[k]
              /\ \A n \in Nat : Pow(b, n) = h[n]
<1> DEFINE step == [k \in Nat |-> [x \in Nat |-> b * x]]
<1>1. step \in [Nat -> [Nat -> Nat]]
    OBVIOUS
<1>2. PICK h : h \in [Nat -> Nat] /\ h[0] = 1 /\ \A k \in Nat : h[k + 1] = step[k][h[k]]
  <2> HIDE DEF step
  <2>1. 1 \in Nat
        OBVIOUS
  <2>2. \E h : Recurs(h, Nat, 1, step)
        BY <1>1, <2>1, NatRecursion, Zenon
  <2> QED
      BY <2>2, Zenon DEF Recurs
<1>3. ASSUME NEW k \in Nat PROVE h[k + 1] = b * h[k]
  <2>1. step[k] = [x \in Nat |-> b * x]
        OBVIOUS
  <2>2. h[k] \in Nat
        BY <1>2
  <2> HIDE DEF step
  <2> QED
      BY <1>2, <2>1, <2>2
<1>4. ASSUME NEW n \in Nat PROVE Pow(b, n) = h[n]
  <2> DEFINE Eq(p) == p = [k \in 0..n |-> IF k = 0 THEN 1 ELSE b * p[k - 1]]
             p == CHOOSE p : Eq(p)
             q == [k \in 0..n |-> h[k]]
  <2>1. Eq(q)
    <3>1. ASSUME NEW k \in 0..n PROVE q[k] = IF k = 0 THEN 1 ELSE b * q[k - 1]
      <4>1. CASE k = 0
            BY <4>1, <1>2
      <4>2. CASE k # 0
        <5>1. k - 1 \in Nat /\ (k - 1) + 1 = k /\ k - 1 \in 0..n
              BY <4>2
        <5>2. h[(k - 1) + 1] = b * h[k - 1]
              BY <5>1, <1>3
        <5> QED
            BY <4>2, <5>1, <5>2
      <4> QED
          BY <4>1, <4>2
    <3>2. q = [k \in 0..n |-> q[k]]
          OBVIOUS
    <3> HIDE DEF q
    <3> QED
        BY <3>1, <3>2
  <2>2. Eq(p)
    <3> HIDE DEF Eq
    <3> QED
        BY <2>1
  <2>3. Pow(b, n) = p[n]
        BY Zenon DEF Pow
  <2> HIDE DEF p
  <2> DEFINE P == {k \in 0..n : p[k] = h[k]}
  <2>4. 0 \in P
        BY <2>2, <1>2
  <2>5. ASSUME NEW k \in 0..(n - 1), k \in P PROVE k + 1 \in P
    <3>1. k + 1 \in 0..n /\ k + 1 # 0 /\ (k + 1) - 1 = k /\ k \in Nat
          OBVIOUS
    <3>2. p[k + 1] = b * p[k]
          BY <2>2, <3>1
    <3>3. p[k] = h[k] /\ h[k + 1] = b * h[k]
          BY <2>5, <3>1, <1>3
    <3> QED
        BY <3>1, <3>2, <3>3
  <2>6. n \in P
    <3> HIDE DEF P
    <3>1. \A k \in 0..n : k \in P
          BY <2>4, <2>5, UpTo
    <3> QED
        BY <3>1
  <2> QED
      BY <2>3, <2>6
<1> QED
    BY <1>2, <1>3, <1>4

LEMMA PowRules ==
    ASSUME NEW b \in Nat
    PROVE  /\ Pow(b, 0) = 1
           /\ \A n \in Nat : Pow(b, n) \in Nat /\ Pow(b, n + 1) = b * Pow(b, n)
<1>1. PICK h \in [Nat -> Nat] : /\ h[0] = 1
                                /\ \A k \in Nat : h[k + 1] = b * h[k]
                                /\ \A n \in Nat : Pow(b, n) = h[n]
    BY PowRuns
<1>2. Pow(b, 0) = 1
    BY <1>1
<1>3. ASSUME NEW n \in Nat PROVE Pow(b, n) \in Nat /\ Pow(b, n + 1) = b * Pow(b, n)
  <2>1. n + 1 \in Nat
        OBVIOUS
  <2> QED
      BY <1>1, <2>1
<1> QED
    BY <1>2, <1>3

(* Products.  *)
LEMMA Products ==
    /\ \A x, y \in Nat : x * y \in Nat
    /\ \A x, y \in Int : x * y \in Int /\ x * y = y * x
    /\ \A x, y, z \in Int : (x + y) * z = x * z + y * z /\ (x - y) * z = x * z - y * z
    /\ \A x, y, z \in Int : (x * y) * z = x * (y * z)
OBVIOUS

LEMMA ProductsGrow ==
    ASSUME NEW x \in Int, NEW y \in Int, NEW z \in Nat, x <= y
    PROVE  x * z <= y * z
<1>1. PICK d \in Nat : y = x + d
    <2>1. y - x \in Nat /\ y = x + (y - x)
        OBVIOUS
    <2> QED
        BY <2>1
<1>2. y * z = x * z + d * z
    BY <1>1, Products
<1>3. d * z \in Nat /\ x * z \in Int /\ y * z \in Int
    BY Products
<1> QED
    BY <1>2, <1>3

LEMMA PowPositive ==
    ASSUME NEW b \in Nat, b > 0
    PROVE  \A n \in Nat : Pow(b, n) \in Nat /\ Pow(b, n) >= 1
<1> DEFINE S == {n \in Nat : Pow(b, n) >= 1}
<1>1. 0 \in S
    BY PowRules
<1>2. ASSUME NEW n \in S PROVE n + 1 \in S
  <2>1. PICK p \in Nat : p = Pow(b, n) /\ p >= 1
        BY PowRules
  <2>2. Pow(b, n + 1) = b * p
        BY <2>1, PowRules
  <2>3. b * p >= 1
        BY <2>1
  <2>4. n + 1 \in Nat
        OBVIOUS
  <2> QED
      BY <2>2, <2>3, <2>4
<1>3. S = Nat
  <2> HIDE DEF S
  <2>1. S \subseteq Nat
        BY DEF S
  <2> QED
      BY <1>1, <1>2, <2>1, NatSet, Zenon
<1> QED
    BY <1>3, PowRules

LEMMA BaseSizes ==
    /\ Base \in Nat /\ Base >= 2
    /\ ByteBase \in Nat /\ ByteBase >= 2
    /\ LimbBits \in Nat /\ LimbBits > 0 /\ ByteBits \in Nat /\ ByteBits > 0 /\ LimbBytes \in Nat
       /\ LimbBytes > 0
<1>1. /\ ByteBits \in Nat /\ ByteBits > 0 /\ LimbBytes \in Nat /\ LimbBytes > 0
    BY BigIntAssumption
<1>2. LimbBits \in Nat /\ LimbBits > 0
    BY <1>1 DEF LimbBits
<1>3. ASSUME NEW n \in Nat, n > 0 PROVE Pow(2, n) \in Nat /\ Pow(2, n) >= 2
  <2>1. n - 1 \in Nat /\ (n - 1) + 1 = n /\ 2 \in Nat /\ 2 > 0
        BY <1>3
  <2>2. PICK p \in Nat : p = Pow(2, n - 1) /\ p >= 1
        BY <2>1, PowPositive
  <2>3. Pow(2, n) = 2 * p
        BY <2>1, <2>2, PowRules
  <2> QED
      BY <2>2, <2>3
<1> QED
    BY <1>1, <1>2, <1>3, Zenon DEF Base, ByteBase

LEMMA BasePowers ==
    /\ Pow(Base, 0) = 1
    /\ \A n \in Nat : Pow(Base, n) \in Nat /\ Pow(Base, n) >= 1 /\ Pow(Base, n + 1) = Base * Pow(Base, n)
<1>1. Base \in Nat /\ Base > 0
    BY BaseSizes
<1>2. Pow(Base, 0) = 1 /\ \A n \in Nat : Pow(Base, n) \in Nat /\ Pow(Base, n + 1) = Base * Pow(Base, n)
    BY <1>1, PowRules, Zenon
<1>3. \A n \in Nat : Pow(Base, n) >= 1
    BY <1>1, PowPositive, Zenon
<1> QED
    BY <1>2, <1>3, Zenon

----------------------------------------------------------------------------
(* The value of the lowest limbs.  *)
LimbValues == 0..(Base - 1)

IsLowSum(f, a) == /\ f \in [Nat -> Nat]
                  /\ f[0] = 0
                  /\ \A k \in Nat : f[k + 1] = f[k] + Limb(a, k + 1) * Pow(Base, k)
Low(a) == CHOOSE f : IsLowSum(f, a)

LEMMA SeqOfMore ==
    ASSUME NEW S, NEW T, S \subseteq T, NEW a \in Seq(S)
    PROVE  a \in Seq(T)
<1>1. Len(a) \in Nat /\ a \in [1..Len(a) -> S]
    OBVIOUS
<1>2. a \in [1..Len(a) -> T]
    BY <1>1, Zenon
<1> QED
    BY <1>1, <1>2, SeqDef, ZenonT(30)

LEMMA LimbType ==
    ASSUME NEW S, 0 \in S, NEW a, a \in Seq(S), NEW k
    PROVE  Limb(a, k) \in S
BY DEF Limb

LEMMA LowRuns ==
    ASSUME NEW a, a \in Seq(Nat)
    PROVE  IsLowSum(Low(a), a)
<1> DEFINE step == [k \in Nat |-> [x \in Nat |-> x + Limb(a, k + 1) * Pow(Base, k)]]
<1>1. ASSUME NEW k \in Nat, NEW x \in Nat PROVE x + Limb(a, k + 1) * Pow(Base, k) \in Nat
  <2>1. PICK d, p \in Nat : d = Limb(a, k + 1) /\ p = Pow(Base, k)
        BY LimbType, BasePowers
  <2>2. d * p \in Nat
        BY Products
  <2> QED
      BY <2>1, <2>2
<1>2. step \in [Nat -> [Nat -> Nat]]
    BY <1>1
<1>3. \A k \in Nat : \A x \in Nat : step[k][x] = x + Limb(a, k + 1) * Pow(Base, k)
    OBVIOUS
<1> HIDE DEF step
<1>4. PICK f : Recurs(f, Nat, 0, step)
  <2>1. 0 \in Nat
        OBVIOUS
  <2> QED
      BY <1>2, <2>1, NatRecursion, Zenon
<1>5. f \in [Nat -> Nat] /\ f[0] = 0 /\ \A k \in Nat : f[k + 1] = step[k][f[k]]
    BY <1>4, Zenon DEF Recurs
<1>6. \A k \in Nat : f[k] \in Nat
    BY <1>5
<1>7. IsLowSum(f, a)
    BY <1>3, <1>5, <1>6, Zenon DEF IsLowSum
<1> QED
    BY <1>7, Zenon DEF Low

LEMMA LowSteps ==
    ASSUME NEW a, a \in Seq(Nat)
    PROVE  /\ Low(a)[0] = 0
           /\ \A k \in Nat : /\ Low(a)[k] \in Nat
                             /\ Low(a)[k + 1] = Low(a)[k] + Limb(a, k + 1) * Pow(Base, k)
<1>1. PICK f : f = Low(a) /\ IsLowSum(f, a)
    BY LowRuns
<1>2. f \in [Nat -> Nat] /\ f[0] = 0 /\ \A k \in Nat : f[k + 1] = f[k] + Limb(a, k + 1) * Pow(Base, k)
    BY <1>1, Zenon DEF IsLowSum
<1>3. \A k \in Nat : f[k] \in Nat
    BY <1>2
<1> QED
    BY <1>1, <1>2, <1>3, Zenon

LEMMA DigitSeq ==
    ASSUME NEW a, a \in Seq(LimbValues)
    PROVE  /\ a \in Seq(Nat)
           /\ \A k : Limb(a, k) \in Nat /\ Limb(a, k) <= Base - 1 /\ Limb(a, k) \in LimbValues
<1>1. LimbValues \subseteq Nat /\ 0 \in LimbValues /\ \A d \in LimbValues : d <= Base - 1
    BY BaseSizes DEF LimbValues
<1>2. a \in Seq(Nat)
    BY <1>1, SeqOfMore, Zenon
<1> QED
    BY <1>1, <1>2, LimbType, Zenon

LEMMA LowBound ==
    ASSUME NEW a, a \in Seq(LimbValues)
    PROVE  \A k \in Nat : Low(a)[k] < Pow(Base, k)
<1> DEFINE S == {k \in Nat : Low(a)[k] < Pow(Base, k)}
<1>0. a \in Seq(Nat)
    BY DigitSeq
<1>1. 0 \in S
  <2>1. Low(a)[0] = 0 /\ Pow(Base, 0) = 1
        BY <1>0, LowSteps, BasePowers, Zenon
  <2> QED
      BY <2>1
<1>2. ASSUME NEW k \in S PROVE k + 1 \in S
  <2>1. PICK l, d, p \in Nat : l = Low(a)[k] /\ d = Limb(a, k + 1) /\ p = Pow(Base, k)
        BY <1>0, LowSteps, DigitSeq, BasePowers
  <2>2. l < p /\ d <= Base - 1 /\ Base - 1 \in Nat
        BY <2>1, DigitSeq, BaseSizes
  <2>3. d * p <= (Base - 1) * p
        BY <2>2, ProductsGrow, BaseSizes
  <2>4. (Base - 1) * p = Base * p - p
        BY Products, BaseSizes
  <2>5. Low(a)[k + 1] = l + d * p /\ Pow(Base, k + 1) = Base * p /\ k + 1 \in Nat
        BY <1>0, <2>1, LowSteps, BasePowers
  <2>6. d * p \in Nat /\ Base * p \in Nat
        BY Products, BaseSizes
  <2>7. l + d * p < Base * p
        BY <2>2, <2>3, <2>4, <2>6
  <2> QED
      BY <2>5, <2>7
<1>3. S = Nat
  <2> HIDE DEF S
  <2>1. S \subseteq Nat
        BY DEF S
  <2> QED
      BY <1>1, <1>2, <2>1, NatSet, Zenon
<1> QED
    BY <1>3

LEMMA LowTail ==
    ASSUME NEW a, a \in Seq(Nat), NEW k \in Nat
    PROVE  Low(a)[Len(a) + k] = Low(a)[Len(a)]
<1> DEFINE S == {j \in Nat : Low(a)[Len(a) + j] = Low(a)[Len(a)]}
<1>1. 0 \in S
    OBVIOUS
<1>2. ASSUME NEW j \in S PROVE j + 1 \in S
  <2>1. PICK n \in Nat : n = Len(a) + j
        OBVIOUS
  <2>2. Len(a) + (j + 1) = n + 1 /\ n + 1 \notin DOMAIN a
        BY <2>1
  <2>3. Low(a)[n + 1] = Low(a)[n] + 0 * Pow(Base, n)
        BY <2>2, LowSteps DEF Limb
  <2>4. Low(a)[n] \in Nat
        BY LowSteps
  <2>5. PICK p \in Nat : p = Pow(Base, n)
        BY BasePowers
  <2>6. 0 * p = 0
        OBVIOUS
  <2>7. Low(a)[n + 1] = Low(a)[n]
        BY <2>3, <2>4, <2>5, <2>6
  <2> QED
      BY <2>1, <2>2, <2>7
<1>3. S = Nat
  <2> HIDE DEF S
  <2>1. S \subseteq Nat
        BY DEF S
  <2> QED
      BY <1>1, <1>2, <2>1, NatSet, Zenon
<1> QED
    BY <1>3

(* Value adds up the limbs from the top.  *)
IsValue(v, a) == /\ v \in [1..(Len(a) + 1) -> Nat]
                 /\ v[Len(a) + 1] = 0
                 /\ \A k \in 1..Len(a) : v[k] = v[k + 1] * Base + a[k]
                 /\ Value(a) = v[1]

LEMMA ValueRuns ==
    ASSUME NEW a, a \in Seq(Nat)
    PROVE  \E v : IsValue(v, a)
<1> DEFINE n == Len(a)
           step == [j \in 1..n |-> [x \in Nat |-> x * Base + a[(n + 1) - j]]]
           Eq(v) == v = [k \in 1..(n + 1) |-> IF k > n THEN 0 ELSE v[k + 1] * Base + a[k]]
           f == CHOOSE v : Eq(v)
<1>0. n \in Nat /\ \A k \in 1..n : a[k] \in Nat
    OBVIOUS
<1>1. PICK g : IsRun(g, n, Nat, 0, step)
  <2>1. ASSUME NEW j \in 1..n, NEW x \in Nat PROVE x * Base + a[(n + 1) - j] \in Nat
    <3> HIDE DEF n
    <3>1. (n + 1) - j \in 1..n
          BY <1>0
    <3>2. PICK d \in Nat : d = a[(n + 1) - j]
          BY <3>1, <1>0
    <3>3. x * Base \in Nat
          BY BaseSizes, Products
    <3> QED
        BY <3>2, <3>3
  <2> HIDE DEF n
  <2>2. step \in [1..n -> [Nat -> Nat]] /\ 0 \in Nat
        BY <2>1
  <2> HIDE DEF step
  <2> QED
      BY <1>0, <2>2, Iteration, Zenon
<1> HIDE DEF n
<1>2. g \in [0..n -> Nat] /\ g[0] = 0 /\ \A k \in 1..n : g[k] = step[k][g[k - 1]]
  <2> HIDE DEF step
  <2> QED
      BY <1>1, Zenon DEF IsRun
<1>3. ASSUME NEW k \in 1..n PROVE g[k] = g[k - 1] * Base + a[(n + 1) - k] /\ g[k - 1] \in Nat
  <2>1. k - 1 \in 0..n
        BY <1>0
  <2>2. g[k - 1] \in Nat
        BY <2>1, <1>2
  <2>3. step[k] = [x \in Nat |-> x * Base + a[(n + 1) - k]]
        OBVIOUS
  <2> HIDE DEF step
  <2> QED
      BY <1>2, <2>2, <2>3
<1> DEFINE w == [k \in 1..(n + 1) |-> g[(n + 1) - k]]
<1>4. /\ w \in [1..(n + 1) -> Nat] /\ w[n + 1] = 0
      /\ \A k \in 1..n : w[k] = w[k + 1] * Base + a[k]
  <2>1. ASSUME NEW k \in 1..(n + 1) PROVE (n + 1) - k \in 0..n /\ w[k] = g[(n + 1) - k]
        BY <1>0
  <2>2. w \in [1..(n + 1) -> Nat]
    <3>1. \A k \in 1..(n + 1) : g[(n + 1) - k] \in Nat
          BY <2>1, <1>2
    <3> QED
        BY <3>1
  <2>3. w[n + 1] = 0
    <3>1. n + 1 \in 1..(n + 1) /\ (n + 1) - (n + 1) = 0
          BY <1>0
    <3> HIDE DEF w
    <3> QED
        BY <3>1, <2>1, <1>2
  <2>4. ASSUME NEW k \in 1..n PROVE w[k] = w[k + 1] * Base + a[k]
    <3>1. PICK j \in 1..n : j = (n + 1) - k /\ (n + 1) - j = k /\ j - 1 = (n + 1) - (k + 1)
                            /\ k \in 1..(n + 1) /\ k + 1 \in 1..(n + 1)
      <4>1. (n + 1) - k \in 1..n /\ (n + 1) - ((n + 1) - k) = k /\ ((n + 1) - k) - 1 = (n + 1) - (k + 1)
            /\ k \in 1..(n + 1) /\ k + 1 \in 1..(n + 1)
            BY <1>0
      <4> QED
          BY <4>1
    <3>2. g[j] = g[j - 1] * Base + a[(n + 1) - j]
          BY <1>3
    <3> HIDE DEF w
    <3> QED
        BY <3>1, <3>2, <2>1, Zenon
  <2> HIDE DEF w
  <2> QED
      BY <2>2, <2>3, <2>4
<1>5. Eq(w)
  <2>1. ASSUME NEW k \in 1..(n + 1) PROVE w[k] = IF k > n THEN 0 ELSE w[k + 1] * Base + a[k]
    <3> HIDE DEF w
    <3>1. CASE k > n
      <4>1. k = n + 1
            BY <3>1, <1>0
      <4> QED
          BY <3>1, <4>1, <1>4
    <3>2. CASE ~(k > n)
      <4>1. k \in 1..n
            BY <3>2, <1>0
      <4> QED
          BY <3>2, <4>1, <1>4
    <3> QED
        BY <3>1, <3>2
  <2>2. w = [k \in 1..(n + 1) |-> w[k]]
    <3> HIDE DEF w
    <3> QED
        BY <1>4
  <2> HIDE DEF w
  <2> QED
      BY <2>1, <2>2
<1> HIDE DEF w
<1>6. Eq(f)
  <2> HIDE DEF Eq
  <2> QED
      BY <1>5
<1>7. Value(a) = f[1]
    BY Zenon DEF Value, n
<1> HIDE DEF f
<1>8. f[n + 1] = 0 /\ \A k \in 1..n : f[k] = f[k + 1] * Base + a[k]
  <2>1. n + 1 \in 1..(n + 1) /\ n + 1 > n /\ \A k \in 1..n : k \in 1..(n + 1) /\ ~(k > n)
        BY <1>0
  <2> QED
      BY <1>6, <2>1
<1>9. f \in [1..(n + 1) -> Nat]
  <2> DEFINE S == {j \in 0..n : f[(n + 1) - j] \in Nat}
  <2>1. 0 \in S
    <3>1. (n + 1) - 0 = n + 1 /\ 0 \in 0..n /\ 0 \in Nat
          BY <1>0
    <3> QED
        BY <3>1, <1>8
  <2>2. ASSUME NEW j \in 0..(n - 1), j \in S PROVE j + 1 \in S
    <3>1. PICK k \in 1..n : k = (n + 1) - (j + 1) /\ k + 1 = (n + 1) - j /\ j + 1 \in 0..n
      <4>1. (n + 1) - (j + 1) \in 1..n /\ ((n + 1) - (j + 1)) + 1 = (n + 1) - j /\ j + 1 \in 0..n
            BY <1>0
      <4> QED
          BY <4>1
    <3>2. PICK x, d \in Nat : x = f[k + 1] /\ d = a[k]
          BY <2>2, <3>1, <1>0
    <3>3. f[k] = x * Base + d /\ x * Base \in Nat
          BY <1>8, <3>2, BaseSizes, Products
    <3> QED
        BY <3>1, <3>3
  <2>3. \A j \in 0..n : j \in S
    <3> HIDE DEF S
    <3> QED
        BY <1>0, <2>1, <2>2, UpTo, Zenon
  <2>4. ASSUME NEW k \in 1..(n + 1) PROVE f[k] \in Nat
    <3>1. PICK j \in 0..n : j = (n + 1) - k /\ (n + 1) - j = k
      <4>1. (n + 1) - k \in 0..n /\ (n + 1) - ((n + 1) - k) = k
            BY <1>0
      <4> QED
          BY <4>1
    <3> QED
        BY <3>1, <2>3
  <2>5. f = [k \in 1..(n + 1) |-> f[k]]
    <3>1. f = [k \in 1..(n + 1) |-> IF k > n THEN 0 ELSE f[k + 1] * Base + a[k]]
          BY <1>6
    <3> QED
        BY <3>1
  <2> QED
      BY <2>4, <2>5
<1> QED
    BY <1>7, <1>8, <1>9, Zenon DEF IsValue, n

(* The value of all limbs is that of the lowest Len(a).  *)
LEMMA ValueLow ==
    ASSUME NEW a, a \in Seq(Nat)
    PROVE  Value(a) = Low(a)[Len(a)]
<1>1. PICK v : IsValue(v, a)
    BY ValueRuns
<1>2. PICK n \in Nat : n = Len(a)
    OBVIOUS
<1>3. /\ \A k \in 1..(n + 1) : v[k] \in Nat
      /\ v[n + 1] = 0 /\ Value(a) = v[1]
      /\ \A k \in 1..n : v[k] = v[k + 1] * Base + a[k]
  <2>1. v \in [1..(n + 1) -> Nat] /\ v[n + 1] = 0 /\ Value(a) = v[1]
        /\ \A k \in 1..n : v[k] = v[k + 1] * Base + a[k]
        BY <1>1, <1>2, Zenon DEF IsValue
  <2> QED
      BY <2>1
<1> DEFINE S == {k \in 0..n : v[k + 1] * Pow(Base, k) + Low(a)[k] = Value(a)}
<1>4. 0 \in S
  <2>1. PICK x \in Nat : x = v[0 + 1]
    <3>1. 0 + 1 = 1 /\ 1 \in 1..(n + 1)
          OBVIOUS
    <3> QED
        BY <3>1, <1>3
  <2>2. Pow(Base, 0) = 1 /\ Low(a)[0] = 0
        BY LowSteps, BasePowers, Zenon
  <2>3. x * 1 + 0 = x /\ 0 + 1 = 1 /\ 0 \in 0..n
        OBVIOUS
  <2> QED
      BY <2>1, <2>2, <2>3, <1>3, Zenon
<1>5. ASSUME NEW k \in 0..(n - 1), k \in S PROVE k + 1 \in S
  <2>1. k \in Nat /\ k + 1 \in 1..n /\ k + 1 \in 0..n /\ (k + 1) + 1 \in 1..(n + 1)
        OBVIOUS
  <2>2. PICK x, y, d, p, l \in Nat : x = v[k + 1] /\ y = v[(k + 1) + 1] /\ d = a[k + 1]
                                     /\ p = Pow(Base, k) /\ l = Low(a)[k]
    <3>1. v[k + 1] \in Nat /\ v[(k + 1) + 1] \in Nat /\ a[k + 1] \in Nat /\ Pow(Base, k) \in Nat
            /\ Low(a)[k] \in Nat
      <4>1. k + 1 \in 1..(n + 1)
            BY <2>1
      <4>2. a[k + 1] \in Nat
            BY <2>1, <1>2
      <4> QED
          BY <2>1, <4>1, <4>2, <1>3, LowSteps, BasePowers, Zenon
    <3> QED
        BY <3>1
  <2>3. x = y * Base + d
        BY <2>1, <2>2, <1>3, Zenon
  <2>4. Limb(a, k + 1) = d
        BY <2>1, <2>2, <1>2 DEF Limb
  <2>5. Low(a)[k + 1] = l + d * p /\ Pow(Base, k + 1) = Base * p
    <3>1. /\ Low(a)[k + 1] = Low(a)[k] + Limb(a, k + 1) * Pow(Base, k)
          /\ Pow(Base, k + 1) = Base * Pow(Base, k)
          BY <2>1, LowSteps, BasePowers, Zenon
    <3> QED
        BY <2>2, <2>4, <3>1, Zenon
  <2>6. x * p + l = Value(a)
        BY <1>5, <2>2, Zenon
  <2>7. y * (Base * p) + (l + d * p) = x * p + l
    <3>1. x * p = (y * Base) * p + d * p
          BY <2>3, BaseSizes, Products
    <3>2. (y * Base) * p = y * (Base * p)
          BY BaseSizes, Products
    <3>3. PICK e, g \in Nat : e = y * (Base * p) /\ g = d * p
      <4>1. Base * p \in Nat
            BY BaseSizes, Products
      <4> QED
          BY <4>1, Products
    <3> QED
        BY <3>1, <3>2, <3>3
  <2> QED
      BY <2>1, <2>2, <2>5, <2>6, <2>7, Zenon
<1>6. n \in S
  <2> HIDE DEF S
  <2>1. \A k \in 0..n : k \in S
        BY <1>4, <1>5, UpTo
  <2> QED
      BY <2>1
<1>7. PICK p, l \in Nat : p = Pow(Base, n) /\ l = Low(a)[n]
    BY LowSteps, BasePowers
<1>8. 0 * p + l = l
    OBVIOUS
<1> QED
    BY <1>2, <1>3, <1>6, <1>7, <1>8, Zenon

LEMMA ValueBound ==
    ASSUME NEW a, a \in Seq(LimbValues)
    PROVE  /\ Value(a) \in Nat /\ Value(a) = Low(a)[Len(a)] /\ Value(a) < Pow(Base, Len(a))
           /\ \A k \in Nat : Len(a) <= k => Value(a) = Low(a)[k]
<1>1. a \in Seq(Nat) /\ Len(a) \in Nat
    BY DigitSeq
<1>2. Value(a) = Low(a)[Len(a)]
    BY <1>1, ValueLow, Zenon
<1>3. Low(a)[Len(a)] \in Nat /\ Low(a)[Len(a)] < Pow(Base, Len(a))
    BY <1>1, LowSteps, LowBound, Zenon
<1>4. ASSUME NEW k \in Nat, Len(a) <= k PROVE Low(a)[k] = Low(a)[Len(a)]
  <2>1. PICK j \in Nat : k = Len(a) + j
    <3>1. k - Len(a) \in Nat /\ k = Len(a) + (k - Len(a))
          BY <1>1, <1>4
    <3> QED
        BY <3>1
  <2> QED
      BY <1>1, <2>1, LowTail, Zenon
<1> QED
    BY <1>2, <1>3, <1>4, Zenon

LEMMA LowEqual ==
    ASSUME NEW a, NEW b, a \in Seq(Nat), b \in Seq(Nat),
           NEW n \in Nat, \A k \in 1..n : Limb(a, k) = Limb(b, k)
    PROVE  Low(a)[n] = Low(b)[n]
<1> DEFINE S == {k \in 0..n : Low(a)[k] = Low(b)[k]}
<1>1. 0 \in S
  <2>1. Low(a)[0] = 0 /\ Low(b)[0] = 0
        BY LowSteps, Zenon
  <2> QED
      BY <2>1
<1>2. ASSUME NEW k \in 0..(n - 1), k \in S PROVE k + 1 \in S
  <2>1. k \in Nat /\ k + 1 \in 1..n /\ k + 1 \in 0..n
        OBVIOUS
  <2>2. /\ Low(a)[k + 1] = Low(a)[k] + Limb(a, k + 1) * Pow(Base, k)
        /\ Low(b)[k + 1] = Low(b)[k] + Limb(b, k + 1) * Pow(Base, k)
        BY <2>1, LowSteps, Zenon
  <2>3. Low(a)[k] = Low(b)[k] /\ Limb(a, k + 1) = Limb(b, k + 1)
        BY <1>2, <2>1, Zenon
  <2> QED
      BY <2>1, <2>2, <2>3, Zenon
<1>3. n \in S
  <2> HIDE DEF S
  <2>1. \A k \in 0..n : k \in S
        BY <1>1, <1>2, UpTo
  <2> QED
      BY <2>1
<1> QED
    BY <1>3

LEMMA ValueAppend ==
    ASSUME NEW q, q \in Seq(LimbValues), NEW d \in LimbValues
    PROVE  /\ q \o <<d>> \in Seq(LimbValues)
           /\ Value(q \o <<d>>) = Value(q) + d * Pow(Base, Len(q))
<1>1. PICK r, n : r = q \o <<d>> /\ n = Len(q)
    OBVIOUS
<1>2. /\ r \in Seq(LimbValues) /\ n \in Nat /\ Len(r) = n + 1
      /\ r[n + 1] = d /\ \A k \in 1..n : r[k] = q[k]
    BY <1>1
<1>3. Limb(r, n + 1) = d /\ \A k \in 1..n : Limb(r, k) = Limb(q, k)
  <2>1. DOMAIN r = 1..(n + 1) /\ DOMAIN q = 1..n
        BY <1>1, <1>2
  <2>2. n + 1 \in 1..(n + 1) /\ \A k \in 1..n : k \in 1..(n + 1)
        BY <1>2
  <2> QED
      BY <2>1, <2>2, <1>2, Zenon DEF Limb
<1>4. Low(r)[n] = Low(q)[n]
    BY <1>2, <1>3, DigitSeq, LowEqual, Zenon
<1>5. Low(r)[n + 1] = Low(r)[n] + d * Pow(Base, n)
    BY <1>2, <1>3, DigitSeq, LowSteps, Zenon
<1>6. Value(r) = Low(r)[n + 1] /\ Value(q) = Low(q)[n]
    BY <1>1, <1>2, ValueBound, Zenon
<1> QED
    BY <1>1, <1>2, <1>4, <1>5, <1>6, Zenon

(* A loop that carries from limb to limb: x is added at each, c is the     *)
(* carry, X the sum so far.                                                *)
IsChain(r, c, x, X, n) ==
    /\ c[0] = 0 /\ X[0] = 0
    /\ \A k \in 0..n : c[k] \in Int /\ X[k] \in Int
    /\ \A k \in 1..n : /\ x[k] \in Int
                       /\ X[k] = X[k - 1] + x[k] * Pow(Base, k - 1)
                       /\ Limb(r, k) + c[k] * Base = x[k] + c[k - 1]

LEMMA Chain ==
    ASSUME NEW r, r \in Seq(Nat), NEW n \in Nat, NEW c, NEW x, NEW X, IsChain(r, c, x, X, n)
    PROVE  Low(r)[n] + c[n] * Pow(Base, n) = X[n]
<1>1. /\ c[0] = 0 /\ X[0] = 0
      /\ \A k \in 0..n : c[k] \in Int /\ X[k] \in Int
      /\ \A k \in 1..n : /\ x[k] \in Int
                         /\ X[k] = X[k - 1] + x[k] * Pow(Base, k - 1)
                         /\ Limb(r, k) + c[k] * Base = x[k] + c[k - 1]
    BY Zenon DEF IsChain
<1> DEFINE S == {k \in 0..n : Low(r)[k] + c[k] * Pow(Base, k) = X[k]}
<1>2. 0 \in S
  <2>1. Low(r)[0] = 0 /\ Pow(Base, 0) = 1
        BY LowSteps, BasePowers, Zenon
  <2>2. 0 + 0 * 1 = 0 /\ 0 \in 0..n
        OBVIOUS
  <2> QED
      BY <1>1, <2>1, <2>2, Zenon
<1>3. ASSUME NEW k \in 0..(n - 1), k \in S PROVE k + 1 \in S
  <2>1. k \in Nat /\ k + 1 \in 1..n /\ k + 1 \in 0..n /\ k \in 0..n /\ (k + 1) - 1 = k
        OBVIOUS
  <2>2. PICK l, d, p \in Nat : l = Low(r)[k] /\ d = Limb(r, k + 1) /\ p = Pow(Base, k)
    <3>1. Low(r)[k] \in Nat /\ Limb(r, k + 1) \in Nat /\ Pow(Base, k) \in Nat
          BY <2>1, LowSteps, LimbType, BasePowers
    <3> QED
        BY <3>1
  <2>3. PICK e, g, y, z \in Int : e = c[k] /\ g = c[k + 1] /\ y = x[k + 1] /\ z = X[k]
    <3>1. c[k] \in Int /\ c[k + 1] \in Int /\ x[k + 1] \in Int /\ X[k] \in Int
          BY <2>1, <1>1, Zenon
    <3> QED
        BY <3>1
  <2>4. X[k + 1] = z + y * p /\ d + g * Base = y + e
    <3>1. X[k + 1] = X[(k + 1) - 1] + x[k + 1] * Pow(Base, (k + 1) - 1)
          /\ Limb(r, k + 1) + c[k + 1] * Base = x[k + 1] + c[(k + 1) - 1]
          BY <2>1, <1>1, Zenon
    <3> QED
        BY <3>1, <2>1, <2>2, <2>3, Zenon
  <2>5. Low(r)[k + 1] = l + d * p /\ Pow(Base, k + 1) = Base * p
    <3>1. Low(r)[k + 1] = Low(r)[k] + Limb(r, k + 1) * Pow(Base, k)
            /\ Pow(Base, k + 1) = Base * Pow(Base, k)
          BY <2>1, LowSteps, BasePowers, Zenon
    <3> QED
        BY <2>2, <3>1, Zenon
  <2>6. l + e * p = z
        BY <1>3, <2>2, <2>3, Zenon
  <2>7. (l + d * p) + g * (Base * p) = z + y * p
    <3>1. (d + g * Base) * p = y * p + e * p
          BY <2>4, Products
    <3>2. (d + g * Base) * p = d * p + g * (Base * p)
          BY BaseSizes, Products
    <3>3. PICK u, v, w, t \in Int : u = d * p /\ v = g * (Base * p) /\ w = y * p /\ t = e * p
      <4>1. Base * p \in Int
            BY BaseSizes, Products
      <4> QED
          BY <4>1, Products
    <3>4. u + v = w + t /\ l + t = z
      <4>1. u + v = w + t
            BY <3>1, <3>2, <3>3, Zenon
      <4> QED
          BY <4>1, <3>3, <2>6, Zenon
    <3>5. (l + u) + v = z + w
          BY <3>4
    <3> QED
        BY <3>3, <3>5, Zenon
  <2> QED
      BY <2>1, <2>3, <2>4, <2>5, <2>7, Zenon
<1>4. n \in S
  <2> HIDE DEF S
  <2>1. \A k \in 0..n : k \in S
        BY <1>2, <1>3, UpTo
  <2> QED
      BY <2>1
<1> QED
    BY <1>4

LEMMA Division ==
    ASSUME NEW b \in Nat, b > 0
    PROVE  /\ \A x \in Int : x \div b \in Int /\ x % b \in Nat /\ x % b < b /\ (x \div b) * b + (x % b) = x
           /\ \A x \in Nat : x \div b \in Nat
<1>1. ASSUME NEW x \in Int
      PROVE  x \div b \in Int /\ x % b \in Nat /\ x % b < b /\ (x \div b) * b + (x % b) = x
    OBVIOUS
<1>2. ASSUME NEW x \in Nat PROVE x \div b \in Nat
    OBVIOUS
<1> QED
    BY <1>1, <1>2

LEMMA Quotient ==
    ASSUME NEW b \in Nat, b > 0, NEW x \in Int, NEW q \in Int, NEW r \in Nat, r < b, x = q * b + r
    PROVE  x \div b = q /\ x % b = r
<1>1. PICK d \in Int, m \in Nat : d = x \div b /\ m = x % b /\ m < b /\ d * b + m = x
    BY Division
<1>2. PICK u, v \in Int : u = d * b /\ v = q * b
    BY Products
<1>3. u + m = v + r
    BY <1>1, <1>2
<1>4. ~(d < q)
  <2>1. ASSUME d < q PROVE FALSE
    <3>1. (d + 1) * b <= q * b
          BY <2>1, ProductsGrow
    <3>2. (d + 1) * b = d * b + b
          BY Products
    <3>3. u + b <= v
          BY <3>1, <3>2, <1>2
    <3> QED
        BY <3>3, <1>1, <1>3
  <2> QED
      BY <2>1
<1>5. ~(q < d)
  <2>1. ASSUME q < d PROVE FALSE
    <3>1. (q + 1) * b <= d * b
          BY <2>1, ProductsGrow
    <3>2. (q + 1) * b = q * b + b
          BY Products
    <3>3. v + b <= u
          BY <3>1, <3>2, <1>2
    <3> QED
        BY <3>3, <1>3
  <2> QED
      BY <2>1
<1>6. d = q
    BY <1>4, <1>5
<1>7. m = r
    BY <1>2, <1>3, <1>6
<1> QED
    BY <1>1, <1>6, <1>7

----------------------------------------------------------------------------
(* bigAdd.  *)
LEMMA BigFacts ==
    ASSUME NEW a, IsBig(a)
    PROVE  /\ a \in Seq(LimbValues) /\ a \in Seq(Nat) /\ Len(a) \in Nat /\ Len(a) >= 1
           /\ Len(a) > 1 => a[Len(a)] # 0
<1>1. a \in Seq(LimbValues) /\ a # <<>> /\ (Len(a) > 1 => a[Len(a)] # 0)
    BY Zenon DEF IsBig, LimbValues
<1>2. Len(a) \in Nat /\ Len(a) >= 1
    BY <1>1
<1> QED
    BY <1>1, <1>2, DigitSeq, Zenon

(* A loop over the places from 1, each of which reads the one before.  *)
Carries(s, n, S, base, step) ==
    /\ s \in [1..n -> S]
    /\ \A k \in 1..n : /\ (IF k = 1 THEN base ELSE s[k - 1]) \in S
                       /\ s[k] = step[k][IF k = 1 THEN base ELSE s[k - 1]]

LEMMA CarryRun ==
    ASSUME NEW n \in Nat, NEW S, NEW base \in S, NEW step \in [1..n -> [S -> S]]
    PROVE  \E s : Carries(s, n, S, base, step)
<1>0. \E g : IsRun(g, n, S, base, step)
    BY Iteration, Zenon
<1>1. PICK g : g \in [0..n -> S] /\ g[0] = base /\ \A k \in 1..n : g[k] = step[k][g[k - 1]]
    BY <1>0, Zenon DEF IsRun
<1> DEFINE s == [k \in 1..n |-> g[k]]
<1>2. s \in [1..n -> S]
    BY <1>1
<1>3. ASSUME NEW k \in 1..n
      PROVE  (IF k = 1 THEN base ELSE s[k - 1]) = g[k - 1] /\ g[k - 1] \in S
  <2>1. CASE k = 1
        BY <2>1, <1>1
  <2>2. CASE k # 1
    <3>1. k - 1 \in 1..n /\ k - 1 \in 0..n
          BY <2>2
    <3> QED
        BY <3>1, <2>2, <1>1
  <2> QED
      BY <2>1, <2>2
<1>4. \A k \in 1..n : s[k] = g[k]
    OBVIOUS
<1> HIDE DEF s
<1>5. Carries(s, n, S, base, step)
    BY <1>1, <1>2, <1>3, <1>4, Zenon DEF Carries
<1> QED
    BY <1>5, Zenon

AddSum(a, b, s, k) == Limb(a, k) + Limb(b, k) + (IF k = 1 THEN 0 ELSE s[k - 1] \div Base)

IsSum(s, n, a, b) ==
    /\ \A k \in 1..n : s[k] \in Nat /\ s[k] = AddSum(a, b, s, k)
    /\ BigAdd(a, b) = [k \in 1..n |-> s[k] % Base] \o (IF s[n] >= Base THEN <<s[n] \div Base>> ELSE <<>>)

LEMMA AddRuns ==
    ASSUME NEW a, NEW b, a \in Seq(LimbValues), b \in Seq(LimbValues)
    PROVE  \E s : IsSum(s, Longest(a, b), a, b)
<1> DEFINE n == Longest(a, b)
           Eq(s) == s = [k \in 1..n |-> Limb(a, k) + Limb(b, k) + (IF k = 1 THEN 0 ELSE s[k - 1] \div Base)]
           f == CHOOSE s : Eq(s)
           step == [k \in 1..n |-> [x \in Nat |-> Limb(a, k) + Limb(b, k) + (x \div Base)]]
<1>0. n \in Nat
    BY DEF Longest
<1>a. BigAdd(a, b) = [k \in 1..n |-> f[k] % Base] \o (IF f[n] >= Base THEN <<f[n] \div Base>> ELSE <<>>)
    BY Zenon DEF BigAdd
<1> HIDE DEF n
<1>1. ASSUME NEW k, NEW x \in Nat PROVE Limb(a, k) + Limb(b, k) + (x \div Base) \in Nat
  <2>1. Limb(a, k) \in Nat /\ Limb(b, k) \in Nat /\ x \div Base \in Nat
        BY DigitSeq, Division, BaseSizes
  <2> QED
      BY <2>1
<1>2. step \in [1..n -> [Nat -> Nat]] /\ 0 \in Nat
    BY <1>1
<1>3. \A k \in 1..n : \A x \in Nat : step[k][x] = Limb(a, k) + Limb(b, k) + (x \div Base)
    OBVIOUS
<1>4. PICK s : /\ s \in [1..n -> Nat]
               /\ \A k \in 1..n : /\ (IF k = 1 THEN 0 ELSE s[k - 1]) \in Nat
                                  /\ s[k] = step[k][IF k = 1 THEN 0 ELSE s[k - 1]]
  <2> HIDE DEF step
  <2>1. \E s : Carries(s, n, Nat, 0, step)
        BY <1>0, <1>2, CarryRun, Zenon
  <2> QED
      BY <2>1, Zenon DEF Carries
<1>5. ASSUME NEW k \in 1..n PROVE s[k] = Limb(a, k) + Limb(b, k) + (IF k = 1 THEN 0 ELSE s[k - 1] \div Base)
  <2>1. s[k] = Limb(a, k) + Limb(b, k) + ((IF k = 1 THEN 0 ELSE s[k - 1]) \div Base)
    <3> HIDE DEF step
    <3> QED
        BY <1>3, <1>4, Zenon
  <2>2. 0 \div Base = 0
        BY BaseSizes
  <2>3. CASE k = 1
        BY <2>1, <2>2, <2>3, Zenon
  <2>4. CASE k # 1
        BY <2>1, <2>4, Zenon
  <2> QED
      BY <2>3, <2>4, Zenon
<1>6. Eq(s)
  <2>1. s = [k \in 1..n |-> s[k]]
        BY <1>4
  <2> QED
      BY <1>5, <2>1, Zenon
<1>7. Eq(f)
  <2> HIDE DEF Eq
  <2> QED
      BY <1>6, Zenon
<1> HIDE DEF f
<1>9. ASSUME NEW k \in 1..n PROVE f[k] = Limb(a, k) + Limb(b, k) + (IF k = 1 THEN 0 ELSE f[k - 1] \div Base)
    BY <1>7, Zenon
<1>10. \A k \in 1..n : f[k] \in Nat
  <2> DEFINE S == {k \in 0..n : k = 0 \/ f[k] \in Nat}
  <2>1. 0 \in S
        BY <1>0
  <2>2. ASSUME NEW k \in 0..(n - 1), k \in S PROVE k + 1 \in S
    <3>1. k + 1 \in 1..n /\ k + 1 \in 0..n /\ (k + 1) - 1 = k /\ (k + 1 = 1 <=> k = 0)
          BY <1>0
    <3>2. PICK x \in Nat : x = IF k = 0 THEN 0 ELSE f[k] \div Base
      <4>1. CASE k = 0
            BY <4>1
      <4>2. CASE k # 0
        <5>1. PICK y \in Nat : y = f[k]
              BY <4>2, <2>2
        <5>2. y \div Base \in Nat
              BY Division, BaseSizes
        <5> QED
            BY <4>2, <5>1, <5>2
      <4> QED
          BY <4>1, <4>2
    <3>3. f[k + 1] = Limb(a, k + 1) + Limb(b, k + 1) + (IF k + 1 = 1 THEN 0 ELSE f[(k + 1) - 1] \div Base)
          BY <3>1, <1>9, Zenon
    <3>4. f[k + 1] = Limb(a, k + 1) + Limb(b, k + 1) + x
          BY <3>1, <3>2, <3>3, Zenon
    <3>5. f[k + 1] \in Nat
          BY <3>4, DigitSeq
    <3> QED
        BY <3>1, <3>5, Zenon
  <2>3. \A k \in 0..n : k \in S
    <3> HIDE DEF S
    <3> QED
        BY <1>0, <2>1, <2>2, UpTo, Zenon
  <2>4. \A k \in 1..n : k \in 0..n /\ k # 0
        OBVIOUS
  <2> QED
      BY <2>3, <2>4, Zenon
<1> QED
    BY <1>a, <1>9, <1>10, Zenon DEF AddSum, IsSum, n

LEMMA LongestFacts ==
    ASSUME NEW a, NEW b, IsBig(a), IsBig(b)
    PROVE  /\ Longest(a, b) \in Nat /\ Longest(a, b) >= 1 /\ Longest(a, b) >= Len(a)
              /\ Longest(a, b) >= Len(b)
           /\ Longest(a, b) = Len(a) \/ Longest(a, b) = Len(b)
           /\ Longest(a, b) > 1 => Limb(a, Longest(a, b)) > 0 \/ Limb(b, Longest(a, b)) > 0
<1>1. PICK m, n \in Nat : m = Len(a) /\ n = Len(b) /\ m >= 1 /\ n >= 1
    BY BigFacts
<1>2. /\ Longest(a, b) \in {m, n} /\ Longest(a, b) >= m /\ Longest(a, b) >= n
    BY <1>1 DEF Longest
<1>3. DOMAIN a = 1..m /\ DOMAIN b = 1..n /\ a \in Seq(LimbValues) /\ b \in Seq(LimbValues)
    BY <1>1, BigFacts
<1>4. /\ m > 1 => Limb(a, m) > 0
      /\ n > 1 => Limb(b, n) > 0
  <2>1. m \in DOMAIN a /\ n \in DOMAIN b
        BY <1>1, <1>3
  <2>2. Limb(a, m) = a[m] /\ Limb(b, n) = b[n]
        BY <2>1, Zenon DEF Limb
  <2>3. Limb(a, m) \in Nat /\ Limb(b, n) \in Nat
        BY <1>3, DigitSeq, Zenon
  <2>4. (m > 1 => a[m] # 0) /\ (n > 1 => b[n] # 0)
        BY <1>1, BigFacts, Zenon
  <2> QED
      BY <2>2, <2>3, <2>4
<1> QED
    BY <1>1, <1>2, <1>4

LEMMA AddValue ==
    ASSUME NEW a, NEW b, IsBig(a), IsBig(b)
    PROVE  IsBig(BigAdd(a, b)) /\ Value(BigAdd(a, b)) = Value(a) + Value(b)
<1>1. /\ a \in Seq(LimbValues) /\ b \in Seq(LimbValues) /\ a \in Seq(Nat) /\ b \in Seq(Nat)
    BY BigFacts, Zenon
<1>2. PICK n \in Nat : n = Longest(a, b) /\ n >= 1 /\ n >= Len(a) /\ n >= Len(b)
                       /\ (n > 1 => Limb(a, n) > 0 \/ Limb(b, n) > 0)
    BY LongestFacts
<1>3. PICK s : IsSum(s, n, a, b)
    BY <1>1, <1>2, AddRuns, Zenon
<1>4. /\ \A k \in 1..n : s[k] \in Nat /\ s[k] = AddSum(a, b, s, k)
      /\ BigAdd(a, b) = [k \in 1..n |-> s[k] % Base] \o (IF s[n] >= Base THEN <<s[n] \div Base>> ELSE <<>>)
    BY <1>3, Zenon DEF IsSum
<1> DEFINE q == [k \in 1..n |-> s[k] % Base]
           c == [k \in 0..n |-> IF k = 0 THEN 0 ELSE s[k] \div Base]
           x == [k \in 1..n |-> Limb(a, k) + Limb(b, k)]
           X == [k \in 0..n |-> Low(a)[k] + Low(b)[k]]
<1>5. ASSUME NEW k \in 1..n PROVE s[k] = x[k] + c[k - 1]
  <2>1. s[k] = Limb(a, k) + Limb(b, k) + (IF k = 1 THEN 0 ELSE s[k - 1] \div Base)
        BY <1>4, Zenon DEF AddSum
  <2>2. k - 1 \in 0..n /\ (k = 1 <=> k - 1 = 0)
        OBVIOUS
  <2>3. c[k - 1] = IF k = 1 THEN 0 ELSE s[k - 1] \div Base
    <3>1. c[k - 1] = IF k - 1 = 0 THEN 0 ELSE s[k - 1] \div Base
          BY <2>2, Zenon
    <3> QED
        BY <2>2, <3>1, Zenon
  <2> QED
      BY <2>1, <2>3, Zenon
<1>6. \A k \in 1..n : /\ c[k] = s[k] \div Base /\ c[k] \in Nat
                      /\ s[k] % Base \in LimbValues
                      /\ (s[k] % Base) + c[k] * Base = s[k]
  <2> SUFFICES ASSUME NEW k \in 1..n
               PROVE  /\ c[k] = s[k] \div Base /\ c[k] \in Nat
                      /\ s[k] % Base \in LimbValues
                      /\ (s[k] % Base) + c[k] * Base = s[k]
      OBVIOUS
  <2>1. PICK y \in Nat : y = s[k]
        BY <1>4
  <2>2. PICK d, m \in Nat : d = y \div Base /\ m = y % Base /\ m < Base /\ d * Base + m = y
        BY BaseSizes, Division
  <2>3. c[k] = s[k] \div Base
        OBVIOUS
  <2>4. m \in LimbValues
        BY <2>2, BaseSizes DEF LimbValues
  <2>5. m + d * Base = y
    <3>1. PICK u \in Nat : u = d * Base
          BY BaseSizes, Products
    <3> QED
        BY <2>2, <3>1
  <2> HIDE DEF c
  <2> QED
      BY <2>1, <2>2, <2>3, <2>4, <2>5, Zenon
<1>7. q \in Seq(LimbValues) /\ Len(q) = n /\ \A k \in 1..n : q[k] = s[k] % Base /\ Limb(q, k) = s[k] % Base
  <2> HIDE DEF c
  <2>1. q \in [1..n -> LimbValues]
        BY <1>6, Zenon
  <2>2. q \in Seq(LimbValues) /\ Len(q) = n /\ DOMAIN q = 1..n
    <3> HIDE DEF q
    <3> QED
        BY <2>1
  <2>3. \A k \in 1..n : q[k] = s[k] % Base
        OBVIOUS
  <2> HIDE DEF q
  <2> QED
      BY <2>2, <2>3, Zenon DEF Limb
<1>8. \A k \in 0..n : c[k] \in {0, 1}
  <2> DEFINE S == {k \in 0..n : c[k] \in {0, 1}}
  <2>1. 0 \in S
        OBVIOUS
  <2>2. ASSUME NEW k \in 0..(n - 1), k \in S PROVE k + 1 \in S
    <3>1. k + 1 \in 1..n /\ k + 1 \in 0..n /\ (k + 1) - 1 = k
          OBVIOUS
    <3>2. PICK e \in {0, 1} : e = c[k]
          BY <2>2, Zenon
    <3>3. PICK d \in Nat, m \in Nat, g \in Nat, h \in Nat :
             /\ d = c[k + 1] /\ m = s[k + 1] % Base /\ g = Limb(a, k + 1) /\ h = Limb(b, k + 1)
             /\ g <= Base - 1 /\ h <= Base - 1
      <4> HIDE DEF c
      <4>1. c[k + 1] \in Nat /\ s[k + 1] % Base \in LimbValues
            BY <3>1, <1>6, Zenon
      <4>2. s[k + 1] % Base \in Nat
            BY <4>1, BaseSizes DEF LimbValues
      <4> QED
          BY <4>1, <4>2, <1>1, DigitSeq, Zenon
    <3>4. m + d * Base = g + h + e
      <4>1. x[k + 1] = g + h
            BY <3>1, <3>3, Zenon
      <4>2. s[k + 1] = x[k + 1] + c[k]
        <5>1. s[k + 1] = x[k + 1] + c[(k + 1) - 1]
              BY <3>1, <1>5, Zenon
        <5> QED
            BY <5>1, <3>1, Zenon
      <4> HIDE DEF c, x
      <4> QED
          BY <4>1, <4>2, <3>1, <3>2, <3>3, <1>6, Zenon
    <3>5. d < 2
      <4>1. ASSUME d >= 2 PROVE FALSE
        <5>1. 2 * Base <= d * Base
              BY <4>1, ProductsGrow, BaseSizes
        <5>2. PICK u \in Nat : u = d * Base
              BY BaseSizes, Products
        <5>3. 2 * Base <= u /\ m + u = g + h + e
              BY <5>1, <5>2, <3>4, Zenon
        <5> HIDE DEF c
        <5> QED
            BY <5>3, <3>2, <3>3, BaseSizes
      <4> QED
          BY <4>1
    <3>6. d \in {0, 1}
          BY <3>5
    <3> HIDE DEF c
    <3> QED
        BY <3>1, <3>3, <3>6, Zenon
  <2>3. \A k \in 0..n : k \in S
    <3> HIDE DEF S
    <3> QED
        BY <2>1, <2>2, UpTo, Zenon
  <2> HIDE DEF c
  <2> QED
      BY <2>3, Zenon
<1>9. IsChain(q, c, x, X, n)
  <2>1. c[0] = 0
        OBVIOUS
  <2>2. X[0] = 0
    <3>1. Low(a)[0] = 0 /\ Low(b)[0] = 0
          BY <1>1, LowSteps, Zenon
    <3>2. X[0] = Low(a)[0] + Low(b)[0]
          OBVIOUS
    <3> HIDE DEF X
    <3> QED
        BY <3>1, <3>2
  <2>3. ASSUME NEW k \in 0..n PROVE c[k] \in Int /\ X[k] \in Int
    <3>1. c[k] \in Int
      <4> HIDE DEF c
      <4> QED
          BY <1>8
    <3>2. X[k] = Low(a)[k] + Low(b)[k] /\ k \in Nat
          OBVIOUS
    <3>3. Low(a)[k] \in Nat /\ Low(b)[k] \in Nat
          BY <3>2, <1>1, LowSteps, Zenon
    <3> HIDE DEF c, X
    <3> QED
        BY <3>1, <3>2, <3>3
  <2>4. ASSUME NEW k \in 1..n
        PROVE  /\ x[k] \in Int
               /\ X[k] = X[k - 1] + x[k] * Pow(Base, k - 1)
               /\ Limb(q, k) + c[k] * Base = x[k] + c[k - 1]
    <3>1. k - 1 \in Nat /\ (k - 1) + 1 = k /\ k - 1 \in 0..n /\ k \in 0..n
          OBVIOUS
    <3>2. PICK g, h, p, u, v \in Nat : g = Limb(a, k) /\ h = Limb(b, k) /\ p = Pow(Base, k - 1)
                                       /\ u = Low(a)[k - 1] /\ v = Low(b)[k - 1]
          BY <3>1, <1>1, DigitSeq, BasePowers, LowSteps
    <3>3. x[k] = g + h
          BY <3>2, Zenon
    <3>4. X[k - 1] = u + v
          BY <3>1, <3>2, Zenon
    <3>5. Low(a)[k] = u + g * p /\ Low(b)[k] = v + h * p
      <4>1. /\ Low(a)[(k - 1) + 1] = Low(a)[k - 1] + Limb(a, (k - 1) + 1) * Pow(Base, k - 1)
            /\ Low(b)[(k - 1) + 1] = Low(b)[k - 1] + Limb(b, (k - 1) + 1) * Pow(Base, k - 1)
            BY <3>1, <1>1, LowSteps, Zenon
      <4> QED
          BY <4>1, <3>1, <3>2, Zenon
    <3>6. X[k] = (u + g * p) + (v + h * p)
          BY <3>1, <3>5, Zenon
    <3>7. (u + g * p) + (v + h * p) = (u + v) + (g + h) * p
          BY Products
    <3>8. Limb(q, k) + c[k] * Base = x[k] + c[k - 1]
      <4> HIDE DEF q, c, x
      <4> QED
          BY <1>5, <1>6, <1>7, Zenon
    <3>9. g + h \in Int
          OBVIOUS
    <3> HIDE DEF q, c, x, X
    <3> QED
        BY <3>2, <3>3, <3>4, <3>6, <3>7, <3>8, <3>9, Zenon
  <2> HIDE DEF q, c, x, X
  <2> QED
      BY <2>1, <2>2, <2>3, <2>4, Zenon DEF IsChain
<1>10. Low(q)[n] + c[n] * Pow(Base, n) = Value(a) + Value(b)
  <2>1. X[n] = Value(a) + Value(b)
    <3>1. Low(a)[n] = Value(a) /\ Low(b)[n] = Value(b)
          BY <1>1, <1>2, ValueBound, Zenon
    <3>2. n \in 0..n
          OBVIOUS
    <3>3. X[n] = Low(a)[n] + Low(b)[n]
          BY <3>2, Zenon
    <3> HIDE DEF X
    <3> QED
        BY <3>1, <3>3, Zenon
  <2>2. q \in Seq(Nat)
    <3> HIDE DEF q
    <3> QED
        BY <1>7, DigitSeq, Zenon
  <2> HIDE DEF q, c, x, X
  <2>3. Low(q)[n] + c[n] * Pow(Base, n) = X[n]
        BY <2>2, <1>9, Chain, Zenon
  <2> QED
      BY <2>1, <2>3, Zenon
<1>11. s[n] = Limb(a, n) + Limb(b, n) + c[n - 1] /\ c[n - 1] \in {0, 1} /\ n \in 1..n
  <2>1. n \in 1..n /\ n - 1 \in 0..n
        BY <1>2
  <2>2. x[n] = Limb(a, n) + Limb(b, n)
        BY <2>1, Zenon
  <2> HIDE DEF c, x
  <2> QED
      BY <2>1, <2>2, <1>5, <1>8, Zenon
<1>12. Value(q) = Low(q)[n] /\ Value(q) \in Nat
  <2> HIDE DEF q
  <2> QED
      BY <1>7, ValueBound, Zenon
<1> HIDE DEF x, X
<1>13. PICK d, m, p, y \in Nat : d = c[n] /\ d \in {0, 1} /\ m = s[n] % Base /\ p = Pow(Base, n) /\ y = s[n]
                                 /\ d = y \div Base /\ m + d * Base = y /\ m < Base
  <2>1. n \in 0..n /\ n \in 1..n
        BY <1>11
  <2>2. s[n] \in Nat /\ s[n] % Base \in Nat /\ s[n] % Base < Base
        BY <2>1, <1>4, Division, BaseSizes
  <2>3. c[n] \in {0, 1} /\ c[n] = s[n] \div Base /\ (s[n] % Base) + c[n] * Base = s[n] /\ c[n] \in Nat
    <3> HIDE DEF c
    <3> QED
        BY <2>1, <1>6, <1>8, Zenon
  <2>4. Pow(Base, n) \in Nat
        BY BasePowers
  <2> HIDE DEF c
  <2> QED
      BY <2>2, <2>3, <2>4, Zenon
<1> HIDE DEF c
<1>14. CASE d = 0
  <2>1. y < Base /\ ~(s[n] >= Base) /\ m = y
    <3>1. m = y /\ ~(y >= Base) /\ y < Base
      <4>1. m + 0 * Base = y /\ m < Base
            BY <1>13, <1>14, Zenon
      <4> QED
          BY <4>1, BaseSizes
    <3> QED
        BY <3>1, <1>13, Zenon
  <2>2. BigAdd(a, b) = q
    <3>1. BigAdd(a, b) = q \o <<>>
          BY <2>1, <1>4, Zenon
    <3> HIDE DEF q
    <3> QED
        BY <3>1, <1>7
  <2>3. Value(q) = Value(a) + Value(b)
    <3>1. Value(q) + d * p = Value(a) + Value(b)
      <4> HIDE DEF q
      <4> QED
          BY <1>10, <1>12, <1>13, Zenon
    <3>2. d * p = 0
          BY <1>14
    <3> HIDE DEF q
    <3> QED
        BY <3>1, <3>2, <1>12
  <2>4. IsBig(q)
    <3>1. n > 1 => q[n] # 0
      <4>1. q[n] = y
        <5> HIDE DEF q
        <5> QED
            BY <2>1, <1>7, <1>11, <1>13, Zenon
      <4>2. n > 1 => y > 0
        <5>1. PICK g, h \in Nat : g = Limb(a, n) /\ h = Limb(b, n)
              BY <1>1, DigitSeq
        <5>2. PICK e \in {0, 1} : e = c[n - 1]
              BY <1>11, Zenon
        <5>3. y = g + h + e
              BY <5>1, <5>2, <1>11, <1>13, Zenon
        <5>4. n > 1 => g > 0 \/ h > 0
              BY <5>1, <1>2, Zenon
        <5> QED
            BY <5>3, <5>4
      <4> HIDE DEF q
      <4> QED
          BY <4>1, <4>2
    <3>2. q # <<>>
      <4> HIDE DEF q
      <4> QED
          BY <1>2, <1>7
    <3> HIDE DEF q
    <3> QED
        BY <3>1, <3>2, <1>7, Zenon DEF IsBig, LimbValues
  <2> HIDE DEF q
  <2> QED
      BY <2>2, <2>3, <2>4, Zenon
<1>15. CASE d = 1
  <2>1. s[n] >= Base /\ 1 \in LimbValues
    <3>1. y >= Base
      <4>1. m + 1 * Base = y
            BY <1>13, <1>15, Zenon
      <4> QED
          BY <4>1, BaseSizes
    <3>2. 1 \in LimbValues
          BY BaseSizes DEF LimbValues
    <3> QED
        BY <3>1, <3>2, <1>13, Zenon
  <2>2. BigAdd(a, b) = q \o <<1>>
        BY <2>1, <1>4, <1>13, <1>15, Zenon
  <2>3. q \o <<1>> \in Seq(LimbValues) /\ Value(q \o <<1>>) = Value(q) + 1 * p
    <3> HIDE DEF q
    <3> QED
        BY <2>1, <1>7, <1>13, ValueAppend, Zenon
  <2>4. Value(q) + 1 * p = Value(a) + Value(b)
    <3> HIDE DEF q
    <3> QED
        BY <1>10, <1>12, <1>13, <1>15, Zenon
  <2>5. IsBig(q \o <<1>>)
    <3>1. PICK r : r = q \o <<1>>
          OBVIOUS
    <3>2. Len(r) = n + 1 /\ r[n + 1] = 1 /\ r # <<>>
      <4> HIDE DEF q
      <4> QED
          BY <3>1, <1>7
    <3>3. r[Len(r)] # 0
          BY <3>2
    <3> HIDE DEF q
    <3> QED
        BY <3>1, <3>2, <3>3, <2>3, Zenon DEF IsBig, LimbValues
  <2> HIDE DEF q
  <2> QED
      BY <2>2, <2>3, <2>4, <2>5, Zenon
<1> QED
    BY <1>13, <1>14, <1>15

----------------------------------------------------------------------------
(* Limbs without zeros on top.  *)
LEMMA HasTop ==
    ASSUME NEW n \in Nat, NEW S, S \subseteq 1..n, S # {}
    PROVE  \E k \in S : \A j \in S : j <= k
<1> DEFINE T == {m \in 0..n : S \cap (1..m) # {} => \E k \in S \cap (1..m) : \A j \in S \cap (1..m) :
             j <= k}
<1>1. 0 \in T
    OBVIOUS
<1>2. ASSUME NEW m \in 0..(n - 1), m \in T PROVE m + 1 \in T
  <2>1. m + 1 \in 0..n
        OBVIOUS
  <2>2. CASE m + 1 \in S
        BY <2>1, <2>2
  <2>3. CASE m + 1 \notin S
    <3>1. S \cap (1..(m + 1)) = S \cap (1..m)
          BY <2>3
    <3> QED
        BY <2>1, <3>1, <1>2
  <2> QED
      BY <2>2, <2>3
<1>3. n \in T
  <2> HIDE DEF T
  <2>1. \A m \in 0..n : m \in T
        BY <1>1, <1>2, UpTo
  <2> QED
      BY <2>1
<1>4. S \cap (1..n) = S
    OBVIOUS
<1> QED
    BY <1>3, <1>4

SameFrom(a, b, t, d) == \A k \in 1..d : Limb(a, t + k) = Limb(b, t + k)

RiseSame(a, b, t, n) == Low(a)[n] - Low(a)[t] = Low(b)[n] - Low(b)[t]

LEMMA SameAbove ==
    ASSUME NEW a, NEW b, a \in Seq(Nat), b \in Seq(Nat), NEW t \in Nat, NEW d \in Nat, SameFrom(a, b, t, d)
    PROVE  RiseSame(a, b, t, t + d)
<1> DEFINE S == {k \in 0..d : Low(a)[t + k] - Low(a)[t] = Low(b)[t + k] - Low(b)[t]}
<1>1. 0 \in S
  <2>1. t + 0 = t /\ 0 \in 0..d
        OBVIOUS
  <2>2. PICK x, y \in Nat : x = Low(a)[t] /\ y = Low(b)[t]
        BY LowSteps
  <2>3. x - x = y - y
        OBVIOUS
  <2> QED
      BY <2>1, <2>2, <2>3, Zenon
<1>2. ASSUME NEW k \in 0..(d - 1), k \in S PROVE k + 1 \in S
  <2>1. PICK n \in Nat : n = t + k /\ n + 1 = t + (k + 1) /\ k + 1 \in 1..d /\ k + 1 \in 0..d
    <3>1. t + k \in Nat /\ (t + k) + 1 = t + (k + 1) /\ k + 1 \in 1..d /\ k + 1 \in 0..d
          OBVIOUS
    <3> QED
        BY <3>1
  <2>2. PICK g, p, u, v, x, y \in Nat : g = Limb(a, n + 1) /\ g = Limb(b, n + 1) /\ p = Pow(Base, n)
                        /\ u = Low(a)[n] /\ v = Low(b)[n] /\ x = Low(a)[t] /\ y = Low(b)[t]
    <3>0. \A j \in 1..d : Limb(a, t + j) = Limb(b, t + j)
          BY Zenon DEF SameFrom
    <3>1. Limb(a, n + 1) = Limb(b, n + 1) /\ Limb(a, n + 1) \in Nat
          BY <3>0, <2>1, LimbType
    <3>2. Pow(Base, n) \in Nat /\ Low(a)[n] \in Nat /\ Low(b)[n] \in Nat /\ Low(a)[t] \in Nat
            /\ Low(b)[t] \in Nat
          BY LowSteps, BasePowers, Zenon
    <3> QED
        BY <3>1, <3>2, Zenon
  <2>3. Low(a)[n + 1] = u + g * p /\ Low(b)[n + 1] = v + g * p
    <3>1. /\ Low(a)[n + 1] = Low(a)[n] + Limb(a, n + 1) * Pow(Base, n)
          /\ Low(b)[n + 1] = Low(b)[n] + Limb(b, n + 1) * Pow(Base, n)
          BY LowSteps, Zenon
    <3> QED
        BY <2>2, <3>1, Zenon
  <2>4. u - x = v - y
        BY <1>2, <2>1, <2>2, Zenon
  <2>5. PICK z \in Nat : z = g * p
        BY Products
  <2>6. (u + z) - x = (v + z) - y
        BY <2>4
  <2> QED
      BY <2>1, <2>2, <2>3, <2>5, <2>6, Zenon
<1>3. d \in S
  <2> HIDE DEF S
  <2>1. \A k \in 0..d : k \in S
        BY <1>1, <1>2, UpTo
  <2> QED
      BY <2>1
<1> QED
    BY <1>3, Zenon DEF RiseSame

(* The limbs below a place are worth less than one there.  *)
LEMMA TopOrder ==
    ASSUME NEW a, NEW b, a \in Seq(LimbValues), b \in Seq(LimbValues),
           NEW n \in Nat, Len(a) <= n, Len(b) <= n,
           NEW t \in 1..n, Limb(a, t) < Limb(b, t), \A k \in (t + 1)..n : Limb(a, k) = Limb(b, k)
    PROVE  Value(a) < Value(b)
<1>0. a \in Seq(Nat) /\ b \in Seq(Nat)
    BY DigitSeq
<1>1. PICK m \in Nat : m = t - 1 /\ m + 1 = t
    OBVIOUS
<1>2. PICK g, h, p, u, v \in Nat : g = Limb(a, t) /\ h = Limb(b, t) /\ p = Pow(Base, m)
                                   /\ u = Low(a)[m] /\ v = Low(b)[m] /\ u < p /\ g < h
    BY <1>0, DigitSeq, BasePowers, LowSteps, LowBound
<1>3. Low(a)[t] = u + g * p /\ Low(b)[t] = v + h * p
  <2>1. /\ Low(a)[m + 1] = Low(a)[m] + Limb(a, m + 1) * Pow(Base, m)
        /\ Low(b)[m + 1] = Low(b)[m] + Limb(b, m + 1) * Pow(Base, m)
        BY <1>0, LowSteps, Zenon
  <2> QED
      BY <1>1, <1>2, <2>1, Zenon
<1>4. PICK x, y \in Nat : x = Low(a)[t] /\ y = Low(b)[t] /\ x < y
  <2>1. (g + 1) * p <= h * p
    <3>1. PICK e \in Int : e = g + 1
          OBVIOUS
    <3>2. e <= h /\ h \in Int /\ p \in Nat
          BY <3>1, <1>2
    <3>3. e * p <= h * p
          BY <3>2, ProductsGrow, Zenon
    <3> QED
        BY <3>1, <3>3, Zenon
  <2>2. (g + 1) * p = g * p + p
        BY Products
  <2>3. PICK e, f \in Nat : e = g * p /\ f = h * p
        BY Products
  <2>4. e + p <= f /\ u < p
        BY <1>2, <2>1, <2>2, <2>3, Zenon
  <2>5. u + e < v + f
        BY <2>4
  <2>6. Low(a)[t] = u + e /\ Low(b)[t] = v + f
        BY <1>3, <2>3, Zenon
  <2> QED
      BY <2>5, <2>6
<1>5. Low(a)[n] - Low(a)[t] = Low(b)[n] - Low(b)[t]
  <2>1. PICK d \in Nat : t + d = n /\ \A k \in 1..d : t + k \in (t + 1)..n
    <3>1. n - t \in Nat /\ t + (n - t) = n /\ \A k \in 1..(n - t) : t + k \in (t + 1)..n
          OBVIOUS
    <3> QED
        BY <3>1
  <2>2. \A k \in 1..d : Limb(a, t + k) = Limb(b, t + k)
        BY <2>1
  <2>3. t \in Nat /\ SameFrom(a, b, t, d)
        BY <2>2 DEF SameFrom
  <2>4. RiseSame(a, b, t, t + d)
        BY <1>0, <2>3, SameAbove, Zenon
  <2> QED
      BY <2>1, <2>4, Zenon DEF RiseSame
<1>6. PICK r, s \in Nat : r = Low(a)[n] /\ s = Low(b)[n] /\ r = Value(a) /\ s = Value(b)
    BY <1>0, LowSteps, ValueBound
<1>7. r - x = s - y
    BY <1>4, <1>5, <1>6, Zenon
<1> QED
    BY <1>4, <1>6, <1>7

LEMMA LengthOrder ==
    ASSUME NEW a, NEW b, IsBig(a), IsBig(b), Len(a) < Len(b)
    PROVE  Value(a) < Value(b)
<1>1. PICK n \in Nat : n = Len(b) /\ Len(a) <= n /\ Len(b) <= n /\ n \in 1..n /\ n > 1
    BY BigFacts
<1>2. /\ a \in Seq(LimbValues) /\ b \in Seq(LimbValues) /\ b[n] # 0
    BY <1>1, BigFacts, Zenon
<1>3. Limb(a, n) < Limb(b, n)
  <2>1. Limb(a, n) = 0
        BY <1>1, <1>2 DEF Limb
  <2>2. Limb(b, n) = b[n]
        BY <1>1, <1>2 DEF Limb
  <2>3. Limb(b, n) \in Nat
        BY <1>2, DigitSeq, Zenon
  <2> QED
      BY <2>1, <2>2, <2>3, <1>2
<1>4. \A k \in (n + 1)..n : Limb(a, k) = Limb(b, k)
    OBVIOUS
<1> QED
    BY <1>1, <1>2, <1>3, <1>4, TopOrder, Zenon

LEMMA CmpValue ==
    ASSUME NEW a, NEW b, IsBig(a), IsBig(b)
    PROVE  /\ BigCmp(a, b) \in {-1, 0, 1}
           /\ BigCmp(a, b) = -1 <=> Value(a) < Value(b)
           /\ BigCmp(a, b) = 0 <=> Value(a) = Value(b)
           /\ BigCmp(a, b) = 1 <=> Value(b) < Value(a)
<1>1. /\ a \in Seq(LimbValues) /\ b \in Seq(LimbValues) /\ Value(a) \in Nat /\ Value(b) \in Nat
      /\ Len(a) \in Nat /\ Len(b) \in Nat
    BY BigFacts, ValueBound, Zenon
<1>2. CASE Len(a) # Len(b)
  <2>1. BigCmp(a, b) = IF Len(a) < Len(b) THEN -1 ELSE 1
        BY <1>2, Zenon DEF BigCmp
  <2>2. CASE Len(a) < Len(b)
    <3>1. Value(a) < Value(b)
          BY <2>2, LengthOrder, Zenon
    <3> QED
        BY <2>1, <2>2, <3>1, <1>1
  <2>3. CASE Len(b) < Len(a)
    <3>1. Value(b) < Value(a)
          BY <2>3, LengthOrder, Zenon
    <3> QED
        BY <2>1, <2>3, <3>1, <1>1
  <2> QED
      BY <1>1, <1>2, <2>2, <2>3
<1>3. CASE Len(a) = Len(b)
  <2>1. PICK n \in Nat : n = Len(a) /\ n = Len(b) /\ DOMAIN a = 1..n /\ DOMAIN b = 1..n
        BY <1>1, <1>3
  <2> DEFINE differ == {k \in DOMAIN a : a[k] # b[k]}
             top == CHOOSE k \in differ : \A j \in differ : j <= k
  <2>2. BigCmp(a, b) = IF differ = {} THEN 0 ELSE IF a[top] < b[top] THEN -1 ELSE 1
        BY <1>3, Zenon DEF BigCmp
  <2>3. CASE differ = {}
    <3>1. \A k \in 1..Len(a) : a[k] = b[k]
          BY <2>1, <2>3, Zenon
    <3>2. a = b
          BY <3>1, <1>1, <1>3, SeqEqual, Zenon
    <3>3. BigCmp(a, b) = 0
          BY <2>2, <2>3, Zenon
    <3>4. Value(a) = Value(b)
          BY <3>2, Zenon
    <3> QED
        BY <3>3, <3>4, <1>1
  <2>4. CASE differ # {}
    <3>1. differ \subseteq 1..n
          BY <2>1, Zenon
    <3>2. PICK t : t = top
          OBVIOUS
    <3>3. t \in differ /\ \A j \in differ : j <= t
      <4>1. \E k \in differ : \A j \in differ : j <= k
        <5> HIDE DEF differ
        <5> QED
            BY <2>4, <3>1, HasTop, Zenon
      <4> HIDE DEF differ
      <4> QED
          BY <3>2, <4>1, Zenon
    <3>4. BigCmp(a, b) = IF a[t] < b[t] THEN -1 ELSE 1
          BY <2>2, <2>4, <3>2, Zenon
    <3>5. t \in 1..n /\ a[t] # b[t] /\ \A k \in (t + 1)..n : a[k] = b[k]
      <4>1. t \in 1..n /\ a[t] # b[t]
            BY <3>3, <2>1, Zenon
      <4>2. ASSUME NEW k \in (t + 1)..n PROVE a[k] = b[k]
        <5>1. k \in 1..n /\ ~(k <= t)
              BY <4>1
        <5>2. k \notin differ
              BY <5>1, <3>3, Zenon
        <5> QED
            BY <5>1, <5>2, <2>1, Zenon
      <4> QED
          BY <4>1, <4>2, Zenon
    <3>6. Limb(a, t) = a[t] /\ Limb(b, t) = b[t] /\ \A k \in (t + 1)..n : Limb(a, k) = Limb(b, k)
      <4>1. \A k \in (t + 1)..n : k \in 1..n
            BY <3>5
      <4> QED
          BY <4>1, <3>5, <2>1, Zenon DEF Limb
    <3>7. PICK g, h \in Nat : g = Limb(a, t) /\ h = Limb(b, t)
          BY <1>1, DigitSeq
    <3>8. Len(a) <= n /\ Len(b) <= n
          BY <2>1
    <3> HIDE DEF differ, top
    <3>9. CASE g < h
      <4>1. Value(a) < Value(b)
            BY <3>9, <3>5, <3>6, <3>7, <3>8, <1>1, TopOrder, Zenon
      <4>2. BigCmp(a, b) = -1
            BY <3>4, <3>6, <3>7, <3>9, Zenon
      <4> QED
          BY <4>1, <4>2, <1>1
    <3>10. CASE h < g
      <4>1. Value(b) < Value(a)
            BY <3>10, <3>5, <3>6, <3>7, <3>8, <1>1, TopOrder, Zenon
      <4>2. BigCmp(a, b) = 1
        <5>1. ~(g < h)
              BY <3>10
        <5> QED
            BY <5>1, <3>4, <3>6, <3>7, Zenon
      <4> QED
          BY <4>1, <4>2, <1>1
    <3>11. g < h \/ h < g
      <4>1. g # h
            BY <3>5, <3>6, <3>7, Zenon
      <4> QED
          BY <4>1
    <3> QED
        BY <3>9, <3>10, <3>11
  <2> QED
      BY <2>3, <2>4, Zenon
<1> QED
    BY <1>2, <1>3

LEMMA NormalValue ==
    ASSUME NEW a, a \in Seq(LimbValues)
    PROVE  IsBig(Normal(a)) /\ Value(Normal(a)) = Value(a)
<1>1. PICK n \in Nat : n = Len(a) /\ DOMAIN a = 1..n
    OBVIOUS
<1>0. a \in Seq(Nat) /\ 0 \in LimbValues /\ 0 \in Nat
    BY DigitSeq, BaseSizes DEF LimbValues
<1> DEFINE used == {k \in DOMAIN a : a[k] # 0}
           top == CHOOSE k \in used : \A j \in used : j <= k
<1>2. Normal(a) = IF used = {} THEN <<0>> ELSE SubSeq(a, 1, top)
    BY Zenon DEF Normal
<1>3. CASE used = {}
  <2>1. PICK z : z = <<0>>
        OBVIOUS
  <2>2. z \in Seq(LimbValues) /\ z \in Seq(Nat) /\ Len(z) = 1 /\ z[1] = 0 /\ z # <<>> /\ DOMAIN z = 1..1
        BY <2>1, <1>0
  <2>3. \A k \in 1..n : a[k] = 0
        BY <1>1, <1>3, Zenon
  <2>4. \A k : Limb(a, k) = 0 /\ Limb(z, k) = 0
        BY <1>1, <2>2, <2>3 DEF Limb
  <2>5. Low(a)[n + 1] = Low(z)[n + 1]
    <3>1. n + 1 \in Nat
          OBVIOUS
    <3>2. \A k \in 1..(n + 1) : Limb(a, k) = Limb(z, k)
          BY <2>4, Zenon
    <3> QED
        BY <3>1, <3>2, <2>2, <1>0, LowEqual, Zenon
  <2>6. Low(a)[n + 1] = Value(a) /\ Low(z)[n + 1] = Value(z)
    <3>1. n + 1 \in Nat /\ Len(a) <= n + 1 /\ Len(z) <= n + 1
          BY <1>1, <2>2
    <3> QED
        BY <3>1, <2>2, ValueBound, Zenon
  <2>7. IsBig(z)
    <3>1. ~(Len(z) > 1)
          BY <2>2
    <3> QED
        BY <3>1, <2>2, Zenon DEF IsBig, LimbValues
  <2>8. Normal(a) = z
        BY <1>2, <1>3, <2>1, Zenon
  <2> QED
      BY <2>5, <2>6, <2>7, <2>8, Zenon
<1>4. CASE used # {}
  <2>1. used \subseteq 1..n
        BY <1>1, Zenon
  <2>2. PICK t : t = top
        OBVIOUS
  <2>3. t \in used /\ \A j \in used : j <= t
    <3>1. \E k \in used : \A j \in used : j <= k
      <4> HIDE DEF used
      <4> QED
          BY <1>4, <2>1, HasTop, Zenon
    <3> HIDE DEF used
    <3> QED
        BY <2>2, <3>1, Zenon
  <2>4. t \in 1..n /\ a[t] # 0 /\ \A k \in 1..n : ~(k <= t) => a[k] = 0
        BY <2>3, <1>1, Zenon
  <2>5. PICK z : z = SubSeq(a, 1, t)
        OBVIOUS
  <2>6. z \in Seq(LimbValues) /\ Len(z) = t /\ DOMAIN z = 1..t /\ \A k \in 1..t : z[k] = a[k]
        BY <1>1, <2>4, <2>5
  <2>7. Normal(a) = z
        BY <1>2, <1>4, <2>2, <2>5, Zenon
  <2>8. \A k \in 1..n : Limb(a, k) = Limb(z, k)
    <3> SUFFICES ASSUME NEW k \in 1..n PROVE Limb(a, k) = Limb(z, k)
        OBVIOUS
    <3>1. Limb(a, k) = a[k]
          BY <1>1, Zenon DEF Limb
    <3>2. CASE k <= t
      <4>1. k \in 1..t
            BY <2>4, <3>2
      <4> QED
          BY <4>1, <3>1, <2>6, Zenon DEF Limb
    <3>3. CASE ~(k <= t)
      <4>1. k \notin 1..t
            BY <2>4, <3>3
      <4> QED
          BY <4>1, <3>1, <3>3, <2>4, <2>6, Zenon DEF Limb
    <3> QED
        BY <3>2, <3>3
  <2>9. Low(a)[n] = Low(z)[n]
        BY <1>0, <2>6, <2>8, DigitSeq, LowEqual, Zenon
  <2>10. Low(a)[n] = Value(a) /\ Low(z)[n] = Value(z)
    <3>1. Len(a) <= n /\ Len(z) <= n
          BY <1>1, <2>4, <2>6
    <3> QED
        BY <3>1, <2>6, ValueBound, Zenon
  <2>11. IsBig(z)
    <3>1. z[Len(z)] # 0 /\ z # <<>>
          BY <2>4, <2>6
    <3> QED
        BY <3>1, <2>6, Zenon DEF IsBig, LimbValues
  <2> HIDE DEF used, top
  <2> QED
      BY <2>7, <2>9, <2>10, <2>11, Zenon
<1> QED
    BY <1>3, <1>4, Zenon

----------------------------------------------------------------------------
(* bigSub.  *)
Diff(a, b, s, k) == Limb(a, k) - Limb(b, k) - (IF k > 1 /\ s[k - 1] < 0 THEN 1 ELSE 0)

IsDiff(s, n, a, b) ==
    /\ \A k \in 1..n : s[k] \in Int /\ s[k] = Diff(a, b, s, k)
    /\ BigSub(a, b) = Normal([k \in 1..n |-> s[k] % Base])

LEMMA SubRuns ==
    ASSUME NEW a, NEW b, a \in Seq(LimbValues), b \in Seq(LimbValues)
    PROVE  \E s : IsDiff(s, Longest(a, b), a, b)
<1> DEFINE n == Longest(a, b)
           Eq(s) == s = [k \in 1..n |-> Limb(a, k) - Limb(b, k) - (IF k > 1 /\ s[k - 1] < 0 THEN 1 ELSE 0)]
           f == CHOOSE s : Eq(s)
           step == [k \in 1..n |-> [x \in Int |-> Limb(a, k) - Limb(b, k) - (IF x < 0 THEN 1 ELSE 0)]]
<1>0. n \in Nat
    BY DEF Longest
<1>a. BigSub(a, b) = Normal([k \in 1..n |-> f[k] % Base])
    BY Zenon DEF BigSub
<1> HIDE DEF n
<1>l. \A k : Limb(a, k) \in Int /\ Limb(b, k) \in Int
    BY DigitSeq
<1>1. step \in [1..n -> [Int -> Int]] /\ 0 \in Int
    BY <1>l
<1>2. \A k \in 1..n : \A x \in Int : step[k][x] = Limb(a, k) - Limb(b, k) - (IF x < 0 THEN 1 ELSE 0)
    OBVIOUS
<1>3. PICK s : /\ s \in [1..n -> Int]
               /\ \A k \in 1..n : /\ (IF k = 1 THEN 0 ELSE s[k - 1]) \in Int
                                  /\ s[k] = step[k][IF k = 1 THEN 0 ELSE s[k - 1]]
  <2> HIDE DEF step
  <2>1. \E s : Carries(s, n, Int, 0, step)
        BY <1>0, <1>1, CarryRun, Zenon
  <2> QED
      BY <2>1, Zenon DEF Carries
<1>4. ASSUME NEW k \in 1..n PROVE s[k] = Limb(a, k) - Limb(b, k) - (IF k > 1 /\ s[k - 1] < 0 THEN 1 ELSE 0)
  <2>1. s[k] = Limb(a, k) - Limb(b, k) - (IF (IF k = 1 THEN 0 ELSE s[k - 1]) < 0 THEN 1 ELSE 0)
    <3> HIDE DEF step
    <3> QED
        BY <1>2, <1>3, Zenon
  <2>2. (IF k = 1 THEN 0 ELSE s[k - 1]) < 0 <=> k > 1 /\ s[k - 1] < 0
    <3>1. CASE k = 1
          BY <3>1
    <3>2. CASE k # 1
      <4>1. k > 1
            BY <1>0, <3>2
      <4> QED
          BY <4>1, <3>2, Zenon
    <3> QED
        BY <3>1, <3>2
  <2> QED
      BY <2>1, <2>2, Zenon
<1>5. Eq(s)
  <2>1. s = [k \in 1..n |-> s[k]]
        BY <1>3
  <2> QED
      BY <1>4, <2>1, Zenon
<1>6. Eq(f)
  <2> HIDE DEF Eq
  <2> QED
      BY <1>5, Zenon
<1> HIDE DEF f
<1>7. ASSUME NEW k \in 1..n PROVE f[k] = Limb(a, k) - Limb(b, k) - (IF k > 1 /\ f[k - 1] < 0 THEN 1 ELSE 0)
    BY <1>6, Zenon
<1>8. \A k \in 1..n : f[k] \in Int
  <2> SUFFICES ASSUME NEW k \in 1..n PROVE f[k] \in Int
      OBVIOUS
  <2>1. PICK e \in Int : e = IF k > 1 /\ f[k - 1] < 0 THEN 1 ELSE 0
        OBVIOUS
  <2>2. f[k] = Limb(a, k) - Limb(b, k) - e
        BY <2>1, <1>7, Zenon
  <2> QED
      BY <2>2, <1>l
<1> QED
    BY <1>a, <1>7, <1>8, Zenon DEF Diff, IsDiff, n

LEMMA SubValue ==
    ASSUME NEW a, NEW b, IsBig(a), IsBig(b), Value(b) <= Value(a)
    PROVE  IsBig(BigSub(a, b)) /\ Value(BigSub(a, b)) = Value(a) - Value(b)
<1>1. /\ a \in Seq(LimbValues) /\ b \in Seq(LimbValues) /\ a \in Seq(Nat) /\ b \in Seq(Nat)
    BY BigFacts, Zenon
<1>2. PICK n \in Nat : n = Longest(a, b) /\ n >= 1 /\ n >= Len(a) /\ n >= Len(b)
    BY LongestFacts
<1>3. PICK s : IsDiff(s, n, a, b)
    BY <1>1, <1>2, SubRuns, Zenon
<1>4. /\ \A k \in 1..n : s[k] \in Int /\ s[k] = Diff(a, b, s, k)
      /\ BigSub(a, b) = Normal([k \in 1..n |-> s[k] % Base])
    BY <1>3, Zenon DEF IsDiff
<1> DEFINE q == [k \in 1..n |-> s[k] % Base]
           c == [k \in 0..n |-> IF k > 0 /\ s[k] < 0 THEN -1 ELSE 0]
           x == [k \in 1..n |-> Limb(a, k) - Limb(b, k)]
           X == [k \in 0..n |-> Low(a)[k] - Low(b)[k]]
<1>5. \A k \in 0..n : c[k] \in {-1, 0}
    OBVIOUS
<1>6. ASSUME NEW k \in 1..n
      PROVE  /\ x[k] \in Int
             /\ s[k] = x[k] + c[k - 1]
             /\ s[k] % Base \in LimbValues
             /\ (s[k] % Base) + c[k] * Base = s[k]
  <2>1. k - 1 \in 0..n /\ (k > 1 <=> k - 1 > 0) /\ k > 0 /\ k \in 0..n
        OBVIOUS
  <2>2. PICK g, h \in Nat : g = Limb(a, k) /\ h = Limb(b, k) /\ g <= Base - 1 /\ h <= Base - 1
        BY <1>1, DigitSeq
  <2>3. PICK e \in {-1, 0} : e = c[k - 1]
        BY <2>1, <1>5
  <2>4. PICK y \in Int : y = s[k]
        BY <1>4
  <2>5. y = g - h + e
    <3>1. c[k - 1] = IF k - 1 > 0 /\ s[k - 1] < 0 THEN -1 ELSE 0
          BY <2>1, Zenon
    <3>2. PICK z \in {0, 1} : z = IF k > 1 /\ s[k - 1] < 0 THEN 1 ELSE 0
          OBVIOUS
    <3>3. s[k] = Limb(a, k) - Limb(b, k) - z
          BY <3>2, <1>4, Zenon DEF Diff
    <3>4. e = -z
      <4> HIDE DEF c
      <4>1. CASE k > 1 /\ s[k - 1] < 0
            BY <4>1, <3>1, <3>2, <2>1, <2>3
      <4>2. CASE ~(k > 1 /\ s[k - 1] < 0)
            BY <4>2, <3>1, <3>2, <2>1, <2>3
      <4> QED
          BY <4>1, <4>2
    <3>5. y = g - h - z
          BY <3>3, <2>2, <2>4, Zenon
    <3> QED
        BY <3>4, <3>5
  <2>6. x[k] = g - h
        BY <2>2, Zenon
  <2>7. c[k] = IF y < 0 THEN -1 ELSE 0
    <3>1. c[k] = IF k > 0 /\ s[k] < 0 THEN -1 ELSE 0
          BY <2>1, Zenon
    <3> HIDE DEF c
    <3> QED
        BY <3>1, <2>1, <2>4, Zenon
  <2>8. y % Base \in LimbValues /\ (y % Base) + c[k] * Base = y
    <3>1. CASE y < 0
      <4>1. PICK r \in Nat : r = y + Base /\ r < Base
            BY <2>2, <2>5, <3>1, BaseSizes
      <4>2. y = (-1) * Base + r
            BY <4>1, BaseSizes
      <4>3. y % Base = r
        <5>1. -1 \in Int /\ Base > 0
              BY BaseSizes
        <5> QED
            BY <5>1, <4>1, <4>2, Quotient, BaseSizes
      <4>4. r \in LimbValues
            BY <4>1, BaseSizes DEF LimbValues
      <4>5. r + (-1) * Base = y
            BY <4>1, BaseSizes
      <4> HIDE DEF c
      <4> QED
          BY <2>7, <3>1, <4>3, <4>4, <4>5, Zenon
    <3>2. CASE ~(y < 0)
      <4>1. y \in Nat /\ y < Base
            BY <2>2, <2>5, <3>2, BaseSizes
      <4>2. y = 0 * Base + y
            BY <4>1, BaseSizes
      <4>3. y % Base = y
        <5>1. 0 \in Int /\ Base > 0
              BY BaseSizes
        <5> QED
            BY <5>1, <4>1, <4>2, Quotient, BaseSizes
      <4>4. y \in LimbValues
            BY <4>1, BaseSizes DEF LimbValues
      <4>5. y + 0 * Base = y
            BY <4>1, BaseSizes
      <4> HIDE DEF c
      <4> QED
          BY <2>7, <3>2, <4>3, <4>4, <4>5, Zenon
    <3> QED
        BY <3>1, <3>2
  <2>9. g - h \in Int
        OBVIOUS
  <2> HIDE DEF c, x
  <2> QED
      BY <2>3, <2>4, <2>5, <2>6, <2>8, <2>9, Zenon
<1>7. q \in Seq(LimbValues) /\ Len(q) = n /\ \A k \in 1..n : q[k] = s[k] % Base /\ Limb(q, k) = s[k] % Base
  <2> HIDE DEF c
  <2>1. q \in [1..n -> LimbValues]
        BY <1>6, Zenon
  <2>2. q \in Seq(LimbValues) /\ Len(q) = n /\ DOMAIN q = 1..n
    <3> HIDE DEF q
    <3> QED
        BY <2>1
  <2>3. \A k \in 1..n : q[k] = s[k] % Base
        OBVIOUS
  <2> HIDE DEF q
  <2> QED
      BY <2>2, <2>3, Zenon DEF Limb
<1>9. IsChain(q, c, x, X, n)
  <2>1. c[0] = 0
    <3>1. ~(0 > 0) /\ 0 \in 0..n
          OBVIOUS
    <3> QED
        BY <3>1, Zenon
  <2>2. X[0] = 0
    <3>1. Low(a)[0] = 0 /\ Low(b)[0] = 0
          BY <1>1, LowSteps, Zenon
    <3>2. X[0] = Low(a)[0] - Low(b)[0]
          OBVIOUS
    <3> HIDE DEF X
    <3> QED
        BY <3>1, <3>2
  <2>3. ASSUME NEW k \in 0..n PROVE c[k] \in Int /\ X[k] \in Int
    <3>1. c[k] \in Int
      <4> HIDE DEF c
      <4> QED
          BY <1>5
    <3>2. X[k] = Low(a)[k] - Low(b)[k] /\ k \in Nat
          OBVIOUS
    <3>3. Low(a)[k] \in Nat /\ Low(b)[k] \in Nat
          BY <3>2, <1>1, LowSteps, Zenon
    <3> HIDE DEF c, X
    <3> QED
        BY <3>1, <3>2, <3>3
  <2>4. ASSUME NEW k \in 1..n
        PROVE  /\ x[k] \in Int
               /\ X[k] = X[k - 1] + x[k] * Pow(Base, k - 1)
               /\ Limb(q, k) + c[k] * Base = x[k] + c[k - 1]
    <3>1. k - 1 \in Nat /\ (k - 1) + 1 = k /\ k - 1 \in 0..n /\ k \in 0..n
          OBVIOUS
    <3>2. PICK g, h, p, u, v \in Nat : g = Limb(a, k) /\ h = Limb(b, k) /\ p = Pow(Base, k - 1)
                                       /\ u = Low(a)[k - 1] /\ v = Low(b)[k - 1]
          BY <3>1, <1>1, DigitSeq, BasePowers, LowSteps
    <3>3. x[k] = g - h
          BY <3>2, Zenon
    <3>4. X[k - 1] = u - v
          BY <3>1, <3>2, Zenon
    <3>5. Low(a)[k] = u + g * p /\ Low(b)[k] = v + h * p
      <4>1. /\ Low(a)[(k - 1) + 1] = Low(a)[k - 1] + Limb(a, (k - 1) + 1) * Pow(Base, k - 1)
            /\ Low(b)[(k - 1) + 1] = Low(b)[k - 1] + Limb(b, (k - 1) + 1) * Pow(Base, k - 1)
            BY <3>1, <1>1, LowSteps, Zenon
      <4> QED
          BY <4>1, <3>1, <3>2, Zenon
    <3>6. X[k] = (u + g * p) - (v + h * p)
          BY <3>1, <3>5, Zenon
    <3>7. (u + g * p) - (v + h * p) = (u - v) + (g - h) * p
      <4>1. (g - h) * p = g * p - h * p
            BY Products
      <4>2. PICK e, f \in Nat : e = g * p /\ f = h * p
            BY Products
      <4>3. (u + e) - (v + f) = (u - v) + (e - f)
            OBVIOUS
      <4> QED
          BY <4>1, <4>2, <4>3, Zenon
    <3>8. Limb(q, k) + c[k] * Base = x[k] + c[k - 1] /\ x[k] \in Int
      <4> HIDE DEF q, c, x
      <4> QED
          BY <1>6, <1>7, Zenon
    <3> HIDE DEF q, c, x, X
    <3> QED
        BY <3>2, <3>3, <3>4, <3>6, <3>7, <3>8, Zenon
  <2> HIDE DEF q, c, x, X
  <2> QED
      BY <2>1, <2>2, <2>3, <2>4, Zenon DEF IsChain
<1>10. Value(q) + c[n] * Pow(Base, n) = Value(a) - Value(b) /\ Value(q) \in Nat /\ Value(q) < Pow(Base, n)
  <2>1. X[n] = Value(a) - Value(b)
    <3>1. Low(a)[n] = Value(a) /\ Low(b)[n] = Value(b)
          BY <1>1, <1>2, ValueBound, Zenon
    <3>2. n \in 0..n
          OBVIOUS
    <3>3. X[n] = Low(a)[n] - Low(b)[n]
          BY <3>2, Zenon
    <3> HIDE DEF X
    <3> QED
        BY <3>1, <3>3, Zenon
  <2> HIDE DEF q, c, x, X
  <2>2. q \in Seq(Nat)
        BY <1>7, DigitSeq, Zenon
  <2>3. Low(q)[n] + c[n] * Pow(Base, n) = X[n]
        BY <2>2, <1>9, Chain, Zenon
  <2>4. Value(q) = Low(q)[n] /\ Value(q) \in Nat /\ Value(q) < Pow(Base, n)
        BY <1>7, ValueBound, Zenon
  <2> QED
      BY <2>1, <2>3, <2>4, Zenon
<1> HIDE DEF q, x, X
<1>11. Value(q) = Value(a) - Value(b)
  <2>1. PICK e, p, u, v, w : e = c[n] /\ p = Pow(Base, n) /\ u = Value(q) /\ v = Value(a) /\ w = Value(b)
        OBVIOUS
  <2>2. e \in {-1, 0}
    <3>1. n \in 0..n
          OBVIOUS
    <3> HIDE DEF c
    <3> QED
        BY <3>1, <1>5, <2>1, Zenon
  <2> HIDE DEF c
  <2>3. p \in Nat /\ u \in Nat /\ v \in Nat /\ w \in Nat /\ u < p /\ w <= v /\ u + e * p = v - w
        BY <2>1, <1>1, <1>10, BasePowers, ValueBound, Zenon
  <2>4. u = v - w
    <3>1. CASE e = 0
          BY <2>3, <3>1
    <3>2. CASE e = -1
      <4>1. u + (-1) * p = v - w
            BY <2>3, <3>2, Zenon
      <4> QED
          BY <4>1, <2>3
    <3> QED
        BY <2>2, <3>1, <3>2
  <2> QED
      BY <2>1, <2>4, Zenon
<1>12. BigSub(a, b) = Normal(q)
    BY <1>4, Zenon DEF q
<1> HIDE DEF c
<1> QED
    BY <1>7, <1>11, <1>12, NormalValue, Zenon

----------------------------------------------------------------------------
(* bigMul.  *)
LEMMA PowSum ==
    ASSUME NEW m \in Nat
    PROVE  \A n \in Nat : Pow(Base, m + n) = Pow(Base, m) * Pow(Base, n)
<1> DEFINE S == {n \in Nat : Pow(Base, m + n) = Pow(Base, m) * Pow(Base, n)}
<1>1. 0 \in S
  <2>1. PICK p \in Nat : p = Pow(Base, m)
        BY BasePowers
  <2>2. m + 0 = m /\ p * 1 = p /\ 0 \in Nat
        OBVIOUS
  <2>3. Pow(Base, 0) = 1
        BY BasePowers, Zenon
  <2> QED
      BY <2>1, <2>2, <2>3, Zenon
<1>2. ASSUME NEW n \in S PROVE n + 1 \in S
  <2>1. PICK p, q \in Nat : p = Pow(Base, m) /\ q = Pow(Base, n)
        BY BasePowers
  <2>2. PICK j \in Nat : j = m + n /\ j + 1 = m + (n + 1) /\ n + 1 \in Nat
    <3>1. m + n \in Nat /\ (m + n) + 1 = m + (n + 1) /\ n + 1 \in Nat
          OBVIOUS
    <3> QED
        BY <3>1
  <2>3. Pow(Base, j) = p * q
        BY <2>1, <2>2, Zenon
  <2>4. Pow(Base, j + 1) = Base * (p * q) /\ Pow(Base, n + 1) = Base * q
        BY <2>1, <2>2, <2>3, BasePowers
  <2>5. Base * (p * q) = p * (Base * q)
        BY Products, BaseSizes
  <2> QED
      BY <2>1, <2>2, <2>4, <2>5, Zenon
<1>3. S = Nat
  <2> HIDE DEF S
  <2>1. S \subseteq Nat
        BY DEF S
  <2> QED
      BY <1>1, <1>2, <2>1, NatSet, Zenon
<1> QED
    BY <1>3

LEMMA PowGrows ==
    ASSUME NEW m \in Nat, NEW n \in Nat, m <= n
    PROVE  Pow(Base, m) <= Pow(Base, n)
<1>1. PICK d \in Nat : n = m + d
  <2>1. n - m \in Nat /\ n = m + (n - m)
        OBVIOUS
  <2> QED
      BY <2>1
<1>2. PICK p, q \in Nat : p = Pow(Base, m) /\ q = Pow(Base, d) /\ q >= 1
    BY BasePowers
<1>3. Pow(Base, n) = p * q
    BY <1>1, <1>2, PowSum, Zenon
<1>4. 1 * p <= q * p /\ q * p = p * q /\ 1 * p = p
    BY <1>2, ProductsGrow
<1> QED
    BY <1>2, <1>3, <1>4

LEMMA WordFacts == Word \in Nat /\ Word > 0 /\ Word = Base * Base
<1>1. Base * Base \in Nat /\ Base * Base > 0
    BY BaseSizes
<1> QED
    BY <1>1, Zenon DEF Word

RowCur(cur, acc, ai, b, i, k) ==
    (acc[k] + ai * Limb(b, k - i + 1) + (IF k = i THEN 0 ELSE cur[k - 1] \div Base)) % Word

IsRow(cur, acc, ai, b, i) ==
    /\ \A k \in i..Len(acc) : cur[k] \in Nat /\ cur[k] < Word /\ cur[k] = RowCur(cur, acc, ai, b, i, k)
    /\ MulLimb(acc, ai, b, i) = [k \in 1..Len(acc) |-> IF k < i THEN acc[k] ELSE cur[k] % Base]

LEMMA MulRuns ==
    ASSUME NEW acc, NEW b, acc \in Seq(LimbValues), b \in Seq(LimbValues), NEW ai \in LimbValues,
           NEW i \in 1..Len(acc)
    PROVE  \E cur : IsRow(cur, acc, ai, b, i)
<1> DEFINE n == Len(acc)
           Eq(cur) == cur = [k \in i..n |->
               (acc[k] + ai * Limb(b, k - i + 1) + (IF k = i THEN 0 ELSE cur[k - 1] \div Base)) % Word]
           f == CHOOSE cur : Eq(cur)
<1>0. n \in Nat /\ i \in Nat /\ i >= 1 /\ i <= n
    OBVIOUS
<1>a. MulLimb(acc, ai, b, i) = [k \in 1..n |-> IF k < i THEN acc[k] ELSE f[k] % Base]
    BY Zenon DEF MulLimb
<1>c. ai \in Nat /\ (\A k \in 1..n : acc[k] \in Nat) /\ \A k : Limb(b, k) \in Nat
  <2>1. LimbValues \subseteq Nat
        BY BaseSizes DEF LimbValues
  <2>2. \A k \in 1..n : acc[k] \in LimbValues
        OBVIOUS
  <2> QED
      BY <2>1, <2>2, DigitSeq, Zenon
<1> HIDE DEF n
<1>1. ASSUME NEW k \in i..n, NEW x \in Nat
      PROVE  acc[k] + ai * Limb(b, k - i + 1) + (x \div Base) \in Nat
  <2>1. PICK o, d, y \in Nat : o = acc[k] /\ d = Limb(b, k - i + 1) /\ y = x \div Base
    <3>1. k \in 1..n
          BY <1>0
    <3>2. x \div Base \in Nat
          BY Division, BaseSizes
    <3> QED
        BY <3>1, <3>2, <1>c
  <2>2. ai * d \in Nat
        BY <1>c, Products
  <2> QED
      BY <2>1, <2>2
<1> DEFINE m == (n - i) + 1
           at(j) == (i - 1) + j
           step == [j \in 1..m |-> [x \in Nat |->
               (acc[at(j)] + ai * Limb(b, at(j) - i + 1) + (x \div Base)) % Word]]
<1>m. m \in Nat /\ (\A j \in 1..m : at(j) \in i..n /\ (at(j) - i) + 1 = j /\ (j = 1 <=> at(j) = i))
      /\ (\A k \in i..n : (k - i) + 1 \in 1..m /\ at((k - i) + 1) = k)
    BY <1>0
<1>2. step \in [1..m -> [Nat -> Nat]] /\ 0 \in Nat
  <2>1. ASSUME NEW j \in 1..m, NEW x \in Nat
        PROVE  (acc[at(j)] + ai * Limb(b, at(j) - i + 1) + (x \div Base)) % Word \in Nat
    <3>1. at(j) \in i..n
          BY <1>m
    <3> HIDE DEF at, m
    <3>2. PICK y \in Nat : y = acc[at(j)] + ai * Limb(b, at(j) - i + 1) + (x \div Base)
          BY <3>1, <1>1
    <3>3. y % Word \in Nat
          BY WordFacts, Division
    <3> QED
        BY <3>2, <3>3
  <2> HIDE DEF m, at
  <2> QED
      BY <2>1
<1>3. \A j \in 1..m : \A x \in Nat :
        step[j][x] = (acc[at(j)] + ai * Limb(b, at(j) - i + 1) + (x \div Base)) % Word
  <2> HIDE DEF m, at
  <2> QED
      OBVIOUS
<1> HIDE DEF step, m
<1>4. PICK s : /\ s \in [1..m -> Nat]
               /\ \A j \in 1..m : /\ (IF j = 1 THEN 0 ELSE s[j - 1]) \in Nat
                                  /\ s[j] = step[j][IF j = 1 THEN 0 ELSE s[j - 1]]
  <2>1. \E s : Carries(s, m, Nat, 0, step)
        BY <1>m, <1>2, CarryRun, Zenon
  <2> QED
      BY <2>1, Zenon DEF Carries
<1> DEFINE w == [k \in i..n |-> s[(k - i) + 1]]
<1>5. ASSUME NEW k \in i..n
      PROVE  w[k] = (acc[k] + ai * Limb(b, k - i + 1) + (IF k = i THEN 0 ELSE w[k - 1] \div Base)) % Word
  <2>1. PICK j \in 1..m : j = (k - i) + 1 /\ at(j) = k /\ (j = 1 <=> k = i)
        BY <1>m
  <2>2. w[k] = s[j]
        BY <2>1, Zenon
  <2>3. s[j] = (acc[k] + ai * Limb(b, k - i + 1) + ((IF j = 1 THEN 0 ELSE s[j - 1]) \div Base)) % Word
    <3>1. PICK x \in Nat : x = IF j = 1 THEN 0 ELSE s[j - 1]
          BY <1>4
    <3> HIDE DEF at
    <3>2. s[j] = step[j][x]
          BY <1>4, <3>1, Zenon
    <3>3. step[j][x] = (acc[at(j)] + ai * Limb(b, at(j) - i + 1) + (x \div Base)) % Word
          BY <1>3, Zenon
    <3>4. step[j][x] = (acc[k] + ai * Limb(b, k - i + 1) + (x \div Base)) % Word
          BY <3>3, <2>1, Zenon
    <3> QED
        BY <3>1, <3>2, <3>4, Zenon
  <2>4. ((IF j = 1 THEN 0 ELSE s[j - 1]) \div Base) = (IF k = i THEN 0 ELSE w[k - 1] \div Base)
    <3>1. CASE k = i
      <4>1. 0 \div Base = 0
            BY BaseSizes
      <4> QED
          BY <3>1, <4>1, <2>1, Zenon
    <3>2. CASE k # i
      <4>1. k - 1 \in i..n /\ ((k - 1) - i) + 1 = j - 1
            BY <3>2, <2>1, <1>0
      <4>2. w[k - 1] = s[j - 1]
            BY <4>1, Zenon
      <4> QED
          BY <3>2, <4>2, <2>1, Zenon
    <3> QED
        BY <3>1, <3>2, Zenon
  <2> HIDE DEF w
  <2> QED
      BY <2>2, <2>3, <2>4, Zenon
<1>6. Eq(w)
  <2>1. w = [k \in i..n |-> w[k]]
        OBVIOUS
  <2> HIDE DEF w
  <2> QED
      BY <1>5, <2>1, Zenon
<1>7. Eq(f)
  <2> HIDE DEF Eq, w
  <2> QED
      BY <1>6, Zenon
<1> HIDE DEF f, w
<1>8. ASSUME NEW k \in i..n
      PROVE  f[k] = (acc[k] + ai * Limb(b, k - i + 1) + (IF k = i THEN 0 ELSE f[k - 1] \div Base)) % Word
    BY <1>7, Zenon
<1>9. \A k \in i..n : f[k] \in Nat /\ f[k] < Word
  <2> DEFINE S == {j \in 0..m : j = 0 \/ (f[at(j)] \in Nat /\ f[at(j)] < Word)}
  <2>1. 0 \in S
        BY <1>m
  <2>2. ASSUME NEW j \in 0..(m - 1), j \in S PROVE j + 1 \in S
    <3>1. PICK k \in i..n : k = at(j + 1) /\ k - 1 = at(j) /\ (k = i <=> j = 0) /\ j + 1 \in 0..m
                              /\ k \in 1..n
      <4>1. at(j + 1) \in i..n /\ at(j + 1) - 1 = at(j) /\ (at(j + 1) = i <=> j = 0) /\ j + 1 \in 0..m
            /\ at(j + 1) \in 1..n
            BY <1>m, <1>0
      <4> QED
          BY <4>1
    <3> HIDE DEF at
    <3>2. PICK y \in Nat : y = IF k = i THEN 0 ELSE f[k - 1] \div Base
      <4>1. CASE k = i
            BY <4>1
      <4>2. CASE k # i
        <5>1. f[k - 1] \in Nat
              BY <4>2, <3>1, <2>2, Zenon
        <5>2. f[k - 1] \div Base \in Nat
          <6>1. PICK p \in Nat : p = f[k - 1]
                BY <5>1, Zenon
          <6>2. p \div Base \in Nat
                BY Division, BaseSizes
          <6> QED
              BY <6>1, <6>2, Zenon
        <5> QED
            BY <4>2, <5>2
      <4> QED
          BY <4>1, <4>2
    <3>3. PICK o, d \in Nat : o = acc[k] /\ d = Limb(b, k - i + 1)
          BY <3>1, <1>c
    <3>4. f[k] = (o + ai * d + y) % Word
          BY <3>2, <3>3, <1>8, Zenon
    <3>5. PICK z \in Nat : z = o + ai * d + y
      <4>1. ai * d \in Nat
            BY <1>c, Products
      <4> QED
          BY <4>1
    <3>6. z % Word \in Nat /\ z % Word < Word
          BY WordFacts, Division
    <3>7. f[k] \in Nat /\ f[k] < Word
          BY <3>4, <3>5, <3>6, Zenon
    <3> QED
        BY <3>1, <3>7, Zenon
  <2>3. \A j \in 0..m : j \in S
    <3> HIDE DEF S
    <3> QED
        BY <1>m, <2>1, <2>2, UpTo, Zenon
  <2> SUFFICES ASSUME NEW k \in i..n PROVE f[k] \in Nat /\ f[k] < Word
      OBVIOUS
  <2>4. PICK j \in 0..m : j = (k - i) + 1 /\ at(j) = k /\ j # 0
    <3> HIDE DEF at, m
    <3>1. (k - i) + 1 \in 1..m /\ at((k - i) + 1) = k
          BY <1>m, Zenon
    <3>2. \A j \in 1..m : j \in 0..m /\ j # 0
          BY <1>m
    <3> QED
        BY <3>1, <3>2, Zenon
  <2> HIDE DEF at
  <2> QED
      BY <2>3, <2>4, Zenon
<1> QED
    BY <1>a, <1>8, <1>9, Zenon DEF RowCur, IsRow, n

(* What a row computes in a word does not overflow it.  *)
LEMMA WordHolds ==
    ASSUME NEW o \in Nat, NEW d \in Nat, NEW e \in Nat, NEW y \in Nat,
           o <= Base - 1, d <= Base - 1, e <= Base - 1, y <= Base - 1
    PROVE  o + d * e + y \in Nat /\ o + d * e + y < Word /\ (o + d * e + y) % Word = o + d * e + y
<1>1. PICK u \in Nat : u = Base - 1 /\ Base = u + 1
  <2>1. Base - 1 \in Nat /\ Base = (Base - 1) + 1
        BY BaseSizes
  <2> QED
      BY <2>1
<1>2. o <= u /\ d <= u /\ e <= u /\ y <= u
    BY <1>1
<1>3. d * e <= u * e /\ e * u <= u * u /\ u * e = e * u
    BY <1>2, ProductsGrow
<1>4. PICK p, q, w \in Nat : p = d * e /\ q = u * u /\ w = u * e
    BY Products
<1>5. p <= q
    BY <1>3, <1>4
<1>6. Word = q + u + u + 1
  <2>1. (u + 1) * (u + 1) = u * u + u + u + 1
        OBVIOUS
  <2> QED
      BY <2>1, <1>1, <1>4, WordFacts
<1>7. PICK z \in Nat : z = o + d * e + y /\ z < Word
    BY <1>2, <1>4, <1>5, <1>6
<1>8. z % Word = z
  <2>1. z = 0 * Word + z
        BY WordFacts
  <2> QED
      BY <1>7, <2>1, WordFacts, Quotient
<1> QED
    BY <1>7, <1>8, Zenon

LEMMA HighHalf ==
    ASSUME NEW y \in Nat, y < Word
    PROVE  y \div Base \in Nat /\ y \div Base <= Base - 1
<1>1. PICK d, m \in Nat : d = y \div Base /\ m = y % Base /\ d * Base + m = y
    BY BaseSizes, Division
<1>2. PICK u, w \in Nat : u = d * Base /\ w = Base * Base /\ y < w
    BY BaseSizes, Products, WordFacts
<1>3. u <= y
    BY <1>1, <1>2
<1>4. ASSUME d >= Base PROVE FALSE
  <2>1. Base * Base <= d * Base
        BY <1>4, ProductsGrow, BaseSizes
  <2> QED
      BY <2>1, <1>2, <1>3
<1> QED
    BY <1>1, <1>4, BaseSizes

LEMMA RowAlgebra ==
    ASSUME NEW g \in Nat, NEW l \in Nat, NEW d \in Nat, NEW p \in Nat, NEW q \in Nat
    PROVE  (g * (l + d * p)) * q = (g * l) * q + (g * d) * (p * q)
<1>1. PICK x, y \in Nat : x = d * p /\ y = g * l
    BY Products
<1>2. g * (l + x) = g * l + g * x
    BY Products
<1>3. PICK z \in Nat : z = g * x
    BY Products
<1>4. (y + z) * q = y * q + z * q
    BY Products
<1>5. z = (g * d) * p
    BY <1>1, <1>3, Products
<1>6. PICK w \in Nat : w = g * d
    BY Products
<1>7. (w * p) * q = w * (p * q)
    BY Products
<1> QED
    BY <1>1, <1>2, <1>3, <1>4, <1>5, <1>6, <1>7, Zenon

LEMMA MulRow ==
    ASSUME NEW acc, NEW b, acc \in Seq(LimbValues), b \in Seq(LimbValues), NEW ai \in LimbValues,
           NEW i \in 1..Len(acc),
           Len(b) <= Len(acc) - i + 1,
           Value(acc) + (ai * Value(b)) * Pow(Base, i - 1) < Pow(Base, Len(acc))
    PROVE  /\ MulLimb(acc, ai, b, i) \in Seq(LimbValues)
           /\ Len(MulLimb(acc, ai, b, i)) = Len(acc)
           /\ Value(MulLimb(acc, ai, b, i)) = Value(acc) + (ai * Value(b)) * Pow(Base, i - 1)
<1>0. PICK cur : IsRow(cur, acc, ai, b, i)
    BY MulRuns, Zenon
<1>n. PICK n \in Nat : n = Len(acc) /\ i \in Nat /\ i >= 1 /\ i <= n /\ DOMAIN acc = 1..n
    OBVIOUS
<1>1. /\ \A k \in i..n : cur[k] \in Nat /\ cur[k] < Word /\ cur[k] = RowCur(cur, acc, ai, b, i, k)
      /\ MulLimb(acc, ai, b, i) = [k \in 1..n |-> IF k < i THEN acc[k] ELSE cur[k] % Base]
    BY <1>0, <1>n, Zenon DEF IsRow
<1>d. /\ LimbValues \subseteq Nat /\ ai \in Nat /\ ai <= Base - 1 /\ acc \in Seq(Nat) /\ b \in Seq(Nat)
      /\ \A k \in 1..n : acc[k] \in LimbValues /\ acc[k] \in Nat /\ acc[k] <= Base - 1
         /\ Limb(acc, k) = acc[k]
      /\ \A k : Limb(b, k) \in Nat /\ Limb(b, k) <= Base - 1
  <2>1. LimbValues \subseteq Nat /\ \A d \in LimbValues : d <= Base - 1
        BY BaseSizes DEF LimbValues
  <2>2. \A k \in 1..n : acc[k] \in LimbValues
        BY <1>n
  <2>3. \A k \in 1..n : Limb(acc, k) = acc[k]
        BY <1>n, Zenon DEF Limb
  <2>4. ai \in Nat /\ ai <= Base - 1 /\ \A k \in 1..n : acc[k] \in Nat /\ acc[k] <= Base - 1
        BY <2>1, <2>2
  <2> QED
      BY <2>1, <2>2, <2>3, <2>4, DigitSeq, Zenon
<1> DEFINE r == [k \in 1..n |-> IF k < i THEN acc[k] ELSE cur[k] % Base]
           c == [k \in 0..n |-> IF k < i THEN 0 ELSE cur[k] \div Base]
           x == [k \in 1..n |-> IF k < i THEN acc[k] ELSE acc[k] + ai * Limb(b, k - i + 1)]
           X == [k \in 0..n |-> Low(acc)[k] +
                    (IF k < i THEN 0 ELSE (ai * Low(b)[k - i + 1]) * Pow(Base, i - 1))]
<1>2. \A k \in 0..n : c[k] \in Nat /\ c[k] <= Base - 1 /\ (k < i => c[k] = 0)
                        /\ (k >= i => c[k] = cur[k] \div Base)
  <2> SUFFICES ASSUME NEW k \in 0..n
               PROVE  c[k] \in Nat /\ c[k] <= Base - 1 /\ (k < i => c[k] = 0)
                        /\ (k >= i => c[k] = cur[k] \div Base)
      OBVIOUS
  <2>1. CASE k < i
    <3>1. c[k] = 0 /\ ~(k >= i)
          BY <2>1, <1>n
    <3>2. 0 \in Nat /\ 0 <= Base - 1
          BY BaseSizes
    <3> HIDE DEF c
    <3> QED
        BY <3>1, <3>2, Zenon
  <2>2. CASE ~(k < i)
    <3>1. c[k] = cur[k] \div Base
          BY <2>2
    <3>2. k \in i..n
          BY <2>2, <1>n
    <3>3. PICK y \in Nat : y = cur[k] /\ y < Word
          BY <3>2, <1>1
    <3>4. y \div Base \in Nat /\ y \div Base <= Base - 1
          BY <3>3, HighHalf
    <3> HIDE DEF c
    <3> QED
        BY <2>2, <3>1, <3>3, <3>4, Zenon
  <2> QED
      BY <2>1, <2>2
<1>3. ASSUME NEW k \in i..n
      PROVE  /\ x[k] = acc[k] + ai * Limb(b, k - i + 1) /\ x[k] \in Nat
             /\ cur[k] = x[k] + c[k - 1]
  <2>1. k \in 1..n /\ ~(k < i) /\ k - 1 \in 0..n /\ (k = i <=> k - 1 < i)
        BY <1>n
  <2>2. x[k] = acc[k] + ai * Limb(b, k - i + 1)
        BY <2>1, Zenon
  <2>3. c[k - 1] = IF k = i THEN 0 ELSE cur[k - 1] \div Base
    <3>1. c[k - 1] = IF k - 1 < i THEN 0 ELSE cur[k - 1] \div Base
          BY <2>1, Zenon
    <3> QED
        BY <2>1, <3>1, Zenon
  <2>4. cur[k] = (acc[k] + ai * Limb(b, k - i + 1) + c[k - 1]) % Word
    <3>1. cur[k] = (acc[k] + ai * Limb(b, k - i + 1) + (IF k = i THEN 0 ELSE cur[k - 1] \div Base)) % Word
          BY <1>1, Zenon DEF RowCur
    <3> HIDE DEF c
    <3> QED
        BY <3>1, <2>3, Zenon
  <2>5. PICK o, e, y \in Nat : /\ o = acc[k] /\ e = Limb(b, k - i + 1) /\ y = c[k - 1]
                               /\ o <= Base - 1 /\ e <= Base - 1 /\ y <= Base - 1
    <3> HIDE DEF c
    <3>1. acc[k] \in Nat /\ acc[k] <= Base - 1
          BY <2>1, <1>d, Zenon
    <3>2. c[k - 1] \in Nat /\ c[k - 1] <= Base - 1
          BY <2>1, <1>2, Zenon
    <3>3. Limb(b, k - i + 1) \in Nat /\ Limb(b, k - i + 1) <= Base - 1
          BY <1>d, Zenon
    <3> QED
        BY <3>1, <3>2, <3>3, Zenon
  <2>6. (o + ai * e + y) % Word = o + ai * e + y
    <3>1. ai \in Nat /\ ai <= Base - 1
          BY <1>d
    <3>2. o <= Base - 1 /\ e <= Base - 1 /\ y <= Base - 1
          BY <2>5, Zenon
    <3> QED
        BY <3>1, <3>2, WordHolds
  <2>7. o + ai * e \in Nat
    <3>1. ai * e \in Nat
          BY <1>d, Products
    <3> QED
        BY <3>1
  <2> HIDE DEF c, x
  <2> QED
      BY <2>2, <2>4, <2>5, <2>6, <2>7, Zenon
<1>4. ASSUME NEW k \in 1..n
      PROVE  /\ r[k] \in LimbValues
             /\ x[k] \in Int
             /\ r[k] + c[k] * Base = x[k] + c[k - 1]
  <2>0. k \in 0..n /\ k - 1 \in 0..n
        OBVIOUS
  <2>1. CASE k < i
    <3>1. r[k] = acc[k] /\ x[k] = acc[k]
          BY <2>1, Zenon
    <3>2. c[k] = 0 /\ c[k - 1] = 0
      <4>1. k - 1 < i
            BY <2>1, <1>n
      <4> HIDE DEF c
      <4> QED
          BY <2>0, <2>1, <4>1, <1>2, Zenon
    <3>3. PICK o \in Nat : o = acc[k] /\ acc[k] \in LimbValues
          BY <1>d
    <3>4. o + 0 * Base = o + 0 /\ o \in Int
          BY <3>3, BaseSizes
    <3> HIDE DEF r, x, c
    <3> QED
        BY <3>1, <3>2, <3>3, <3>4, Zenon
  <2>2. CASE ~(k < i)
    <3>1. k \in i..n /\ k >= i
          BY <2>2, <1>n
    <3>2. r[k] = cur[k] % Base
          BY <2>2, Zenon
    <3>3. PICK y \in Nat : y = cur[k]
          BY <3>1, <1>1, Zenon
    <3>4. PICK d, m \in Nat : d = y \div Base /\ m = y % Base /\ m < Base /\ d * Base + m = y
      <4>1. y \div Base \in Nat /\ y % Base \in Nat /\ y % Base < Base
              /\ (y \div Base) * Base + (y % Base) = y
            BY BaseSizes, Division
      <4> QED
          BY <4>1, Zenon
    <3>5. m \in LimbValues
          BY <3>4, BaseSizes DEF LimbValues
    <3>6. m + d * Base = y
      <4>1. PICK u \in Nat : u = d * Base
            BY BaseSizes, Products
      <4> QED
          BY <3>4, <4>1
    <3>7. c[k] = d
      <4> HIDE DEF c
      <4> QED
          BY <2>0, <3>1, <3>3, <3>4, <1>2, Zenon
    <3>8. cur[k] = x[k] + c[k - 1] /\ x[k] \in Nat
          BY <3>1, <1>3, Zenon
    <3>9. x[k] \in Int
      <4> HIDE DEF x
      <4> QED
          BY <3>8
    <3> HIDE DEF r, x, c
    <3> QED
        BY <3>2, <3>3, <3>4, <3>5, <3>6, <3>7, <3>8, <3>9, Zenon
  <2> QED
      BY <2>1, <2>2, Zenon
<1>5. r \in Seq(LimbValues) /\ Len(r) = n /\ \A k \in 1..n : Limb(r, k) = r[k]
  <2>1. r = [k \in 1..n |-> r[k]]
        OBVIOUS
  <2> HIDE DEF r
  <2>2. r \in [1..n -> LimbValues]
        BY <1>4, <2>1, Zenon
  <2>3. r \in Seq(LimbValues) /\ Len(r) = n /\ DOMAIN r = 1..n
        BY <2>2
  <2> QED
      BY <2>3, Zenon DEF Limb
<1>6. \A k \in 0..n : X[k] \in Nat
  <2> SUFFICES ASSUME NEW k \in 0..n PROVE X[k] \in Nat
      OBVIOUS
  <2>1. X[k] = Low(acc)[k] + (IF k < i THEN 0 ELSE (ai * Low(b)[k - i + 1]) * Pow(Base, i - 1))
        OBVIOUS
  <2>2. PICK u \in Nat : u = Low(acc)[k]
    <3>1. k \in Nat
          OBVIOUS
    <3> QED
        BY <3>1, <1>d, LowSteps, Zenon
  <2>3. PICK v \in Nat : v = IF k < i THEN 0 ELSE (ai * Low(b)[k - i + 1]) * Pow(Base, i - 1)
    <3>1. CASE k < i
          BY <3>1
    <3>2. CASE ~(k < i)
      <4>1. k - i + 1 \in Nat /\ i - 1 \in Nat
            BY <3>2, <1>n
      <4>2. PICK l, p \in Nat : l = Low(b)[k - i + 1] /\ p = Pow(Base, i - 1)
            BY <4>1, <1>d, LowSteps, BasePowers
      <4>3. PICK w \in Nat : w = ai * l
            BY <1>d, Products
      <4>4. w * p \in Nat
            BY Products
      <4> QED
          BY <3>2, <4>2, <4>3, <4>4, Zenon
    <3> QED
        BY <3>1, <3>2
  <2>4. u + v \in Nat
        OBVIOUS
  <2> HIDE DEF X
  <2> QED
      BY <2>1, <2>2, <2>3, <2>4, Zenon
<1>7. ASSUME NEW k \in 1..n PROVE X[k] = X[k - 1] + x[k] * Pow(Base, k - 1)
  <2>0. k \in 0..n /\ k - 1 \in 0..n /\ k - 1 \in Nat /\ (k - 1) + 1 = k
        OBVIOUS
  <2>1. PICK u, o, p \in Nat : u = Low(acc)[k - 1] /\ o = acc[k] /\ p = Pow(Base, k - 1)
        BY <2>0, <1>d, LowSteps, BasePowers
  <2>2. Low(acc)[k] = u + o * p
    <3>1. Low(acc)[(k - 1) + 1] = Low(acc)[k - 1] + Limb(acc, (k - 1) + 1) * Pow(Base, k - 1)
          BY <2>0, <1>d, LowSteps, Zenon
    <3> QED
        BY <3>1, <2>0, <2>1, <1>d, Zenon
  <2>3. CASE k < i
    <3>1. k - 1 < i
          BY <2>3, <1>n
    <3>2. X[k] = Low(acc)[k] + 0 /\ X[k - 1] = Low(acc)[k - 1] + 0
          BY <2>0, <2>3, <3>1, Zenon
    <3>3. x[k] = acc[k]
          BY <2>3, Zenon
    <3>4. o * p \in Nat
          BY Products
    <3>5. (u + o * p) + 0 = (u + 0) + o * p
          BY <3>4
    <3> HIDE DEF X, x
    <3> QED
        BY <2>1, <2>2, <3>2, <3>3, <3>5, Zenon
  <2>4. CASE ~(k < i)
    <3>1. PICK j \in Nat : j = k - i /\ k - i + 1 = j + 1 /\ k \in i..n /\ (k - 1) - i + 1 = j
                             /\ (i - 1) + j = k - 1
                           /\ (k - 1 < i <=> j = 0) /\ i - 1 \in Nat
      <4>1. k - i \in Nat /\ k - i + 1 = (k - i) + 1 /\ k \in i..n /\ (k - 1) - i + 1 = k - i
            /\ (i - 1) + (k - i) = k - 1 /\ (k - 1 < i <=> k - i = 0) /\ i - 1 \in Nat
            BY <2>4, <1>n
      <4> QED
          BY <4>1
    <3>2. PICK l, d, q, s \in Nat : l = Low(b)[j] /\ d = Limb(b, j + 1) /\ q = Pow(Base, j)
                                      /\ s = Pow(Base, i - 1)
          BY <3>1, <1>d, LowSteps, BasePowers
    <3>3. Low(b)[j + 1] = l + d * q
          BY <3>2, <1>d, LowSteps, Zenon
    <3>4. p = q * s
      <4>1. Pow(Base, (i - 1) + j) = Pow(Base, i - 1) * Pow(Base, j)
            BY <3>1, PowSum
      <4>2. s * q = q * s
            BY Products
      <4> QED
          BY <4>1, <4>2, <3>1, <3>2, <2>1, Zenon
    <3>5. X[k] = (u + o * p) + (ai * (l + d * q)) * s
      <4>1. X[k] = Low(acc)[k] + (ai * Low(b)[k - i + 1]) * Pow(Base, i - 1)
            BY <2>0, <2>4, Zenon
      <4> HIDE DEF X
      <4> QED
          BY <4>1, <2>2, <3>1, <3>2, <3>3, Zenon
    <3>6. X[k - 1] = u + (ai * l) * s
      <4>1. CASE j = 0
        <5>1. X[k - 1] = Low(acc)[k - 1] + 0
              BY <2>0, <3>1, <4>1, Zenon
        <5>2. l = 0
              BY <3>2, <4>1, <1>d, LowSteps, Zenon
        <5>3. (ai * 0) * s = 0
              BY <1>d
        <5> HIDE DEF X
        <5> QED
            BY <5>1, <5>2, <5>3, <2>1, Zenon
      <4>2. CASE j # 0
        <5>1. X[k - 1] = Low(acc)[k - 1] + (ai * Low(b)[(k - 1) - i + 1]) * Pow(Base, i - 1)
              BY <2>0, <3>1, <4>2, Zenon
        <5> HIDE DEF X
        <5> QED
            BY <5>1, <2>1, <3>1, <3>2, Zenon
      <4> QED
          BY <4>1, <4>2
    <3>7. x[k] = o + ai * d
      <4>1. x[k] = acc[k] + ai * Limb(b, k - i + 1)
            BY <2>4, Zenon
      <4> HIDE DEF x
      <4> QED
          BY <4>1, <2>1, <3>1, <3>2, Zenon
    <3>8. (u + o * p) + (ai * (l + d * q)) * s = (u + (ai * l) * s) + (o + ai * d) * p
      <4>1. (ai * (l + d * q)) * s = (ai * l) * s + (ai * d) * (q * s)
            BY <1>d, RowAlgebra
      <4>2. PICK g, h \in Nat : g = ai * d /\ h = ai * l
            BY <1>d, Products
      <4>3. PICK f, y, z \in Nat : f = h * s /\ y = o * p /\ z = g * p
            BY Products
      <4>4. (o + g) * p = y + z
            BY <4>3, Products
      <4>5. (u + y) + (f + z) = (u + f) + (y + z)
            OBVIOUS
      <4>6. (ai * (l + d * q)) * s = f + z
            BY <4>1, <4>2, <4>3, <3>4, Zenon
      <4> QED
          BY <4>2, <4>3, <4>4, <4>5, <4>6, Zenon
    <3> HIDE DEF X, x
    <3> QED
        BY <2>1, <3>5, <3>6, <3>7, <3>8, Zenon
  <2> QED
      BY <2>3, <2>4, Zenon
<1>8. IsChain(r, c, x, X, n)
  <2>1. c[0] = 0
    <3>1. 0 \in 0..n /\ 0 < i
          BY <1>n
    <3> HIDE DEF c
    <3> QED
        BY <3>1, <1>2, Zenon
  <2>2. X[0] = 0
    <3>1. X[0] = Low(acc)[0] + 0
      <4>1. 0 \in 0..n /\ 0 < i
            BY <1>n
      <4> QED
          BY <4>1, Zenon
    <3>2. Low(acc)[0] = 0
          BY <1>d, LowSteps, Zenon
    <3> HIDE DEF X
    <3> QED
        BY <3>1, <3>2
  <2>3. \A k \in 0..n : c[k] \in Int /\ X[k] \in Int
    <3> HIDE DEF c, X
    <3> QED
        BY <1>2, <1>6
  <2> HIDE DEF r, c, x, X
  <2> QED
      BY <2>1, <2>2, <2>3, <1>4, <1>5, <1>7, Zenon DEF IsChain
<1>9. X[n] = Value(acc) + (ai * Value(b)) * Pow(Base, i - 1)
  <2>1. n \in 0..n /\ ~(n < i) /\ n - i + 1 \in Nat /\ Len(b) <= n - i + 1
        BY <1>n
  <2>2. Low(acc)[n] = Value(acc) /\ Low(b)[n - i + 1] = Value(b)
        BY <1>n, <2>1, ValueBound, Zenon
  <2>3. X[n] = Low(acc)[n] + (ai * Low(b)[n - i + 1]) * Pow(Base, i - 1)
        BY <2>1, Zenon
  <2> HIDE DEF X
  <2> QED
      BY <2>2, <2>3, Zenon
<1>10. Low(r)[n] + c[n] * Pow(Base, n) = X[n]
  <2>1. r \in Seq(Nat)
    <3> HIDE DEF r
    <3> QED
        BY <1>5, DigitSeq, Zenon
  <2> HIDE DEF r, c, x, X
  <2> QED
      BY <2>1, <1>8, Chain, Zenon
<1>11. PICK v, d, p, y \in Nat : v = Low(r)[n] /\ v = Value(r) /\ d = c[n] /\ p = Pow(Base, n) /\ p >= 1
                                 /\ y = X[n] /\ y < p
  <2>1. n \in 0..n
        OBVIOUS
  <2>2. Value(r) \in Nat /\ Value(r) = Low(r)[n]
    <3> HIDE DEF r
    <3> QED
        BY <1>5, ValueBound, Zenon
  <2>3. X[n] < Pow(Base, n)
    <3> HIDE DEF X
    <3> QED
        BY <1>9, <1>n, Zenon
  <2> HIDE DEF r, c, x, X
  <2> QED
      BY <2>1, <2>2, <2>3, <1>2, <1>6, BasePowers, Zenon
<1>12. v + d * p = y
  <2> HIDE DEF r, c, x, X
  <2> QED
      BY <1>10, <1>11, Zenon
<1>13. d = 0
  <2>1. ASSUME d >= 1 PROVE FALSE
    <3>1. 1 * p <= d * p
          BY <2>1, ProductsGrow
    <3>2. PICK u \in Nat : u = d * p
          BY Products
    <3>3. 1 * p <= u /\ v + u = y /\ y < p
          BY <3>1, <3>2, <1>11, <1>12, Zenon
    <3> HIDE DEF c, x, X
    <3> QED
        BY <3>3
  <2> QED
      BY <2>1
<1>14. v = y
    BY <1>12, <1>13
<1> HIDE DEF c, x, X
<1> QED
    BY <1>1, <1>5, <1>9, <1>11, <1>14, <1>n, Zenon

Words(n) == {o \in Seq(LimbValues) : Len(o) = n}

LEMMA MulType ==
    ASSUME NEW n \in Nat, NEW o, NEW b, o \in Words(n), b \in Seq(LimbValues), NEW d \in LimbValues,
           NEW i \in 1..n
    PROVE  MulLimb(o, d, b, i) \in Words(n)
<1>1. o \in Seq(LimbValues) /\ Len(o) = n
    BY Zenon DEF Words
<1>2. PICK cur : IsRow(cur, o, d, b, i)
  <2>1. i \in 1..Len(o)
        BY <1>1, Zenon
  <2> QED
      BY <1>1, <2>1, MulRuns, Zenon
<1>3. /\ \A k \in i..n : cur[k] \in Nat
      /\ MulLimb(o, d, b, i) = [k \in 1..n |-> IF k < i THEN o[k] ELSE cur[k] % Base]
    BY <1>1, <1>2, Zenon DEF IsRow
<1>4. ASSUME NEW k \in 1..n PROVE (IF k < i THEN o[k] ELSE cur[k] % Base) \in LimbValues
  <2>1. CASE k < i
    <3>1. o[k] \in LimbValues
          BY <1>1
    <3> QED
        BY <2>1, <3>1, Zenon
  <2>2. CASE ~(k < i)
    <3>1. k \in i..n
          BY <2>2
    <3>2. PICK y \in Nat : y = cur[k]
          BY <3>1, <1>3, Zenon
    <3>3. y % Base \in LimbValues
          BY BaseSizes, Division DEF LimbValues
    <3> QED
        BY <2>2, <3>2, <3>3, Zenon
  <2> QED
      BY <2>1, <2>2, Zenon
<1>5. MulLimb(o, d, b, i) \in [1..n -> LimbValues]
    BY <1>3, <1>4, Zenon
<1>6. MulLimb(o, d, b, i) \in Seq(LimbValues) /\ Len(MulLimb(o, d, b, i)) = n
    BY <1>5
<1> QED
    BY <1>6, Zenon DEF Words

LEMMA ZerosValue ==
    ASSUME NEW n \in Nat
    PROVE  Zeros(n) \in Words(n) /\ Value(Zeros(n)) = 0
<1>1. PICK z, e : z = Zeros(n) /\ e = <<>>
    OBVIOUS
<1>2. 0 \in LimbValues
    BY BaseSizes DEF LimbValues
<1>3. PICK u : u = [k \in 1..n |-> 0]
    OBVIOUS
<1>4. u \in Seq(LimbValues) /\ Len(u) = n /\ \A k \in 1..n : u[k] = 0
    BY <1>2, <1>3
<1>5. z = u
  <2>1. z = <<>> \o u
        BY <1>1, <1>3, Zenon DEF Zeros
  <2> QED
      BY <2>1, <1>4
<1>6. e \in Seq(LimbValues) /\ Len(e) = 0
    BY <1>1
<1>7. \A k \in 1..n : Limb(z, k) = Limb(e, k)
  <2>1. DOMAIN u = 1..n /\ DOMAIN e = {}
        BY <1>3, <1>1
  <2> QED
      BY <2>1, <1>4, <1>5, Zenon DEF Limb
<1>8. Low(z)[n] = Low(e)[n]
    BY <1>4, <1>5, <1>6, <1>7, DigitSeq, LowEqual, Zenon
<1>9. Low(e)[n] = 0
  <2>1. Len(e) + n = n
        BY <1>6
  <2>2. Low(e)[Len(e) + n] = Low(e)[Len(e)] /\ Low(e)[0] = 0
        BY <1>6, DigitSeq, LowTail, LowSteps, Zenon
  <2> QED
      BY <2>1, <2>2, <1>6, Zenon
<1>10. Value(z) = 0
    BY <1>4, <1>5, <1>8, <1>9, ValueBound, Zenon
<1> QED
    BY <1>1, <1>4, <1>5, <1>10, Zenon DEF Words

NeitherIsZero(a, b) == ~(a = <<0>> \/ b = <<0>>)

LEMMA MulLoop ==
    ASSUME NEW a, NEW b, a \in Seq(LimbValues), b \in Seq(LimbValues), NeitherIsZero(a, b)
    PROVE  \E f : /\ \A k \in 0..Len(a) : f[k] \in Words(Len(a) + Len(b))
                  /\ f[0] = Zeros(Len(a) + Len(b))
                  /\ \A k \in 0..(Len(a) - 1) : f[k + 1] = MulLimb(f[k], a[k + 1], b, k + 1)
                  /\ BigMul(a, b) = Normal(f[Len(a)])
<1> DEFINE n == Len(a)
           T == Words(Len(a) + Len(b))
           base == Zeros(Len(a) + Len(b))
           Eq(f) == f = [k \in 0..n |-> IF k = 0 THEN Zeros(Len(a) + Len(b))
             ELSE MulLimb(f[k - 1], a[k], b, k)]
           f == CHOOSE f : Eq(f)
           step == [k \in 1..n |-> [s \in T |-> MulLimb(s, a[k], b, k)]]
<1>0. n \in Nat
    OBVIOUS
<1>b. base \in T
    BY ZerosValue
<1>t. ASSUME NEW k \in 1..n, NEW s \in T PROVE MulLimb(s, a[k], b, k) \in T
  <2>1. k \in 1..(Len(a) + Len(b)) /\ a[k] \in LimbValues /\ Len(a) + Len(b) \in Nat
        OBVIOUS
  <2> HIDE DEF n
  <2> QED
      BY <2>1, MulType, Zenon
<1>1. PICK g : IsRun(g, n, T, base, step)
  <2>1. step \in [1..n -> [T -> T]]
    <3> HIDE DEF n, T
    <3> QED
        BY <1>t
  <2> HIDE DEF step, n, T, base
  <2> QED
      BY <1>0, <1>b, <2>1, Iteration
<1>2. Eq(g)
  <2>1. g \in [0..n -> T] /\ g[0] = base
    <3> HIDE DEF n, T, base, step
    <3> QED
        BY <1>1 DEF IsRun
  <2>2. ASSUME NEW k \in 1..n PROVE g[k] = MulLimb(g[k - 1], a[k], b, k)
    <3>1. g[k - 1] \in T
      <4> HIDE DEF n, T
      <4> QED
          BY <2>1, <1>0
    <3>2. g[k] = step[k][g[k - 1]]
      <4> HIDE DEF step, n, T, base
      <4> QED
          BY <1>1 DEF IsRun
    <3>3. step[k] = [s \in T |-> MulLimb(s, a[k], b, k)]
      <4> HIDE DEF n, T
      <4> QED
          OBVIOUS
    <3> HIDE DEF step, n, T
    <3> QED
        BY <3>1, <3>2, <3>3
  <2> HIDE DEF n, step, T
  <2> QED
      BY <2>1, <2>2, <1>0
<1>3. Eq(f)
  <2> HIDE DEF Eq
  <2> QED
      BY <1>2
<1>4. BigMul(a, b) = Normal(f[n])
    BY DEF BigMul, NeitherIsZero
<1> HIDE DEF f
<1>5. f[0] = Zeros(Len(a) + Len(b))
  <2> HIDE DEF n
  <2> QED
      BY <1>3, <1>0
<1>6. ASSUME NEW k \in 0..(n - 1) PROVE f[k + 1] = MulLimb(f[k], a[k + 1], b, k + 1)
  <2> HIDE DEF n
  <2>1. k + 1 \in 0..n /\ k + 1 # 0 /\ (k + 1) - 1 = k
        BY <1>0
  <2>2. f[k + 1] = MulLimb(f[(k + 1) - 1], a[k + 1], b, k + 1)
        BY <2>1, <1>3
  <2> QED
      BY <2>1, <2>2
<1>7. \A k \in 0..n : f[k] \in T
  <2> HIDE DEF T, Eq
  <2> DEFINE P == {k \in Nat : f[k] \in T}
  <2>1. 0 \in P
        BY <1>5, <1>b
  <2>2. ASSUME NEW k \in 0..(n - 1), k \in P PROVE k + 1 \in P
    <3> HIDE DEF n
    <3>1. k + 1 \in 1..n /\ f[k] \in T
          BY <1>0, <2>2
    <3>2. MulLimb(f[k], a[k + 1], b, k + 1) \in T
          BY <3>1, <1>t, Zenon
    <3>3. f[k + 1] \in T /\ k + 1 \in Nat
          BY <3>1, <3>2, <1>6
    <3> QED
        BY <3>3
  <2> HIDE DEF P, n
  <2>3. \A k \in 0..n : k \in P
        BY <1>0, <2>1, <2>2, UpTo, Zenon
  <2> QED
      BY <2>3, <1>0 DEF P
<1> QED
    BY <1>4, <1>5, <1>6, <1>7


LEMMA ProductBound ==
    ASSUME NEW x \in Nat, NEW y \in Nat, NEW m \in Nat, NEW n \in Nat, x < Pow(Base, m), y < Pow(Base, n)
    PROVE  x * y \in Nat /\ x * y < Pow(Base, m + n)
<1>1. PICK p, q \in Nat : p = Pow(Base, m) /\ q = Pow(Base, n) /\ p >= 1 /\ q >= 1
    BY BasePowers
<1>2. x <= p /\ y + 1 <= q
    BY <1>1
<1>3. x * y <= p * y
    BY <1>2, ProductsGrow
<1>4. (y + 1) * p <= q * p
    BY <1>2, ProductsGrow
<1>5. PICK u, v, w \in Nat : u = x * y /\ v = p * y /\ w = p * q
    BY Products
<1>6. (y + 1) * p = v + p /\ q * p = w
    BY <1>5
<1>7. u <= v /\ v + p <= w
    BY <1>3, <1>4, <1>5, <1>6, Zenon
<1>8. u < w
    BY <1>1, <1>7
<1> QED
    BY <1>1, <1>5, <1>8, PowSum, Zenon

LEMMA MulValue ==
    ASSUME NEW a, NEW b, IsBig(a), IsBig(b)
    PROVE  IsBig(BigMul(a, b)) /\ Value(BigMul(a, b)) = Value(a) * Value(b)
<1>1. /\ a \in Seq(LimbValues) /\ b \in Seq(LimbValues) /\ a \in Seq(Nat) /\ b \in Seq(Nat)
      /\ Value(a) \in Nat /\ Value(b) \in Nat
    BY BigFacts, ValueBound, Zenon
<1>2. IsBig(<<0>>) /\ Value(<<0>>) = 0
  <2>1. PICK z : z = Zeros(1)
        OBVIOUS
  <2>2. z \in Seq(LimbValues) /\ Len(z) = 1 /\ Value(z) = 0
    <3>1. 1 \in Nat
          OBVIOUS
    <3> QED
        BY <2>1, <3>1, ZerosValue, Zenon DEF Words
  <2>3. z = <<0>>
        BY <2>1 DEF Zeros
  <2>4. ~(Len(z) > 1) /\ z # <<>>
        BY <2>2
  <2> QED
      BY <2>2, <2>3, <2>4, Zenon DEF IsBig, LimbValues
<1>3. CASE a = <<0>> \/ b = <<0>>
  <2>1. BigMul(a, b) = <<0>>
        BY <1>3, Zenon DEF BigMul
  <2>2. Value(a) = 0 \/ Value(b) = 0
        BY <1>2, <1>3, Zenon
  <2>3. Value(a) * Value(b) = 0
        BY <1>1, <2>2
  <2> QED
      BY <1>2, <2>1, <2>3, Zenon
<1>4. CASE ~(a = <<0>> \/ b = <<0>>)
  <2>1. PICK n, m, w \in Nat : n = Len(a) /\ m = Len(b) /\ w = Value(b) /\ w < Pow(Base, m)
                                 /\ DOMAIN a = 1..n
        BY <1>1, ValueBound
  <2>2. PICK f : /\ \A k \in 0..n : f[k] \in Words(n + m)
                 /\ f[0] = Zeros(n + m)
                 /\ \A k \in 0..(n - 1) : f[k + 1] = MulLimb(f[k], a[k + 1], b, k + 1)
                 /\ BigMul(a, b) = Normal(f[n])
        BY <1>1, <1>4, <2>1, MulLoop DEF NeitherIsZero
  <2> DEFINE S == {k \in 0..n : Value(f[k]) = Low(a)[k] * w}
  <2>3. 0 \in S
    <3>1. n + m \in Nat /\ 0 \in 0..n
          OBVIOUS
    <3>2. Value(f[0]) = 0 /\ Low(a)[0] = 0
          BY <2>2, <3>1, <1>1, ZerosValue, LowSteps, Zenon
    <3>3. 0 * w = 0
          OBVIOUS
    <3> QED
        BY <3>1, <3>2, <3>3, Zenon
  <2>4. ASSUME NEW k \in 0..(n - 1), k \in S PROVE k + 1 \in S
    <3>1. k \in Nat /\ k \in 0..n /\ k + 1 \in 0..n /\ k + 1 \in 1..n /\ k + 1 \in 1..(n + m)
            /\ (k + 1) - 1 = k
          /\ m <= (n + m) - (k + 1) + 1 /\ (k + 1) + m \in Nat /\ (k + 1) + m <= n + m
          BY <2>1
    <3>2. PICK o : o = f[k] /\ o \in Seq(LimbValues) /\ Len(o) = n + m /\ Value(o) = Low(a)[k] * w
          BY <3>1, <2>2, <2>4, Zenon DEF Words
    <3>3. PICK d \in LimbValues : d = a[k + 1] /\ d = Limb(a, k + 1)
      <4>1. a[k + 1] \in LimbValues
            BY <3>1, <2>1, <1>1
      <4> QED
          BY <4>1, <3>1, <2>1, Zenon DEF Limb
    <3>4. d \in Nat
          BY BaseSizes DEF LimbValues
    <3>5. PICK l, p \in Nat : l = Low(a)[k] /\ p = Pow(Base, k)
          BY <3>1, <1>1, LowSteps, BasePowers
    <3>6. Low(a)[k + 1] = l + d * p /\ Low(a)[k + 1] \in Nat /\ Low(a)[k + 1] < Pow(Base, k + 1)
      <4>1. k + 1 \in Nat
            BY <3>1
      <4> QED
          BY <4>1, <3>1, <3>3, <3>5, <1>1, LowSteps, LowBound, ZenonT(30)
    <3>7. l * w + (d * w) * p = (l + d * p) * w
      <4>1. PICK x \in Nat : x = d * p
            BY <3>4, Products
      <4>2. (l + x) * w = l * w + x * w
            BY Products
      <4>3. x * w = (d * w) * p
            BY <3>4, <4>1, Products
      <4> QED
          BY <4>1, <4>2, <4>3, Zenon
    <3>8. PICK y, z \in Nat : y = (l + d * p) * w /\ z = Pow(Base, n + m) /\ y < z
      <4>1. k + 1 \in Nat /\ n + m \in Nat
            BY <3>1
      <4>2. Low(a)[k + 1] * w \in Nat /\ Low(a)[k + 1] * w < Pow(Base, (k + 1) + m)
            BY <3>6, <4>1, <2>1, ProductBound, Zenon
      <4>3. Pow(Base, (k + 1) + m) <= Pow(Base, n + m)
            BY <3>1, <4>1, PowGrows
      <4>4. PICK u, v \in Nat : u = Pow(Base, (k + 1) + m) /\ v = Pow(Base, n + m)
            BY <3>1, <4>1, BasePowers
      <4>5. PICK x \in Nat : x = Low(a)[k + 1] * w
            BY <4>2, Zenon
      <4>6. x < u /\ u <= v
            BY <4>2, <4>3, <4>4, <4>5, Zenon
      <4>7. x < v
            BY <4>6
      <4> QED
          BY <3>6, <4>4, <4>5, <4>7, Zenon
    <3>9. Value(MulLimb(o, d, b, k + 1)) = Value(o) + (d * Value(b)) * Pow(Base, (k + 1) - 1)
      <4>1. Value(o) + (d * Value(b)) * Pow(Base, (k + 1) - 1) < Pow(Base, Len(o))
        <5>1. Value(o) + (d * Value(b)) * Pow(Base, (k + 1) - 1) = y
              BY <3>1, <3>2, <3>5, <3>7, <3>8, <2>1, Zenon
        <5>2. Pow(Base, Len(o)) = z
              BY <3>2, <3>8, Zenon
        <5> QED
            BY <5>1, <5>2, <3>8, Zenon
      <4>2. k + 1 \in 1..Len(o) /\ Len(b) <= Len(o) - (k + 1) + 1
            BY <3>1, <3>2, <2>1, Zenon
      <4> QED
          BY <1>1, <3>2, <4>1, <4>2, MulRow, Zenon
    <3>10. f[k + 1] = MulLimb(o, d, b, k + 1)
          BY <2>2, <3>2, <3>3, Zenon
    <3>11. Value(f[k + 1]) = Low(a)[k + 1] * w
          BY <3>1, <3>2, <3>5, <3>6, <3>7, <3>9, <3>10, <2>1, Zenon
    <3> QED
        BY <3>1, <3>11, Zenon
  <2>5. \A k \in 0..n : k \in S
    <3> HIDE DEF S
    <3> QED
        BY <2>3, <2>4, UpTo, Zenon
  <2>6. Value(f[n]) = Value(a) * Value(b) /\ f[n] \in Seq(LimbValues)
    <3>1. n \in 0..n
          OBVIOUS
    <3>2. Value(f[n]) = Low(a)[n] * w
          BY <2>5, <3>1, Zenon
    <3>3. Low(a)[n] = Value(a)
          BY <1>1, <2>1, ValueBound, Zenon
    <3>4. f[n] \in Words(n + m)
          BY <3>1, <2>2, Zenon
    <3> QED
        BY <3>2, <3>3, <3>4, <2>1, Zenon DEF Words
  <2> QED
      BY <2>2, <2>6, NormalValue, Zenon
<1> QED
    BY <1>3, <1>4, Zenon

----------------------------------------------------------------------------
(* shiftLeftOneAdd.  *)
Doubled(r, bit, s, k) == r[k] * 2 + (IF k = 1 THEN bit ELSE s[k - 1] \div Base)

IsShift(s, n, r, bit) ==
    /\ \A k \in 1..n : s[k] \in Nat /\ s[k] = Doubled(r, bit, s, k)
    /\ ShiftLeftOneAdd(r, bit) =
           [k \in 1..n |-> s[k] % Base] \o (IF s[n] >= Base THEN <<s[n] \div Base>> ELSE <<>>)

LEMMA ShiftRuns ==
    ASSUME NEW r, r \in Seq(LimbValues), NEW bit \in {0, 1}
    PROVE  \E s : IsShift(s, Len(r), r, bit)
<1> DEFINE n == Len(r)
           Eq(s) == s = [k \in 1..n |-> r[k] * 2 + (IF k = 1 THEN bit ELSE s[k - 1] \div Base)]
           f == CHOOSE s : Eq(s)
           base == bit * Base
           step == [k \in 1..n |-> [x \in Nat |-> r[k] * 2 + (x \div Base)]]
<1>0. n \in Nat
    OBVIOUS
<1>a. ShiftLeftOneAdd(r, bit) =
          [k \in 1..n |-> f[k] % Base] \o (IF f[n] >= Base THEN <<f[n] \div Base>> ELSE <<>>)
    BY Zenon DEF ShiftLeftOneAdd
<1>l. \A k \in 1..n : r[k] * 2 \in Nat
  <2>1. r \in Seq(Nat)
        BY DigitSeq, Zenon
  <2>2. \A k \in 1..n : r[k] \in Nat
        BY <2>1, ElementOfSeq, Zenon
  <2> QED
      BY <2>2
<1>b. base \in Nat /\ base \div Base = bit
  <2>1. base \in Nat
        BY BaseSizes
  <2>2. bit \in Int /\ base \in Int /\ 0 \in Nat /\ 0 < Base /\ base = bit * Base + 0
        BY <2>1, BaseSizes
  <2> HIDE DEF base
  <2> QED
      BY <2>1, <2>2, BaseSizes, Quotient
<1> HIDE DEF n, base
<1>1. step \in [1..n -> [Nat -> Nat]]
  <2>1. ASSUME NEW k \in 1..n, NEW x \in Nat PROVE r[k] * 2 + (x \div Base) \in Nat
    <3>1. PICK u, v \in Nat : u = r[k] * 2 /\ v = x \div Base
      <4>1. x \div Base \in Nat
            BY Division, BaseSizes
      <4> QED
          BY <4>1, <1>l
    <3> QED
        BY <3>1
  <2> QED
      BY <2>1
<1>2. \A k \in 1..n : \A x \in Nat : step[k][x] = r[k] * 2 + (x \div Base)
    OBVIOUS
<1>3. PICK s : /\ s \in [1..n -> Nat]
               /\ \A k \in 1..n : /\ (IF k = 1 THEN base ELSE s[k - 1]) \in Nat
                                  /\ s[k] = step[k][IF k = 1 THEN base ELSE s[k - 1]]
  <2> HIDE DEF step
  <2>1. \E s : Carries(s, n, Nat, base, step)
        BY <1>0, <1>b, <1>1, CarryRun, Zenon
  <2> QED
      BY <2>1, Zenon DEF Carries
<1>4. ASSUME NEW k \in 1..n PROVE s[k] = r[k] * 2 + (IF k = 1 THEN bit ELSE s[k - 1] \div Base)
  <2>1. s[k] = r[k] * 2 + ((IF k = 1 THEN base ELSE s[k - 1]) \div Base)
    <3> HIDE DEF step
    <3> QED
        <4>1. PICK x \in Nat : x = IF k = 1 THEN base ELSE s[k - 1]
              BY <1>3
        <4>2. s[k] = step[k][x]
              BY <1>3, <4>1, Zenon
        <4>3. step[k][x] = r[k] * 2 + (x \div Base)
              BY <1>2, Zenon
        <4> QED
            BY <4>1, <4>2, <4>3, Zenon
  <2>2. CASE k = 1
        BY <2>1, <2>2, <1>b, Zenon
  <2>3. CASE k # 1
        BY <2>1, <2>3, Zenon
  <2> QED
      BY <2>2, <2>3, Zenon
<1>5. Eq(s)
  <2>1. s = [k \in 1..n |-> s[k]]
        BY <1>3
  <2> QED
      BY <1>4, <2>1, Zenon
<1>6. Eq(f)
  <2> HIDE DEF Eq
  <2> QED
      BY <1>5, Zenon
<1> HIDE DEF f
<1>7. ASSUME NEW k \in 1..n PROVE f[k] = r[k] * 2 + (IF k = 1 THEN bit ELSE f[k - 1] \div Base)
    BY <1>6, Zenon
<1>8. \A k \in 1..n : f[k] \in Nat
  <2> DEFINE S == {k \in 0..n : k = 0 \/ f[k] \in Nat}
  <2>1. 0 \in S
        BY <1>0
  <2>2. ASSUME NEW k \in 0..(n - 1), k \in S PROVE k + 1 \in S
    <3>1. k + 1 \in 1..n /\ k + 1 \in 0..n /\ (k + 1) - 1 = k /\ (k + 1 = 1 <=> k = 0)
          BY <1>0
    <3>2. PICK e \in Nat : e = IF k + 1 = 1 THEN bit ELSE f[(k + 1) - 1] \div Base
      <4>1. CASE k = 0
            BY <4>1
      <4>2. CASE k # 0
        <5>1. PICK y \in Nat : y = f[(k + 1) - 1]
              BY <4>2, <3>1, <2>2, Zenon
        <5>2. y \div Base \in Nat
              BY Division, BaseSizes
        <5>3. f[(k + 1) - 1] \div Base \in Nat
              BY <5>1, <5>2, Zenon
        <5> QED
            BY <5>3, <4>2, <3>1, Zenon
      <4> QED
          BY <4>1, <4>2
    <3>3. f[k + 1] = r[k + 1] * 2 + e
          BY <3>1, <3>2, <1>7, Zenon
    <3>4. f[k + 1] \in Nat
          BY <3>1, <3>3, <1>l
    <3> QED
        BY <3>1, <3>4, Zenon
  <2>3. \A k \in 0..n : k \in S
    <3> HIDE DEF S
    <3> QED
        BY <1>0, <2>1, <2>2, UpTo, Zenon
  <2>4. \A k \in 1..n : k \in 0..n /\ k # 0
        OBVIOUS
  <2> QED
      BY <2>3, <2>4, Zenon
<1> QED
    BY <1>a, <1>7, <1>8, Zenon DEF Doubled, IsShift, n

LEMMA ShiftValue ==
    ASSUME NEW r, IsBig(r), NEW bit \in {0, 1}
    PROVE  IsBig(ShiftLeftOneAdd(r, bit)) /\ Value(ShiftLeftOneAdd(r, bit)) = 2 * Value(r) + bit
<1>1. r \in Seq(LimbValues) /\ r \in Seq(Nat)
    BY BigFacts, Zenon
<1>2. PICK n \in Nat : n = Len(r) /\ n >= 1 /\ (n > 1 => r[n] # 0) /\ n \in 1..n /\ n \in 0..n
                         /\ n - 1 \in 0..n
  <2>1. Len(r) \in Nat /\ Len(r) >= 1 /\ (Len(r) > 1 => r[Len(r)] # 0)
        BY BigFacts
  <2>2. Len(r) \in 1..Len(r) /\ Len(r) \in 0..Len(r) /\ Len(r) - 1 \in 0..Len(r)
        BY <2>1
  <2> QED
      BY <2>1, <2>2, Zenon
<1>r. \A k \in 1..n : r[k] \in Nat /\ r[k] <= Base - 1 /\ Limb(r, k) = r[k]
  <2>1. \A k \in 1..n : Limb(r, k) = r[k]
    <3>1. DOMAIN r = 1..n
          BY <1>1, <1>2
    <3> QED
        BY <3>1, Zenon DEF Limb
  <2> QED
      BY <2>1, <1>1, DigitSeq
<1>3. PICK s : IsShift(s, n, r, bit)
    BY <1>1, <1>2, ShiftRuns, Zenon
<1>4. /\ \A k \in 1..n : s[k] \in Nat /\ s[k] = Doubled(r, bit, s, k)
      /\ ShiftLeftOneAdd(r, bit) =
             [k \in 1..n |-> s[k] % Base] \o (IF s[n] >= Base THEN <<s[n] \div Base>> ELSE <<>>)
    BY <1>3, Zenon DEF IsShift
<1> DEFINE q == [k \in 1..n |-> s[k] % Base]
           c == [k \in 0..n |-> IF k = 0 THEN 0 ELSE s[k] \div Base]
           x == [k \in 1..n |-> r[k] * 2 + (IF k = 1 THEN bit ELSE 0)]
           X == [k \in 0..n |-> 2 * Low(r)[k] + (IF k = 0 THEN 0 ELSE bit)]
<1>5. ASSUME NEW k \in 1..n PROVE s[k] = x[k] + c[k - 1] /\ x[k] \in Nat
  <2>1. s[k] = r[k] * 2 + (IF k = 1 THEN bit ELSE s[k - 1] \div Base)
        BY <1>4, Zenon DEF Doubled
  <2>2. PICK d \in Nat : d = r[k]
        BY <1>r
  <2>3. CASE k = 1
    <3>1. x[k] = d * 2 + bit
          BY <2>2, <2>3, Zenon
    <3>2. c[k - 1] = 0
      <4>1. k - 1 = 0 /\ 0 \in 0..n
            BY <2>3
      <4> QED
          BY <4>1, Zenon
    <3>3. s[k] = d * 2 + bit
          BY <2>1, <2>2, <2>3, Zenon
    <3>4. d * 2 + bit \in Nat /\ d * 2 + bit = (d * 2 + bit) + 0
          OBVIOUS
    <3> HIDE DEF c, x
    <3> QED
        BY <3>1, <3>2, <3>3, <3>4, Zenon
  <2>4. CASE k # 1
    <3>1. x[k] = d * 2 + 0
          BY <2>2, <2>4, Zenon
    <3>2. c[k - 1] = s[k - 1] \div Base
      <4>1. k - 1 # 0 /\ k - 1 \in 0..n
            BY <2>4
      <4> QED
          BY <4>1, Zenon
    <3>3. s[k] = d * 2 + (s[k - 1] \div Base)
          BY <2>1, <2>2, <2>4, Zenon
    <3>4. d * 2 + 0 \in Nat /\ d * 2 + 0 = d * 2
          OBVIOUS
    <3> HIDE DEF c, x
    <3> QED
        BY <3>1, <3>2, <3>3, <3>4, Zenon
  <2> QED
      BY <2>3, <2>4, Zenon
<1>6. \A k \in 1..n : /\ c[k] = s[k] \div Base /\ c[k] \in Nat
                      /\ s[k] % Base \in LimbValues
                      /\ (s[k] % Base) + c[k] * Base = s[k]
  <2> SUFFICES ASSUME NEW k \in 1..n
               PROVE  /\ c[k] = s[k] \div Base /\ c[k] \in Nat
                      /\ s[k] % Base \in LimbValues
                      /\ (s[k] % Base) + c[k] * Base = s[k]
      OBVIOUS
  <2>1. PICK y \in Nat : y = s[k]
        BY <1>4
  <2>2. PICK d, m \in Nat : d = y \div Base /\ m = y % Base /\ m < Base /\ d * Base + m = y
        BY BaseSizes, Division
  <2>3. c[k] = s[k] \div Base
        OBVIOUS
  <2>4. m \in LimbValues
        BY <2>2, BaseSizes DEF LimbValues
  <2>5. m + d * Base = y
    <3>1. PICK u \in Nat : u = d * Base
          BY BaseSizes, Products
    <3> QED
        BY <2>2, <3>1
  <2> HIDE DEF c
  <2> QED
      BY <2>1, <2>2, <2>3, <2>4, <2>5, Zenon
<1>7. q \in Seq(LimbValues) /\ Len(q) = n /\ \A k \in 1..n : q[k] = s[k] % Base /\ Limb(q, k) = s[k] % Base
  <2> HIDE DEF c
  <2>1. q \in [1..n -> LimbValues]
        BY <1>6, Zenon
  <2>2. q \in Seq(LimbValues) /\ Len(q) = n /\ DOMAIN q = 1..n
    <3> HIDE DEF q
    <3> QED
        BY <2>1
  <2>3. \A k \in 1..n : q[k] = s[k] % Base
        OBVIOUS
  <2> HIDE DEF q
  <2> QED
      BY <2>2, <2>3, Zenon DEF Limb
<1>8. \A k \in 0..n : c[k] \in {0, 1}
  <2> DEFINE S == {k \in 0..n : c[k] \in {0, 1}}
  <2>1. 0 \in S
        OBVIOUS
  <2>2. ASSUME NEW k \in 0..(n - 1), k \in S PROVE k + 1 \in S
    <3>1. k + 1 \in 1..n /\ k + 1 \in 0..n /\ (k + 1) - 1 = k
          OBVIOUS
    <3>2. PICK e \in {0, 1} : e = c[k]
          BY <2>2, Zenon
    <3>3. PICK d \in Nat, m \in Nat, g \in Nat :
             /\ d = c[k + 1] /\ m = s[k + 1] % Base /\ g = r[k + 1] /\ g <= Base - 1
      <4> HIDE DEF c
      <4>1. c[k + 1] \in Nat /\ s[k + 1] % Base \in LimbValues
            BY <3>1, <1>6, Zenon
      <4>2. s[k + 1] % Base \in Nat
            BY <4>1, BaseSizes DEF LimbValues
      <4> QED
          BY <4>1, <4>2, <3>1, <1>r, Zenon
    <3>4. PICK h \in {0, 1} : m + d * Base = g * 2 + h /\ (k = 0 => h = bit) /\ (k # 0 => h = e)
      <4>1. s[k + 1] = r[k + 1] * 2 + (IF k + 1 = 1 THEN bit ELSE s[(k + 1) - 1] \div Base)
            BY <3>1, <1>4, Zenon DEF Doubled
      <4>2. CASE k = 0
        <5>1. k + 1 = 1
              BY <4>2
        <5>2. s[k + 1] = g * 2 + bit
              BY <5>1, <4>1, <3>3, Zenon
        <5> HIDE DEF c
        <5> QED
            BY <5>2, <4>2, <3>1, <3>3, <1>6, Zenon
      <4>3. CASE k # 0
        <5>1. k + 1 # 1
              BY <4>3
        <5>2. c[k] = s[k] \div Base
              BY <4>3
        <5>3. s[k + 1] = g * 2 + e
              BY <5>1, <5>2, <4>1, <3>1, <3>2, <3>3, Zenon
        <5> HIDE DEF c
        <5> QED
            BY <5>3, <4>3, <3>1, <3>3, <1>6, Zenon
      <4> QED
          BY <4>2, <4>3
    <3>5. d < 2
      <4>1. ASSUME d >= 2 PROVE FALSE
        <5>1. 2 * Base <= d * Base
              BY <4>1, ProductsGrow, BaseSizes
        <5>2. PICK u \in Nat : u = d * Base
              BY BaseSizes, Products
        <5>3. 2 * Base <= u /\ m + u = g * 2 + h
              BY <5>1, <5>2, <3>4, Zenon
        <5> HIDE DEF c
        <5> QED
            BY <5>3, <3>3, BaseSizes
      <4> QED
          BY <4>1
    <3>6. d \in {0, 1}
          BY <3>5
    <3> HIDE DEF c
    <3> QED
        BY <3>1, <3>3, <3>6, Zenon
  <2>3. \A k \in 0..n : k \in S
    <3> HIDE DEF S
    <3> QED
        BY <2>1, <2>2, UpTo, Zenon
  <2> HIDE DEF c
  <2> QED
      BY <2>3, Zenon
<1>9. IsChain(q, c, x, X, n)
  <2>1. c[0] = 0
        OBVIOUS
  <2>2. X[0] = 0
    <3>1. X[0] = 2 * Low(r)[0] + 0
          OBVIOUS
    <3>2. Low(r)[0] = 0
          BY <1>1, LowSteps, Zenon
    <3> HIDE DEF X
    <3> QED
        BY <3>1, <3>2
  <2>3. ASSUME NEW k \in 0..n PROVE c[k] \in Int /\ X[k] \in Int
    <3>1. c[k] \in Int
      <4> HIDE DEF c
      <4> QED
          BY <1>8
    <3>2. X[k] = 2 * Low(r)[k] + (IF k = 0 THEN 0 ELSE bit) /\ k \in Nat
          OBVIOUS
    <3>3. PICK l \in Nat : l = Low(r)[k]
          BY <3>2, <1>1, LowSteps, Zenon
    <3>4. PICK e \in Nat : e = IF k = 0 THEN 0 ELSE bit
          OBVIOUS
    <3>5. 2 * l + e \in Int
          OBVIOUS
    <3> HIDE DEF c, X
    <3> QED
        BY <3>1, <3>2, <3>3, <3>4, <3>5, Zenon
  <2>4. ASSUME NEW k \in 1..n
        PROVE  /\ x[k] \in Int
               /\ X[k] = X[k - 1] + x[k] * Pow(Base, k - 1)
               /\ Limb(q, k) + c[k] * Base = x[k] + c[k - 1]
    <3>1. k - 1 \in Nat /\ (k - 1) + 1 = k /\ k - 1 \in 0..n /\ k \in 0..n /\ k # 0 /\ (k - 1 = 0 <=> k = 1)
          OBVIOUS
    <3>2. PICK g, p, u \in Nat : g = r[k] /\ p = Pow(Base, k - 1) /\ u = Low(r)[k - 1]
          BY <3>1, <1>1, <1>r, BasePowers, LowSteps
    <3>3. Low(r)[k] = u + g * p
      <4>1. Low(r)[(k - 1) + 1] = Low(r)[k - 1] + Limb(r, (k - 1) + 1) * Pow(Base, k - 1)
            BY <3>1, <1>1, LowSteps, Zenon
      <4> QED
          BY <4>1, <3>1, <3>2, <1>r, Zenon
    <3>4. X[k] = 2 * (u + g * p) + bit
          BY <3>1, <3>3, Zenon
    <3>5. X[k] = X[k - 1] + x[k] * p
      <4>1. PICK y \in Nat : y = g * p
            BY Products
      <4>2. CASE k = 1
        <5>1. X[k - 1] = 2 * u + 0
              BY <3>1, <3>2, <4>2, Zenon
        <5>2. x[k] = g * 2 + bit
              BY <3>2, <4>2, Zenon
        <5>3. p = 1
          <6>1. Pow(Base, 0) = 1 /\ k - 1 = 0
                BY <4>2, BasePowers
          <6> QED
              BY <6>1, <3>2, Zenon
        <5>4. y = g
              BY <4>1, <5>3
        <5>5. 2 * (u + y) + bit = (2 * u + 0) + (g * 2 + bit) * 1
              BY <5>4
        <5> HIDE DEF x, X
        <5> QED
            BY <5>1, <5>2, <5>3, <5>5, <3>4, <4>1, Zenon
      <4>3. CASE k # 1
        <5>1. X[k - 1] = 2 * u + bit
              BY <3>1, <3>2, <4>3, Zenon
        <5>2. x[k] = g * 2 + 0
              BY <3>2, <4>3, Zenon
        <5>3. (g * 2 + 0) * p = 2 * y
              BY <4>1
        <5>4. 2 * (u + y) + bit = (2 * u + bit) + 2 * y
              OBVIOUS
        <5> HIDE DEF x, X
        <5> QED
            BY <5>1, <5>2, <5>3, <5>4, <3>4, <4>1, Zenon
      <4> QED
          BY <4>2, <4>3, Zenon
    <3>6. Limb(q, k) + c[k] * Base = x[k] + c[k - 1]
      <4> HIDE DEF q, c, x
      <4> QED
          BY <1>5, <1>6, <1>7, Zenon
    <3>7. x[k] \in Int
      <4> HIDE DEF c, x
      <4> QED
          BY <1>5
    <3> HIDE DEF q, c, x, X
    <3> QED
        BY <3>2, <3>5, <3>6, <3>7, Zenon
  <2> HIDE DEF q, c, x, X
  <2> QED
      BY <2>1, <2>2, <2>3, <2>4, Zenon DEF IsChain
<1>10. Low(q)[n] + c[n] * Pow(Base, n) = 2 * Value(r) + bit
  <2>1. X[n] = 2 * Value(r) + bit
    <3>1. Low(r)[n] = Value(r)
          BY <1>1, <1>2, ValueBound, Zenon
    <3>2. n \in 0..n /\ n # 0
          BY <1>2
    <3>3. X[n] = 2 * Low(r)[n] + bit
          BY <3>2, Zenon
    <3> HIDE DEF X
    <3> QED
        BY <3>1, <3>3, Zenon
  <2>2. q \in Seq(Nat)
    <3> HIDE DEF q
    <3> QED
        BY <1>7, DigitSeq, Zenon
  <2> HIDE DEF q, c, x, X
  <2>3. Low(q)[n] + c[n] * Pow(Base, n) = X[n]
        BY <2>2, <1>9, Chain, Zenon
  <2> QED
      BY <2>1, <2>3, Zenon
<1>11. s[n] = x[n] + c[n - 1] /\ c[n - 1] \in {0, 1} /\ n \in 1..n /\ (n > 1 => x[n] = r[n] * 2 + 0)
  <2>1. n > 1 => x[n] = r[n] * 2 + 0
        BY <1>2
  <2> HIDE DEF c, x
  <2> QED
      BY <2>1, <1>2, <1>5, <1>8, Zenon
<1>12. Value(q) = Low(q)[n] /\ Value(q) \in Nat
  <2> HIDE DEF q
  <2> QED
      BY <1>7, ValueBound, Zenon
<1> HIDE DEF x, X
<1>13. PICK d, m, p, y \in Nat : d = c[n] /\ d \in {0, 1} /\ m = s[n] % Base /\ p = Pow(Base, n) /\ y = s[n]
                                 /\ d = y \div Base /\ m + d * Base = y /\ m < Base
  <2>1. n \in 0..n /\ n \in 1..n
        BY <1>11
  <2>2. s[n] \in Nat /\ s[n] % Base \in Nat /\ s[n] % Base < Base
        BY <2>1, <1>4, Division, BaseSizes
  <2>3. c[n] \in {0, 1} /\ c[n] = s[n] \div Base /\ (s[n] % Base) + c[n] * Base = s[n] /\ c[n] \in Nat
    <3> HIDE DEF c
    <3> QED
        BY <2>1, <1>6, <1>8, Zenon
  <2>4. Pow(Base, n) \in Nat
        BY BasePowers
  <2> HIDE DEF c
  <2> QED
      BY <2>2, <2>3, <2>4, Zenon
<1> HIDE DEF c
<1>14. CASE d = 0
  <2>1. y < Base /\ ~(s[n] >= Base) /\ m = y
    <3>1. m = y /\ ~(y >= Base) /\ y < Base
      <4>1. m + 0 * Base = y /\ m < Base
            BY <1>13, <1>14, Zenon
      <4> QED
          BY <4>1, BaseSizes
    <3> QED
        BY <3>1, <1>13, Zenon
  <2>2. ShiftLeftOneAdd(r, bit) = q
    <3>1. ShiftLeftOneAdd(r, bit) = q \o <<>>
          BY <2>1, <1>4, Zenon
    <3> HIDE DEF q
    <3> QED
        BY <3>1, <1>7
  <2>3. Value(q) = 2 * Value(r) + bit
    <3>1. Value(q) + d * p = 2 * Value(r) + bit
      <4> HIDE DEF q
      <4> QED
          BY <1>10, <1>12, <1>13, Zenon
    <3>2. d * p = 0
          BY <1>14
    <3>3. PICK v \in Nat : v = Value(q)
      <4> HIDE DEF q
      <4> QED
          BY <1>12, Zenon
    <3>4. v + 0 = v
          OBVIOUS
    <3> HIDE DEF q
    <3> QED
        BY <3>1, <3>2, <3>3, <3>4, Zenon
  <2>4. IsBig(q)
    <3>1. n > 1 => q[n] # 0
      <4>1. q[n] = y
        <5> HIDE DEF q
        <5> QED
            BY <2>1, <1>7, <1>11, <1>13, Zenon
      <4>2. ASSUME n > 1 PROVE y > 0
        <5>1. PICK g \in Nat : g = r[n] /\ g # 0
              BY <1>2, <1>r, <4>2
        <5>2. PICK e \in {0, 1} : e = c[n - 1]
              BY <1>11, Zenon
        <5>3. y = (g * 2 + 0) + e
              BY <5>1, <5>2, <4>2, <1>11, <1>13, Zenon
        <5> QED
          <6>1. g # 0 /\ e \in {0, 1} /\ y = (g * 2 + 0) + e
                BY <5>1, <5>3, Zenon
          <6> HIDE DEF q
          <6> QED
              BY <6>1
      <4> HIDE DEF q
      <4> QED
          BY <4>1, <4>2
    <3>2. q # <<>>
      <4> HIDE DEF q
      <4> QED
          BY <1>2, <1>7
    <3> HIDE DEF q
    <3> QED
        BY <3>1, <3>2, <1>7, Zenon DEF IsBig, LimbValues
  <2> HIDE DEF q
  <2> QED
      BY <2>2, <2>3, <2>4, Zenon
<1>15. CASE d = 1
  <2>1. s[n] >= Base /\ 1 \in LimbValues
    <3>1. y >= Base
      <4>1. m + 1 * Base = y
            BY <1>13, <1>15, Zenon
      <4> QED
          BY <4>1, BaseSizes
    <3>2. 1 \in LimbValues
          BY BaseSizes DEF LimbValues
    <3> QED
        BY <3>1, <3>2, <1>13, Zenon
  <2>2. ShiftLeftOneAdd(r, bit) = q \o <<1>>
        BY <2>1, <1>4, <1>13, <1>15, Zenon
  <2>3. q \o <<1>> \in Seq(LimbValues) /\ Value(q \o <<1>>) = Value(q) + 1 * p
    <3> HIDE DEF q
    <3> QED
        BY <2>1, <1>7, <1>13, ValueAppend, Zenon
  <2>4. Value(q) + 1 * p = 2 * Value(r) + bit
    <3> HIDE DEF q
    <3> QED
        BY <1>10, <1>12, <1>13, <1>15, Zenon
  <2>5. IsBig(q \o <<1>>)
    <3>1. PICK t : t = q \o <<1>>
          OBVIOUS
    <3>2. Len(t) = n + 1 /\ t[n + 1] = 1 /\ t # <<>>
      <4> HIDE DEF q
      <4> QED
          BY <3>1, <1>7
    <3>3. t[Len(t)] # 0
          BY <3>2
    <3> HIDE DEF q
    <3> QED
        BY <3>1, <3>2, <3>3, <2>3, Zenon DEF IsBig, LimbValues
  <2> HIDE DEF q
  <2> QED
      BY <2>2, <2>3, <2>4, <2>5, Zenon
<1> QED
    BY <1>13, <1>14, <1>15, Zenon

----------------------------------------------------------------------------
(* Bits.  *)
LEMMA PowAdds ==
    ASSUME NEW b \in Nat, NEW m \in Nat
    PROVE  \A n \in Nat : Pow(b, m + n) = Pow(b, m) * Pow(b, n)
<1> DEFINE S == {n \in Nat : Pow(b, m + n) = Pow(b, m) * Pow(b, n)}
<1>1. 0 \in S
  <2>1. PICK p \in Nat : p = Pow(b, m)
        BY PowRules
  <2>2. m + 0 = m /\ p * 1 = p /\ 0 \in Nat
        OBVIOUS
  <2>3. Pow(b, 0) = 1
        BY PowRules, Zenon
  <2> QED
      BY <2>1, <2>2, <2>3, Zenon
<1>2. ASSUME NEW n \in S PROVE n + 1 \in S
  <2>1. PICK p, q \in Nat : p = Pow(b, m) /\ q = Pow(b, n)
        BY PowRules
  <2>2. PICK j \in Nat : j = m + n /\ j + 1 = m + (n + 1) /\ n + 1 \in Nat
    <3>1. m + n \in Nat /\ (m + n) + 1 = m + (n + 1) /\ n + 1 \in Nat
          OBVIOUS
    <3> QED
        BY <3>1
  <2>3. Pow(b, j) = p * q
        BY <2>1, <2>2, Zenon
  <2>4. Pow(b, j + 1) = b * (p * q) /\ Pow(b, n + 1) = b * q
        BY <2>1, <2>2, <2>3, PowRules
  <2>5. b * (p * q) = p * (b * q)
        BY Products
  <2> QED
      BY <2>1, <2>2, <2>4, <2>5, Zenon
<1>3. S = Nat
  <2> HIDE DEF S
  <2>1. S \subseteq Nat
        BY DEF S
  <2> QED
      BY <1>1, <1>2, <2>1, NatSet, Zenon
<1> QED
    BY <1>3

LEMMA LimbPowers == \A q \in Nat : Pow(Base, q) = Pow(2, LimbBits * q)
<1> DEFINE S == {q \in Nat : Pow(Base, q) = Pow(2, LimbBits * q)}
<1>1. 0 \in S
  <2>1. LimbBits * 0 = 0 /\ 0 \in Nat /\ 2 \in Nat
        BY BaseSizes
  <2>2. Pow(Base, 0) = 1 /\ Pow(2, 0) = 1
        BY <2>1, BasePowers, PowRules, Zenon
  <2> QED
      BY <2>1, <2>2, Zenon
<1>2. ASSUME NEW q \in S PROVE q + 1 \in S
  <2>1. PICK j \in Nat : j = LimbBits * q /\ LimbBits * (q + 1) = j + LimbBits
    <3>1. LimbBits * q \in Nat /\ LimbBits * (q + 1) = LimbBits * q + LimbBits
          BY BaseSizes
    <3> QED
        BY <3>1
  <2>2. Pow(2, j + LimbBits) = Pow(2, j) * Pow(2, LimbBits)
        BY BaseSizes, PowAdds
  <2>3. PICK p \in Nat : p = Pow(2, j)
        BY PowRules
  <2>4. p * Base = Base * p
        BY BaseSizes, Products
  <2>5. Pow(Base, q + 1) = Base * Pow(Base, q) /\ q + 1 \in Nat
        BY BasePowers
  <2>6. Pow(Base, q) = p
        BY <2>1, <2>3, Zenon
  <2> QED
      BY <2>1, <2>2, <2>3, <2>4, <2>5, <2>6, Zenon DEF Base
<1>3. S = Nat
  <2> HIDE DEF S
  <2>1. S \subseteq Nat
        BY DEF S
  <2> QED
      BY <1>1, <1>2, <2>1, NatSet, Zenon
<1> QED
    BY <1>3

(* What the limbs above the m-th add is a multiple of its weight.  *)
LEMMA LowSplit ==
    ASSUME NEW a, a \in Seq(LimbValues), NEW m \in Nat
    PROVE  \A j \in Nat : \E h \in Nat : Low(a)[m + j] = Low(a)[m] + h * Pow(Base, m)
<1> DEFINE S == {j \in Nat : \E h \in Nat : Low(a)[m + j] = Low(a)[m] + h * Pow(Base, m)}
<1>0. a \in Seq(Nat)
    BY DigitSeq
<1>1. 0 \in S
  <2>1. PICK l, p \in Nat : l = Low(a)[m] /\ p = Pow(Base, m)
        BY <1>0, LowSteps, BasePowers
  <2>2. m + 0 = m /\ l = l + 0 * p /\ 0 \in Nat
        OBVIOUS
  <2>3. Low(a)[m + 0] = Low(a)[m] + 0 * Pow(Base, m)
        BY <2>1, <2>2, Zenon
  <2> QED
      BY <2>2, <2>3, Zenon
<1>2. ASSUME NEW j \in S PROVE j + 1 \in S
  <2>1. j \in Nat /\ j + 1 \in Nat /\ m + j \in Nat /\ m + (j + 1) = (m + j) + 1
        OBVIOUS
  <2>2. PICK h \in Nat : Low(a)[m + j] = Low(a)[m] + h * Pow(Base, m)
        BY Zenon
  <2>3. PICK l, d, p, q \in Nat : l = Low(a)[m] /\ d = Limb(a, (m + j) + 1) /\ p = Pow(Base, m)
                                    /\ q = Pow(Base, j)
        BY <1>0, <2>1, LowSteps, DigitSeq, BasePowers
  <2>4. Low(a)[(m + j) + 1] = (l + h * p) + d * (p * q)
    <3>1. Low(a)[(m + j) + 1] = Low(a)[m + j] + Limb(a, (m + j) + 1) * Pow(Base, m + j)
          BY <1>0, <2>1, LowSteps, Zenon
    <3>2. Pow(Base, m + j) = p * q
          BY <2>1, <2>3, PowSum, Zenon
    <3> QED
        BY <3>1, <3>2, <2>2, <2>3, Zenon
  <2>5. PICK g \in Nat : g = h + d * q
    <3>1. d * q \in Nat
          BY Products
    <3>2. h + d * q \in Nat
          BY <3>1
    <3> QED
        BY <3>2
  <2>6. (l + h * p) + d * (p * q) = l + g * p
    <3>1. PICK x \in Nat : x = d * q
          BY Products
    <3>2. d * (p * q) = x * p
      <4>1. p * q = q * p /\ d * (q * p) = (d * q) * p
            BY Products
      <4> QED
          BY <4>1, <3>1, Zenon
    <3>3. (h + x) * p = h * p + x * p
          BY Products
    <3>4. PICK y, z \in Nat : y = h * p /\ z = x * p
          BY Products
    <3>5. (l + y) + z = l + (y + z)
          OBVIOUS
    <3> QED
        BY <2>5, <3>1, <3>2, <3>3, <3>4, <3>5, Zenon
  <2>7. Low(a)[m + (j + 1)] = Low(a)[m] + g * Pow(Base, m)
        BY <2>1, <2>3, <2>4, <2>6, Zenon
  <2> QED
      BY <2>1, <2>7, Zenon
<1>3. S = Nat
  <2> HIDE DEF S
  <2>1. S \subseteq Nat
        BY DEF S
  <2> QED
      BY <1>1, <1>2, <2>1, NatSet, Zenon
<1> QED
    BY <1>3

LEMMA TwoPowers == \A n \in Nat : Pow(2, n) \in Nat /\ Pow(2, n) >= 1 /\ Pow(2, n + 1) = 2 * Pow(2, n)
<1>1. 2 \in Nat /\ 2 > 0
    OBVIOUS
<1> QED
    BY <1>1, PowPositive, PowRules

(* A limb that is w from the bottom of a number, cut at a bit.  *)
IsCut(h, e, f, l, w, s, u) ==
    /\ (l + (e * s + f) * w) + h * ((s * u) * w) = (h * u + e) * (s * w) + (f * w + l)
    /\ f * w + l \in Nat /\ f * w + l < s * w

LEMMA BitAlgebra ==
    ASSUME NEW h \in Nat, NEW e \in Nat, NEW f \in Nat, NEW l \in Nat, NEW w \in Nat, NEW s \in Nat,
           NEW u \in Nat,
           l < w, f < s
    PROVE  IsCut(h, e, f, l, w, s, u)
<1>1. PICK x, y \in Nat : x = s * w /\ y = f * w
    BY Products
<1>2. (e * s + f) * w = e * x + y
  <2>1. PICK z \in Nat : z = e * s
        BY Products
  <2>2. (z + f) * w = z * w + f * w /\ z * w = e * (s * w)
        BY <2>1, Products
  <2> QED
      BY <2>1, <2>2, <1>1, Zenon
<1>3. h * ((s * u) * w) = (h * u) * x
  <2>1. (s * u) * w = u * (s * w)
        BY Products
  <2>2. h * (u * x) = (h * u) * x
        BY Products
  <2> QED
      BY <2>1, <2>2, <1>1, Zenon
<1>4. PICK g, c, d \in Nat : g = h * u /\ c = e * x /\ d = g * x
  <2>1. PICK g \in Nat : g = h * u
        BY Products
  <2>2. e * x \in Nat /\ g * x \in Nat
        BY Products
  <2> QED
      BY <2>1, <2>2
<1>5. (g + e) * x = d + c
    BY <1>4, Products
<1>6. (l + (c + y)) + d = (d + c) + (y + l)
    OBVIOUS
<1>7. (l + (e * s + f) * w) + h * ((s * u) * w) = (h * u + e) * (s * w) + (f * w + l)
    BY <1>1, <1>2, <1>3, <1>4, <1>5, <1>6, Zenon
<1>8. (f + 1) * w <= s * w
  <2>1. f + 1 <= s
        OBVIOUS
  <2> QED
      BY <2>1, ProductsGrow
<1>9. (f + 1) * w = y + w
    BY <1>1, Products
<1>10. y + w <= x
    BY <1>1, <1>8, <1>9, Zenon
<1>11. y + l \in Nat /\ y + l < x
    BY <1>10
<1> QED
    BY <1>1, <1>7, <1>11, Zenon DEF IsCut

LEMMA BitValue ==
    ASSUME NEW a, a \in Seq(LimbValues), NEW k \in 0..(BitCount(a) - 1)
    PROVE  /\ Bit(a, k) \in {0, 1}
           /\ Value(a) \div Pow(2, k) \in Nat
           /\ Bit(a, k) = (Value(a) \div Pow(2, k)) % 2
<1>0. PICK n, z \in Nat : n = Len(a) /\ z = LimbBits /\ z > 0 /\ DOMAIN a = 1..n
    BY BaseSizes
<1>1. PICK q \in Nat, t \in Nat : q = k \div z /\ t = k % z /\ t < z /\ q * z + t = k
    BY <1>0, Division
<1>2. q < n
  <2>1. k < n * z
    <3>1. BitCount(a) = n * z
          BY <1>0, Zenon DEF BitCount
    <3>2. PICK x \in Nat : x = n * z
          BY Products
    <3>3. k \in 0..(x - 1)
          BY <3>1, <3>2, Zenon
    <3>4. k < x
          BY <3>3
    <3> QED
        BY <3>2, <3>4, Zenon
  <2>2. ASSUME n <= q PROVE FALSE
    <3>1. n * z <= q * z
          BY <2>2, ProductsGrow
    <3>2. PICK x, y \in Nat : x = n * z /\ y = q * z
          BY Products
    <3>3. x <= y /\ y + t = k /\ k < x
          BY <2>1, <3>1, <3>2, <1>1, Zenon
    <3> QED
        BY <3>3
  <2> QED
      BY <2>2
<1>3. PICK d \in Nat : d = a[q + 1] /\ d = Limb(a, q + 1)
  <2>1. q + 1 \in 1..n
        BY <1>2
  <2>2. Limb(a, q + 1) = a[q + 1] /\ Limb(a, q + 1) \in Nat
        BY <2>1, <1>0, DigitSeq, Zenon DEF Limb
  <2> QED
      BY <2>2
<1>4. PICK s, u, w \in Nat : s = Pow(2, t) /\ s >= 1 /\ u = Pow(2, (z - t) - 1) /\ w = Pow(Base, q)
                               /\ w >= 1
  <2>1. (z - t) - 1 \in Nat
        BY <1>1
  <2> QED
      BY <2>1, TwoPowers, BasePowers
<1>5. Base = s * (2 * u)
  <2>1. PICK j \in Nat : j = (z - t) - 1 /\ t + (j + 1) = z
    <3>1. (z - t) - 1 \in Nat /\ t + (((z - t) - 1) + 1) = z
          BY <1>1
    <3> QED
        BY <3>1
  <2>2. Pow(2, j + 1) = 2 * u
        BY <2>1, <1>4, TwoPowers
  <2>3. Pow(2, t + (j + 1)) = Pow(2, t) * Pow(2, j + 1)
    <3>1. j + 1 \in Nat
          OBVIOUS
    <3> QED
        BY <3>1, PowAdds
  <2> QED
      BY <2>1, <2>2, <2>3, <1>0, <1>4, Zenon DEF Base
<1>6. PICK h \in Nat : Value(a) = Low(a)[q + 1] + h * Pow(Base, q + 1)
  <2>1. PICK j \in Nat : (q + 1) + j = n
    <3>1. n - (q + 1) \in Nat /\ (q + 1) + (n - (q + 1)) = n
          BY <1>2
    <3> QED
        BY <3>1
  <2>2. q + 1 \in Nat
        OBVIOUS
  <2>3. \E h \in Nat : Low(a)[(q + 1) + j] = Low(a)[q + 1] + h * Pow(Base, q + 1)
        BY <2>2, LowSplit, Zenon
  <2>4. Value(a) = Low(a)[n]
        BY <1>0, ValueBound, Zenon
  <2> QED
      BY <2>1, <2>3, <2>4, Zenon
<1>7. PICK l \in Nat : l = Low(a)[q] /\ l < w
    BY <1>4, DigitSeq, LowSteps, LowBound
<1>8. Low(a)[q + 1] = l + d * w
    BY <1>3, <1>4, <1>7, DigitSeq, LowSteps, ZenonT(30)
<1>9. PICK e, f \in Nat : e = d \div s /\ e * s + f = d /\ f < s
  <2>0. s > 0
        BY <1>4
  <2>1. d \div s \in Nat /\ d % s \in Nat /\ d % s < s /\ (d \div s) * s + (d % s) = d
        BY <2>0, Division
  <2> QED
      BY <2>1, Zenon
<1>10. PICK g, v \in Nat : v = 2 * u /\ g = h * v + e
  <2>1. PICK v \in Nat : v = 2 * u
        OBVIOUS
  <2>2. PICK x \in Nat : x = h * v
        BY Products
  <2>3. x + e \in Nat
        OBVIOUS
  <2> QED
      BY <2>1, <2>2, <2>3, Zenon
<1>11. Value(a) = g * (s * w) + (f * w + l) /\ f * w + l \in Nat /\ f * w + l < s * w
  <2>1. /\ (l + (e * s + f) * w) + h * ((s * v) * w) = (h * v + e) * (s * w) + (f * w + l)
        /\ f * w + l \in Nat /\ f * w + l < s * w
    <3>1. IsCut(h, e, f, l, w, s, v)
          BY <1>4, <1>7, <1>9, BitAlgebra
    <3> QED
        BY <3>1, Zenon DEF IsCut
  <2>2. Pow(Base, q + 1) = (s * v) * w
        BY <1>4, <1>5, <1>10, BasePowers, Zenon
  <2>3. Value(a) = (l + (e * s + f) * w) + h * ((s * v) * w)
        BY <1>6, <1>8, <1>9, <2>2, Zenon
  <2> QED
      BY <2>1, <2>3, <1>10, Zenon
<1>12. PICK p \in Nat : p = Pow(2, k) /\ p = s * w /\ p >= 1
  <2>1. Pow(2, q * z + t) = Pow(2, q * z) * Pow(2, t)
    <3>1. q * z \in Nat
          BY Products
    <3> QED
        BY <3>1, PowAdds
  <2>2. w = Pow(2, q * z)
    <3>1. z * q = q * z
          BY Products
    <3>2. w = Pow(2, z * q)
          BY <1>0, <1>4, LimbPowers, Zenon
    <3> QED
        BY <3>1, <3>2, Zenon
  <2>3. w * s = s * w
        BY Products
  <2>4. Pow(2, k) \in Nat /\ Pow(2, k) >= 1
        BY TwoPowers
  <2> QED
      BY <2>1, <2>2, <2>3, <2>4, <1>1, <1>4, Zenon
<1>13. Value(a) \div p = g
  <2>1. PICK y \in Nat : y = f * w + l /\ y < p
        BY <1>11, <1>12, Zenon
  <2>2. PICK x \in Nat : x = Value(a)
        BY ValueBound, Zenon
  <2>3. x = g * p + y
        BY <2>1, <2>2, <1>11, <1>12, Zenon
  <2>4. x \div p = g
    <3>1. p > 0 /\ g \in Int /\ x \in Int
          BY <1>12
    <3> QED
        BY <3>1, <2>1, <2>3, Quotient, Zenon
  <2> QED
      BY <2>2, <2>4, Zenon
<1>14. g % 2 = e % 2
  <2>1. PICK c, b \in Nat : e = c * 2 + b /\ b < 2 /\ b = e % 2
    <3>1. e \div 2 \in Nat /\ e % 2 \in Nat /\ e % 2 < 2 /\ e = (e \div 2) * 2 + (e % 2)
          OBVIOUS
    <3> QED
        BY <3>1, Zenon
  <2>2. PICK x \in Nat : x = h * u
        BY Products
  <2>3. h * v = x * 2
        BY <2>2, <1>10
  <2>4. g = (x + c) * 2 + b
    <3>1. x * 2 + (c * 2 + b) = (x + c) * 2 + b
          OBVIOUS
    <3> QED
        BY <3>1, <2>1, <2>3, <1>10, Zenon
  <2>5. g % 2 = b
    <3>1. x + c \in Int
          OBVIOUS
    <3> QED
        BY <2>1, <2>4, <3>1, Quotient
  <2> QED
      BY <2>1, <2>5
<1>15. Bit(a, k) = e % 2
  <2>1. Bit(a, k) = (a[(k \div z) + 1] \div Pow(2, k % z)) % 2
        BY <1>0, Zenon DEF Bit
  <2> QED
      BY <2>1, <1>1, <1>3, <1>4, <1>9, Zenon
<1>16. e % 2 \in {0, 1}
    OBVIOUS
<1> QED
    BY <1>12, <1>13, <1>14, <1>15, <1>16, Zenon

LEMMA Halving ==
    ASSUME NEW v \in Nat, NEW k \in Nat
    PROVE  v \div Pow(2, k) = 2 * (v \div Pow(2, k + 1)) + ((v \div Pow(2, k)) % 2)
<1>1. PICK p \in Nat : p = Pow(2, k) /\ p >= 1 /\ Pow(2, k + 1) = 2 * p
    BY TwoPowers
<1>2. PICK d, r \in Nat : d = v \div p /\ r < p /\ d * p + r = v
  <2>1. p > 0
        BY <1>1
  <2>2. v \div p \in Nat /\ v % p \in Nat /\ v % p < p /\ (v \div p) * p + (v % p) = v
        BY <2>1, Division
  <2> QED
      BY <2>2, Zenon
<1>3. PICK g, b \in Nat : d = g * 2 + b /\ b < 2 /\ b = d % 2
    OBVIOUS
<1>4. PICK x, y \in Nat : x = g * p /\ y = b * p /\ y <= p
  <2>1. b * p <= 1 * p
        BY <1>3, ProductsGrow
  <2>2. g * p \in Nat /\ b * p \in Nat /\ 1 * p = p
        BY Products
  <2> QED
      BY <2>1, <2>2
<1>5. (g * 2 + b) * p = 2 * x + y
  <2>1. (g * 2 + b) * p = (g * 2) * p + b * p /\ (g * 2) * p = 2 * (g * p)
        BY Products
  <2> QED
      BY <2>1, <1>4, Zenon
<1>6. PICK m \in Nat : m = 2 * p
    OBVIOUS
<1>7. g * m = 2 * x
    BY <1>4, <1>6
<1>8. v = 2 * x + y + r
    BY <1>2, <1>3, <1>5, Zenon
<1>9. y + r \in Nat /\ y + r < m
    BY <1>2, <1>4, <1>6
<1>10. v = g * m + (y + r)
  <2>1. 2 * x + y + r = 2 * x + (y + r)
        OBVIOUS
  <2> QED
      BY <2>1, <1>7, <1>8, Zenon
<1>11. v \div m = g
  <2>1. m > 0 /\ g \in Int /\ v \in Int
        BY <1>1, <1>6
  <2> QED
      BY <2>1, <1>9, <1>10, Quotient, Zenon
<1>12. d = 2 * g + b
    BY <1>3
<1> QED
    BY <1>1, <1>2, <1>3, <1>6, <1>11, <1>12, Zenon

----------------------------------------------------------------------------
(* bigMod.  *)
LEMMA CmpAtLeast ==
    ASSUME NEW a, NEW b, IsBig(a), IsBig(b)
    PROVE  BigCmp(a, b) >= 0 <=> Value(b) <= Value(a)
<1>1. PICK x, y \in Nat : x = Value(a) /\ y = Value(b)
    BY BigFacts, ValueBound
<1>2. PICK c \in {-1, 0, 1} : c = BigCmp(a, b) /\ (c = -1 <=> x < y) /\ (c = 0 <=> x = y)
                                /\ (c = 1 <=> y < x)
  <2>1. /\ BigCmp(a, b) \in {-1, 0, 1}
        /\ BigCmp(a, b) = -1 <=> x < y
        /\ BigCmp(a, b) = 0 <=> x = y
        /\ BigCmp(a, b) = 1 <=> y < x
        BY <1>1, CmpValue, Zenon
  <2> QED
      BY <2>1, Zenon
<1>3. c >= 0 <=> y <= x
    BY <1>2
<1> QED
    BY <1>1, <1>2, <1>3, Zenon

LEMMA ModStepType ==
    ASSUME NEW r, IsBig(r), NEW m, IsBig(m), NEW bit \in {0, 1}
    PROVE  IsBig(ModStep(r, bit, m))
<1>1. PICK s : s = ShiftLeftOneAdd(r, bit) /\ IsBig(s)
    BY ShiftValue, Zenon
<1>2. ModStep(r, bit, m) = IF BigCmp(s, m) >= 0 THEN BigSub(s, m) ELSE s
    BY <1>1, Zenon DEF ModStep
<1>3. CASE BigCmp(s, m) >= 0
    BY <1>1, <1>2, <1>3, CmpAtLeast, SubValue, Zenon
<1>4. CASE ~(BigCmp(s, m) >= 0)
    BY <1>1, <1>2, <1>4, Zenon
<1> QED
    BY <1>3, <1>4, Zenon

LEMMA ModStepValue ==
    ASSUME NEW r, IsBig(r), NEW m, IsBig(m), NEW bit \in {0, 1}, Value(r) < Value(m)
    PROVE  Value(ModStep(r, bit, m)) = (2 * Value(r) + bit) % Value(m)
<1>1. PICK s : s = ShiftLeftOneAdd(r, bit) /\ IsBig(s) /\ Value(s) = 2 * Value(r) + bit
    BY ShiftValue, Zenon
<1>2. ModStep(r, bit, m) = IF BigCmp(s, m) >= 0 THEN BigSub(s, m) ELSE s
    BY <1>1, Zenon DEF ModStep
<1>3. PICK x, y, z \in Nat : x = Value(r) /\ y = Value(m) /\ z = Value(s)
    BY <1>1, BigFacts, ValueBound
<1>4. x < y /\ z = 2 * x + bit
    BY <1>1, <1>3, Zenon
<1>5. y > 0 /\ z < y + y
    BY <1>4
<1>6. CASE BigCmp(s, m) >= 0
  <2>1. y <= z
        BY <1>1, <1>3, <1>6, CmpAtLeast, Zenon
  <2>2. Value(BigSub(s, m)) = z - y
        BY <1>1, <1>3, <2>1, SubValue, Zenon
  <2>3. z - y \in Nat /\ z - y < y /\ z = 1 * y + (z - y) /\ 1 \in Int /\ z \in Int
        BY <1>5, <2>1
  <2>4. z % y = z - y
    <3>1. PICK d \in Nat : d = z - y /\ d < y /\ z = 1 * y + d
          BY <2>3, Zenon
    <3>2. z % y = d
          BY <1>5, <2>3, <3>1, Quotient
    <3> QED
        BY <3>1, <3>2, Zenon
  <2> QED
      BY <1>2, <1>3, <1>4, <1>6, <2>2, <2>4, Zenon
<1>7. CASE ~(BigCmp(s, m) >= 0)
  <2>1. ~(y <= z)
        BY <1>1, <1>3, <1>7, CmpAtLeast, Zenon
  <2>2. z < y /\ z = 0 * y + z /\ 0 \in Int /\ z \in Int
        BY <2>1
  <2>3. z % y = z
        BY <1>5, <2>2, Quotient, Zenon
  <2> QED
      BY <1>1, <1>2, <1>3, <1>4, <1>7, <2>3, Zenon
<1> QED
    BY <1>6, <1>7, Zenon

(* A remainder of a number is one of its half and its lowest bit.  *)
LEMMA ModDouble ==
    ASSUME NEW x \in Nat, NEW bit \in {0, 1}, NEW m \in Nat, m > 0
    PROVE  (2 * (x % m) + bit) % m = (2 * x + bit) % m
<1>1. PICK d, r \in Nat : r = x % m /\ d * m + r = x
  <2>1. x \div m \in Nat /\ x % m \in Nat /\ (x \div m) * m + (x % m) = x
        BY Division
  <2> QED
      BY <2>1, Zenon
<1>2. PICK y \in Nat : y = 2 * r + bit
    OBVIOUS
<1>3. PICK e, f \in Nat : f = y % m /\ f < m /\ e * m + f = y
  <2>1. y \div m \in Nat /\ y % m \in Nat /\ y % m < m /\ (y \div m) * m + (y % m) = y
        BY Division
  <2> QED
      BY <2>1, Zenon
<1>4. PICK z \in Nat : z = 2 * x + bit
    OBVIOUS
<1>5. z = (2 * d + e) * m + f
  <2>1. PICK u, v \in Nat : u = d * m /\ v = e * m
        BY Products
  <2>2. (2 * d + e) * m = 2 * u + v
        BY <2>1, Products
  <2>3. u + r = x /\ v + f = y
        BY <1>1, <1>3, <2>1, Zenon
  <2>4. z = (2 * u + v) + f
        BY <1>2, <1>4, <2>3
  <2> QED
      BY <2>2, <2>4, Zenon
<1>6. z % m = f
  <2>1. 2 * d + e \in Int /\ z \in Int
        OBVIOUS
  <2> QED
      BY <2>1, <1>3, <1>5, Quotient, Zenon
<1> QED
    BY <1>1, <1>2, <1>3, <1>4, <1>6, Zenon

Bigs == {r \in Seq(LimbValues) : IsBig(r)}

LEMMA BitCountFacts ==
    ASSUME NEW a, a \in Seq(LimbValues)
    PROVE  /\ BitCount(a) \in Nat
           /\ Value(a) < Pow(2, BitCount(a))
           /\ \A k \in 1..BitCount(a) : BitCount(a) - k \in 0..(BitCount(a) - 1)
              /\ Bit(a, BitCount(a) - k) \in {0, 1}
<1>1. PICK n \in Nat : n = BitCount(a)
  <2>1. Len(a) * LimbBits \in Nat
        BY BaseSizes, Products
  <2> QED
      BY <2>1, Zenon DEF BitCount
<1>2. Pow(Base, Len(a)) = Pow(2, n)
  <2>1. LimbBits * Len(a) = Len(a) * LimbBits
        BY BaseSizes, Products
  <2>2. Len(a) \in Nat
        OBVIOUS
  <2>3. Pow(Base, Len(a)) = Pow(2, LimbBits * Len(a))
        BY <2>2, LimbPowers, Zenon
  <2> QED
      BY <2>1, <2>3, <1>1, Zenon DEF BitCount
<1>3. ASSUME NEW k \in 1..n PROVE n - k \in 0..(n - 1)
    OBVIOUS
<1>4. ASSUME NEW k \in 1..n PROVE Bit(a, n - k) \in {0, 1}
    BY <1>1, <1>3, BitValue, Zenon
<1>5. Value(a) < Pow(2, n)
    BY <1>2, ValueBound, Zenon
<1> QED
    BY <1>1, <1>3, <1>4, <1>5, Zenon

LEMMA ZeroBig == <<0>> \in Bigs /\ IsBig(<<0>>) /\ Value(<<0>>) = 0
<1>1. PICK z : z = Zeros(1)
    OBVIOUS
<1>2. z \in Seq(LimbValues) /\ Len(z) = 1 /\ Value(z) = 0
  <2>1. 1 \in Nat
        OBVIOUS
  <2> QED
      BY <1>1, <2>1, ZerosValue, Zenon DEF Words
<1>3. z = <<0>>
    BY <1>1 DEF Zeros
<1>4. ~(Len(z) > 1) /\ z # <<>>
  <2>1. Len(z) = 1
        BY <1>2, Zenon
  <2> QED
      BY <2>1
<1>5. IsBig(z)
    BY <1>2, <1>4, Zenon DEF IsBig, LimbValues
<1> QED
    BY <1>2, <1>3, <1>5, Zenon DEF Bigs

LEMMA BigsFacts == \A r : (r \in Bigs <=> IsBig(r))
    BY BigFacts, Zenon DEF Bigs

LEMMA ModLoop ==
    ASSUME NEW a, NEW m, IsBig(a), IsBig(m), ~(BigCmp(a, m) < 0)
    PROVE  \E f : /\ \A k \in 0..BitCount(a) : f[k] \in Bigs
                  /\ f[0] = <<0>>
                  /\ \A k \in 0..(BitCount(a) - 1) :
                     f[k + 1] = ModStep(f[k], Bit(a, BitCount(a) - (k + 1)), m)
                  /\ BigMod(a, m) = f[BitCount(a)]
<1> DEFINE n == BitCount(a)
           T == Bigs
           base == <<0>>
           Eq(f) == f = [k \in 0..n |-> IF k = 0 THEN <<0>>
             ELSE ModStep(f[k - 1], Bit(a, BitCount(a) - (k)), m)]
           f == CHOOSE f : Eq(f)
           step == [k \in 1..n |-> [s \in T |-> ModStep(s, Bit(a, BitCount(a) - (k)), m)]]
<1>0. n \in Nat
    BY BigFacts, BitCountFacts, Zenon
<1>b. base \in T
    BY ZeroBig, Zenon
<1>t. ASSUME NEW k \in 1..n, NEW s \in T PROVE ModStep(s, Bit(a, BitCount(a) - (k)), m) \in T
  <2>1. Bit(a, BitCount(a) - (k)) \in {0, 1}
        BY BigFacts, BitCountFacts, Zenon
  <2> HIDE DEF n
  <2> QED
      BY <2>1, ModStepType, BigsFacts, Zenon
<1>1. PICK g : IsRun(g, n, T, base, step)
  <2>1. step \in [1..n -> [T -> T]]
    <3> HIDE DEF n, T
    <3> QED
        BY <1>t
  <2> HIDE DEF step, n, T, base
  <2> QED
      BY <1>0, <1>b, <2>1, Iteration
<1>2. Eq(g)
  <2>1. g \in [0..n -> T] /\ g[0] = base
    <3> HIDE DEF n, T, base, step
    <3> QED
        BY <1>1 DEF IsRun
  <2>2. ASSUME NEW k \in 1..n PROVE g[k] = ModStep(g[k - 1], Bit(a, BitCount(a) - (k)), m)
    <3>1. g[k - 1] \in T
      <4> HIDE DEF n, T
      <4> QED
          BY <2>1, <1>0
    <3>2. g[k] = step[k][g[k - 1]]
      <4> HIDE DEF step, n, T, base
      <4> QED
          BY <1>1 DEF IsRun
    <3>3. step[k] = [s \in T |-> ModStep(s, Bit(a, BitCount(a) - (k)), m)]
      <4> HIDE DEF n, T
      <4> QED
          OBVIOUS
    <3> HIDE DEF step, n, T
    <3> QED
        BY <3>1, <3>2, <3>3
  <2> HIDE DEF step, T
  <2>3. g = [k \in 0..n |-> g[k]]
    <3> HIDE DEF n
    <3> QED
        BY <2>1
  <2>4. ASSUME NEW k \in 0..n
        PROVE  g[k] = IF k = 0 THEN <<0>> ELSE ModStep(g[k - 1], Bit(a, BitCount(a) - (k)), m)
    <3>1. k = 0 \/ k \in 1..n
      <4> HIDE DEF n
      <4> QED
          BY <1>0
    <3>2. ~(0 \in 1..n)
      <4> HIDE DEF n
      <4> QED
          BY <1>0
    <3> HIDE DEF n
    <3> QED
        BY <3>1, <3>2, <2>1, <2>2, Zenon
  <2> HIDE DEF n
  <2> QED
      BY <2>3, <2>4, Zenon
<1>3. Eq(f)
  <2> HIDE DEF Eq
  <2> QED
      BY <1>2
<1>4. BigMod(a, m) = f[n]
    BY DEF BigMod
<1> HIDE DEF f
<1>5. f[0] = <<0>>
  <2> HIDE DEF n
  <2> QED
      BY <1>3, <1>0
<1>6. ASSUME NEW k \in 0..(n - 1) PROVE f[k + 1] = ModStep(f[k], Bit(a, BitCount(a) - (k + 1)), m)
  <2> HIDE DEF n
  <2>1. k + 1 \in 0..n /\ k + 1 # 0 /\ (k + 1) - 1 = k
        BY <1>0
  <2>2. f[k + 1] = ModStep(f[(k + 1) - 1], Bit(a, BitCount(a) - (k + 1)), m)
        BY <2>1, <1>3
  <2> QED
      BY <2>1, <2>2
<1>7. \A k \in 0..n : f[k] \in T
  <2> HIDE DEF T, Eq
  <2> DEFINE P == {k \in Nat : f[k] \in T}
  <2>1. 0 \in P
        BY <1>5, <1>b
  <2>2. ASSUME NEW k \in 0..(n - 1), k \in P PROVE k + 1 \in P
    <3> HIDE DEF n
    <3>1. k + 1 \in 1..n /\ f[k] \in T
          BY <1>0, <2>2
    <3>2. ModStep(f[k], Bit(a, BitCount(a) - (k + 1)), m) \in T
          BY <3>1, <1>t, Zenon
    <3>3. f[k + 1] \in T /\ k + 1 \in Nat
          BY <3>1, <3>2, <1>6
    <3> QED
        BY <3>3
  <2> HIDE DEF P, n
  <2>3. \A k \in 0..n : k \in P
        BY <1>0, <2>1, <2>2, UpTo, Zenon
  <2> QED
      BY <2>3, <1>0 DEF P
<1> QED
    BY <1>4, <1>5, <1>6, <1>7


LEMMA ModValue ==
    ASSUME NEW a, NEW m, IsBig(a), IsBig(m), Value(m) # 0
    PROVE  IsBig(BigMod(a, m)) /\ Value(BigMod(a, m)) = Value(a) % Value(m)
<1>1. PICK x, y \in Nat : x = Value(a) /\ y = Value(m)
    BY BigFacts, ValueBound
<1>2. y > 0
    BY <1>1
<1>3. CASE BigCmp(a, m) < 0
  <2>1. BigMod(a, m) = a
        BY <1>3, Zenon DEF BigMod
  <2>2. ~(BigCmp(a, m) >= 0)
    <3>1. BigCmp(a, m) \in {-1, 0, 1}
          BY CmpValue, Zenon
    <3> QED
        BY <3>1, <1>3
  <2>3. ~(y <= x)
        BY <1>1, <2>2, CmpAtLeast, Zenon
  <2>4. x < y /\ x = 0 * y + x /\ 0 \in Int /\ x \in Int
        BY <2>3
  <2>5. x % y = x
        BY <1>2, <2>4, Quotient, Zenon
  <2> QED
      BY <1>1, <2>1, <2>5, Zenon
<1>4. CASE ~(BigCmp(a, m) < 0)
  <2>1. PICK n \in Nat : n = BitCount(a) /\ x < Pow(2, n)
        BY <1>1, BigFacts, BitCountFacts, Zenon
  <2>2. PICK f : /\ \A k \in 0..n : f[k] \in Bigs
                 /\ f[0] = <<0>>
                 /\ \A k \in 0..(n - 1) : f[k + 1] = ModStep(f[k], Bit(a, n - (k + 1)), m)
                 /\ BigMod(a, m) = f[n]
        BY <1>4, <2>1, ModLoop
  <2> DEFINE W(k) == x \div Pow(2, n - k)
             S == {k \in 0..n : W(k) \in Nat /\ Value(f[k]) = W(k) % y}
  <2>3. 0 \in S
    <3>1. n - 0 = n /\ 0 \in 0..n
          OBVIOUS
    <3>2. PICK p \in Nat : p = Pow(2, n) /\ p > 0 /\ x < p
      <4>1. Pow(2, n) \in Nat /\ Pow(2, n) >= 1
            BY TwoPowers
      <4> QED
          BY <4>1, <2>1
    <3>3. x = 0 * p + x /\ 0 = 0 * y + 0 /\ 0 \in Int /\ x \in Int /\ 0 \in Nat /\ 0 < y
          BY <1>2
    <3>4. x \div p = 0 /\ 0 % y = 0
      <4>1. x \div p = 0
            BY <3>2, <3>3, Quotient
      <4>2. 0 % y = 0
            BY <1>2
      <4> QED
          BY <4>1, <4>2, Zenon
    <3>5. W(0) = 0
          BY <3>1, <3>2, <3>4, Zenon
    <3>6. Value(f[0]) = 0
          BY <2>2, ZeroBig, Zenon
    <3> HIDE DEF W
    <3> QED
        BY <3>1, <3>3, <3>4, <3>5, <3>6, Zenon
  <2>4. ASSUME NEW k \in 0..(n - 1), k \in S PROVE k + 1 \in S
    <3>1. PICK j \in Nat : /\ j = n - (k + 1) /\ j + 1 = n - k /\ j \in 0..(n - 1) /\ k + 1 \in 0..n
                              /\ k \in 0..n
      <4>1. n - (k + 1) \in Nat /\ (n - (k + 1)) + 1 = n - k /\ n - (k + 1) \in 0..(n - 1)
              /\ k + 1 \in 0..n /\ k \in 0..n
            OBVIOUS
      <4> QED
          BY <4>1, Zenon
    <3>2. PICK b \in {0, 1} : b = Bit(a, j) /\ b = (x \div Pow(2, j)) % 2 /\ x \div Pow(2, j) \in Nat
          BY <3>1, <2>1, <1>1, BigFacts, BitValue, Zenon
    <3>3. PICK w \in Nat : w = W(k)
          BY <2>4, Zenon
    <3>4. W(k + 1) = 2 * w + b
      <4>1. x \div Pow(2, j) = 2 * (x \div Pow(2, j + 1)) + ((x \div Pow(2, j)) % 2)
            BY Halving
      <4>2. w = x \div Pow(2, j + 1)
            BY <3>1, <3>3, Zenon
      <4>3. W(k + 1) = x \div Pow(2, j)
            BY <3>1, Zenon
      <4> HIDE DEF W
      <4> QED
          BY <4>1, <4>2, <4>3, <3>2, Zenon
    <3> HIDE DEF W
    <3>5. Value(f[k]) = w % y /\ IsBig(f[k])
          BY <2>4, <3>1, <3>3, <2>2, BigsFacts, Zenon
    <3>6. Value(f[k]) < Value(m)
      <4>1. w % y < y
            BY <1>2, Division
      <4> QED
          BY <4>1, <3>5, <1>1, Zenon
    <3>7. f[k + 1] = ModStep(f[k], b, m)
          BY <2>2, <3>1, <3>2, Zenon
    <3>8. Value(f[k + 1]) = (2 * (w % y) + b) % y
          BY <3>5, <3>6, <3>7, <1>1, ModStepValue, ZenonT(30)
    <3>9. (2 * (w % y) + b) % y = (2 * w + b) % y
          BY <1>2, ModDouble
    <3>10. 2 * w + b \in Nat
          OBVIOUS
    <3> QED
        BY <3>1, <3>4, <3>8, <3>9, <3>10, Zenon
  <2>5. \A k \in 0..n : k \in S
    <3> HIDE DEF S
    <3> QED
        BY <2>3, <2>4, UpTo, Zenon
  <2>6. Value(f[n]) = x % y /\ f[n] \in Bigs
    <3>1. n \in 0..n /\ n - n = 0
          OBVIOUS
    <3>2. Value(f[n]) = W(n) % y
          BY <2>5, <3>1, Zenon
    <3>3. W(n) = x
      <4>1. Pow(2, 0) = 1
        <5>1. 2 \in Nat
              OBVIOUS
        <5> QED
            BY <5>1, PowRules, Zenon
      <4>2. x \div 1 = x
            OBVIOUS
      <4> QED
          BY <4>1, <4>2, <3>1, Zenon
    <3> HIDE DEF W
    <3> QED
        BY <3>1, <3>2, <3>3, <2>2, Zenon
  <2> QED
      BY <2>2, <2>6, <1>1, BigsFacts, Zenon
<1> QED
    BY <1>3, <1>4, Zenon

----------------------------------------------------------------------------
(* bigModPow.  *)
IsPowers(h, b, m) ==
    /\ h \in [Nat -> Nat] /\ h[0] = 1
    /\ \A k \in Nat : h[k + 1] = (h[k] * b) % m
    /\ \A n \in Nat : Powers(b, n, m) = h[n]

LEMMA PowersRuns ==
    ASSUME NEW b \in Nat, NEW m \in Nat, m > 0
    PROVE  \E h : IsPowers(h, b, m)
<1> DEFINE step == [k \in Nat |-> [x \in Nat |-> (x * b) % m]]
<1>0. \A x \in Nat : (x * b) % m \in Nat
  <2> SUFFICES ASSUME NEW x \in Nat PROVE (x * b) % m \in Nat
      OBVIOUS
  <2>1. PICK y \in Nat : y = x * b
        BY Products
  <2>2. y % m \in Nat
        BY Division
  <2> QED
      BY <2>1, <2>2, Zenon
<1>1. step \in [Nat -> [Nat -> Nat]]
    BY <1>0, Zenon
<1>2. PICK h : h \in [Nat -> Nat] /\ h[0] = 1 /\ \A k \in Nat : h[k + 1] = step[k][h[k]]
  <2> HIDE DEF step
  <2>1. 1 \in Nat
        OBVIOUS
  <2>2. \E h : Recurs(h, Nat, 1, step)
        BY <1>1, <2>1, NatRecursion, Zenon
  <2> QED
      BY <2>2, Zenon DEF Recurs
<1>3. ASSUME NEW k \in Nat PROVE h[k + 1] = (h[k] * b) % m
  <2>1. step[k] = [x \in Nat |-> (x * b) % m]
        BY Zenon
  <2>2. PICK x \in Nat : x = h[k]
        BY <1>2
  <2>3. step[k][x] = (x * b) % m
        BY <2>1, Zenon
  <2> HIDE DEF step
  <2> QED
      BY <1>2, <2>2, <2>3, Zenon
<1>4. ASSUME NEW n \in Nat PROVE Powers(b, n, m) = h[n]
  <2> DEFINE Eq(p) == p = [k \in 0..n |-> IF k = 0 THEN 1 ELSE (p[k - 1] * b) % m]
             p == CHOOSE p : Eq(p)
             q == [k \in 0..n |-> h[k]]
  <2>1. Eq(q)
    <3>1. ASSUME NEW k \in 0..n PROVE q[k] = IF k = 0 THEN 1 ELSE (q[k - 1] * b) % m
      <4>1. CASE k = 0
            BY <4>1, <1>2
      <4>2. CASE k # 0
        <5>1. k - 1 \in Nat /\ (k - 1) + 1 = k /\ k - 1 \in 0..n
              BY <4>2
        <5>2. h[(k - 1) + 1] = (h[k - 1] * b) % m
              BY <5>1, <1>3, Zenon
        <5>3. q[k] = h[k] /\ q[k - 1] = h[k - 1]
              BY <5>1, Zenon
        <5> HIDE DEF q
        <5> QED
            BY <4>2, <5>1, <5>2, <5>3, Zenon
      <4> QED
          BY <4>1, <4>2
    <3>2. q = [k \in 0..n |-> q[k]]
          OBVIOUS
    <3> HIDE DEF q
    <3> QED
        BY <3>1, <3>2, Zenon
  <2>2. Eq(p)
    <3> HIDE DEF Eq
    <3> QED
        BY <2>1
  <2>3. Powers(b, n, m) = p[n]
        BY Zenon DEF Powers
  <2> HIDE DEF p
  <2> DEFINE P == {k \in 0..n : p[k] = h[k]}
  <2>4. 0 \in P
        BY <2>2, <1>2
  <2>5. ASSUME NEW k \in 0..(n - 1), k \in P PROVE k + 1 \in P
    <3>1. k + 1 \in 0..n /\ k + 1 # 0 /\ (k + 1) - 1 = k /\ k \in Nat
          OBVIOUS
    <3>2. p[k + 1] = (p[k] * b) % m
      <4>1. p[k + 1] = (p[(k + 1) - 1] * b) % m
            BY <2>2, <3>1, Zenon
      <4> QED
          BY <4>1, <3>1, Zenon
    <3>3. p[k] = h[k] /\ h[k + 1] = (h[k] * b) % m
          BY <2>5, <3>1, <1>3, Zenon
    <3> QED
        BY <3>1, <3>2, <3>3, Zenon
  <2>6. n \in P
    <3> HIDE DEF P
    <3>1. \A k \in 0..n : k \in P
          BY <2>4, <2>5, UpTo
    <3> QED
        BY <3>1
  <2> QED
      BY <2>3, <2>6
<1>5. IsPowers(h, b, m)
  <2> HIDE DEF step
  <2> QED
      BY <1>2, <1>3, <1>4, Zenon DEF IsPowers
<1> QED
    BY <1>5, Zenon

LEMMA PowersRules ==
    ASSUME NEW b \in Nat, NEW m \in Nat, m > 0
    PROVE  /\ Powers(b, 0, m) = 1
           /\ \A n \in Nat : Powers(b, n, m) \in Nat /\ Powers(b, n + 1, m) = (Powers(b, n, m) * b) % m
<1>1. PICK h : IsPowers(h, b, m)
    BY PowersRuns, Zenon
<1>2. /\ h \in [Nat -> Nat] /\ h[0] = 1
      /\ \A k \in Nat : h[k + 1] = (h[k] * b) % m
      /\ \A n \in Nat : Powers(b, n, m) = h[n]
    BY <1>1, Zenon DEF IsPowers
<1>3. 0 \in Nat /\ \A n \in Nat : n + 1 \in Nat
    OBVIOUS
<1>4. \A n \in Nat : h[n] \in Nat
    BY <1>2
<1> QED
    BY <1>2, <1>3, <1>4, Zenon

(* A factor may be reduced first.  *)
LEMMA MulMod ==
    ASSUME NEW m \in Nat, m > 0
    PROVE  \A x, y \in Nat : ((x % m) * y) % m = (x * y) % m /\ (y * (x % m)) % m = (y * x) % m
<1> SUFFICES ASSUME NEW x \in Nat, NEW y \in Nat
             PROVE  ((x % m) * y) % m = (x * y) % m /\ (y * (x % m)) % m = (y * x) % m
    BY Zenon
<1>1. PICK d, r \in Nat : r = x % m /\ d * m + r = x
  <2>1. x \div m \in Nat /\ x % m \in Nat /\ (x \div m) * m + (x % m) = x
        BY Division
  <2> QED
      BY <2>1, Zenon
<1>2. PICK z \in Nat : z = r * y
    BY Products
<1>3. PICK e, f \in Nat : f = z % m /\ f < m /\ e * m + f = z
  <2>1. z \div m \in Nat /\ z % m \in Nat /\ z % m < m /\ (z \div m) * m + (z % m) = z
        BY Division
  <2> QED
      BY <2>1, Zenon
<1>4. PICK w, g \in Nat : w = x * y /\ g = d * y
    BY Products
<1>5. w = (g + e) * m + f
  <2>1. PICK u \in Nat : u = d * m
        BY Products
  <2>2. (u + r) * y = u * y + r * y
        BY Products
  <2>3. u * y = g * m
        BY <2>1, <1>4, Products
  <2>4. (g + e) * m = g * m + e * m
        BY Products
  <2>5. PICK p, q \in Nat : p = g * m /\ q = e * m
        BY Products
  <2>6. u + r = x
        BY <1>1, <2>1, Zenon
  <2>7. w = p + z
        BY <2>2, <2>3, <2>5, <2>6, <1>2, <1>4, Zenon
  <2>8. q + f = z
        BY <1>3, <2>5, Zenon
  <2>9. w = (p + q) + f
        BY <2>7, <2>8
  <2> QED
      BY <2>4, <2>5, <2>9, Zenon
<1>6. w % m = f
  <2>1. g + e \in Int /\ w \in Int
        OBVIOUS
  <2> QED
      BY <2>1, <1>3, <1>5, Quotient
<1>7. y * r = r * y /\ y * x = x * y
    BY Products
<1> QED
    BY <1>1, <1>2, <1>3, <1>4, <1>6, <1>7, Zenon

LEMMA PowersAdd ==
    ASSUME NEW b \in Nat, NEW m \in Nat, m > 0, NEW d \in Nat
    PROVE  \A e \in Nat : e >= 1 => Powers(b, d + e, m) = (Powers(b, d, m) * Powers(b, e, m)) % m
<1> DEFINE S == {e \in Nat : Powers(b, d + (e + 1), m) = (Powers(b, d, m) * Powers(b, e + 1, m)) % m}
<1>1. 0 \in S
  <2>1. d + (0 + 1) = d + 1 /\ 0 + 1 = 1 /\ 0 \in Nat
        OBVIOUS
  <2>2. PICK x \in Nat : x = Powers(b, d, m)
        BY PowersRules
  <2>3. Powers(b, 0 + 1, m) = (1 * b) % m /\ Powers(b, d + 1, m) = (x * b) % m
    <3>1. /\ Powers(b, 0 + 1, m) = (Powers(b, 0, m) * b) % m
             /\ Powers(b, d + 1, m) = (Powers(b, d, m) * b) % m
          /\ Powers(b, 0, m) = 1
          BY <2>1, PowersRules
    <3> QED
        BY <2>2, <3>1, Zenon
  <2>4. 1 * b = b
        OBVIOUS
  <2>5. (x * (b % m)) % m = (x * b) % m
        BY MulMod, Zenon
  <2> QED
      BY <2>1, <2>2, <2>3, <2>4, <2>5, Zenon
<1>2. ASSUME NEW e \in S PROVE e + 1 \in S
  <2>1. /\ e \in Nat /\ e + 1 \in Nat /\ d + (e + 1) \in Nat /\ d + ((e + 1) + 1) = (d + (e + 1)) + 1
        OBVIOUS
  <2>2. PICK x, y \in Nat : x = Powers(b, d, m) /\ y = Powers(b, e + 1, m)
        BY <2>1, PowersRules
  <2>3. Powers(b, d + (e + 1), m) = (x * y) % m
        BY <2>2, Zenon
  <2>4. Powers(b, (d + (e + 1)) + 1, m) = (((x * y) % m) * b) % m
    <3>1. Powers(b, (d + (e + 1)) + 1, m) = (Powers(b, d + (e + 1), m) * b) % m
          BY <2>1, PowersRules
    <3> QED
        BY <2>3, <3>1, Zenon
  <2>5. Powers(b, (e + 1) + 1, m) = (y * b) % m
    <3>1. Powers(b, (e + 1) + 1, m) = (Powers(b, e + 1, m) * b) % m
          BY <2>1, PowersRules
    <3> QED
        BY <2>2, <3>1, Zenon
  <2>6. PICK u, v \in Nat : u = x * y /\ v = y * b
        BY Products
  <2>7. ((u % m) * b) % m = (u * b) % m /\ (x * (v % m)) % m = (x * v) % m
        BY MulMod, ZenonT(30)
  <2>8. u * b = x * v
        BY <2>6, Products
  <2> QED
      BY <2>1, <2>2, <2>4, <2>5, <2>6, <2>7, <2>8, Zenon
<1>3. S = Nat
  <2> HIDE DEF S
  <2>1. S \subseteq Nat
        BY DEF S
  <2> QED
      BY <1>1, <1>2, <2>1, NatSet, Zenon
<1> SUFFICES ASSUME NEW e \in Nat, e >= 1
             PROVE  Powers(b, d + e, m) = (Powers(b, d, m) * Powers(b, e, m)) % m
    BY Zenon
<1>4. PICK j \in Nat : j + 1 = e
  <2>1. e - 1 \in Nat /\ (e - 1) + 1 = e
        OBVIOUS
  <2> QED
      BY <2>1
<1>5. j \in S
    BY <1>3, Zenon
<1> QED
    BY <1>4, <1>5, Zenon

(* The lowest bits of a number, one by one.  *)
LEMMA LowBits ==
    ASSUME NEW v \in Nat, NEW k \in Nat
    PROVE  v % Pow(2, k + 1) = (v % Pow(2, k)) + ((v \div Pow(2, k)) % 2) * Pow(2, k)
<1>1. PICK p \in Nat : p = Pow(2, k) /\ p >= 1 /\ Pow(2, k + 1) = 2 * p
    BY TwoPowers
<1>2. PICK d, r \in Nat : d = v \div p /\ r = v % p /\ r < p /\ d * p + r = v
  <2>1. p > 0
        BY <1>1
  <2>2. v \div p \in Nat /\ v % p \in Nat /\ v % p < p /\ (v \div p) * p + (v % p) = v
        BY <2>1, Division
  <2> QED
      BY <2>2, Zenon
<1>3. PICK g, b \in Nat : d = g * 2 + b /\ b < 2 /\ b = d % 2
    OBVIOUS
<1>4. PICK x, y \in Nat : x = g * p /\ y = b * p /\ y <= p
  <2>1. b * p <= 1 * p
        BY <1>3, ProductsGrow
  <2>2. g * p \in Nat /\ b * p \in Nat /\ 1 * p = p
        BY Products
  <2> QED
      BY <2>1, <2>2
<1>5. (g * 2 + b) * p = 2 * x + y
  <2>1. (g * 2 + b) * p = (g * 2) * p + b * p /\ (g * 2) * p = 2 * (g * p)
        BY Products
  <2> QED
      BY <2>1, <1>4, Zenon
<1>6. PICK m \in Nat : m = 2 * p
    OBVIOUS
<1>7. g * m = 2 * x
    BY <1>4, <1>6
<1>8. v = 2 * x + y + r
    BY <1>2, <1>3, <1>5, Zenon
<1>9. PICK z \in Nat : z = r + y /\ z < m
    BY <1>2, <1>4, <1>6
<1>10. v = g * m + z
  <2>1. 2 * x + y + r = 2 * x + z
        BY <1>9
  <2> QED
      BY <2>1, <1>7, <1>8, Zenon
<1>11. v % m = z
  <2>1. m > 0 /\ g \in Int /\ v \in Int
        BY <1>1, <1>6
  <2> QED
      BY <2>1, <1>9, <1>10, Quotient, Zenon
<1> QED
    BY <1>1, <1>2, <1>3, <1>4, <1>6, <1>9, <1>11, Zenon

LEMMA ModMulValue ==
    ASSUME NEW a, NEW b, NEW m, IsBig(a), IsBig(b), IsBig(m), Value(m) # 0
    PROVE  IsBig(BigModMul(a, b, m)) /\ Value(BigModMul(a, b, m)) = (Value(a) * Value(b)) % Value(m)
<1>1. PICK p : p = BigMul(a, b) /\ IsBig(p) /\ Value(p) = Value(a) * Value(b)
    BY MulValue, Zenon
<1>2. IsBig(BigMod(p, m)) /\ Value(BigMod(p, m)) = Value(p) % Value(m)
    BY <1>1, ModValue, Zenon
<1> QED
    BY <1>1, <1>2, Zenon DEF BigModMul

LEMMA OneBig == <<1>> \in Bigs /\ IsBig(<<1>>) /\ Value(<<1>>) = 1
<1>1. PICK z : z = <<1>>
    OBVIOUS
<1>2. 1 \in LimbValues
    BY BaseSizes DEF LimbValues
<1>3. z \in Seq(LimbValues) /\ Len(z) = 1 /\ DOMAIN z = 1..1 /\ z[1] = 1
    BY <1>1, <1>2
<1>4. ~(Len(z) > 1) /\ z # <<>>
  <2>1. Len(z) = 1
        BY <1>3, Zenon
  <2> QED
      BY <2>1
<1>5. IsBig(z)
    BY <1>3, <1>4, Zenon DEF IsBig, LimbValues
<1>6. Limb(z, 0 + 1) = 1 /\ 0 + 1 = 1
    BY <1>3 DEF Limb
<1>7. Low(z)[0 + 1] = Low(z)[0] + Limb(z, 0 + 1) * Pow(Base, 0) /\ Low(z)[0] = 0
  <2>1. 0 \in Nat
        OBVIOUS
  <2> QED
      BY <2>1, <1>3, DigitSeq, LowSteps, Zenon
<1>8. Low(z)[1] = 0 + 1 * 1
    BY <1>6, <1>7, BasePowers, Zenon
<1>9. 0 + 1 * 1 = 1
    OBVIOUS
<1>10. Value(z) = 1
    BY <1>3, <1>8, <1>9, ValueBound, Zenon
<1> QED
    BY <1>1, <1>5, <1>10, BigsFacts, Zenon

PowStates == [result : Bigs, b : Bigs]
PowStep(s, bit, m) ==
    [result |-> IF bit = 1 THEN BigModMul(s.result, s.b, m) ELSE s.result,
     b      |-> BigModMul(s.b, s.b, m)]

LEMMA PowStepType ==
    ASSUME NEW s \in PowStates, NEW bit, NEW m, IsBig(m), Value(m) # 0
    PROVE  PowStep(s, bit, m) \in PowStates
<1>1. s.result \in Bigs /\ s.b \in Bigs
    BY DEF PowStates
<1>2. BigModMul(s.result, s.b, m) \in Bigs /\ BigModMul(s.b, s.b, m) \in Bigs
    BY <1>1, BigsFacts, ModMulValue, Zenon
<1>3. (IF bit = 1 THEN BigModMul(s.result, s.b, m) ELSE s.result) \in Bigs
    BY <1>1, <1>2, Zenon
<1> QED
    BY <1>2, <1>3, Zenon DEF PowStep, PowStates

LEMMA PowLoop ==
    ASSUME NEW base, NEW exp, NEW m, IsBig(base), IsBig(exp), IsBig(m), Value(m) # 0
    PROVE  \E f : /\ \A k \in 0..BitCount(exp) : f[k] \in PowStates
                  /\ f[0] = [result |-> <<1>>, b |-> BigMod(base, m)]
                  /\ \A k \in 0..(BitCount(exp) - 1) : f[k + 1] = PowStep(f[k], Bit(exp, (k + 1) - 1), m)
                  /\ BigModPow(base, exp, m) = f[BitCount(exp)].result
<1> DEFINE n == BitCount(exp)
           T == PowStates
           first == [result |-> <<1>>, b |-> BigMod(base, m)]
           Eq(f) == f = [k \in 0..n |-> IF k = 0 THEN [result |-> <<1>>, b |-> BigMod(base, m)]
             ELSE PowStep(f[k - 1], Bit(exp, (k) - 1), m)]
           f == CHOOSE f : Eq(f)
           step == [k \in 1..n |-> [s \in T |-> PowStep(s, Bit(exp, (k) - 1), m)]]
<1>0. n \in Nat
    BY BigFacts, BitCountFacts, Zenon
<1>b. first \in T
  <2>1. <<1>> \in Bigs /\ BigMod(base, m) \in Bigs
        BY OneBig, ModValue, BigsFacts, Zenon
  <2> QED
      BY <2>1, Zenon DEF PowStates
<1>t. ASSUME NEW k \in 1..n, NEW s \in T PROVE PowStep(s, Bit(exp, (k) - 1), m) \in T
  <2> HIDE DEF n
  <2> QED
      BY PowStepType, Zenon
<1>1. PICK g : IsRun(g, n, T, first, step)
  <2>1. step \in [1..n -> [T -> T]]
    <3> HIDE DEF n, T
    <3> QED
        BY <1>t
  <2> HIDE DEF step, n, T, first
  <2> QED
      BY <1>0, <1>b, <2>1, Iteration
<1>2. Eq(g)
  <2>1. g \in [0..n -> T] /\ g[0] = first
    <3> HIDE DEF n, T, first, step
    <3> QED
        BY <1>1 DEF IsRun
  <2>2. ASSUME NEW k \in 1..n PROVE g[k] = PowStep(g[k - 1], Bit(exp, (k) - 1), m)
    <3>1. g[k - 1] \in T
      <4> HIDE DEF n, T
      <4> QED
          BY <2>1, <1>0
    <3>2. g[k] = step[k][g[k - 1]]
      <4> HIDE DEF step, n, T, first
      <4> QED
          BY <1>1 DEF IsRun
    <3>3. step[k] = [s \in T |-> PowStep(s, Bit(exp, (k) - 1), m)]
      <4> HIDE DEF n, T
      <4> QED
          OBVIOUS
    <3> HIDE DEF step, n, T
    <3> QED
        BY <3>1, <3>2, <3>3
  <2> HIDE DEF step, T
  <2>3. g = [k \in 0..n |-> g[k]]
    <3> HIDE DEF n, first
    <3> QED
        BY <2>1
  <2>4. ASSUME NEW k \in 0..n
        PROVE  g[k] = IF k = 0 THEN [result |-> <<1>>, b |-> BigMod(base, m)]
                      ELSE PowStep(g[k - 1], Bit(exp, (k) - 1), m)
    <3>1. k = 0 \/ k \in 1..n
      <4> HIDE DEF n
      <4> QED
          BY <1>0
    <3>2. ~(0 \in 1..n)
      <4> HIDE DEF n
      <4> QED
          BY <1>0
    <3> HIDE DEF n
    <3> QED
        BY <3>1, <3>2, <2>1, <2>2, Zenon
  <2> HIDE DEF n
  <2> QED
      BY <2>3, <2>4, Zenon
<1>3. Eq(f)
  <2> HIDE DEF Eq
  <2> QED
      BY <1>2
<1>4. BigModPow(base, exp, m) = f[n].result
    BY DEF BigModPow, PowStep
<1> HIDE DEF f
<1>5. f[0] = [result |-> <<1>>, b |-> BigMod(base, m)]
  <2> HIDE DEF n
  <2> QED
      BY <1>3, <1>0
<1>6. ASSUME NEW k \in 0..(n - 1) PROVE f[k + 1] = PowStep(f[k], Bit(exp, (k + 1) - 1), m)
  <2> HIDE DEF n
  <2>1. k + 1 \in 0..n /\ k + 1 # 0 /\ (k + 1) - 1 = k
        BY <1>0
  <2>2. f[k + 1] = PowStep(f[(k + 1) - 1], Bit(exp, (k + 1) - 1), m)
        BY <2>1, <1>3
  <2> QED
      BY <2>1, <2>2
<1>7. \A k \in 0..n : f[k] \in T
  <2> HIDE DEF T, Eq
  <2> DEFINE P == {k \in Nat : f[k] \in T}
  <2>1. 0 \in P
        BY <1>5, <1>b
  <2>2. ASSUME NEW k \in 0..(n - 1), k \in P PROVE k + 1 \in P
    <3> HIDE DEF n
    <3>1. k + 1 \in 1..n /\ f[k] \in T
          BY <1>0, <2>2
    <3>2. PowStep(f[k], Bit(exp, (k + 1) - 1), m) \in T
          BY <3>1, <1>t, Zenon
    <3>3. f[k + 1] \in T /\ k + 1 \in Nat
          BY <3>1, <3>2, <1>6
    <3> QED
        BY <3>3
  <2> HIDE DEF P, n
  <2>3. \A k \in 0..n : k \in P
        BY <1>0, <2>1, <2>2, UpTo, Zenon
  <2> QED
      BY <2>3, <1>0 DEF P
<1> QED
    BY <1>4, <1>5, <1>6, <1>7


LEMMA ModPowValue ==
    ASSUME NEW base, NEW exp, NEW m, IsBig(base), IsBig(exp), IsBig(m), Value(m) # 0
    PROVE  /\ IsBig(BigModPow(base, exp, m))
           /\ Value(BigModPow(base, exp, m)) = Powers(Value(base), Value(exp), Value(m))
<1>1. PICK v, e, y \in Nat : v = Value(base) /\ e = Value(exp) /\ y = Value(m) /\ y # 0
    BY BigFacts, ValueBound
<1>2. y > 0
    BY <1>1
<1>3. PICK n \in Nat : n = BitCount(exp) /\ e < Pow(2, n)
    BY <1>1, BigFacts, BitCountFacts, Zenon
<1>4. PICK f : /\ \A k \in 0..n : f[k] \in PowStates
               /\ f[0] = [result |-> <<1>>, b |-> BigMod(base, m)]
               /\ \A k \in 0..(n - 1) : f[k + 1] = PowStep(f[k], Bit(exp, (k + 1) - 1), m)
               /\ BigModPow(base, exp, m) = f[n].result
    BY <1>3, PowLoop
<1>5. ASSUME NEW k \in 0..n PROVE IsBig(f[k].result) /\ IsBig(f[k].b)
  <2>1. f[k].result \in Bigs /\ f[k].b \in Bigs
        BY <1>4 DEF PowStates
  <2> QED
      BY <2>1, BigsFacts, Zenon
<1> DEFINE S == {k \in 0..n : /\ Value(f[k].b) = Powers(v, Pow(2, k), y)
                              /\ Value(f[k].result) = Powers(v, e % Pow(2, k), y)}
<1>6. 0 \in S
  <2>1. 0 \in 0..n /\ Pow(2, 0) = 1
    <3>1. 2 \in Nat
          OBVIOUS
    <3> QED
        BY <3>1, PowRules
  <2>2. f[0].b = BigMod(base, m) /\ f[0].result = <<1>>
        BY <1>4
  <2>3. Value(f[0].b) = v % y
        BY <2>2, <1>1, ModValue, Zenon
  <2>4. Powers(v, 0, y) = 1 /\ Powers(v, 0 + 1, y) = (Powers(v, 0, y) * v) % y
        BY <1>2, PowersRules
  <2>5. Powers(v, 0 + 1, y) = (1 * v) % y
        BY <2>4, Zenon
  <2>6. 0 + 1 = 1 /\ 1 * v = v /\ e % 1 = 0
        OBVIOUS
  <2>7. Value(f[0].result) = 1
        BY <2>2, OneBig, Zenon
  <2> QED
      BY <2>1, <2>3, <2>4, <2>5, <2>6, <2>7, Zenon
<1>7. ASSUME NEW k \in 0..(n - 1), k \in S PROVE k + 1 \in S
  <2>1. k \in 0..n /\ k + 1 \in 0..n /\ k \in Nat /\ (k + 1) - 1 = k
        OBVIOUS
  <2>2. PICK b \in {0, 1} : b = Bit(exp, k) /\ b = (e \div Pow(2, k)) % 2
        BY <1>1, <1>3, BigFacts, BitValue, Zenon
  <2>3. PICK s : s = f[k] /\ IsBig(s.result) /\ IsBig(s.b) /\ f[k + 1] = PowStep(s, b, m)
        BY <1>4, <1>5, <2>1, <2>2, Zenon
  <2>4. PICK p \in Nat : p = Pow(2, k) /\ p >= 1 /\ Pow(2, k + 1) = p + p
    <3>1. Pow(2, k) \in Nat /\ Pow(2, k) >= 1 /\ Pow(2, k + 1) = 2 * Pow(2, k)
          BY <2>1, TwoPowers
    <3>2. PICK p \in Nat : p = Pow(2, k)
          BY <3>1, Zenon
    <3>3. 2 * p = p + p
          OBVIOUS
    <3> QED
        BY <3>1, <3>2, <3>3, Zenon
  <2>5. PICK r \in Nat : r = e % p
    <3>1. e % p \in Nat
      <4>1. p > 0
            BY <2>4
      <4> QED
          BY <4>1, Division
    <3> QED
        BY <3>1, Zenon
  <2>6. Value(s.b) = Powers(v, p, y) /\ Value(s.result) = Powers(v, r, y)
        BY <1>7, <2>3, <2>4, <2>5, Zenon
  <2>7. f[k + 1].b = BigModMul(s.b, s.b, m)
        BY <2>3 DEF PowStep
  <2>8. Value(f[k + 1].b) = Powers(v, Pow(2, k + 1), y)
    <3>1. Value(f[k + 1].b) = (Powers(v, p, y) * Powers(v, p, y)) % y
      <4>1. Value(BigModMul(s.b, s.b, m)) = (Value(s.b) * Value(s.b)) % Value(m)
            BY <2>3, ModMulValue
      <4> QED
          BY <4>1, <2>6, <2>7, <1>1, Zenon
    <3>2. Powers(v, p + p, y) = (Powers(v, p, y) * Powers(v, p, y)) % y
      <4>1. p >= 1 /\ p \in Nat
            BY <2>4
      <4> QED
          BY <4>1, <1>2, PowersAdd
    <3> QED
        BY <3>1, <3>2, <2>4, Zenon
  <2>9. e % Pow(2, k + 1) = r + b * p
    <3>1. e % Pow(2, k + 1) = (e % Pow(2, k)) + ((e \div Pow(2, k)) % 2) * Pow(2, k)
          BY <2>1, LowBits
    <3> QED
        BY <3>1, <2>2, <2>4, <2>5, Zenon
  <2>10. Value(f[k + 1].result) = Powers(v, e % Pow(2, k + 1), y)
    <3>1. CASE b = 1
      <4>1. f[k + 1].result = BigModMul(s.result, s.b, m)
            BY <2>3, <3>1 DEF PowStep
      <4>2. Value(f[k + 1].result) = (Powers(v, r, y) * Powers(v, p, y)) % y
        <5>1. Value(BigModMul(s.result, s.b, m)) = (Value(s.result) * Value(s.b)) % Value(m)
              BY <2>3, ModMulValue
        <5> QED
            BY <5>1, <2>6, <4>1, <1>1, Zenon
      <4>3. Powers(v, r + p, y) = (Powers(v, r, y) * Powers(v, p, y)) % y
        <5>1. p >= 1 /\ p \in Nat /\ r \in Nat
              BY <2>4
        <5> QED
            BY <5>1, <1>2, PowersAdd
      <4>4. r + b * p = r + p
            BY <3>1
      <4> QED
          BY <4>2, <4>3, <4>4, <2>9, Zenon
    <3>2. CASE b = 0
      <4>1. f[k + 1].result = s.result
            BY <2>3, <3>2 DEF PowStep
      <4>2. r + b * p = r
            BY <3>2
      <4> QED
          BY <4>1, <4>2, <2>6, <2>9, Zenon
    <3> QED
        BY <3>1, <3>2
  <2> QED
      BY <2>1, <2>8, <2>10, Zenon
<1>8. \A k \in 0..n : k \in S
  <2> HIDE DEF S
  <2> QED
      BY <1>6, <1>7, UpTo, Zenon
<1>9. e % Pow(2, n) = e
  <2>1. PICK p \in Nat : p = Pow(2, n) /\ e < p /\ p > 0
    <3>1. Pow(2, n) \in Nat /\ Pow(2, n) >= 1
          BY TwoPowers
    <3> QED
        BY <3>1, <1>3
  <2>2. e = 0 * p + e /\ 0 \in Int /\ e \in Int
        OBVIOUS
  <2>3. e % p = e
        BY <2>1, <2>2, Quotient
  <2> QED
      BY <2>1, <2>3, Zenon
<1>10. n \in 0..n
    OBVIOUS
<1>11. Value(f[n].result) = Powers(v, e, y) /\ IsBig(f[n].result)
    BY <1>5, <1>8, <1>9, <1>10, Zenon
<1> QED
    BY <1>1, <1>4, <1>11, Zenon

LEMMA UintValue ==
    ASSUME NEW v \in 0..(Word - 1)
    PROVE  IsBig(BigFromUint(v)) /\ Value(BigFromUint(v)) = v
<1>1. v \in Nat /\ v < Word
    BY WordFacts
<1>2. PICK h, l \in Nat : h = v \div Base /\ l = v % Base /\ h <= Base - 1 /\ l < Base /\ h * Base + l = v
  <2>1. v % Base \in Nat /\ v % Base < Base /\ (v \div Base) * Base + (v % Base) = v
        BY <1>1, BaseSizes, Division
  <2>2. v \div Base \in Nat /\ v \div Base <= Base - 1
        BY <1>1, HighHalf
  <2> QED
      BY <2>1, <2>2, Zenon
<1>3. h \in LimbValues /\ l \in LimbValues
    BY <1>2, BaseSizes DEF LimbValues
<1>4. PICK z : z = <<l, h>>
    OBVIOUS
<1>5. z \in Seq(LimbValues) /\ Len(z) = 2 /\ DOMAIN z = 1..2 /\ z[1] = l /\ z[2] = h
    BY <1>3, <1>4
<1>6. Limb(z, 0 + 1) = l /\ Limb(z, 1 + 1) = h /\ 0 + 1 = 1 /\ 1 + 1 = 2
    BY <1>5 DEF Limb
<1>7. /\ Low(z)[0 + 1] = Low(z)[0] + Limb(z, 0 + 1) * Pow(Base, 0)
      /\ Low(z)[1 + 1] = Low(z)[1] + Limb(z, 1 + 1) * Pow(Base, 1)
      /\ Low(z)[0] = 0
  <2>1. 0 \in Nat /\ 1 \in Nat
        OBVIOUS
  <2> QED
      BY <2>1, <1>5, DigitSeq, LowSteps, Zenon
<1>8. Pow(Base, 0) = 1 /\ Pow(Base, 1) = Base
  <2>1. Pow(Base, 0) = 1 /\ Pow(Base, 0 + 1) = Base * Pow(Base, 0)
        BY BasePowers
  <2>2. Base * 1 = Base /\ 0 + 1 = 1
        BY BaseSizes
  <2> QED
      BY <2>1, <2>2, Zenon
<1>9. Low(z)[2] = (0 + l * 1) + h * Base
    BY <1>6, <1>7, <1>8, Zenon
<1>10. (0 + l * 1) + h * Base = v
  <2>1. PICK u \in Nat : u = h * Base
        BY BaseSizes, Products
  <2>2. u + l = v
        BY <2>1, <1>2, Zenon
  <2>3. (0 + l * 1) + u = v
        BY <2>2, <1>1
  <2> QED
      BY <2>1, <2>3, Zenon
<1>11. Value(z) = v
    BY <1>5, <1>9, <1>10, ValueBound, Zenon
<1>12. BigFromUint(v) = Normal(z)
    BY <1>2, <1>4, Zenon DEF BigFromUint
<1> QED
    BY <1>5, <1>11, <1>12, NormalValue, Zenon

(* Zero is written in one way only.  *)
LEMMA OnlyZero ==
    ASSUME NEW a, IsBig(a), Value(a) = 0
    PROVE  a = <<0>>
<1>1. PICK z : z = <<0>> /\ IsBig(z) /\ Value(z) = 0 /\ Len(z) = 1 /\ z[1] = 0
    BY ZeroBig
<1>2. a \in Seq(LimbValues) /\ Len(a) \in Nat /\ Len(a) >= 1
    BY BigFacts
<1>3. Len(a) = 1
  <2>1. ASSUME Len(z) < Len(a) PROVE FALSE
    <3>1. Value(z) < Value(a)
          BY <1>1, <2>1, LengthOrder, Zenon
    <3>2. ~(0 < 0)
          OBVIOUS
    <3> QED
        BY <3>1, <3>2, <1>1, Zenon
  <2>2. PICK n \in Nat : n = Len(a) /\ n >= 1 /\ ~(1 < n)
        BY <1>1, <1>2, <2>1, Zenon
  <2>3. n = 1
        BY <2>2
  <2> QED
      BY <2>2, <2>3, Zenon
<1>4. a[1] = 0
  <2>1. DOMAIN a = 1..1 /\ a[1] \in LimbValues
        BY <1>2, <1>3
  <2>2. PICK d \in Nat : d = a[1]
        BY <2>1, BaseSizes DEF LimbValues
  <2>3. Limb(a, 0 + 1) = d /\ 0 + 1 = 1
        BY <2>1, <2>2 DEF Limb
  <2>4. Low(a)[0 + 1] = Low(a)[0] + Limb(a, 0 + 1) * Pow(Base, 0) /\ Low(a)[0] = 0
    <3>1. 0 \in Nat
          OBVIOUS
    <3> QED
        BY <3>1, <1>2, DigitSeq, LowSteps, Zenon
  <2>5. Low(a)[1] = 0 + d * 1
        BY <2>3, <2>4, BasePowers, Zenon
  <2>6. Value(a) = Low(a)[1]
        BY <1>2, <1>3, ValueBound, Zenon
  <2>7. 0 + d * 1 = d
        OBVIOUS
  <2> QED
      BY <2>2, <2>5, <2>6, <2>7, Zenon
<1> QED
    BY <1>2, <1>3, <1>4

(* The arithmetic of bignum.cpp is that of the numbers, for operands of    *)
(* every length and limbs of any width: sums, differences, products,       *)
(* remainders and modular powers are exact, and none keeps a zero limb on  *)
(* top (bignum.cpp:62-298).                                                *)
THEOREM BigArithmeticIsExact == Spec => []BigAgrees
<1>1. Computed => BigAgrees
  <2> SUFFICES ASSUME Computed PROVE BigAgrees
      OBVIOUS
  <2>1. ASSUME done, job.kind = "arith"
        PROVE  LET a == Value(job.a)
                   b == Value(job.b)
               IN  /\ \A r \in {out.add, out.sub, out.mul, out.mod} : IsBig(r)
                   /\ Value(out.add) = a + b
                   /\ Value(out.sub) = Abs(a - b)
                   /\ Value(out.mul) = a * b
                   /\ b # 0 => Value(out.mod) = a % b
    <3>1. IsBig(job.a) /\ IsBig(job.b)
          BY <2>1 DEF Computed, JobsAssumed
    <3>2. PICK p, q : p = job.a /\ q = job.b /\ IsBig(p) /\ IsBig(q)
          BY <3>1
    <3>3. out = [add |-> BigAdd(job.a, job.b),
                 sub |-> IF BigCmp(job.a, job.b) < 0 THEN BigSub(job.b, job.a) ELSE BigSub(job.a, job.b),
                 mul |-> BigMul(job.a, job.b),
                 mod |-> IF job.b = <<0>> THEN <<0>> ELSE BigMod(job.a, job.b)]
          BY <2>1 DEF Computed, Result
    <3>4. /\ out.add = BigAdd(p, q) /\ out.mul = BigMul(p, q)
          /\ out.sub = IF BigCmp(p, q) < 0 THEN BigSub(q, p) ELSE BigSub(p, q)
          /\ out.mod = IF q = <<0>> THEN <<0>> ELSE BigMod(p, q)
          BY <3>2, <3>3
    <3>5. PICK a, b \in Nat : a = Value(p) /\ b = Value(q)
          BY <3>2, BigFacts, ValueBound
    <3>6. IsBig(out.add) /\ Value(out.add) = a + b
      <4>1. IsBig(BigAdd(p, q)) /\ Value(BigAdd(p, q)) = Value(p) + Value(q)
            BY <3>2, AddValue, Zenon
      <4> QED
          BY <4>1, <3>4, <3>5, Zenon
    <3>7. IsBig(out.mul) /\ Value(out.mul) = a * b
      <4>1. IsBig(BigMul(p, q)) /\ Value(BigMul(p, q)) = Value(p) * Value(q)
            BY <3>2, MulValue, Zenon
      <4> QED
          BY <4>1, <3>4, <3>5, Zenon
    <3>8. IsBig(out.sub) /\ Value(out.sub) = Abs(a - b)
      <4>1. BigCmp(p, q) \in {-1, 0, 1} /\ (BigCmp(p, q) >= 0 <=> b <= a)
            BY <3>2, <3>5, CmpValue, CmpAtLeast, Zenon
      <4>2. BigCmp(p, q) < 0 <=> ~(BigCmp(p, q) >= 0)
            BY <4>1
      <4>3. CASE b <= a
        <5>1. out.sub = BigSub(p, q)
              BY <4>1, <4>2, <4>3, <3>4, Zenon
        <5>2. IsBig(out.sub) /\ Value(out.sub) = a - b
              BY <5>1, <4>3, <3>2, <3>5, SubValue, Zenon
        <5>3. Abs(a - b) = a - b
              BY <4>3 DEF Abs
        <5> QED
            BY <5>2, <5>3, Zenon
      <4>4. CASE ~(b <= a)
        <5>1. out.sub = BigSub(q, p)
              BY <4>1, <4>2, <4>4, <3>4, Zenon
        <5>2. a <= b /\ Abs(a - b) = b - a
              BY <4>4 DEF Abs
        <5>3. IsBig(out.sub) /\ Value(out.sub) = b - a
              BY <5>1, <5>2, <3>2, <3>5, SubValue, Zenon
        <5> QED
            BY <5>2, <5>3, Zenon
      <4> QED
          BY <4>3, <4>4, Zenon
    <3>9. IsBig(out.mod) /\ (b # 0 => Value(out.mod) = a % b)
      <4>1. CASE q = <<0>>
        <5>1. out.mod = <<0>> /\ b = 0
              BY <4>1, <3>4, <3>5, ZeroBig, Zenon
        <5> QED
            BY <5>1, ZeroBig, Zenon
      <4>2. CASE q # <<0>>
        <5>1. out.mod = BigMod(p, q)
              BY <4>2, <3>4, Zenon
        <5>2. b # 0
              BY <4>2, <3>2, <3>5, OnlyZero, Zenon
        <5> QED
            BY <5>1, <5>2, <3>2, <3>5, ModValue, Zenon
      <4> QED
          BY <4>1, <4>2, Zenon
    <3> QED
        BY <3>2, <3>5, <3>6, <3>7, <3>8, <3>9, Zenon
  <2>2. ASSUME done, job.kind = "power"
        PROVE  IsBig(out) /\ Value(out) = Powers(job.base, job.exp, job.m)
    <3>1. job.base \in 0..(Word - 1) /\ job.exp \in 0..(Word - 1) /\ job.m \in 1..(Word - 1)
          BY <2>2 DEF Computed, JobsAssumed
    <3>2. PICK m : m = job.m /\ m \in 0..(Word - 1) /\ m # 0
      <4>1. job.m \in 0..(Word - 1) /\ job.m # 0
            BY <3>1, WordFacts
      <4> QED
          BY <4>1, Zenon
    <3>3. out = BigModPow(BigFromUint(job.base), BigFromUint(job.exp), BigFromUint(job.m))
          BY <2>2 DEF Computed, Result
    <3> QED
      <4>1. PICK b, e, n : /\ b = BigFromUint(job.base) /\ IsBig(b) /\ Value(b) = job.base
                           /\ e = BigFromUint(job.exp) /\ IsBig(e) /\ Value(e) = job.exp
                           /\ n = BigFromUint(job.m) /\ IsBig(n) /\ Value(n) = job.m
            BY <3>1, <3>2, UintValue, Zenon
      <4>2. Value(n) # 0
            BY <4>1, <3>2, Zenon
      <4>3. IsBig(BigModPow(b, e, n)) /\ Value(BigModPow(b, e, n)) = Powers(Value(b), Value(e), Value(n))
            BY <4>1, <4>2, ModPowValue, Zenon
      <4> QED
          BY <3>3, <4>1, <4>3, Zenon
  <2> QED
      BY <2>1, <2>2, Zenon DEF BigAgrees, Answered
<1> QED
    BY <1>1, ComputedHolds, PTL

----------------------------------------------------------------------------
(* The number a text of bytes stands for, the highest first.  *)
ByteDigits == 0..(ByteBase - 1)

IsReading(v, x) ==
    /\ \A k \in 0..Len(x) : v[k] \in Nat
    /\ v[0] = 0
    /\ \A k \in 0..(Len(x) - 1) : v[k + 1] = v[k] * ByteBase + x[k + 1]
    /\ BytesValue(x) = v[Len(x)]

LEMMA BytesRuns ==
    ASSUME NEW x, x \in Seq(Nat)
    PROVE  \E v : IsReading(v, x)
<1> DEFINE n == Len(x)
           Eq(f) == f = [k \in 0..n |-> IF k = 0 THEN 0 ELSE f[k - 1] * ByteBase + x[k]]
           f == CHOOSE f : Eq(f)
           step == [k \in 1..n |-> [s \in Nat |-> s * ByteBase + x[k]]]
<1>0. n \in Nat /\ 0 \in Nat
    OBVIOUS
<1>t. ASSUME NEW k \in 1..n, NEW s \in Nat PROVE s * ByteBase + x[k] \in Nat
  <2>1. PICK u \in Nat : u = s * ByteBase
        BY BaseSizes, Products
  <2>2. PICK y \in Nat : y = x[k]
        OBVIOUS
  <2>3. u + y \in Nat
        OBVIOUS
  <2> QED
      BY <2>1, <2>2, <2>3, Zenon
<1>1. PICK g : IsRun(g, n, Nat, 0, step)
  <2>1. step \in [1..n -> [Nat -> Nat]]
    <3> HIDE DEF n
    <3> QED
        BY <1>t, Zenon
  <2> HIDE DEF step, n
  <2> QED
      BY <1>0, <2>1, Iteration, Zenon
<1>2. Eq(g)
  <2>1. g \in [0..n -> Nat] /\ g[0] = 0
    <3> HIDE DEF n, step
    <3> QED
        BY <1>1 DEF IsRun
  <2>2. ASSUME NEW k \in 1..n PROVE g[k] = g[k - 1] * ByteBase + x[k]
    <3>1. g[k - 1] \in Nat
      <4> HIDE DEF n
      <4> QED
          BY <2>1, <1>0
    <3>2. g[k] = step[k][g[k - 1]]
      <4> HIDE DEF step, n
      <4> QED
          BY <1>1 DEF IsRun
    <3>3. step[k] = [s \in Nat |-> s * ByteBase + x[k]]
      <4> HIDE DEF n
      <4> QED
          BY Zenon
    <3> HIDE DEF step, n
    <3> QED
        BY <3>1, <3>2, <3>3, Zenon
  <2> HIDE DEF n, step
  <2> QED
      BY <2>1, <2>2, <1>0
<1>3. Eq(f)
  <2> HIDE DEF Eq
  <2> QED
      BY <1>2, Zenon
<1>4. BytesValue(x) = f[n]
    BY Zenon DEF BytesValue
<1> HIDE DEF f
<1>5. f[0] = 0
  <2> HIDE DEF n
  <2> QED
      BY <1>3, <1>0
<1>6. ASSUME NEW k \in 0..(n - 1) PROVE f[k + 1] = f[k] * ByteBase + x[k + 1]
  <2>1. k + 1 \in 0..n /\ k + 1 # 0 /\ (k + 1) - 1 = k
    <3> HIDE DEF n
    <3> QED
        BY <1>0
  <2>2. f[k + 1] = f[(k + 1) - 1] * ByteBase + x[k + 1]
    <3> HIDE DEF n
    <3> QED
        BY <2>1, <1>3, Zenon
  <2> QED
      BY <2>1, <2>2, Zenon
<1>7. \A k \in 0..n : f[k] \in Nat
  <2> DEFINE S == {k \in 0..n : f[k] \in Nat}
  <2>1. 0 \in S
    <3> HIDE DEF n
    <3> QED
        BY <1>0, <1>5
  <2>2. ASSUME NEW k \in 0..(n - 1), k \in S PROVE k + 1 \in S
    <3>1. k + 1 \in 0..n /\ k + 1 \in 1..n
      <4> HIDE DEF n
      <4> QED
          BY <1>0
    <3>2. f[k + 1] \in Nat
      <4> HIDE DEF n
      <4> QED
          BY <2>2, <3>1, <1>6, <1>t, Zenon
    <3> QED
        BY <3>1, <3>2, Zenon
  <2> HIDE DEF S, n
  <2>3. \A k \in 0..n : k \in S
        BY <1>0, <2>1, <2>2, UpTo, Zenon
  <2> QED
      BY <2>3, Zenon DEF S
<1>8. IsReading(f, x)
    BY <1>4, <1>5, <1>6, <1>7, Zenon DEF IsReading
<1> QED
    BY <1>8, Zenon

(* A text after another.  *)
LEMMA BytesJoin ==
    ASSUME NEW x, NEW y, x \in Seq(Nat), y \in Seq(Nat)
    PROVE  /\ BytesValue(x) \in Nat
           /\ x \o y \in Seq(Nat)
           /\ BytesValue(x \o y) = BytesValue(x) * Pow(ByteBase, Len(y)) + BytesValue(y)
<1>1. PICK m, n \in Nat : m = Len(x) /\ n = Len(y)
    OBVIOUS
<1>2. PICK w : w = x \o y
    OBVIOUS
<1>3. /\ w \in Seq(Nat) /\ Len(w) = m + n
      /\ \A p \in 1..m : w[p] = x[p]
      /\ \A p \in 1..n : w[m + p] = y[p]
    BY <1>1, <1>2, ConcatPlaces
<1>4. PICK f : IsReading(f, x)
    BY BytesRuns, Zenon
<1>5. PICK g : IsReading(g, y)
    BY BytesRuns, Zenon
<1>6. PICK h : IsReading(h, w)
    BY <1>3, BytesRuns, Zenon
<1>7. h[m] = f[m] /\ f[m] \in Nat
  <2> DEFINE S == {k \in 0..m : h[k] = f[k]}
  <2>1. 0 \in S
        BY <1>4, <1>6 DEF IsReading
  <2>2. ASSUME NEW k \in 0..(m - 1), k \in S PROVE k + 1 \in S
    <3>1. k + 1 \in 0..m /\ k + 1 \in 1..m /\ k \in 0..((m + n) - 1)
          OBVIOUS
    <3>2. f[k + 1] = f[k] * ByteBase + x[k + 1]
          BY <1>4, <1>1, Zenon DEF IsReading
    <3>3. h[k + 1] = h[k] * ByteBase + w[k + 1]
          BY <1>6, <1>3, <3>1, Zenon DEF IsReading
    <3>4. h[k] = f[k] /\ w[k + 1] = x[k + 1]
          BY <2>2, <3>1, <1>3, Zenon
    <3>5. h[k + 1] = f[k + 1]
          BY <3>2, <3>3, <3>4, Zenon
    <3> QED
        BY <3>1, <3>5, Zenon
  <2> HIDE DEF S
  <2>3. m \in S
    <3>1. \A k \in 0..m : k \in S
          BY <2>1, <2>2, UpTo, Zenon
    <3> QED
        BY <3>1
  <2>4. m \in 0..m
        OBVIOUS
  <2> QED
      BY <2>3, <2>4, <1>1, <1>4, Zenon DEF S, IsReading
<1>8. PICK v \in Nat : v = f[m] /\ v = BytesValue(x) /\ v = h[m]
    BY <1>1, <1>4, <1>7, Zenon DEF IsReading
<1>9. h[m + n] = v * Pow(ByteBase, n) + g[n]
  <2> DEFINE S == {k \in 0..n : h[m + k] = v * Pow(ByteBase, k) + g[k]}
  <2>1. 0 \in S
    <3>1. Pow(ByteBase, 0) = 1 /\ g[0] = 0 /\ m + 0 = m /\ v * 1 + 0 = v /\ 0 \in 0..n
          BY PowRules, BaseSizes, <1>5 DEF IsReading
    <3> QED
        BY <3>1, <1>8, Zenon
  <2>2. ASSUME NEW k \in 0..(n - 1), k \in S PROVE k + 1 \in S
    <3>1. /\ k + 1 \in 0..n /\ k + 1 \in 1..n /\ k \in 0..n /\ k \in Nat
          /\ m + k \in 0..((m + n) - 1) /\ (m + k) + 1 = m + (k + 1)
          OBVIOUS
    <3>2. PICK a, b, p \in Nat : a = g[k] /\ b = y[k + 1] /\ p = Pow(ByteBase, k)
                                 /\ Pow(ByteBase, k + 1) = ByteBase * p
      <4>1. g[k] \in Nat
            BY <3>1, <1>5, <1>1, Zenon DEF IsReading
      <4>2. y[k + 1] \in Nat
            BY <3>1, <1>1, ElementOfSeq, Zenon
      <4>3. Pow(ByteBase, k) \in Nat /\ Pow(ByteBase, k + 1) = ByteBase * Pow(ByteBase, k)
            BY <3>1, PowRules, BaseSizes, Zenon
      <4> QED
          BY <4>1, <4>2, <4>3, Zenon
    <3>3. g[k + 1] = a * ByteBase + b
          BY <1>5, <1>1, <3>2, Zenon DEF IsReading
    <3>4. h[m + (k + 1)] = h[m + k] * ByteBase + b
      <4>1. h[(m + k) + 1] = h[m + k] * ByteBase + w[(m + k) + 1]
            BY <1>6, <1>3, <3>1, Zenon DEF IsReading
      <4>2. w[m + (k + 1)] = b
            BY <1>3, <3>1, <3>2, Zenon
      <4> QED
          BY <4>1, <4>2, <3>1, Zenon
    <3>5. h[m + k] = v * p + a
          BY <2>2, <3>2, Zenon
    <3>6. (v * p + a) * ByteBase + b = v * (ByteBase * p) + (a * ByteBase + b)
      <4>1. PICK c \in Nat : c = ByteBase
            BY BaseSizes
      <4>2. PICK d, e \in Nat : d = v * p /\ e = c * p
            BY Products
      <4>3. (d + a) * c = d * c + a * c
            BY Products
      <4>4. d * c = v * e
        <5>1. (v * p) * c = v * (p * c) /\ p * c = c * p
              BY Products
        <5> QED
            BY <5>1, <4>2, Zenon
      <4>5. PICK q, r \in Nat : q = v * e /\ r = a * c
            BY Products
      <4>6. (q + r) + b = q + (r + b)
            OBVIOUS
      <4> QED
          BY <4>1, <4>2, <4>3, <4>4, <4>5, <4>6, Zenon
    <3>7. h[m + (k + 1)] = v * Pow(ByteBase, k + 1) + g[k + 1]
          BY <3>2, <3>3, <3>4, <3>5, <3>6, Zenon
    <3> QED
        BY <3>1, <3>7, Zenon
  <2> HIDE DEF S
  <2>3. n \in S
    <3>1. \A k \in 0..n : k \in S
          BY <2>1, <2>2, UpTo, Zenon
    <3> QED
        BY <3>1
  <2> QED
      BY <2>3, Zenon DEF S
<1>10. BytesValue(w) = h[m + n] /\ BytesValue(y) = g[n]
    BY <1>1, <1>3, <1>5, <1>6, Zenon DEF IsReading
<1> QED
    BY <1>1, <1>2, <1>3, <1>8, <1>9, <1>10, Zenon

LEMMA ByteDigitFacts ==
    /\ ByteDigits \subseteq Nat /\ 0 \in ByteDigits
    /\ \A d \in ByteDigits : d \in Nat /\ d <= ByteBase - 1
    /\ \A d \in Nat : d < ByteBase => d \in ByteDigits
BY BaseSizes DEF ByteDigits

LEMMA ByteSeq ==
    ASSUME NEW x, x \in Seq(ByteDigits)
    PROVE  /\ x \in Seq(Nat) /\ Len(x) \in Nat
           /\ \A k \in 1..Len(x) : x[k] \in ByteDigits /\ x[k] \in Nat /\ x[k] <= ByteBase - 1
<1>1. x \in Seq(Nat)
    BY ByteDigitFacts, SeqOfMore, Zenon
<1>2. Len(x) \in Nat /\ \A k \in 1..Len(x) : x[k] \in ByteDigits
    BY ElementOfSeq, LenProperties, Zenon
<1> QED
    BY <1>1, <1>2, ByteDigitFacts, Zenon

LEMMA BytePowers ==
    /\ Pow(ByteBase, 0) = 1
    /\ \A n \in Nat : /\ Pow(ByteBase, n) \in Nat /\ Pow(ByteBase, n) >= 1
                      /\ Pow(ByteBase, n + 1) = ByteBase * Pow(ByteBase, n)
<1>1. ByteBase \in Nat /\ ByteBase > 0
    BY BaseSizes
<1> QED
    BY <1>1, PowRules, PowPositive, Zenon

LEMMA BytesBound ==
    ASSUME NEW x, x \in Seq(ByteDigits)
    PROVE  BytesValue(x) \in Nat /\ BytesValue(x) < Pow(ByteBase, Len(x))
<1>1. PICK n \in Nat : n = Len(x)
    BY ByteSeq, Zenon
<1>2. PICK f : IsReading(f, x)
    BY ByteSeq, BytesRuns, Zenon
<1> DEFINE S == {k \in 0..n : f[k] < Pow(ByteBase, k)}
<1>3. 0 \in S
  <2>1. 0 < 1 /\ 0 \in 0..n
        OBVIOUS
  <2> QED
      BY <2>1, <1>2, BytePowers, Zenon DEF IsReading
<1>4. ASSUME NEW k \in 0..(n - 1), k \in S PROVE k + 1 \in S
  <2>1. k + 1 \in 0..n /\ k + 1 \in 1..n /\ k \in 0..n /\ k \in Nat
        OBVIOUS
  <2>2. PICK v, p, b, c \in Nat : /\ v = f[k] /\ p = Pow(ByteBase, k) /\ b = x[k + 1] /\ c = ByteBase
                                  /\ v < p /\ b <= c - 1 /\ Pow(ByteBase, k + 1) = c * p
                                  /\ f[k + 1] = v * c + b
    <3>1. f[k] \in Nat /\ f[k + 1] = f[k] * ByteBase + x[k + 1]
          BY <2>1, <1>1, <1>2, Zenon DEF IsReading
    <3>2. x[k + 1] \in Nat /\ x[k + 1] <= ByteBase - 1
          BY <2>1, <1>1, ByteSeq, Zenon
    <3>3. /\ Pow(ByteBase, k) \in Nat /\ Pow(ByteBase, k + 1) = ByteBase * Pow(ByteBase, k)
          /\ f[k] < Pow(ByteBase, k) /\ ByteBase \in Nat
          BY <2>1, <1>4, BytePowers, BaseSizes, Zenon
    <3> QED
        BY <3>1, <3>2, <3>3, Zenon
  <2>3. v * c + b < c * p
    <3>1. PICK w \in Nat : w = v + 1 /\ w <= p
          BY <2>2
    <3>2. w * c <= p * c
          BY <3>1, ProductsGrow
    <3>3. (v + 1) * c = v * c + 1 * c /\ 1 * c = c /\ p * c = c * p
          BY Products
    <3>4. PICK s, t \in Nat : s = v * c /\ t = c * p
          BY Products
    <3>5. s + c <= t
          BY <3>1, <3>2, <3>3, <3>4, Zenon
    <3>6. s + b < t
          BY <3>5, <2>2
    <3> QED
        BY <3>4, <3>6, Zenon
  <2>4. f[k + 1] < Pow(ByteBase, k + 1)
        BY <2>2, <2>3, Zenon
  <2> QED
      BY <2>1, <2>4, Zenon
<1> HIDE DEF S
<1>5. \A k \in 0..n : k \in S
    BY <1>3, <1>4, UpTo, Zenon
<1>6. n \in 0..n
    OBVIOUS
<1> QED
    BY <1>1, <1>2, <1>5, <1>6, Zenon DEF S, IsReading

(* No two texts of a length stand for the same number.  *)
LEMMA BytesUnique ==
    ASSUME NEW x, NEW y, x \in Seq(ByteDigits), y \in Seq(ByteDigits), Len(x) = Len(y),
           BytesValue(x) = BytesValue(y)
    PROVE  x = y
<1>1. PICK n \in Nat : n = Len(x) /\ n = Len(y)
    BY ByteSeq, Zenon
<1>2. PICK f : IsReading(f, x)
    BY ByteSeq, BytesRuns, Zenon
<1>3. PICK g : IsReading(g, y)
    BY ByteSeq, BytesRuns, Zenon
<1>4. ASSUME NEW k \in 0..(n - 1), f[k + 1] = g[k + 1] PROVE f[k] = g[k] /\ x[k + 1] = y[k + 1]
  <2>1. k \in 0..n /\ k + 1 \in 1..n
        OBVIOUS
  <2>2. PICK v, w, a, b, c \in Nat : /\ v = f[k] /\ w = g[k] /\ a = x[k + 1] /\ b = y[k + 1]
                                     /\ c = ByteBase
    <3>1. f[k] \in Nat /\ g[k] \in Nat
          BY <2>1, <1>1, <1>2, <1>3, Zenon DEF IsReading
    <3>2. x[k + 1] \in Nat /\ y[k + 1] \in Nat /\ ByteBase \in Nat
          BY <2>1, <1>1, ByteSeq, BaseSizes, Zenon
    <3> QED
        BY <3>1, <3>2, Zenon
  <2>3. a < c /\ b < c /\ c > 0
    <3>1. a <= ByteBase - 1 /\ b <= ByteBase - 1 /\ ByteBase >= 2
          BY <2>1, <2>2, <1>1, ByteSeq, BaseSizes, Zenon
    <3> QED
        BY <3>1, <2>2
  <2>4. v * c + a = w * c + b
    <3>1. f[k + 1] = v * c + a /\ g[k + 1] = w * c + b
          BY <2>2, <1>1, <1>2, <1>3, Zenon DEF IsReading
    <3> QED
        BY <3>1, <1>4, Zenon
  <2>5. PICK z \in Nat : z = v * c + a /\ z = w * c + b
    <3>1. PICK u \in Nat : u = v * c
          BY Products
    <3>2. u + a \in Nat
          OBVIOUS
    <3> QED
        BY <3>1, <3>2, <2>4, Zenon
  <2>6. z \in Int /\ v \in Int /\ w \in Int
        OBVIOUS
  <2>7. z \div c = v /\ z % c = a
        BY <2>3, <2>5, <2>6, Quotient, Zenon
  <2>8. z \div c = w /\ z % c = b
        BY <2>3, <2>5, <2>6, Quotient, Zenon
  <2> QED
      BY <2>2, <2>7, <2>8, Zenon
<1> DEFINE S == {j \in 0..n : f[n - j] = g[n - j]}
<1>5. 0 \in S
  <2>1. n - 0 = n /\ 0 \in 0..n
        OBVIOUS
  <2>2. f[n] = g[n]
        BY <1>1, <1>2, <1>3, Zenon DEF IsReading
  <2> QED
      BY <2>1, <2>2, Zenon
<1>6. ASSUME NEW j \in 0..(n - 1), j \in S PROVE j + 1 \in S
  <2>1. PICK k \in 0..(n - 1) : k = n - (j + 1) /\ k + 1 = n - j /\ j + 1 \in 0..n
        OBVIOUS
  <2>2. f[k + 1] = g[k + 1]
        BY <2>1, <1>6, Zenon
  <2>3. f[k] = g[k]
        BY <2>2, <1>4, Zenon
  <2> QED
      BY <2>1, <2>3, Zenon
<1> HIDE DEF S
<1>7. \A j \in 0..n : j \in S
    BY <1>5, <1>6, UpTo, Zenon
<1>8. ASSUME NEW p \in 1..n PROVE x[p] = y[p]
  <2>1. PICK k \in 0..(n - 1), j \in 0..n : k + 1 = p /\ j = n - p /\ n - j = p
    <3>1. /\ p - 1 \in 0..(n - 1) /\ (p - 1) + 1 = p
          /\ n - p \in 0..n /\ n - (n - p) = p
          OBVIOUS
    <3> QED
        BY <3>1, Zenon
  <2>2. f[k + 1] = g[k + 1]
        BY <2>1, <1>7, Zenon DEF S
  <2> QED
      BY <2>1, <2>2, <1>4, Zenon
<1> QED
    BY <1>1, <1>8, SeqEqual, Zenon

(* Zeros before a text do not count.  *)
LEMMA ZerosBytes ==
    ASSUME NEW z \in Nat
    PROVE  Zeros(z) \in Seq(ByteDigits) /\ Len(Zeros(z)) = z /\ BytesValue(Zeros(z)) = 0
<1>1. PICK x : x = Zeros(z)
    OBVIOUS
<1>2. x = [k \in 1..z |-> 0]
    BY <1>1 DEF Zeros
<1>3. x \in Seq(ByteDigits) /\ Len(x) = z /\ \A k \in 1..z : x[k] = 0
    BY <1>2, ByteDigitFacts
<1>4. PICK f : IsReading(f, x)
    BY <1>3, ByteSeq, BytesRuns, Zenon
<1> DEFINE S == {k \in 0..z : f[k] = 0}
<1>5. 0 \in S
    BY <1>4 DEF IsReading
<1>6. ASSUME NEW k \in 0..(z - 1), k \in S PROVE k + 1 \in S
  <2>1. k + 1 \in 0..z /\ k + 1 \in 1..z /\ 0 * ByteBase + 0 = 0
        BY BaseSizes
  <2>2. f[k + 1] = 0 * ByteBase + 0
        BY <1>3, <1>4, <1>6, <2>1, Zenon DEF IsReading
  <2> QED
      BY <2>1, <2>2, Zenon
<1> HIDE DEF S
<1>7. \A k \in 0..z : k \in S
    BY <1>5, <1>6, UpTo, Zenon
<1>8. z \in 0..z
    OBVIOUS
<1>9. BytesValue(x) = 0
    BY <1>3, <1>4, <1>7, <1>8, Zenon DEF S, IsReading
<1> QED
    BY <1>1, <1>3, <1>9, Zenon

LEMMA ZerosBefore ==
    ASSUME NEW z \in Nat, NEW x, x \in Seq(ByteDigits)
    PROVE  /\ Zeros(z) \o x \in Seq(ByteDigits)
           /\ Len(Zeros(z) \o x) = z + Len(x)
           /\ BytesValue(Zeros(z) \o x) = BytesValue(x)
<1>1. PICK y : y = Zeros(z) /\ y \in Seq(ByteDigits) /\ Len(y) = z /\ BytesValue(y) = 0
    BY ZerosBytes, Zenon
<1>2. y \o x \in Seq(ByteDigits) /\ Len(y \o x) = z + Len(x)
    BY <1>1
<1>3. BytesValue(y \o x) = 0 * Pow(ByteBase, Len(x)) + BytesValue(x)
    BY <1>1, ByteSeq, BytesJoin, Zenon
<1>4. Pow(ByteBase, Len(x)) \in Nat /\ BytesValue(x) \in Nat
    BY ByteSeq, BytePowers, BytesJoin, Zenon
<1>5. PICK p, v \in Nat : p = Pow(ByteBase, Len(x)) /\ v = BytesValue(x)
    BY <1>4, Zenon
<1>6. 0 * p + v = v
    OBVIOUS
<1> QED
    BY <1>1, <1>2, <1>3, <1>5, <1>6, Zenon

(* A first byte that counts gives the length away.  *)
LEMMA BytesLead ==
    ASSUME NEW x, x \in Seq(ByteDigits), Len(x) > 0, x[1] # 0
    PROVE  Pow(ByteBase, Len(x) - 1) <= BytesValue(x)
<1>1. PICK n \in Nat : n = Len(x) - 1 /\ Len(x) = n + 1
  <2>1. Len(x) \in Nat
        BY ByteSeq, Zenon
  <2> QED
      BY <2>1
<1>2. PICK f : IsReading(f, x)
    BY ByteSeq, BytesRuns, Zenon
<1> DEFINE S == {k \in 0..n : Pow(ByteBase, k) <= f[k + 1]}
<1>3. 0 \in S
  <2>1. 0 \in 0..((n + 1) - 1) /\ 0 + 1 = 1 /\ 1 \in 1..(n + 1) /\ 0 * ByteBase = 0 /\ 0 \in 0..n
        BY BaseSizes
  <2>2. f[1] = 0 * ByteBase + x[1]
    <3>1. f[0 + 1] = f[0] * ByteBase + x[0 + 1]
          BY <2>1, <1>1, <1>2, Zenon DEF IsReading
    <3>2. f[0] = 0
          BY <1>2, Zenon DEF IsReading
    <3> QED
        BY <2>1, <3>1, <3>2, Zenon
  <2>3. x[1] \in Nat
        BY <2>1, <1>1, ByteSeq, Zenon
  <2>4. 1 <= f[1]
    <3>1. PICK b \in Nat : b = x[1] /\ b # 0
          BY <2>3, Zenon
    <3>2. 0 + b = b /\ 1 <= b
          BY <3>1
    <3> QED
        BY <2>1, <2>2, <3>1, <3>2, Zenon
  <2> QED
      BY <2>1, <2>4, BytePowers, Zenon
<1>4. ASSUME NEW k \in 0..(n - 1), k \in S PROVE k + 1 \in S
  <2>1. /\ k + 1 \in 0..n /\ k + 1 \in 0..((n + 1) - 1) /\ (k + 1) + 1 \in 1..(n + 1) /\ k \in Nat
        /\ k + 1 \in 0..(n + 1)
        OBVIOUS
  <2>2. PICK v, b, c, p \in Nat : /\ v = f[k + 1] /\ b = x[(k + 1) + 1] /\ c = ByteBase
                                  /\ p = Pow(ByteBase, k) /\ Pow(ByteBase, k + 1) = c * p /\ p <= v
                                  /\ f[(k + 1) + 1] = v * c + b
    <3>1. f[k + 1] \in Nat /\ f[(k + 1) + 1] = f[k + 1] * ByteBase + x[(k + 1) + 1]
          BY <2>1, <1>1, <1>2, Zenon DEF IsReading
    <3>2. x[(k + 1) + 1] \in Nat /\ ByteBase \in Nat
          BY <2>1, <1>1, ByteSeq, BaseSizes, Zenon
    <3>3. /\ Pow(ByteBase, k) \in Nat /\ Pow(ByteBase, k + 1) = ByteBase * Pow(ByteBase, k)
          /\ Pow(ByteBase, k) <= f[k + 1]
          BY <2>1, <1>4, BytePowers, Zenon
    <3> QED
        BY <3>1, <3>2, <3>3, Zenon
  <2>3. p * c <= v * c /\ p * c = c * p
    <3>1. p \in Int /\ v \in Int /\ c \in Int
          OBVIOUS
    <3>2. p * c = c * p
          BY <3>1, Products, Zenon
    <3>3. p * c <= v * c
          BY <3>1, <2>2, ProductsGrow, Zenon
    <3> QED
        BY <3>2, <3>3, Zenon
  <2>4. PICK s, t \in Nat : s = v * c /\ t = c * p
        BY Products
  <2>5. t <= s + b
        BY <2>3, <2>4
  <2>6. Pow(ByteBase, k + 1) <= f[(k + 1) + 1]
        BY <2>2, <2>4, <2>5, Zenon
  <2> QED
      BY <2>1, <2>6, Zenon
<1> HIDE DEF S
<1>5. \A k \in 0..n : k \in S
    BY <1>3, <1>4, UpTo, Zenon
<1>6. n \in 0..n
    OBVIOUS
<1> QED
    BY <1>1, <1>2, <1>5, <1>6, Zenon DEF S, IsReading

----------------------------------------------------------------------------
(* Limbs of bytes.  *)
LEMMA PowPowers ==
    ASSUME NEW b \in Nat, NEW m \in Nat
    PROVE  \A q \in Nat : Pow(Pow(b, m), q) = Pow(b, m * q)
<1>0. PICK c \in Nat : c = Pow(b, m)
    BY PowRules
<1> DEFINE S == {q \in Nat : Pow(c, q) = Pow(b, m * q)}
<1>1. 0 \in S
  <2>1. m * 0 = 0 /\ 0 \in Nat
        OBVIOUS
  <2>2. Pow(c, 0) = 1 /\ Pow(b, 0) = 1
        BY PowRules, Zenon
  <2> QED
      BY <2>1, <2>2, Zenon
<1>2. ASSUME NEW q \in S PROVE q + 1 \in S
  <2>1. PICK j \in Nat : j = m * q /\ m * (q + 1) = j + m
    <3>1. m * q \in Nat /\ m * (q + 1) = m * q + m
          OBVIOUS
    <3> QED
        BY <3>1
  <2>2. Pow(b, j + m) = Pow(b, j) * Pow(b, m)
        BY PowAdds, Zenon
  <2>3. PICK p \in Nat : p = Pow(b, j)
        BY PowRules
  <2>4. p * c = c * p
        BY Products
  <2>5. q \in Nat /\ Pow(c, q + 1) = c * Pow(c, q) /\ q + 1 \in Nat
        BY PowRules
  <2>6. Pow(c, q) = p
        BY <2>1, <2>3, Zenon
  <2> QED
      BY <1>0, <2>1, <2>2, <2>3, <2>4, <2>5, <2>6, Zenon
<1>3. S = Nat
  <2> HIDE DEF S
  <2>1. S \subseteq Nat
        BY DEF S
  <2> QED
      BY <1>1, <1>2, <2>1, NatSet, Zenon
<1> QED
    BY <1>0, <1>3, Zenon

LEMMA LimbOfBytes ==
    /\ Base = Pow(ByteBase, LimbBytes)
    /\ \A q \in Nat : LimbBytes * q \in Nat /\ Pow(Base, q) = Pow(ByteBase, LimbBytes * q)
<1>1. ByteBits \in Nat /\ LimbBytes \in Nat /\ 2 \in Nat
    BY BaseSizes
<1>2. Pow(ByteBase, LimbBytes) = Pow(2, ByteBits * LimbBytes)
    BY <1>1, PowPowers, Zenon DEF ByteBase
<1>3. Base = Pow(ByteBase, LimbBytes)
    BY <1>2, Zenon DEF Base, LimbBits
<1>4. ASSUME NEW q \in Nat PROVE LimbBytes * q \in Nat /\ Pow(Base, q) = Pow(ByteBase, LimbBytes * q)
  <2>1. LimbBytes * q \in Nat
        BY <1>1, Products
  <2>2. ByteBase \in Nat
        BY BaseSizes
  <2> QED
      BY <2>1, <2>2, <1>1, <1>3, PowPowers, Zenon
<1> QED
    BY <1>3, <1>4, Zenon

LEMMA BytePowersGrow ==
    ASSUME NEW m \in Nat, NEW n \in Nat, m <= n
    PROVE  Pow(ByteBase, m) <= Pow(ByteBase, n)
<1>1. PICK d \in Nat : n = m + d
  <2>1. n - m \in Nat /\ n = m + (n - m)
        OBVIOUS
  <2> QED
      BY <2>1
<1>2. PICK p, q \in Nat : p = Pow(ByteBase, m) /\ q = Pow(ByteBase, d) /\ q >= 1
    BY BytePowers
<1>3. Pow(ByteBase, n) = p * q
  <2>1. Pow(ByteBase, m + d) = Pow(ByteBase, m) * Pow(ByteBase, d)
        BY BaseSizes, PowAdds, Zenon
  <2> QED
      BY <1>1, <1>2, <2>1, Zenon
<1>4. 1 * p <= q * p /\ q * p = p * q /\ 1 * p = p
    BY <1>2, ProductsGrow
<1> QED
    BY <1>2, <1>3, <1>4

(* Where the k lowest limbs of a text of n bytes begin.  *)
LimbsOf(n) == (n + LimbBytes - 1) \div LimbBytes
From(n, k) == IF n > k * LimbBytes THEN n - k * LimbBytes ELSE 0

LEMMA LimbPlaces ==
    ASSUME NEW n \in Nat
    PROVE  /\ LimbsOf(n) \in Nat
           /\ From(n, 0) = n /\ From(n, LimbsOf(n)) = 0
           /\ \A k \in 0..LimbsOf(n) : From(n, k) \in Nat /\ From(n, k) <= n
           /\ \A k \in 0..(LimbsOf(n) - 1) :
                 /\ From(n, k) = n - k * LimbBytes /\ n - From(n, k) = LimbBytes * k
                 /\ From(n, k + 1) <= From(n, k) /\ From(n, k) - From(n, k + 1) <= LimbBytes
<1>1. PICK b \in Nat : b = LimbBytes /\ b > 0
    BY BaseSizes
<1>2. PICK y \in Nat : y = n + b - 1
    BY <1>1
<1>3. PICK m, r \in Nat : m = y \div b /\ r < b /\ m * b + r = y
  <2>1. y \div b \in Nat /\ y % b \in Nat /\ y % b < b /\ (y \div b) * b + (y % b) = y
        BY <1>1, Division
  <2> QED
      BY <2>1, Zenon
<1>4. LimbsOf(n) = m
    BY <1>1, <1>2, <1>3, Zenon DEF LimbsOf
<1>5. PICK z \in Nat : z = m * b
    BY Products
<1>6. n <= z
    BY <1>2, <1>3, <1>5
<1>7. From(n, 0) = n
    BY <1>1 DEF From
<1>8. From(n, m) = 0
  <2>1. ~(n > z)
        BY <1>6
  <2> QED
      BY <2>1, <1>1, <1>5, Zenon DEF From
<1>9. ASSUME NEW k \in 0..m PROVE From(n, k) \in Nat /\ From(n, k) <= n
  <2>1. PICK x \in Nat : x = k * LimbBytes
        BY <1>1, Products
  <2> QED
      BY <2>1 DEF From
<1>10. ASSUME NEW k \in 0..(m - 1)
       PROVE  /\ From(n, k) = n - k * LimbBytes /\ n - From(n, k) = LimbBytes * k
              /\ From(n, k + 1) <= From(n, k) /\ From(n, k) - From(n, k + 1) <= LimbBytes
  <2>1. PICK x \in Nat : x = k * b /\ x = b * k
        BY Products
  <2>2. PICK w \in Nat : w = (k + 1) * b /\ w = x + b
    <3>1. (k + 1) * b = k * b + 1 * b /\ 1 * b = b
          BY Products
    <3>2. x + b \in Nat
          OBVIOUS
    <3> QED
        BY <3>1, <3>2, <2>1, Zenon
  <2>3. w <= z
    <3>1. k + 1 <= m /\ k + 1 \in Int /\ m \in Int
          OBVIOUS
    <3> QED
        BY <3>1, <2>2, <1>5, ProductsGrow, Zenon
  <2>4. x < n
        BY <2>2, <2>3, <1>2, <1>3, <1>5
  <2>5. From(n, k) = n - x
        BY <2>1, <2>4, <1>1, Zenon DEF From
  <2>6. From(n, k + 1) = IF n > w THEN n - w ELSE 0
        BY <2>2, <1>1, Zenon DEF From
  <2>7. PICK e, f : e = From(n, k) /\ f = From(n, k + 1)
        OBVIOUS
  <2>9. n - e = x /\ f <= e /\ e - f <= b
        BY <2>2, <2>4, <2>5, <2>6, <2>7
  <2>8. k * LimbBytes = x /\ LimbBytes * k = x
        BY <2>1, <1>1, Zenon
  <2> QED
      BY <2>8, <2>5, <2>7, <2>9, <1>1, Zenon
<1> QED
    BY <1>4, <1>7, <1>8, <1>9, <1>10, Zenon

LEMMA EmptyBytes ==
    ASSUME NEW x, x \in Seq(ByteDigits), Len(x) = 0
    PROVE  BytesValue(x) = 0
<1>1. PICK f : IsReading(f, x)
    BY ByteSeq, BytesRuns, Zenon
<1> QED
    BY <1>1, Zenon DEF IsReading

(* bigFromBytes.  *)
LEMMA FromBytesValue ==
    ASSUME NEW x, x \in Seq(ByteDigits)
    PROVE  IsBig(BigFromBytes(x)) /\ Value(BigFromBytes(x)) = BytesValue(x)
<1>1. PICK n \in Nat : n = Len(x)
    BY ByteSeq, Zenon
<1>2. PICK m \in Nat : m = LimbsOf(n)
    BY LimbPlaces, Zenon
<1> DEFINE a == [k \in 1..m |-> BytesValue(SubSeq(x, From(n, k) + 1, From(n, k - 1)))]
           Ending(k) == BytesValue(SubSeq(x, From(n, k) + 1, n))
<1>3. BigFromBytes(x) = Normal(a)
  <2> DEFINE first(k) == IF Len(x) > k * LimbBytes THEN Len(x) - k * LimbBytes + 1 ELSE 1
  <2>1. ASSUME NEW k \in 1..m
        PROVE  first(k) = From(n, k) + 1 /\ Len(x) - (k - 1) * LimbBytes = From(n, k - 1)
    <3>1. first(k) = From(n, k) + 1
      <4>1. PICK w \in Nat : w = k * LimbBytes
            BY BaseSizes, Products
      <4>2. CASE n > w
            BY <4>1, <4>2, <1>1 DEF From
      <4>3. CASE ~(n > w)
            BY <4>1, <4>3, <1>1 DEF From
      <4> QED
          BY <4>2, <4>3, Zenon
    <3>2. k - 1 \in 0..(m - 1)
          OBVIOUS
    <3>3. From(n, k - 1) = n - (k - 1) * LimbBytes
          BY <3>2, <1>2, LimbPlaces, Zenon
    <3> QED
        BY <3>1, <3>3, <1>1, Zenon
  <2>2. BigFromBytes(x) =
            Normal([k \in 1..m |-> BytesValue(SubSeq(x, first(k), Len(x) - (k - 1) * LimbBytes))])
        BY <1>1, <1>2, Zenon DEF BigFromBytes, LimbsOf
  <2> HIDE DEF first
  <2> QED
      BY <2>1, <2>2, Zenon
<1>4. ASSUME NEW k \in 0..(m - 1)
      PROVE  \E i, j, p \in Nat :
                /\ i = From(n, k + 1) /\ j = From(n, k) /\ i <= j /\ j <= n /\ j - i <= LimbBytes
                /\ p = Pow(Base, k) /\ p = Pow(ByteBase, n - j)
  <2>1. k \in 0..m /\ k + 1 \in 0..m /\ k \in Nat
        OBVIOUS
  <2>2. From(n, k) \in Nat /\ From(n, k) <= n /\ From(n, k + 1) \in Nat
        BY <2>1, <1>2, LimbPlaces, Zenon
  <2>3. /\ n - From(n, k) = LimbBytes * k
        /\ From(n, k + 1) <= From(n, k) /\ From(n, k) - From(n, k + 1) <= LimbBytes
        BY <2>1, <1>2, LimbPlaces, Zenon
  <2>4. Pow(Base, k) \in Nat /\ Pow(Base, k) = Pow(ByteBase, LimbBytes * k)
        BY <2>1, BasePowers, LimbOfBytes, Zenon
  <2> QED
      BY <2>2, <2>3, <2>4, Zenon
<1>5. ASSUME NEW k \in 0..(m - 1)
      PROVE  /\ a[k + 1] \in LimbValues /\ Ending(k) \in Nat
             /\ Ending(k + 1) = Ending(k) + a[k + 1] * Pow(Base, k)
  <2>1. PICK i, j, p \in Nat :
                /\ i = From(n, k + 1) /\ j = From(n, k) /\ i <= j /\ j <= n /\ j - i <= LimbBytes
                /\ p = Pow(Base, k) /\ p = Pow(ByteBase, n - j)
        BY <1>4, Zenon
  <2>2. PICK u, v, w : /\ u = SubSeq(x, i + 1, j) /\ v = SubSeq(x, j + 1, n)
                       /\ w = SubSeq(x, i + 1, n)
        OBVIOUS
  <2>3. /\ u \in Seq(ByteDigits) /\ Len(u) = j - i
        /\ v \in Seq(ByteDigits) /\ Len(v) = n - j
        /\ u \o v = w
    <3>1. i <= n /\ n <= n /\ n <= Len(x)
          BY <2>1, <1>1
    <3>2. SubSeq(x, i + 1, j) \in Seq(ByteDigits) /\ Len(SubSeq(x, i + 1, j)) = j - i
          BY <2>1, <1>1, SubSeqPart
    <3>3. SubSeq(x, j + 1, n) \in Seq(ByteDigits) /\ Len(SubSeq(x, j + 1, n)) = n - j
          BY <3>1, <2>1, <1>1, SubSeqPart
    <3>4. SubSeq(x, i + 1, j) \o SubSeq(x, j + 1, n) = SubSeq(x, i + 1, n)
      <4>1. x \in Seq(ByteDigits) /\ i \in Nat /\ j \in Nat /\ n \in Nat /\ i <= j /\ j <= n /\ n <= Len(x)
            BY <2>1, <3>1
      <4> QED
          BY <4>1, SubSeqParts, SMTT(30)
    <3> QED
        BY <3>2, <3>3, <3>4, <2>2, Zenon
  <2>4. PICK d, t \in Nat : d = BytesValue(u) /\ t = BytesValue(v) /\ BytesValue(w) = d * p + t
    <3>1. u \in Seq(Nat) /\ v \in Seq(Nat)
          BY <2>3, ByteSeq, Zenon
    <3>2. BytesValue(u) \in Nat /\ BytesValue(v) \in Nat
          BY <3>1, BytesJoin, Zenon
    <3>3. BytesValue(u \o v) = BytesValue(u) * Pow(ByteBase, Len(v)) + BytesValue(v)
          BY <3>1, BytesJoin, Zenon
    <3> QED
        BY <3>2, <3>3, <2>1, <2>3, Zenon
  <2>5. d \in LimbValues
    <3>1. d < Pow(ByteBase, j - i)
          BY <2>3, <2>4, BytesBound, Zenon
    <3>2. j - i \in Nat /\ LimbBytes \in Nat
          BY <2>1, BaseSizes
    <3>3. Pow(ByteBase, j - i) <= Base
          BY <3>2, <2>1, BytePowersGrow, LimbOfBytes, Zenon
    <3>4. PICK q \in Nat : q = Pow(ByteBase, j - i)
          BY <3>2, BytePowers, Zenon
    <3>5. d < q /\ q <= Base /\ Base \in Nat
          BY <3>1, <3>3, <3>4, BaseSizes, Zenon
    <3> QED
        BY <3>5 DEF LimbValues
  <2>6. a[k + 1] = d
    <3>1. k + 1 \in 1..m /\ (k + 1) - 1 = k
          OBVIOUS
    <3>2. a[k + 1] = BytesValue(SubSeq(x, From(n, k + 1) + 1, From(n, (k + 1) - 1)))
          BY <3>1, Zenon
    <3> QED
        BY <3>1, <3>2, <2>1, <2>2, <2>4, Zenon
  <2>7. Ending(k) = t /\ Ending(k + 1) = d * p + t
        BY <2>1, <2>2, <2>4, Zenon
  <2>8. d * p + t = t + d * p
    <3>1. PICK q \in Nat : q = d * p
          BY Products
    <3> QED
        BY <3>1
  <2> HIDE DEF a, Ending
  <2> QED
      BY <2>1, <2>5, <2>6, <2>7, <2>8, Zenon
<1>6. a \in Seq(LimbValues) /\ Len(a) = m
  <2>1. ASSUME NEW k \in 1..m PROVE a[k] \in LimbValues
    <3>1. PICK j \in 0..(m - 1) : j + 1 = k
      <4>1. k - 1 \in 0..(m - 1) /\ (k - 1) + 1 = k
            OBVIOUS
      <4> QED
          BY <4>1, Zenon
    <3> HIDE DEF a
    <3> QED
        BY <3>1, <1>5, Zenon
  <2>2. a = [k \in 1..m |-> a[k]]
        BY Zenon
  <2> HIDE DEF a
  <2> QED
      BY <2>1, <2>2
<1> HIDE DEF a
<1>7. Low(a)[m] = Ending(m)
  <2> DEFINE S == {k \in 0..m : Low(a)[k] = Ending(k)}
  <2>0. a \in Seq(Nat)
        BY <1>6, DigitSeq, Zenon
  <2>1. 0 \in S
    <3>1. Low(a)[0] = 0
          BY <2>0, LowSteps, Zenon
    <3>2. PICK v : v = SubSeq(x, n + 1, n)
          OBVIOUS
    <3>3. v \in Seq(ByteDigits) /\ Len(v) = n - n
      <4>1. n <= n
            OBVIOUS
      <4>2. SubSeq(x, n + 1, n) \in Seq(ByteDigits) /\ Len(SubSeq(x, n + 1, n)) = n - n
            BY <4>1, <1>1, SubSeqPart
      <4> QED
          BY <4>2, <3>2, Zenon
    <3>4. n - n = 0 /\ 0 \in 0..m
          OBVIOUS
    <3>5. From(n, 0) = n
          BY LimbPlaces, Zenon
    <3>6. Ending(0) = 0
          BY <3>2, <3>3, <3>4, <3>5, EmptyBytes, Zenon
    <3> HIDE DEF Ending
    <3> QED
        BY <3>1, <3>4, <3>6, Zenon
  <2> HIDE DEF Ending
  <2>2. ASSUME NEW k \in 0..(m - 1), k \in S PROVE k + 1 \in S
    <3>1. k + 1 \in 0..m /\ k \in Nat /\ k + 1 \in 1..m
          OBVIOUS
    <3>2. Low(a)[k + 1] = Low(a)[k] + Limb(a, k + 1) * Pow(Base, k)
          BY <2>0, <3>1, LowSteps, Zenon
    <3>3. Limb(a, k + 1) = a[k + 1]
      <4>1. DOMAIN a = 1..m
            BY <1>6
      <4> QED
          BY <4>1, <3>1, Zenon DEF Limb
    <3>4. Low(a)[k + 1] = Ending(k + 1)
          BY <3>2, <3>3, <2>2, <1>5, Zenon
    <3> QED
        BY <3>1, <3>4, Zenon
  <2> HIDE DEF S
  <2>3. \A k \in 0..m : k \in S
        BY <2>1, <2>2, UpTo, Zenon
  <2>4. m \in 0..m
        OBVIOUS
  <2> QED
      BY <2>3, <2>4, Zenon DEF S
<1>8. Ending(m) = BytesValue(x)
  <2>1. From(n, m) = 0 /\ 0 + 1 = 1
        BY <1>2, LimbPlaces
  <2>2. SubSeq(x, 1, Len(x)) = x
        OBVIOUS
  <2> QED
      BY <2>1, <2>2, <1>1, Zenon
<1>9. Value(a) = Low(a)[m]
    BY <1>6, ValueBound, Zenon
<1> HIDE DEF Ending
<1> QED
    BY <1>3, <1>6, <1>7, <1>8, <1>9, NormalValue, Zenon

LEMMA BytesOfParts ==
    ASSUME NEW seqs, seqs \in Seq(Seq(ByteDigits)), NEW n, n = Len(seqs)
    PROVE  \E g : /\ g \in [0..n -> Seq(ByteDigits)]
                  /\ g[0] = <<>>
                  /\ \A k \in 0..(n - 1) : g[k + 1] = g[k] \o seqs[k + 1]
                  /\ FlattenSeq(seqs) = g[n]
BY FlattenJoins

LEMMA ThreeBytes ==
    ASSUME NEW x, NEW y, NEW z, x \in Seq(ByteDigits), y \in Seq(ByteDigits), z \in Seq(ByteDigits)
    PROVE  (x \o y) \o z = x \o (y \o z)
BY ConcatAssociative

LEMMA Scaling ==
    ASSUME NEW c \in Nat, c > 0, NEW v \in Nat, NEW k \in Nat
    PROVE  v \div Pow(c, k) = (v \div Pow(c, k + 1)) * c + ((v \div Pow(c, k)) % c)
<1>1. PICK p \in Nat : p = Pow(c, k) /\ p >= 1 /\ Pow(c, k + 1) = c * p
    BY PowRules, PowPositive
<1>2. PICK d, r \in Nat : d = v \div p /\ r < p /\ d * p + r = v
  <2>1. p > 0
        BY <1>1
  <2>2. v \div p \in Nat /\ v % p \in Nat /\ v % p < p /\ (v \div p) * p + (v % p) = v
        BY <2>1, Division
  <2> QED
      BY <2>2, Zenon
<1>3. PICK g, b \in Nat : g * c + b = d /\ b < c /\ b = d % c
  <2>1. d \div c \in Nat /\ d % c \in Nat /\ d % c < c /\ (d \div c) * c + (d % c) = d
        BY Division
  <2> QED
      BY <2>1, Zenon
<1>4. PICK m, x, y \in Nat : m = c * p /\ x = g * m /\ y = b * p /\ y + p <= m
  <2>1. c * p \in Nat /\ g * (c * p) \in Nat /\ b * p \in Nat
        BY Products
  <2>2. (b + 1) * p <= c * p
    <3>1. b + 1 <= c /\ b + 1 \in Int /\ c \in Int
          BY <1>3
    <3> QED
        BY <3>1, ProductsGrow, Zenon
  <2>3. (b + 1) * p = b * p + 1 * p /\ 1 * p = p
        BY Products
  <2>4. b * p + p <= c * p
        BY <2>2, <2>3, Zenon
  <2> QED
      BY <2>1, <2>4, Zenon
<1>5. (g * c + b) * p = x + y
  <2>1. PICK h \in Nat : h = g * c
        BY Products
  <2>2. (h + b) * p = h * p + b * p
        BY Products
  <2>3. (g * c) * p = g * (c * p)
        BY Products
  <2> QED
      BY <2>1, <2>2, <2>3, <1>4, Zenon
<1>6. v = x + y + r
    BY <1>2, <1>3, <1>5, Zenon
<1>7. PICK s \in Nat : s = y + r /\ s < m /\ m > 0 /\ x + s = x + y + r
    BY <1>1, <1>2, <1>4
<1>8. v = g * m + s
    BY <1>4, <1>6, <1>7, Zenon
<1>9. v \div m = g
  <2>1. g \in Int /\ v \in Int
        OBVIOUS
  <2> QED
      BY <2>1, <1>7, <1>8, Quotient, Zenon
<1> QED
    BY <1>1, <1>2, <1>3, <1>4, <1>9, Zenon

(* The bytes of a limb stand for the limb.  *)
LEMMA LimbBytesValue ==
    ASSUME NEW l \in LimbValues
    PROVE  /\ LimbBytesOf(l) \in Seq(ByteDigits) /\ Len(LimbBytesOf(l)) = LimbBytes
           /\ BytesValue(LimbBytesOf(l)) = l
<1>1. PICK b, c \in Nat : b = LimbBytes /\ c = ByteBase /\ c > 0
    BY BaseSizes
<1>2. l \in Nat /\ l < Base
    BY BaseSizes DEF LimbValues
<1>3. PICK x : x = LimbBytesOf(l)
    OBVIOUS
<1> DEFINE q(j) == l \div Pow(c, b - j)
<1>4. ASSUME NEW j \in 0..b PROVE q(j) \in Nat
  <2>1. PICK i \in Nat : i = b - j
        OBVIOUS
  <2>2. PICK p \in Nat : p = Pow(c, i) /\ p > 0
    <3>1. Pow(c, i) \in Nat /\ Pow(c, i) >= 1
          BY <1>1, PowPositive
    <3> QED
        BY <3>1
  <2>3. l \div p \in Nat
        BY <2>2, <1>2, Division
  <2> QED
      BY <2>1, <2>2, <2>3, Zenon
<1>5. x = [j \in 1..b |-> q(j) % c]
    BY <1>1, <1>3, Zenon DEF LimbBytesOf
<1>6. ASSUME NEW j \in 1..b PROVE q(j) % c \in ByteDigits
  <2>1. PICK d \in Nat : d = q(j)
        BY <1>4
  <2>2. d % c \in Nat /\ d % c < c
        BY <1>1, Division
  <2> HIDE DEF q
  <2> QED
      BY <2>1, <2>2, <1>1, ByteDigitFacts, Zenon
<1>7. q(0) = 0
  <2>1. b - 0 = b /\ l \div Base = 0
        BY <1>2, BaseSizes
  <2> QED
      BY <2>1, <1>1, LimbOfBytes, Zenon
<1>8. ASSUME NEW j \in 0..(b - 1) PROVE q(j + 1) = q(j) * c + (q(j + 1) % c)
  <2>1. PICK k \in Nat : k = b - (j + 1) /\ k + 1 = b - j
        OBVIOUS
  <2>2. l \div Pow(c, k) = (l \div Pow(c, k + 1)) * c + ((l \div Pow(c, k)) % c)
        BY <1>1, <1>2, Scaling
  <2> QED
      BY <2>1, <2>2, Zenon
<1>9. q(b) = l
  <2>1. b - b = 0 /\ l \div 1 = l
        BY <1>2
  <2>2. Pow(c, 0) = 1
        BY PowRules, Zenon
  <2> QED
      BY <2>1, <2>2, Zenon
<1> HIDE DEF q
<1>10. x \in Seq(ByteDigits) /\ Len(x) = b /\ \A j \in 1..b : x[j] = q(j) % c
    BY <1>5, <1>6
<1>11. PICK f : IsReading(f, x)
    BY <1>10, ByteSeq, BytesRuns, Zenon
<1> DEFINE S == {j \in 0..b : f[j] = q(j)}
<1>12. 0 \in S
  <2>1. 0 \in 0..b
        OBVIOUS
  <2> QED
      BY <2>1, <1>7, <1>11, Zenon DEF IsReading
<1>13. ASSUME NEW j \in 0..(b - 1), j \in S PROVE j + 1 \in S
  <2>1. j + 1 \in 0..b /\ j + 1 \in 1..b
        OBVIOUS
  <2>2. f[j + 1] = f[j] * c + x[j + 1]
        BY <1>1, <1>10, <1>11, Zenon DEF IsReading
  <2>3. x[j + 1] = q(j + 1) % c /\ f[j] = q(j)
        BY <2>1, <1>10, <1>13, Zenon
  <2>4. f[j + 1] = q(j + 1)
        BY <2>2, <2>3, <1>8, Zenon
  <2> QED
      BY <2>1, <2>4, Zenon
<1> HIDE DEF S
<1>14. \A j \in 0..b : j \in S
    BY <1>12, <1>13, UpTo, Zenon
<1>15. b \in 0..b
    OBVIOUS
<1>16. BytesValue(x) = l
    BY <1>9, <1>10, <1>11, <1>14, <1>15, Zenon DEF S, IsReading
<1> QED
    BY <1>1, <1>3, <1>10, <1>16, Zenon

LEMMA HasFirst ==
    ASSUME NEW n \in Nat, NEW S, S \subseteq 1..n, S # {}
    PROVE  \E k \in S : \A i \in 1..(k - 1) : i \notin S
<1>1. S \subseteq Nat
    OBVIOUS
<1>2. PICK k \in S : \A j \in S : <<j, k>> \notin OpToRel(<, Nat)
    BY <1>1, NatLessThanWellFounded, WFMin, Zenon
<1>3. \A j \in S : ~(j < k)
    BY <1>1, <1>2 DEF OpToRel
<1> QED
    BY <1>1, <1>3

(* Bytes that count: those from the first that is not zero.  *)
Leads(x) == Len(x) > 0 => x[1] # 0

LEMMA TopBytesValue ==
    ASSUME NEW l \in LimbValues, l # 0
    PROVE  /\ TopBytes(l) \in Seq(ByteDigits) /\ Len(TopBytes(l)) > 0 /\ TopBytes(l)[1] # 0
           /\ BytesValue(TopBytes(l)) = l
<1>1. PICK b \in Nat : b = LimbBytes
    BY BaseSizes
<1>2. PICK x : x = LimbBytesOf(l) /\ x \in Seq(ByteDigits) /\ Len(x) = b /\ BytesValue(x) = l
    BY <1>1, LimbBytesValue, Zenon
<1> DEFINE S == {j \in 1..b : x[j] # 0}
<1>3. S # {}
  <2> SUFFICES ASSUME S = {} PROVE FALSE
      OBVIOUS
  <2>1. \A j \in 1..b : x[j] = 0
        OBVIOUS
  <2>2. Zeros(b) \in Seq(ByteDigits) /\ Len(Zeros(b)) = b /\ BytesValue(Zeros(b)) = 0
        BY ZerosBytes, Zenon
  <2>3. \A j \in 1..b : Zeros(b)[j] = 0
        BY DEF Zeros
  <2> HIDE DEF S
  <2>4. x = Zeros(b)
    <3>1. Len(x) = Len(Zeros(b)) /\ \A j \in 1..Len(x) : x[j] = Zeros(b)[j]
          BY <1>2, <2>1, <2>2, <2>3, Zenon
    <3> QED
        BY <1>2, <2>2, <3>1, SeqEqual, Zenon
  <2> QED
      BY <1>2, <2>2, <2>4, Zenon
<1>4. DOMAIN x = 1..b
    BY <1>2
<1> DEFINE First(j) == x[j] # 0 /\ \A i \in 1..(j - 1) : x[i] = 0
<1>5. \E j \in DOMAIN x : First(j)
  <2>1. PICK k \in S : \A i \in 1..(k - 1) : i \notin S
    <3>1. S \subseteq 1..b
          OBVIOUS
    <3> HIDE DEF S
    <3> QED
        BY <3>1, <1>3, HasFirst, Zenon
  <2>2. \A i \in 1..(k - 1) : i \in 1..b
        OBVIOUS
  <2> QED
      BY <1>4, <2>1, <2>2, Zenon
<1>6. PICK j : j = CHOOSE i \in DOMAIN x : First(i)
    OBVIOUS
<1>7. j \in 1..b /\ First(j)
  <2> HIDE DEF First
  <2> QED
      BY <1>4, <1>5, <1>6, Zenon
<1>8. TopBytes(l) = SubSeq(x, j, b)
    BY <1>1, <1>2, <1>6, Zenon DEF TopBytes
<1>9. PICK i \in Nat : i = j - 1 /\ i + 1 = j /\ i < b
    BY <1>7
<1>10. PICK u, v : u = SubSeq(x, 0 + 1, i) /\ v = SubSeq(x, i + 1, b)
    OBVIOUS
<1>11. u \in Seq(ByteDigits) /\ Len(u) = i /\ \A p \in 1..i : u[p] = x[p]
    BY <1>2, <1>9, <1>10
<1>12. v \in Seq(ByteDigits) /\ Len(v) = b - i /\ v[1] = x[j]
    BY <1>2, <1>9, <1>10
<1>13. u \o v = x
  <2>1. i \in Nat /\ 0 <= i /\ 0 \in Nat /\ i <= b /\ b <= Len(x) /\ b \in Nat
        BY <1>2, <1>9
  <2>2. SubSeq(x, 0 + 1, i) \o SubSeq(x, i + 1, b) = SubSeq(x, 0 + 1, b)
        BY <2>1, <1>2, SubSeqParts, SMTT(30)
  <2>3. SubSeq(x, 0 + 1, b) = x
        BY <1>2
  <2> QED
      BY <2>2, <2>3, <1>10, Zenon
<1>14. u = Zeros(i)
  <2>1. Zeros(i) \in Seq(ByteDigits) /\ Len(Zeros(i)) = i
        BY ZerosBytes, Zenon
  <2>2. \A p \in 1..i : Zeros(i)[p] = 0
        BY DEF Zeros
  <2>3. \A p \in 1..i : x[p] = 0
        BY <1>7, <1>9, Zenon
  <2> QED
      BY <1>11, <2>1, <2>2, <2>3, SeqEqual, Zenon
<1>15. BytesValue(v) = l
    BY <1>2, <1>12, <1>13, <1>14, ZerosBefore, Zenon
<1>16. b - i > 0
    BY <1>9
<1> QED
    BY <1>7, <1>8, <1>9, <1>10, <1>12, <1>15, <1>16, Zenon

(* The bytes of a big integer, without zeros on top.  *)
LEMMA BigBytesValue ==
    ASSUME NEW m, IsBig(m)
    PROVE  /\ BigBytes(m) \in Seq(ByteDigits) /\ Leads(BigBytes(m))
           /\ BytesValue(BigBytes(m)) = Value(m)
<1>1. PICK n \in Nat : n = Len(m) /\ n >= 1 /\ (n > 1 => m[n] # 0)
    BY BigFacts
<1>2. m \in Seq(LimbValues) /\ m \in Seq(Nat)
    BY BigFacts, Zenon
<1>3. PICK v : IsValue(v, m)
    BY <1>2, ValueRuns, Zenon
<1>4. ASSUME NEW k \in 1..n PROVE m[k] \in LimbValues /\ m[k] \in Nat
    BY <1>1, <1>2, ElementOfSeq, Zenon
<1>5. PICK top \in Nat : top = m[n] /\ top \in LimbValues /\ v[n] = top
  <2>1. n \in 1..n /\ n + 1 = Len(m) + 1
        BY <1>1
  <2>2. v[n] = v[n + 1] * Base + m[n] /\ v[n + 1] = 0
        BY <2>1, <1>1, <1>3, Zenon DEF IsValue
  <2>3. PICK t \in Nat : t = m[n]
        BY <2>1, <1>4, Zenon
  <2>4. 0 * Base + t = t
        BY BaseSizes
  <2> QED
      BY <2>1, <2>2, <2>3, <2>4, <1>4, Zenon
<1>6. CASE top = 0
  <2>1. BigBytes(m) = <<>>
        BY <1>1, <1>5, <1>6, Zenon DEF BigBytes
  <2>2. <<>> \in Seq(ByteDigits) /\ Len(<<>>) = 0 /\ ~(0 > 0)
        OBVIOUS
  <2>3. Value(m) = 0
    <3>1. n = 1
          BY <1>1, <1>5, <1>6
    <3> QED
        BY <3>1, <1>3, <1>5, <1>6, Zenon DEF IsValue
  <2> QED
      BY <2>1, <2>2, <2>3, EmptyBytes, Zenon DEF Leads
<1>7. CASE top # 0
  <2> DEFINE parts == [k \in 1..(n - 1) |-> LimbBytesOf(m[n - k])]
  <2>1. ASSUME NEW k \in 1..(n - 1)
        PROVE  /\ n - k \in 1..n /\ parts[k] \in Seq(ByteDigits) /\ Len(parts[k]) = LimbBytes
               /\ BytesValue(parts[k]) = m[n - k]
    <3>1. n - k \in 1..n
          OBVIOUS
    <3>2. parts[k] = LimbBytesOf(m[n - k])
          BY Zenon
    <3> HIDE DEF parts
    <3> QED
        BY <3>1, <3>2, <1>4, LimbBytesValue, Zenon
  <2>2. parts \in Seq(Seq(ByteDigits)) /\ Len(parts) = n - 1
    <3>1. parts = [k \in 1..(n - 1) |-> parts[k]] /\ n - 1 \in Nat
          BY <1>1
    <3> HIDE DEF parts
    <3> QED
        BY <3>1, <2>1
  <2>3. PICK g : /\ g \in [0..(n - 1) -> Seq(ByteDigits)]
                 /\ g[0] = <<>>
                 /\ \A k \in 0..((n - 1) - 1) : g[k + 1] = g[k] \o parts[k + 1]
                 /\ FlattenSeq(parts) = g[n - 1]
    <3> HIDE DEF parts
    <3> QED
        BY <2>2, BytesOfParts, Zenon
  <2>4. PICK t : /\ t = TopBytes(top) /\ t \in Seq(ByteDigits) /\ Len(t) > 0 /\ t[1] # 0
                 /\ BytesValue(t) = top
        BY <1>5, <1>7, TopBytesValue, Zenon
  <2>5. BigBytes(m) = t \o g[n - 1]
        BY <1>1, <1>5, <1>7, <2>3, <2>4, Zenon DEF BigBytes
  <2> HIDE DEF parts
  <2>6. \A k \in 0..(n - 1) : g[k] \in Seq(ByteDigits) /\ t \o g[k] \in Seq(ByteDigits)
    <3>1. \A k \in 0..(n - 1) : g[k] \in Seq(ByteDigits)
          BY <2>3, Zenon
    <3>2. ASSUME NEW x, x \in Seq(ByteDigits) PROVE t \o x \in Seq(ByteDigits)
          BY <2>4, <3>2
    <3> QED
        BY <3>1, <3>2, Zenon
  <2> DEFINE S == {k \in 0..(n - 1) : BytesValue(t \o g[k]) = v[n - k]}
  <2>7. 0 \in S
    <3>1. n - 0 = n /\ 0 \in 0..(n - 1) /\ t \o <<>> = t
          BY <1>1, <2>4
    <3> QED
        BY <3>1, <1>5, <2>3, <2>4, Zenon
  <2>8. ASSUME NEW k \in 0..((n - 1) - 1), k \in S PROVE k + 1 \in S
    <3>1. k + 1 \in 0..(n - 1) /\ k \in 0..(n - 1) /\ k + 1 \in 1..(n - 1) /\ (n - (k + 1)) + 1 = n - k
          OBVIOUS
    <3>2. PICK x, y : /\ x = t \o g[k] /\ y = parts[k + 1] /\ x \in Seq(ByteDigits) /\ y \in Seq(ByteDigits)
                      /\ Len(y) = LimbBytes /\ BytesValue(y) = m[n - (k + 1)]
          BY <3>1, <2>1, <2>6, Zenon
    <3>3. t \o g[k + 1] = x \o y
      <4>1. g[k + 1] = g[k] \o y
            BY <2>3, <3>2, Zenon
      <4>2. (t \o g[k]) \o y = t \o (g[k] \o y)
        <5>1. PICK h : h = g[k] /\ h \in Seq(ByteDigits)
              BY <2>3, <3>1, Zenon
        <5>2. t \in Seq(ByteDigits) /\ h \in Seq(ByteDigits) /\ y \in Seq(ByteDigits)
              BY <2>4, <3>2, <5>1, Zenon
        <5>3. (t \o h) \o y = t \o (h \o y)
              BY <5>2, ThreeBytes
        <5> QED
            BY <5>1, <5>3, Zenon
      <4> QED
          BY <4>1, <4>2, <3>2, Zenon
    <3>4. BytesValue(x \o y) = BytesValue(x) * Base + m[n - (k + 1)]
      <4>1. x \in Seq(Nat) /\ y \in Seq(Nat)
            BY <3>2, ByteSeq, Zenon
      <4>2. BytesValue(x \o y) = BytesValue(x) * Pow(ByteBase, Len(y)) + BytesValue(y)
            BY <4>1, BytesJoin, Zenon
      <4> QED
          BY <4>2, <3>2, LimbOfBytes, Zenon
    <3>5. v[n - (k + 1)] = v[n - k] * Base + m[n - (k + 1)]
      <4>1. n - (k + 1) \in 1..n
            BY <3>1, <2>1, Zenon
      <4>2. v[n - (k + 1)] = v[(n - (k + 1)) + 1] * Base + m[n - (k + 1)]
            BY <4>1, <1>1, <1>3, Zenon DEF IsValue
      <4> QED
          BY <4>2, <3>1, Zenon
    <3>6. BytesValue(x) = v[n - k]
          BY <2>8, <3>2, Zenon
    <3>7. BytesValue(t \o g[k + 1]) = v[n - (k + 1)]
          BY <3>3, <3>4, <3>5, <3>6, Zenon
    <3> QED
        BY <3>1, <3>7, Zenon
  <2> HIDE DEF S
  <2>9. n - 1 \in S /\ n - 1 \in 0..(n - 1) /\ n - (n - 1) = 1
    <3>1. n - 1 \in Nat /\ n - 1 \in 0..(n - 1) /\ n - (n - 1) = 1
          BY <1>1
    <3>2. \A k \in 0..(n - 1) : k \in S
          BY <3>1, <2>7, <2>8, UpTo, Zenon
    <3> QED
        BY <3>1, <3>2, Zenon
  <2>10. BytesValue(t \o g[n - 1]) = Value(m)
        BY <2>9, <1>3, Zenon DEF S, IsValue
  <2>11. (t \o g[n - 1])[1] = t[1]
    <3>1. PICK x : x = g[n - 1] /\ x \in Seq(ByteDigits)
          BY <2>6, <2>9, Zenon
    <3>2. (t \o x)[1] = t[1]
          BY <2>4, <3>1
    <3> QED
        BY <3>1, <3>2, Zenon
  <2> QED
      BY <2>4, <2>5, <2>6, <2>9, <2>10, <2>11, Zenon DEF Leads
<1> QED
    BY <1>6, <1>7, Zenon

LEMMA LengthFits ==
    ASSUME NEW x, x \in Seq(ByteDigits), Leads(x), NEW k \in Nat, BytesValue(x) < Pow(ByteBase, k)
    PROVE  Len(x) <= k
<1> SUFFICES ASSUME ~(Len(x) <= k) PROVE FALSE
    OBVIOUS
<1>1. PICK n \in Nat : n = Len(x)
    BY ByteSeq, Zenon
<1>2. n > 0 /\ n - 1 \in Nat /\ k <= n - 1
    BY <1>1
<1>3. x[1] # 0
    BY <1>1, <1>2, Zenon DEF Leads
<1>4. Pow(ByteBase, n - 1) <= BytesValue(x)
    BY <1>1, <1>2, <1>3, BytesLead, Zenon
<1>5. Pow(ByteBase, k) <= Pow(ByteBase, n - 1)
    BY <1>2, BytePowersGrow, Zenon
<1>6. PICK p, q, v \in Nat : p = Pow(ByteBase, k) /\ q = Pow(ByteBase, n - 1) /\ v = BytesValue(x)
    BY <1>2, BytePowers, BytesBound, Zenon
<1>7. q <= v /\ p <= q /\ v < p
    BY <1>4, <1>5, <1>6, Zenon
<1> QED
    BY <1>7

LEMMA PowersSmall ==
    ASSUME NEW b \in Nat, NEW m \in Nat, m > 0, NEW e \in Nat
    PROVE  Powers(b, e, m) \in Nat /\ Powers(b, e, m) <= m
<1>1. CASE e = 0
    BY <1>1, PowersRules
<1>2. CASE e # 0
  <2>1. PICK d \in Nat : e = d + 1
    <3>1. e - 1 \in Nat /\ e = (e - 1) + 1
          BY <1>2
    <3> QED
        BY <3>1
  <2>2. PICK p \in Nat : p = Powers(b, d, m) /\ Powers(b, e, m) = (p * b) % m
    <3>1. Powers(b, d, m) \in Nat /\ Powers(b, d + 1, m) = (Powers(b, d, m) * b) % m
          BY PowersRules, Zenon
    <3> QED
        BY <2>1, <3>1, Zenon
  <2>3. PICK w \in Nat : w = p * b
        BY Products
  <2>4. w % m \in Nat /\ w % m < m
        BY Division
  <2>5. w % m <= m
        BY <2>4
  <2> QED
      BY <2>2, <2>3, <2>4, <2>5, Zenon
<1> QED
    BY <1>1, <1>2, Zenon

(* What PKCS #1 makes of a digest, in k bytes.  *)
TailLength(d) == Len(DigestInfo) + Len(d)
Pads(n) == [j \in 1..n |-> ByteBase - 1]
Encoded(k, d) ==
    <<0, 1>> \o [j \in 1..(k - TailLength(d) - 3) |-> ByteBase - 1] \o <<0>> \o DigestInfo \o d

LEMMA SameBytes ==
    ASSUME NEW x, NEW y, x \in Seq(ByteDigits), y \in Seq(ByteDigits), Len(x) = Len(y),
           \A k \in 1..Len(x) : x[k] = y[k]
    PROVE  x = y
OBVIOUS

LEMMA PadsBytes ==
    ASSUME NEW n \in Nat
    PROVE  Pads(n) \in Seq(ByteDigits) /\ Len(Pads(n)) = n /\ \A j \in 1..n : Pads(n)[j] = ByteBase - 1
<1>1. PICK c : c = ByteBase - 1 /\ c \in ByteDigits
  <2>1. PICK b \in Nat : b = ByteBase /\ b > 0
        BY BaseSizes, ByteDigitFacts DEF ByteDigits
  <2>2. b - 1 \in 0..(b - 1)
        BY <2>1
  <2> QED
      BY <2>1, <2>2, Zenon DEF ByteDigits
<1>2. Pads(n) = [j \in 1..n |-> c]
    BY <1>1, Zenon DEF Pads
<1>3. [j \in 1..n |-> c] \in Seq(ByteDigits) /\ Len([j \in 1..n |-> c]) = n
      /\ \A j \in 1..n : [i \in 1..n |-> c][j] = c
    BY <1>1
<1> QED
    BY <1>1, <1>2, <1>3, Zenon

LEMMA OneIsByte == 0 \in ByteDigits /\ 1 \in ByteDigits
<1>1. PICK b \in Nat : b = ByteBase /\ b >= 2
    BY BaseSizes
<1> QED
    BY <1>1 DEF ByteDigits

Joins(z, x, y) ==
    /\ z \in Seq(ByteDigits) /\ Len(z) = Len(x) + Len(y)
    /\ \A j \in 1..Len(x) : z[j] = x[j]
    /\ \A j \in 1..Len(y) : z[Len(x) + j] = y[j]

LEMMA JoinedBytes ==
    ASSUME NEW x, NEW y, x \in Seq(ByteDigits), y \in Seq(ByteDigits)
    PROVE  Joins(x \o y, x, y)
<1>1. PICK a, b \in Nat : a = Len(x) /\ b = Len(y)
    OBVIOUS
<1>2. PICK z : z = x \o y
    OBVIOUS
<1>3. z \in Seq(ByteDigits) /\ Len(z) = a + b
    BY <1>1, <1>2
<1>4. \A j \in 1..a : z[j] = x[j]
    BY <1>1, <1>2
<1>5. \A j \in 1..b : z[a + j] = y[j]
    BY <1>1, <1>2
<1> QED
    BY <1>1, <1>2, <1>3, <1>4, <1>5, Zenon DEF Joins

ZeroByte == <<0>>
LeadingBytes == <<0, 1>>

LEMMA ShortBytes ==
    /\ ZeroByte \in Seq(ByteDigits) /\ Len(ZeroByte) = 1 /\ ZeroByte[1] = 0
    /\ LeadingBytes \in Seq(ByteDigits) /\ Len(LeadingBytes) = 2
    /\ LeadingBytes[1] = 0 /\ LeadingBytes[2] = 1
BY OneIsByte DEF ZeroByte, LeadingBytes

LEMMA LeadBytes ==
    ASSUME NEW p, p \in Seq(ByteDigits), NEW f \in Nat, Len(p) = f
    PROVE  /\ <<0, 1>> \o p \in Seq(ByteDigits) /\ Len(<<0, 1>> \o p) = f + 2
           /\ (<<0, 1>> \o p)[1] = 0 /\ (<<0, 1>> \o p)[2] = 1
           /\ \A j \in 3..(f + 2) : (<<0, 1>> \o p)[j] = p[j - 2]
<1>1. PICK h : /\ h = LeadingBytes \o p /\ h \in Seq(ByteDigits) /\ Len(h) = 2 + f
               /\ \A j \in 1..2 : h[j] = LeadingBytes[j]
               /\ \A j \in 1..f : h[2 + j] = p[j]
  <2>1. PICK h : h = LeadingBytes \o p /\ Joins(h, LeadingBytes, p)
        BY ShortBytes, JoinedBytes, Zenon
  <2>2. /\ h \in Seq(ByteDigits) /\ Len(h) = 2 + f
        /\ \A j \in 1..2 : h[j] = LeadingBytes[j]
        /\ \A j \in 1..f : h[2 + j] = p[j]
        BY <2>1, ShortBytes DEF Joins
  <2> QED
      BY <2>1, <2>2
<1>2. h[1] = 0 /\ h[2] = 1 /\ Len(h) = f + 2
    BY <1>1, ShortBytes
<1>3. ASSUME NEW j \in 3..(f + 2) PROVE h[j] = p[j - 2]
  <2>1. j - 2 \in 1..f /\ 2 + (j - 2) = j
        OBVIOUS
  <2> QED
      BY <2>1, <1>1, Zenon
<1> QED
    BY <1>1, <1>2, <1>3, Zenon DEF LeadingBytes

LEMMA ZeroAfter ==
    ASSUME NEW h, h \in Seq(ByteDigits), NEW f \in Nat, Len(h) = f + 2, h[1] = 0, h[2] = 1
    PROVE  /\ h \o ZeroByte \in Seq(ByteDigits) /\ Len(h \o ZeroByte) = f + 3
           /\ (h \o ZeroByte)[1] = 0 /\ (h \o ZeroByte)[2] = 1
           /\ \A j \in 3..(f + 2) : (h \o ZeroByte)[j] = h[j]
           /\ (h \o ZeroByte)[f + 3] = 0
<1>1. PICK g : /\ g = h \o ZeroByte /\ g \in Seq(ByteDigits) /\ Len(g) = (f + 2) + 1
               /\ \A j \in 1..(f + 2) : g[j] = h[j]
               /\ \A j \in 1..1 : g[(f + 2) + j] = ZeroByte[j]
  <2>1. PICK g : g = h \o ZeroByte /\ Joins(g, h, ZeroByte)
        BY ShortBytes, JoinedBytes, Zenon
  <2>2. /\ g \in Seq(ByteDigits) /\ Len(g) = (f + 2) + 1
        /\ \A j \in 1..(f + 2) : g[j] = h[j]
        /\ \A j \in 1..1 : g[(f + 2) + j] = ZeroByte[j]
        BY <2>1, ShortBytes DEF Joins
  <2> QED
      BY <2>1, <2>2
<1>2. 1 \in 1..(f + 2) /\ 2 \in 1..(f + 2) /\ 1 \in 1..1 /\ (f + 2) + 1 = f + 3
      /\ \A j \in 3..(f + 2) : j \in 1..(f + 2)
    OBVIOUS
<1> QED
    BY <1>1, <1>2, ShortBytes, Zenon

LEMMA EncodedPlaces ==
    ASSUME NEW k \in Nat, NEW d, d \in Seq(ByteDigits), k >= TailLength(d) + MinPad + 3
    PROVE  /\ TailLength(d) \in Nat /\ DigestInfo \o d \in Seq(ByteDigits)
           /\ Len(DigestInfo \o d) = TailLength(d)
           /\ Encoded(k, d) \in Seq(ByteDigits) /\ Len(Encoded(k, d)) = k
           /\ Encoded(k, d)[1] = 0 /\ Encoded(k, d)[2] = 1
           /\ \A j \in 3..(k - TailLength(d) - 1) : Encoded(k, d)[j] = ByteBase - 1
           /\ Encoded(k, d)[k - TailLength(d)] = 0
           /\ \A j \in 1..TailLength(d) : Encoded(k, d)[(k - TailLength(d)) + j] = (DigestInfo \o d)[j]
<1>1. PICK i : i = DigestInfo /\ i \in Seq(ByteDigits)
    BY DigestInfoAssumption DEF ByteDigits
<1>2. PICK x : x = i \o d /\ x \in Seq(ByteDigits) /\ Len(x) = Len(i) + Len(d)
  <2>1. i \o d \in Seq(ByteDigits) /\ Len(i \o d) = Len(i) + Len(d)
        BY <1>1
  <2> QED
      BY <2>1, Zenon
<1>3. PICK t \in Nat : t = TailLength(d) /\ t = Len(x)
    BY <1>1, <1>2 DEF TailLength
<1>4. MinPad \in Nat
    BY BigIntAssumption
<1>5. PICK f \in Nat : f = k - t - 3 /\ k - t = f + 3 /\ k = (f + 3) + t
  <2>1. k >= t + MinPad + 3
        BY <1>3, Zenon
  <2>2. k - t - 3 \in Nat /\ k - t = (k - t - 3) + 3 /\ k = ((k - t - 3) + 3) + t
        BY <2>1, <1>3, <1>4
  <2> QED
      BY <2>2, Zenon
<1>6. PICK p : /\ p = [j \in 1..f |-> ByteBase - 1] /\ p \in Seq(ByteDigits) /\ Len(p) = f
               /\ \A j \in 1..f : p[j] = ByteBase - 1
    BY PadsBytes, Zenon DEF Pads
<1>7. PICK h : /\ h = <<0, 1>> \o p /\ h \in Seq(ByteDigits) /\ Len(h) = f + 2 /\ h[1] = 0 /\ h[2] = 1
               /\ \A j \in 3..(f + 2) : h[j] = p[j - 2]
  <2>1. /\ <<0, 1>> \o p \in Seq(ByteDigits) /\ Len(<<0, 1>> \o p) = f + 2
        /\ (<<0, 1>> \o p)[1] = 0 /\ (<<0, 1>> \o p)[2] = 1
        /\ \A j \in 3..(f + 2) : (<<0, 1>> \o p)[j] = p[j - 2]
        BY <1>5, <1>6, LeadBytes
  <2> QED
      BY <2>1, Zenon
<1>8. PICK g : /\ g = h \o ZeroByte /\ g \in Seq(ByteDigits) /\ Len(g) = f + 3 /\ g[1] = 0 /\ g[2] = 1
               /\ \A j \in 3..(f + 2) : g[j] = h[j]
               /\ g[f + 3] = 0
    BY <1>5, <1>7, ZeroAfter, Zenon
<1>9. PICK e : /\ e = g \o x /\ e \in Seq(ByteDigits) /\ Len(e) = (f + 3) + t
               /\ \A j \in 1..(f + 3) : e[j] = g[j]
               /\ \A j \in 1..t : e[(f + 3) + j] = x[j]
  <2>1. PICK e : e = g \o x /\ Joins(e, g, x)
        BY <1>2, <1>8, JoinedBytes, Zenon
  <2>2. /\ e \in Seq(ByteDigits) /\ Len(e) = (f + 3) + t
        /\ \A j \in 1..(f + 3) : e[j] = g[j]
        /\ \A j \in 1..t : e[(f + 3) + j] = x[j]
        BY <2>1, <1>3, <1>8 DEF Joins
  <2> QED
      BY <2>1, <2>2
<1>10. (g \o i) \o d = g \o (i \o d)
  <2>1. g \in Seq(ByteDigits) /\ i \in Seq(ByteDigits) /\ d \in Seq(ByteDigits)
        BY <1>1, <1>8, Zenon
  <2> QED
      BY <2>1, ThreeBytes
<1>11. Encoded(k, d) = e
  <2>1. k - TailLength(d) - 3 = f
        BY <1>3, <1>5, Zenon
  <2> QED
      BY <2>1, <1>1, <1>2, <1>6, <1>7, <1>8, <1>9, <1>10, Zenon DEF Encoded, ZeroByte
<1>12. \A j \in 3..(f + 2) : e[j] = ByteBase - 1
  <2> TAKE j \in 3..(f + 2)
  <2>1. j \in 1..(f + 3) /\ j - 2 \in 1..f
        OBVIOUS
  <2> QED
      BY <2>1, <1>6, <1>7, <1>8, <1>9, Zenon
<1>13. 1 \in 1..(f + 3) /\ 2 \in 1..(f + 3) /\ f + 3 \in 1..(f + 3) /\ (k - t) - 1 = f + 2
    BY <1>5
<1>14. e[1] = 0 /\ e[2] = 1 /\ e[f + 3] = 0
    BY <1>8, <1>9, <1>13, Zenon
<1> QED
    BY <1>1, <1>2, <1>3, <1>5, <1>9, <1>11, <1>12, <1>13, <1>14, Zenon

LEMMA SubBytes ==
    ASSUME NEW y, y \in Seq(ByteDigits), NEW q \in Nat, NEW t \in Nat, NEW k, k = q + t, Len(y) = k
    PROVE  /\ SubSeq(y, q + 1, k) \in Seq(ByteDigits) /\ Len(SubSeq(y, q + 1, k)) = t
           /\ \A j \in 1..t : SubSeq(y, q + 1, k)[j] = y[q + j]
OBVIOUS

LEMMA PaddingExact ==
    ASSUME NEW y, NEW d, y \in Seq(ByteDigits), d \in Seq(ByteDigits)
    PROVE  PaddingHolds(y, d) <=> /\ Len(y) >= TailLength(d) + MinPad + 3
                                  /\ y = Encoded(Len(y), d)
<1>1. PICK k \in Nat : k = Len(y)
    OBVIOUS
<1>2. CASE k >= TailLength(d) + MinPad + 3
  <2>0. PICK t, x, e : t = TailLength(d) /\ x = DigestInfo \o d /\ e = Encoded(k, d)
        OBVIOUS
  <2>1. /\ t \in Nat /\ x \in Seq(ByteDigits) /\ Len(x) = t
        /\ e \in Seq(ByteDigits) /\ Len(e) = k
        /\ e[1] = 0 /\ e[2] = 1
        /\ \A j \in 3..(k - t - 1) : e[j] = ByteBase - 1
        /\ e[k - t] = 0
        /\ \A j \in 1..t : e[(k - t) + j] = x[j]
        BY <1>2, <2>0, EncodedPlaces, Zenon
  <2>2. PICK q \in Nat : q = k - t /\ k = q + t /\ q >= 4 /\ (k - t) + 1 = q + 1
    <3>1. MinPad \in Nat /\ MinPad > 0
          BY BigIntAssumption
    <3>2. k >= t + MinPad + 3
          BY <1>2, <2>0, Zenon
    <3>3. k - t \in Nat /\ k = (k - t) + t /\ k - t >= 4
      <4>1. t \in Nat
            BY <2>1, Zenon
      <4> QED
          BY <3>1, <3>2, <4>1
    <3>4. PICK q \in Nat : q = k - t
          BY <3>3, Zenon
    <3>5. k = q + t /\ q >= 4 /\ (k - t) + 1 = q + 1
          BY <3>3, <3>4, Zenon
    <3> QED
        BY <3>4, <3>5, Zenon
  <2>3. PaddingHolds(y, d) <=> /\ y[1] = 0 /\ y[2] = 1
                               /\ \A j \in 3..(q - 1) : y[j] = ByteBase - 1
                               /\ y[q] = 0
                               /\ SubSeq(y, q + 1, k) = x
        BY <1>1, <1>2, <2>0, <2>1, <2>2, Zenon DEF PaddingHolds, TailLength
  <2>4. PICK z : /\ z = SubSeq(y, q + 1, k) /\ z \in Seq(ByteDigits) /\ Len(z) = t
                 /\ \A j \in 1..t : z[j] = y[q + j]
    <3>0. q \in Nat /\ t \in Nat /\ k = q + t /\ Len(y) = k
          BY <1>1, <2>1, <2>2, Zenon
    <3>1. /\ SubSeq(y, q + 1, k) \in Seq(ByteDigits) /\ Len(SubSeq(y, q + 1, k)) = t
          /\ \A j \in 1..t : SubSeq(y, q + 1, k)[j] = y[q + j]
          BY <3>0, SubBytes
    <3> QED
        BY <3>1, Zenon
  <2>5. ASSUME PaddingHolds(y, d) PROVE y = e
    <3>1. ASSUME NEW j \in 1..k PROVE y[j] = e[j]
      <4>1. CASE j \in {1, 2, q}
            BY <4>1, <2>1, <2>2, <2>3, <2>5, Zenon
      <4>2. CASE j \in 3..(q - 1)
            BY <4>2, <2>1, <2>2, <2>3, <2>5, Zenon
      <4>3. CASE j > q
        <5>1. PICK i \in 1..t : j = q + i
          <6>1. j - q \in 1..t /\ j = q + (j - q)
                BY <4>3, <2>1, <2>2
          <6> QED
              BY <6>1, Zenon
        <5>2. z = x
              BY <2>3, <2>4, <2>5, Zenon
        <5>3. z[i] = y[q + i] /\ e[q + i] = x[i]
              BY <2>1, <2>2, <2>4, Zenon
        <5> QED
            BY <5>1, <5>2, <5>3, Zenon
      <4> QED
          BY <4>1, <4>2, <4>3, <2>2
    <3> QED
        BY <3>1, <1>1, <2>1, SameBytes, Zenon
  <2>6. ASSUME y = e PROVE PaddingHolds(y, d)
    <3>1. ASSUME NEW j \in 1..t PROVE z[j] = x[j]
      <4>1. z[j] = y[q + j] /\ e[q + j] = x[j]
            BY <2>1, <2>2, <2>4, Zenon
      <4> QED
          BY <4>1, <2>6, Zenon
    <3>2. z = x
          BY <3>1, <2>1, <2>4, SameBytes, Zenon
    <3> QED
        BY <3>2, <2>1, <2>2, <2>3, <2>4, <2>6, Zenon
  <2> QED
      BY <1>1, <1>2, <2>0, <2>5, <2>6, Zenon
<1>3. CASE ~(k >= TailLength(d) + MinPad + 3)
    BY <1>1, <1>3, Zenon DEF PaddingHolds, TailLength
<1> QED
    BY <1>2, <1>3, Zenon

(* A signature that is not below the modulus is refused; the power of one  *)
(* that is has a text as long as the modulus.                              *)
LEMMA RsaText ==
    ASSUME NEW nn, NEW ee, NEW ss, NEW d, nn \in Seq(ByteDigits), ee \in Seq(ByteDigits), ss \in Seq(ByteDigits)
    PROVE  /\ BytesValue(nn) \in Nat /\ BytesValue(ss) \in Nat /\ Len(nn) \in Nat
           /\ RsaVerify(nn, ee, ss, d) => BytesValue(ss) < BytesValue(nn)
           /\ BytesValue(ss) < BytesValue(nn) =>
                \E y : /\ y \in Seq(ByteDigits) /\ Len(y) = Len(nn)
                       /\ BytesValue(y) = Powers(BytesValue(ss), BytesValue(ee), BytesValue(nn))
                       /\ RsaVerify(nn, ee, ss, d) <=> PaddingHolds(y, d)
<1>1. PICK N, E, S : /\ N = BigFromBytes(nn) /\ IsBig(N) /\ Value(N) = BytesValue(nn)
                     /\ E = BigFromBytes(ee) /\ IsBig(E) /\ Value(E) = BytesValue(ee)
                     /\ S = BigFromBytes(ss) /\ IsBig(S) /\ Value(S) = BytesValue(ss)
    BY FromBytesValue, Zenon
<1>2. PICK n, e, s, k \in Nat : /\ n = BytesValue(nn) /\ e = BytesValue(ee) /\ s = BytesValue(ss) /\ k = Len(nn)
                                /\ n < Pow(ByteBase, k)
    BY BytesBound, ByteSeq, Zenon
<1>3. BigCmp(S, N) < 0 <=> s < n
  <2>1. BigCmp(S, N) \in {-1, 0, 1} /\ (BigCmp(S, N) = -1 <=> s < n)
        BY <1>1, <1>2, CmpValue, Zenon
  <2> QED
      BY <2>1
<1>4. RsaVerify(nn, ee, ss, d) => s < n
    BY <1>1, <1>3, Zenon DEF RsaVerify
<1>5. ASSUME s < n
      PROVE  \E y : /\ y \in Seq(ByteDigits) /\ Len(y) = Len(nn)
                    /\ BytesValue(y) = Powers(s, e, n)
                    /\ RsaVerify(nn, ee, ss, d) <=> PaddingHolds(y, d)
  <2>1. n # 0 /\ n > 0
        BY <1>5
  <2>2. PICK P : /\ P = BigModPow(S, E, N) /\ IsBig(P) /\ Value(P) = Powers(s, e, n)
    <3>1. Value(N) # 0 /\ Value(N) = n /\ Value(E) = e /\ Value(S) = s
          BY <2>1, <1>1, <1>2, Zenon
    <3>2. /\ IsBig(BigModPow(S, E, N))
          /\ Value(BigModPow(S, E, N)) = Powers(Value(S), Value(E), Value(N))
          BY <3>1, <1>1, ModPowValue, Zenon
    <3> QED
        BY <3>1, <3>2, Zenon
  <2>3. PICK w \in Nat : w = Powers(s, e, n) /\ w <= n
        BY <2>1, PowersSmall, Zenon
  <2>4. PICK q \in Nat : q = Pow(ByteBase, k)
        BY BytePowers, Zenon
  <2>5. w < q
        BY <2>3, <2>4, <1>2
  <2>6. PICK m : /\ m = BigBytes(P) /\ m \in Seq(ByteDigits) /\ Leads(m) /\ BytesValue(m) = w
        BY <2>2, <2>3, BigBytesValue, Zenon
  <2>7. PICK l \in Nat : l = Len(m) /\ l <= k
        BY <2>4, <2>5, <2>6, LengthFits, ByteSeq, Zenon
  <2>8. k - l \in Nat /\ (k - l) + l = k
        BY <2>7
  <2>9. PICK y : /\ y = Zeros(k - l) \o m /\ y \in Seq(ByteDigits) /\ Len(y) = k /\ BytesValue(y) = w
    <3>1. /\ Zeros(k - l) \o m \in Seq(ByteDigits)
          /\ Len(Zeros(k - l) \o m) = (k - l) + Len(m)
          /\ BytesValue(Zeros(k - l) \o m) = BytesValue(m)
          BY <2>6, <2>8, ZerosBefore
    <3> QED
        BY <3>1, <2>6, <2>7, <2>8, Zenon
  <2>10. RsaVerify(nn, ee, ss, d) <=> PaddingHolds(y, d)
        BY <1>1, <1>2, <1>3, <1>5, <2>2, <2>6, <2>7, <2>9, Zenon DEF RsaVerify
  <2> QED
      BY <2>3, <2>9, <2>10, <1>2, Zenon
<1> QED
    BY <1>2, <1>4, <1>5, Zenon

LEMMA RsaExact ==
    ASSUME NEW nn, NEW ee, NEW ss, NEW d,
           nn \in Seq(ByteDigits), ee \in Seq(ByteDigits), ss \in Seq(ByteDigits), d \in Seq(ByteDigits)
    PROVE  RsaVerify(nn, ee, ss, d) <=>
             /\ Len(nn) >= TailLength(d) + MinPad + 3
             /\ BytesValue(ss) < BytesValue(nn)
             /\ Powers(BytesValue(ss) % BytesValue(nn), BytesValue(ee), BytesValue(nn))
                  = BytesValue(Encoded(Len(nn), d))
<1>1. CASE ~(BytesValue(ss) < BytesValue(nn))
    BY <1>1, RsaText, Zenon
<1>2. CASE BytesValue(ss) < BytesValue(nn)
  <2>1. PICK y : /\ y \in Seq(ByteDigits) /\ Len(y) = Len(nn)
                 /\ BytesValue(y) = Powers(BytesValue(ss), BytesValue(ee), BytesValue(nn))
                 /\ RsaVerify(nn, ee, ss, d) <=> PaddingHolds(y, d)
        BY <1>2, RsaText, Zenon
  <2>2. BytesValue(ss) % BytesValue(nn) = BytesValue(ss)
    <3>1. PICK n, s \in Nat : n = BytesValue(nn) /\ s = BytesValue(ss)
          BY RsaText, Zenon
    <3>2. s < n => s % n = s
          BY <3>1
    <3> QED
        BY <1>2, <3>1, <3>2, Zenon
  <2>3. PaddingHolds(y, d) <=> /\ Len(nn) >= TailLength(d) + MinPad + 3
                               /\ y = Encoded(Len(nn), d)
        BY <2>1, PaddingExact, Zenon
  <2>4. ASSUME Len(nn) >= TailLength(d) + MinPad + 3
        PROVE  y = Encoded(Len(nn), d) <=> BytesValue(y) = BytesValue(Encoded(Len(nn), d))
    <3>1. Len(nn) \in Nat
          BY RsaText, Zenon
    <3>2. PICK x : x = Encoded(Len(nn), d) /\ x \in Seq(ByteDigits) /\ Len(x) = Len(nn)
          BY <2>4, <3>1, EncodedPlaces, Zenon
    <3> QED
        BY <3>2, <2>1, BytesUnique, Zenon
  <2> QED
      BY <1>2, <2>1, <2>2, <2>3, <2>4, Zenon
<1> QED
    BY <1>1, <1>2, Zenon

(* A signature is accepted if and only if it is below the modulus and a    *)
(* root of the one encoding PKCS #1 gives the digest, whatever the sizes   *)
(* of the modulus, the limbs and the digest (rsa_verify.cpp:184-244).      *)
THEOREM SignaturesAreExact == Spec => []SignatureExact
<1>1. Computed => SignatureExact
  <2> SUFFICES ASSUME Computed, done, job.kind = "rsa" PROVE SignatureExact
      BY DEF SignatureExact, Answered
  <2>1. /\ job.n \in Seq(ByteDigits) /\ job.e \in Seq(ByteDigits) /\ job.s \in Seq(ByteDigits)
        /\ job.digest \in Seq(ByteDigits)
        BY DEF Computed, JobsAssumed, ByteDigits
  <2>2. out = RsaVerify(job.n, job.e, job.s, job.digest)
        BY DEF Computed, Result
  <2>3. out <=> /\ Len(job.n) >= TailLength(job.digest) + MinPad + 3
                /\ BytesValue(job.s) < BytesValue(job.n)
                /\ Powers(BytesValue(job.s) % BytesValue(job.n), BytesValue(job.e), BytesValue(job.n))
                     = BytesValue(Encoded(Len(job.n), job.digest))
        BY <2>1, <2>2, RsaExact, Zenon
  <2> QED
      BY <2>3, Zenon DEF SignatureExact, Answered, Encoded, TailLength
<1> QED
    BY <1>1, ComputedHolds, PTL
=============================================================================
