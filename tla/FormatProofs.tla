---------------------------- MODULE FormatProofs ----------------------------
(***************************************************************************)
(* What the program writes it reads back, and refuses when it is cut       *)
(* short: a public key in a PEM, and a JSON value of any depth.  The keys  *)
(* use what is proved of base64 and of numbers, the values the induction   *)
(* on loops.                                                               *)
(***************************************************************************)
EXTENDS AlgorithmsProofs

----------------------------------------------------------------------------
(* A public key in a PEM.  First the PEM: what is left of it after the     *)
(* first k characters.                                                     *)
IsStrip(r, pem) ==
    /\ \A k \in 0..Len(pem) : r[k] \in Seq(Bytes256)
    /\ r[0] = <<>>
    /\ \A k \in 0..(Len(pem) - 1) : r[k + 1] = r[k] \o Kept(pem, k + 1)

LEMMA KeptBytes ==
    ASSUME NEW pem, pem \in Seq(Bytes256), NEW k \in 1..Len(pem)
    PROVE  Kept(pem, k) \in Seq(Bytes256)
<1>1. pem[k] \in Bytes256
    OBVIOUS
<1>2. <<>> \in Seq(Bytes256) /\ <<pem[k]>> \in Seq(Bytes256)
    BY <1>1
<1> QED
    BY <1>2, Zenon DEF Kept

(* The end of a stretch.  *)
LEMMA StretchEnds ==
    ASSUME NEW pem, pem \in Seq(Bytes256)
    PROVE  /\ Len(pem) \in Nat /\ Stretches(pem) \in Nat
           /\ \A j \in 1..Stretches(pem) :
                 /\ Stretch(pem, j) \in Seq(Bytes256) /\ Len(Stretch(pem, j)) \in Nat
                 /\ 64 * (j - 1) \in 0..Len(pem)
                 /\ 64 * (j - 1) + Len(Stretch(pem, j)) \in 0..Len(pem)
                 /\ \A i \in 1..Len(Stretch(pem, j)) : 64 * (j - 1) + i \in 1..Len(pem)
                 /\ 64 * (j - 1) + Len(Stretch(pem, j)) = IF j < Stretches(pem) THEN 64 * j ELSE Len(pem)
           /\ Stretches(pem) = 0 => Len(pem) = 0
<1>1. PICK l \in Nat : l = Len(pem)
    OBVIOUS
<1>2. PICK m \in Nat : m = Stretches(pem) /\ m = (l + 63) \div 64
    BY <1>1 DEF Stretches
<1>3. ASSUME NEW j \in 1..m
      PROVE  /\ Stretch(pem, j) \in Seq(Bytes256) /\ Len(Stretch(pem, j)) \in Nat
             /\ 64 * (j - 1) \in 0..l
             /\ 64 * (j - 1) + Len(Stretch(pem, j)) \in 0..l
             /\ \A i \in 1..Len(Stretch(pem, j)) : 64 * (j - 1) + i \in 1..l
             /\ 64 * (j - 1) + Len(Stretch(pem, j)) = IF j < m THEN 64 * j ELSE l
  <2>1. IsStretch(Stretch(pem, j), pem, j)
        BY <1>2, StretchPlaces, Zenon
  <2>2. PICK t : t = Stretch(pem, j) /\ t \in Seq(Bytes256)
                 /\ Len(t) = (IF 64 * j < l THEN 64 ELSE l - 64 * (j - 1)) /\ Len(t) \in 1..64
                 /\ \A i \in 1..Len(t) : 64 * (j - 1) + i \in 1..l
        BY <2>1, <1>1 DEF IsStretch
  <2>3. PICK q \in 1..64 : q = Len(t)
        BY <2>2
  <2>4. 64 * (j - 1) + q \in 1..l
        BY <2>2, <2>3
  <2>5. j < m => 64 * j < l
        BY <1>2
  <2>6. j = m => ~(64 * j < l)
        BY <1>2
  <2>7. 64 * (j - 1) + q = IF j < m THEN 64 * j ELSE l
        BY <2>2, <2>3, <2>5, <2>6
  <2>8. 64 * (j - 1) \in 0..l /\ 64 * (j - 1) + q \in 0..l
        BY <2>4
  <2>9. Len(Stretch(pem, j)) = q /\ q \in Nat
        BY <2>2, <2>3
  <2> QED
      BY <2>2, <2>3, <2>7, <2>8, <2>9, Zenon
<1>4. m = 0 => l = 0
    BY <1>2
<1> QED
    BY <1>1, <1>2, <1>3, <1>4, Zenon

LEMMA JoinedThree ==
    ASSUME NEW x, NEW y, NEW z, x \in Seq(Bytes256), y \in Seq(Bytes256), z \in Seq(Bytes256)
    PROVE  (x \o y) \o z = x \o (y \o z)
BY ConcatAssociative

LEMMA PartsJoin ==
    ASSUME NEW seqs, seqs \in Seq(Seq(Bytes256)), NEW n, n = Len(seqs)
    PROVE  \E g : /\ \A k \in 0..n : g[k] \in Seq(Bytes256)
                  /\ g[0] = <<>>
                  /\ \A k \in 0..(n - 1) : g[k + 1] = g[k] \o seqs[k + 1]
                  /\ FlattenSeq(seqs) = g[n]
BY FlattenJoins

LEMMA PartsOf ==
    ASSUME NEW n \in Nat, NEW f, f = [k \in 1..n |-> f[k]], \A k \in 1..n : f[k] \in Seq(Bytes256)
    PROVE  f \in Seq(Seq(Bytes256)) /\ Len(f) = n
OBVIOUS

LEMMA StripRuns ==
    ASSUME NEW pem, pem \in Seq(Bytes256)
    PROVE  \E r : IsStrip(r, pem) /\ StripPem(pem) = r[Len(pem)]
<1> DEFINE n == Len(pem)
           m == Stretches(pem)
           l(j) == Len(Stretch(pem, j))
           all == [k \in 1..n |-> Kept(pem, k)]
           part(j) == [i \in 1..l(j) |-> Kept(pem, 64 * (j - 1) + i)]
           outer == [j \in 1..m |-> FlattenSeq(part(j))]
<1>1. /\ n \in Nat /\ m \in Nat
      /\ \A j \in 1..m : /\ l(j) \in Nat /\ 64 * (j - 1) \in 0..n /\ 64 * (j - 1) + l(j) \in 0..n
                         /\ \A i \in 1..l(j) : 64 * (j - 1) + i \in 1..n
                         /\ 64 * (j - 1) + l(j) = IF j < m THEN 64 * j ELSE n
      /\ m = 0 => n = 0
    BY StretchEnds, Zenon
<1>2. \A k \in 1..n : all[k] = Kept(pem, k) /\ all[k] \in Seq(Bytes256)
    BY KeptBytes, Zenon
<1>3. all \in Seq(Seq(Bytes256)) /\ Len(all) = n
  <2>1. all = [k \in 1..n |-> all[k]]
        BY Zenon
  <2> HIDE DEF all, n
  <2> QED
      BY <1>1, <1>2, <2>1, PartsOf
<1>4. PICK r : /\ \A k \in 0..n : r[k] \in Seq(Bytes256)
               /\ r[0] = <<>>
               /\ \A k \in 0..(n - 1) : r[k + 1] = r[k] \o all[k + 1]
               /\ FlattenSeq(all) = r[n]
  <2> HIDE DEF all, n
  <2>1. n = Len(all)
        BY <1>3
  <2> QED
      BY <1>3, <2>1, PartsJoin, Zenon
<1>5. IsStrip(r, pem)
  <2>1. ASSUME NEW k \in 0..(n - 1) PROVE r[k + 1] = r[k] \o Kept(pem, k + 1)
    <3>1. k + 1 \in 1..n
          BY <1>1
    <3> HIDE DEF all, n
    <3> QED
        BY <3>1, <1>2, <1>4, Zenon
  <2> QED
      BY <1>4, <2>1, Zenon DEF IsStrip
<1>6. ASSUME NEW j \in 1..m
      PROVE  /\ FlattenSeq(part(j)) \in Seq(Bytes256)
             /\ r[64 * (j - 1) + l(j)] = r[64 * (j - 1)] \o FlattenSeq(part(j))
  <2>1. PICK p, a, b : /\ a = 64 * (j - 1) /\ b = l(j) /\ a \in 0..n /\ a + b \in 0..n /\ a \in Nat /\ b \in Nat
                       /\ \A i \in 1..b : a + i \in 1..n
                       /\ p = [i \in 1..b |-> Kept(pem, a + i)] /\ p = part(j)
    <3>1. 64 * (j - 1) \in Nat
          BY <1>1
    <3> QED
        BY <1>1, <3>1, Zenon
  <2>2. \A i \in 1..b : p[i] = Kept(pem, a + i) /\ p[i] \in Seq(Bytes256)
        BY <2>1, KeptBytes, Zenon
  <2>3. p \in Seq(Seq(Bytes256)) /\ Len(p) = b
    <3>1. p = [i \in 1..b |-> p[i]]
          BY <2>1, Zenon
    <3>2. b \in Nat
          BY <2>1, Zenon
    <3>3. \A k \in 1..b : p[k] \in Seq(Bytes256)
          BY <2>2, Zenon
    <3> QED
        BY <3>1, <3>2, <3>3, PartsOf, Zenon
  <2>4. PICK h : /\ \A i \in 0..b : h[i] \in Seq(Bytes256)
                 /\ h[0] = <<>>
                 /\ \A i \in 0..(b - 1) : h[i + 1] = h[i] \o p[i + 1]
                 /\ FlattenSeq(p) = h[b]
        BY <2>3, PartsJoin, Zenon
  <2> DEFINE S == {i \in 0..b : r[a + i] = r[a] \o h[i]}
  <2> HIDE DEF part, all, outer, n, m, l
  <2>5. r[a] \in Seq(Bytes256)
        BY <2>1, <1>4, Zenon
  <2>6. 0 \in S
    <3>1. 0 \in 0..b /\ a + 0 = a /\ r[a] \o <<>> = r[a]
          BY <2>1, <2>5
    <3> QED
        BY <3>1, <2>4, Zenon
  <2>7. ASSUME NEW i \in 0..(b - 1), i \in S PROVE i + 1 \in S
    <3>1. /\ i \in 0..b /\ i + 1 \in 0..b /\ i + 1 \in 1..b /\ (a + i) + 1 = a + (i + 1)
          /\ a + i \in 0..(n - 1)
          BY <2>1, <1>1
    <3>2. PICK x, y, z : /\ x = r[a] /\ y = h[i] /\ z = Kept(pem, a + (i + 1))
                         /\ x \in Seq(Bytes256) /\ y \in Seq(Bytes256) /\ z \in Seq(Bytes256)
                         /\ p[i + 1] = z
          BY <3>1, <2>2, <2>4, <2>5, Zenon
    <3>3. h[i + 1] = y \o z
          BY <3>2, <2>4, Zenon
    <3>4. r[(a + i) + 1] = r[a + i] \o Kept(pem, (a + i) + 1)
          BY <3>1, <1>5, Zenon DEF IsStrip, n
    <3>5. r[a + i] = x \o y
          BY <2>7, <3>2, Zenon DEF S
    <3>6. r[a + (i + 1)] = (x \o y) \o z
          BY <3>1, <3>2, <3>4, <3>5, Zenon
    <3>7. (x \o y) \o z = x \o (y \o z)
      <4>1. x \in Seq(Bytes256) /\ y \in Seq(Bytes256) /\ z \in Seq(Bytes256)
            BY <3>2, Zenon
      <4> QED
          BY <4>1, JoinedThree
    <3>8. r[a + (i + 1)] = x \o h[i + 1]
          BY <3>3, <3>6, <3>7
    <3> QED
        BY <3>1, <3>2, <3>8, Zenon
  <2>8. r[a + b] = r[a] \o h[b]
    <3> HIDE DEF S
    <3>1. \A i \in 0..b : i \in S
          BY <2>1, <2>6, <2>7, UpTo, Zenon
    <3>2. b \in S
          BY <2>1, <3>1
    <3> QED
        BY <3>2 DEF S
  <2>9. h[b] \in Seq(Bytes256)
        BY <2>1, <2>4
  <2> QED
      BY <2>1, <2>4, <2>8, <2>9, Zenon
<1>7. \A j \in 1..m : outer[j] = FlattenSeq(part(j)) /\ outer[j] \in Seq(Bytes256)
  <2> HIDE DEF part, m
  <2> QED
      BY <1>6, Zenon
<1>8. outer \in Seq(Seq(Bytes256)) /\ Len(outer) = m
  <2>1. outer = [j \in 1..m |-> outer[j]]
        BY Zenon
  <2> HIDE DEF outer, m, part
  <2> QED
      BY <1>1, <1>7, <2>1, PartsOf
<1>9. StripPem(pem) = FlattenSeq(outer)
    BY Zenon DEF StripPem
<1>10. PICK g : /\ g[0] = <<>>
                /\ \A j \in 0..(m - 1) : g[j + 1] = g[j] \o outer[j + 1]
                /\ FlattenSeq(outer) = g[m]
  <2> HIDE DEF outer, m
  <2> QED
      BY <1>8, PartsJoin, Zenon
<1> DEFINE end(j) == IF j < m THEN 64 * j ELSE n
           T == {j \in 0..m : g[j] = r[end(j)]}
<1> HIDE DEF part, all, outer, n, m, l
<1>11. 0 \in T
  <2>1. 0 \in 0..m /\ end(0) = 0
        BY <1>1
  <2> QED
      BY <2>1, <1>4, <1>10, Zenon
<1>12. ASSUME NEW j \in 0..(m - 1), j \in T PROVE j + 1 \in T
  <2>1. j + 1 \in 1..m /\ j + 1 \in 0..m /\ 64 * ((j + 1) - 1) = end(j)
        BY <1>1
  <2>2. 64 * ((j + 1) - 1) + l(j + 1) = end(j + 1)
        BY <2>1, <1>1, Zenon
  <2>3. r[64 * ((j + 1) - 1) + l(j + 1)] = r[64 * ((j + 1) - 1)] \o FlattenSeq(part(j + 1))
        BY <2>1, <1>6, Zenon
  <2>4. r[end(j + 1)] = r[end(j)] \o outer[j + 1]
        BY <2>1, <2>2, <2>3, <1>7, Zenon
  <2> HIDE DEF end
  <2> QED
      BY <2>1, <2>4, <1>10, <1>12, Zenon
<1>13. g[m] = r[n]
  <2>1. m \in 0..m /\ end(m) = n
        BY <1>1
  <2> HIDE DEF T, end
  <2>2. \A j \in 0..m : j \in T
        BY <1>1, <1>11, <1>12, UpTo, Zenon
  <2> QED
      BY <2>1, <2>2, Zenon DEF T
<1> QED
    BY <1>5, <1>9, <1>10, <1>13, Zenon DEF n

Skipped(pem, k) == \E d \in 1..k : pem[d] = Dash /\ \A m \in d..k : pem[m] # LF
PlainChars == Bytes256 \ {Dash, LF, CR, TAB, Space}

(* Between lines, with w kept so far; and on a line of dashes.  *)
AtText(pem, r, k, w) == ~Skipped(pem, k) /\ r[k] = w
AtDashes(pem, r, k, w) == Skipped(pem, k) /\ r[k] = w

LEMMA SkipSteps ==
    ASSUME NEW pem, NEW k \in Nat
    PROVE  /\ ~Skipped(pem, 0)
           /\ Skipped(pem, k + 1) <=> (Skipped(pem, k) \/ pem[k + 1] = Dash) /\ pem[k + 1] # LF
<1>1. ~Skipped(pem, 0)
    BY DEF Skipped
<1>2. ASSUME Skipped(pem, k + 1) PROVE (Skipped(pem, k) \/ pem[k + 1] = Dash) /\ pem[k + 1] # LF
  <2>1. PICK d \in 1..(k + 1) : pem[d] = Dash /\ \A m \in d..(k + 1) : pem[m] # LF
        BY <1>2 DEF Skipped
  <2>2. pem[k + 1] # LF
        BY <2>1
  <2>3. CASE d = k + 1
        BY <2>1, <2>2, <2>3
  <2>4. CASE d # k + 1
    <3>1. d \in 1..k /\ \A m \in d..k : m \in d..(k + 1)
          BY <2>4
    <3> QED
        BY <3>1, <2>1, <2>2, Zenon DEF Skipped
  <2> QED
      BY <2>3, <2>4
<1>3. ASSUME Skipped(pem, k), pem[k + 1] # LF PROVE Skipped(pem, k + 1)
  <2>1. PICK d \in 1..k : pem[d] = Dash /\ \A m \in d..k : pem[m] # LF
        BY <1>3, Zenon DEF Skipped
  <2>2. d \in 1..(k + 1) /\ \A m \in d..(k + 1) : m \in d..k \/ m = k + 1
        OBVIOUS
  <2> QED
      BY <2>1, <2>2, <1>3, Zenon DEF Skipped
<1>4. ASSUME pem[k + 1] = Dash, pem[k + 1] # LF PROVE Skipped(pem, k + 1)
  <2>1. k + 1 \in 1..(k + 1) /\ \A m \in (k + 1)..(k + 1) : m = k + 1
        OBVIOUS
  <2> QED
      BY <2>1, <1>4, Zenon DEF Skipped
<1> QED
    BY <1>1, <1>2, <1>3, <1>4, Zenon

LEMMA KeptSteps ==
    ASSUME NEW pem, NEW k
    PROVE  Kept(pem, k) = IF Skipped(pem, k) \/ pem[k] \in {LF, CR, TAB, Space} THEN <<>> ELSE <<pem[k]>>
BY Zenon DEF Kept, Skipped

LEMMA CharsApart == Dash # LF /\ CR # LF /\ CR # Dash /\ LF # Dash
BY DEF Dash, LF, CR

LEMMA NothingKept ==
    ASSUME NEW w, w \in Seq(Bytes256)
    PROVE  w \o <<>> = w
OBVIOUS

(* One character of each kind.  *)
LEMMA StripSteps ==
    ASSUME NEW pem, NEW r, IsStrip(r, pem), NEW k \in 0..(Len(pem) - 1), NEW w, w \in Seq(Bytes256),
           pem \in Seq(Bytes256)
    PROVE  /\ (AtText(pem, r, k, w) /\ pem[k + 1] = Dash) => AtDashes(pem, r, k + 1, w)
           /\ (AtDashes(pem, r, k, w) /\ pem[k + 1] # LF) => AtDashes(pem, r, k + 1, w)
           /\ (AtDashes(pem, r, k, w) /\ pem[k + 1] = LF) => AtText(pem, r, k + 1, w)
           /\ (AtText(pem, r, k, w) /\ pem[k + 1] \in {CR, LF}) => AtText(pem, r, k + 1, w)
           /\ (AtText(pem, r, k, w) /\ pem[k + 1] \in PlainChars) => AtText(pem, r, k + 1, w \o <<pem[k + 1]>>)
<1>1. k \in Nat
    OBVIOUS
<1>2. PICK c : c = pem[k + 1] /\ (Skipped(pem, k + 1) <=> (Skipped(pem, k) \/ c = Dash) /\ c # LF)
    BY <1>1, SkipSteps, Zenon
<1>3. r[k + 1] = r[k] \o (IF Skipped(pem, k + 1) \/ c \in {LF, CR, TAB, Space} THEN <<>> ELSE <<c>>)
  <2>1. r[k + 1] = r[k] \o Kept(pem, k + 1)
        BY Zenon DEF IsStrip
  <2> QED
      BY <2>1, <1>2, KeptSteps, Zenon
<1>4. w \o <<>> = w
    BY NothingKept
<1>5. ASSUME r[k] = w, Skipped(pem, k + 1) \/ c \in {LF, CR, TAB, Space} PROVE r[k + 1] = w
    BY <1>3, <1>4, <1>5, Zenon
<1>6. ASSUME r[k] = w, ~Skipped(pem, k + 1), c \notin {LF, CR, TAB, Space} PROVE r[k + 1] = w \o <<c>>
    BY <1>3, <1>6, Zenon
<1>7. (AtText(pem, r, k, w) /\ c = Dash) => AtDashes(pem, r, k + 1, w)
    BY <1>2, <1>5, CharsApart, Zenon DEF AtText, AtDashes
<1>8. (AtDashes(pem, r, k, w) /\ c # LF) => AtDashes(pem, r, k + 1, w)
    BY <1>2, <1>5, Zenon DEF AtText, AtDashes
<1>9. (AtDashes(pem, r, k, w) /\ c = LF) => AtText(pem, r, k + 1, w)
    BY <1>2, <1>5, Zenon DEF AtText, AtDashes
<1>10. (AtText(pem, r, k, w) /\ c \in {CR, LF}) => AtText(pem, r, k + 1, w)
    BY <1>2, <1>5, CharsApart, Zenon DEF AtText, AtDashes
<1>11. (AtText(pem, r, k, w) /\ c \in PlainChars) => AtText(pem, r, k + 1, w \o <<c>>)
  <2>1. c \in PlainChars => c \notin {LF, CR, TAB, Space} /\ c # Dash
        BY DEF PlainChars
  <2> QED
      BY <1>2, <1>6, <2>1, Zenon DEF AtText, AtDashes
<1> QED
    BY <1>2, <1>7, <1>8, <1>9, <1>10, <1>11, Zenon

(* x lies in text after its first a bytes.  *)
LiesAfter(x, text, a) ==
    /\ a + Len(x) <= Len(text)
    /\ \A i \in 1..Len(x) : text[a + i] = x[i]

LEMMA LiesParts ==
    ASSUME NEW x, NEW y, NEW text, NEW a \in Nat,
           x \in Seq(Bytes256), y \in Seq(Bytes256), text \in Seq(Bytes256),
           LiesAfter(x \o y, text, a)
    PROVE  LiesAfter(x, text, a) /\ LiesAfter(y, text, a + Len(x))
<1>1. PICK z : z = x \o y
    OBVIOUS
<1>2. PICK p, q, n \in Nat : p = Len(x) /\ q = Len(y) /\ n = Len(text)
    OBVIOUS
<1>3. /\ Len(z) = p + q
      /\ \A i \in 1..p : z[i] = x[i]
      /\ \A i \in 1..q : z[p + i] = y[i]
    BY <1>1, <1>2, ConcatPlaces
<1>4. a + (p + q) <= n /\ \A i \in 1..(p + q) : text[a + i] = z[i]
    BY <1>1, <1>2, <1>3, Zenon DEF LiesAfter
<1>5. ASSUME NEW i \in 1..p PROVE text[a + i] = x[i]
  <2>1. i \in 1..(p + q)
        OBVIOUS
  <2> QED
      BY <2>1, <1>3, <1>4, Zenon
<1>6. ASSUME NEW i \in 1..q PROVE text[(a + p) + i] = y[i]
  <2>1. p + i \in 1..(p + q) /\ (a + p) + i = a + (p + i)
        OBVIOUS
  <2> QED
      BY <2>1, <1>3, <1>4, Zenon
<1>7. a + p <= n /\ (a + p) + q <= n
    BY <1>4
<1> QED
    BY <1>2, <1>5, <1>6, <1>7, Zenon DEF LiesAfter

(* A text without dashes and space is kept.  *)
LEMMA PlainKept ==
    ASSUME NEW pem, pem \in Seq(Bytes256), NEW r, IsStrip(r, pem), NEW a \in Nat,
           NEW x, x \in Seq(PlainChars), LiesAfter(x, pem, a),
           NEW w, w \in Seq(Bytes256), AtText(pem, r, a, w)
    PROVE  AtText(pem, r, a + Len(x), w \o x)
<1>1. PICK n, l \in Nat : n = Len(x) /\ l = Len(pem)
    OBVIOUS
<1>2. x \in Seq(Bytes256)
    BY SeqOfMore DEF PlainChars
<1>3. a + n <= l /\ \A i \in 1..n : pem[a + i] = x[i] /\ x[i] \in PlainChars /\ x[i] \in Bytes256
  <2>1. \A i \in 1..n : x[i] \in PlainChars /\ x[i] \in Bytes256
        BY <1>1, <1>2
  <2> QED
      BY <1>1, <2>1, Zenon DEF LiesAfter
<1> DEFINE S == {i \in 0..n : AtText(pem, r, a + i, w \o SubSeq(x, 1, i))}
<1>4. 0 \in S
  <2>1. 0 \in 0..n /\ a + 0 = a /\ w \o SubSeq(x, 1, 0) = w
        BY <1>1, <1>2
  <2> QED
      BY <2>1, Zenon
<1>5. ASSUME NEW i \in 0..(n - 1), i \in S PROVE i + 1 \in S
  <2>1. /\ i \in Nat /\ i < n /\ i <= i + 1 /\ i + 1 \in Nat /\ i + 1 <= n /\ i + 1 \in 0..n /\ i + 1 \in 1..n
        /\ a + i \in 0..(l - 1) /\ (a + i) + 1 = a + (i + 1)
        BY <1>3
  <2>2. PICK u : u = SubSeq(x, 1, i) /\ u \in Seq(Bytes256)
    <3>1. 1 \in 1..(Len(x) + 1) /\ i \in 0..Len(x)
          BY <2>1, <1>1
    <3>2. SubSeq(x, 1, i) \in Seq(Bytes256)
          BY <3>1, <1>2, SubSeqProperties
    <3> QED
        BY <3>2, Zenon
  <2>3. SubSeq(x, 1, i + 1) = u \o <<x[i + 1]>>
    <3>1. SubSeq(x, 1, i) \o SubSeq(x, i + 1, i + 1) = SubSeq(x, 1, i + 1)
          BY <2>1, <1>1, <1>2, SubSeqJoin
    <3>2. SubSeq(x, i + 1, i + 1) = <<x[i + 1]>>
          BY <2>1, <1>1, <1>2, SubSeqOne
    <3> QED
        BY <3>1, <3>2, <2>2, Zenon
  <2>4. PICK c, v : c = x[i + 1] /\ c \in PlainChars /\ pem[a + (i + 1)] = c /\ v = <<c>> /\ v \in Seq(Bytes256)
    <3>1. x[i + 1] \in PlainChars /\ x[i + 1] \in Bytes256 /\ pem[a + (i + 1)] = x[i + 1]
          BY <1>3, <2>1, Zenon
    <3>2. <<x[i + 1]>> \in Seq(Bytes256)
          BY <3>1
    <3> QED
        BY <3>1, <3>2, Zenon
  <2>5. w \o u \in Seq(Bytes256)
        BY <2>2
  <2>6. AtText(pem, r, a + i, w \o u)
        BY <1>5, <2>2, Zenon
  <2>7. AtText(pem, r, a + (i + 1), (w \o u) \o v)
    <3>1. pem[(a + i) + 1] = c
          BY <2>1, <2>4, Zenon
    <3>2. a + i \in 0..(Len(pem) - 1)
          BY <2>1, <1>1, Zenon
    <3>3. AtText(pem, r, (a + i) + 1, (w \o u) \o <<pem[(a + i) + 1]>>)
          BY <2>4, <2>5, <2>6, <3>1, <3>2, StripSteps, Zenon
    <3> QED
        BY <2>1, <2>4, <3>1, <3>3, Zenon
  <2>8. (w \o u) \o v = w \o (u \o v)
    <3>1. w \in Seq(Bytes256) /\ u \in Seq(Bytes256) /\ v \in Seq(Bytes256)
          BY <2>2, <2>4, Zenon
    <3> QED
        BY <3>1, JoinedThree
  <2>9. u \o v = SubSeq(x, 1, i + 1)
        BY <2>3, <2>4, Zenon
  <2>10. AtText(pem, r, a + (i + 1), w \o SubSeq(x, 1, i + 1))
        BY <2>7, <2>8, <2>9
  <2> QED
      BY <2>1, <2>10, Zenon
<1> HIDE DEF S
<1>6. n \in S
  <2>1. \A i \in 0..n : i \in S
        BY <1>1, <1>4, <1>5, UpTo, Zenon
  <2>2. n \in 0..n
        BY <1>1
  <2> QED
      BY <2>1, <2>2, Zenon
<1>7. SubSeq(x, 1, n) = x
    BY <1>1, <1>2
<1> QED
    BY <1>1, <1>6, <1>7, Zenon DEF S

LineEnd == <<CR, LF>>

LEMMA LineTexts ==
    /\ LineEnd \in Seq(Bytes256) /\ Len(LineEnd) = 2 /\ LineEnd[1] = CR /\ LineEnd[2] = LF
    /\ DashLine \in Seq(Bytes256) /\ Len(DashLine) = 7
    /\ DashLine[1] = Dash /\ \A i \in 2..6 : DashLine[i] # LF
    /\ DashLine[7] = LF
<1>1. CR \in Bytes256 /\ LF \in Bytes256 /\ 45 \in Bytes256 /\ 66 \in Bytes256 /\ 45 # LF /\ 66 # LF /\ Dash = 45
    BY DEF CR, LF, Dash, Bytes256
<1>2. LineEnd \in Seq(Bytes256) /\ Len(LineEnd) = 2 /\ LineEnd[1] = CR /\ LineEnd[2] = LF
    BY <1>1 DEF LineEnd
<1>3. DashLine \in Seq(Bytes256) /\ Len(DashLine) = 7 /\ DashLine[1] = Dash /\ DashLine[7] = LF
    BY <1>1 DEF DashLine
<1>4. \A i \in 2..6 : DashLine[i] # LF
    BY <1>1 DEF DashLine
<1> QED
    BY <1>2, <1>3, <1>4, Zenon

LEMMA LineLengths ==
    /\ LineEnd \in Seq(Bytes256) /\ Len(LineEnd) = 2
    /\ DashLine \in Seq(Bytes256) /\ Len(DashLine) = 7
BY LineTexts, Zenon

LEMMA JoinedLength ==
    ASSUME NEW x, NEW y, x \in Seq(Bytes256), y \in Seq(Bytes256)
    PROVE  x \o y \in Seq(Bytes256) /\ Len(x \o y) = Len(x) + Len(y) /\ Len(x) \in Nat /\ Len(y) \in Nat
OBVIOUS

LEMMA EndOfLine ==
    ASSUME NEW pem, pem \in Seq(Bytes256), NEW r, IsStrip(r, pem), NEW a \in Nat,
           LiesAfter(LineEnd, pem, a), NEW w, w \in Seq(Bytes256), AtText(pem, r, a, w)
    PROVE  AtText(pem, r, a + 2, w)
<1>1. a + 2 <= Len(pem) /\ pem[a + 1] = CR /\ pem[a + 2] = LF
    BY LineTexts DEF LiesAfter
<1>2. a \in 0..(Len(pem) - 1) /\ a + 1 \in 0..(Len(pem) - 1) /\ (a + 1) + 1 = a + 2
    BY <1>1
<1>3. AtText(pem, r, a + 1, w)
    BY <1>1, <1>2, StripSteps, Zenon
<1>4. pem[(a + 1) + 1] \in {CR, LF}
    BY <1>1, <1>2, Zenon
<1>5. AtText(pem, r, (a + 1) + 1, w)
    BY <1>2, <1>3, <1>4, StripSteps, Zenon
<1> QED
    BY <1>2, <1>5, Zenon

LEMMA DashesPassed ==
    ASSUME NEW pem, pem \in Seq(Bytes256), NEW r, IsStrip(r, pem), NEW a \in Nat,
           LiesAfter(DashLine, pem, a), NEW w, w \in Seq(Bytes256), AtText(pem, r, a, w)
    PROVE  AtText(pem, r, a + 7, w)
<1>1. /\ a + 7 <= Len(pem) /\ pem[a + 1] = Dash /\ pem[a + 7] = LF
      /\ \A i \in 2..6 : pem[a + i] # LF
  <2>1. a + 7 <= Len(pem) /\ \A i \in 1..7 : pem[a + i] = DashLine[i]
        BY LineLengths, Zenon DEF LiesAfter
  <2>2. 1 \in 1..7 /\ 7 \in 1..7 /\ \A i \in 2..6 : i \in 1..7
        OBVIOUS
  <2> QED
      BY <2>1, <2>2, LineTexts, Zenon
<1>2. \A i \in 0..6 : a + i \in 0..(Len(pem) - 1) /\ (a + i) + 1 = a + (i + 1)
    BY <1>1
<1>3. a \in 0..(Len(pem) - 1)
    BY <1>1
<1>4. AtDashes(pem, r, a + 1, w)
    BY <1>1, <1>3, StripSteps, Zenon
<1> DEFINE S == {i \in 0..5 : AtDashes(pem, r, a + (i + 1), w)}
<1>5. 0 \in S
  <2>1. 0 \in 0..5 /\ 0 + 1 = 1
        OBVIOUS
  <2> QED
      BY <2>1, <1>4, Zenon
<1>6. ASSUME NEW i \in 0..(5 - 1), i \in S PROVE i + 1 \in S
  <2>1. i + 1 \in 0..5 /\ (i + 1) + 1 \in 2..6 /\ i + 1 \in 0..6
        OBVIOUS
  <2>2. a + (i + 1) \in 0..(Len(pem) - 1) /\ (a + (i + 1)) + 1 = a + ((i + 1) + 1)
        BY <2>1, <1>2, Zenon
  <2>3. pem[(a + (i + 1)) + 1] # LF
        BY <2>1, <2>2, <1>1, Zenon
  <2>4. AtDashes(pem, r, (a + (i + 1)) + 1, w)
        BY <2>2, <2>3, <1>6, StripSteps, Zenon
  <2> QED
      BY <2>1, <2>2, <2>4, Zenon
<1> HIDE DEF S
<1>7. AtDashes(pem, r, a + 6, w)
  <2>1. 5 \in Nat /\ 5 \in 0..5 /\ 5 + 1 = 6
        OBVIOUS
  <2>2. \A i \in 0..5 : i \in S
        BY <2>1, <1>5, <1>6, UpTo, Zenon
  <2> QED
      BY <2>1, <2>2, Zenon DEF S
<1>8. a + 6 \in 0..(Len(pem) - 1) /\ (a + 6) + 1 = a + 7
    BY <1>1
<1>9. AtText(pem, r, (a + 6) + 1, w)
    BY <1>1, <1>7, <1>8, StripSteps, Zenon
<1> QED
    BY <1>8, <1>9, Zenon

(* The lines of a text, one after the other.  *)
LineOf(text, k) == SubSeq(text, 64 * k - 63, IF 64 * k < Len(text) THEN 64 * k ELSE Len(text))

IsLines(g, sofar, m, text) ==
    /\ \A k \in 0..m : g[k] \in Seq(Bytes256) /\ sofar[k] \in Seq(Bytes256)
    /\ g[0] = <<>> /\ sofar[0] = <<>>
    /\ \A k \in 0..(m - 1) : \E y : /\ y \in Seq(PlainChars) /\ y \in Seq(Bytes256)
                                    /\ g[k + 1] = g[k] \o (y \o LineEnd)
                                    /\ sofar[k + 1] = sofar[k] \o y
    /\ g[m] = Lines(text) /\ sofar[m] = text

LEMMA LinesRun ==
    ASSUME NEW text, text \in Seq(PlainChars)
    PROVE  \E m \in Nat : \E g, sofar : IsLines(g, sofar, m, text)
<1>1. text \in Seq(Bytes256)
    BY SeqOfMore DEF PlainChars
<1>2. PICK n, m \in Nat : n = Len(text) /\ m = (n + 63) \div 64 /\ m = Stretches(text)
  <2>1. Len(text) \in Nat /\ (Len(text) + 63) \div 64 \in Nat
        BY <1>1
  <2> QED
      BY <2>1, Zenon DEF Stretches
<1> DEFINE end(k) == IF 64 * k < n THEN 64 * k ELSE n
           parts == [k \in 1..m |-> LineOf(text, k) \o LineEnd]
<1>3. \A k \in 1..m : /\ 64 * (k - 1) \in Nat /\ 64 * (k - 1) < n /\ end(k) \in Nat /\ 64 * (k - 1) <= end(k)
                      /\ end(k) <= n /\ 64 * k - 63 = 64 * (k - 1) + 1 /\ end(k - 1) = 64 * (k - 1)
    BY <1>2
<1>4. ASSUME NEW k \in 1..m
      PROVE  /\ LineOf(text, k) \in Seq(PlainChars) /\ LineOf(text, k) \in Seq(Bytes256)
             /\ SubSeq(text, 1, end(k - 1)) \o LineOf(text, k) = SubSeq(text, 1, end(k))
             /\ SubSeq(text, 1, end(k - 1)) \in Seq(Bytes256)
             /\ parts[k] = LineOf(text, k) \o LineEnd /\ parts[k] \in Seq(Bytes256)
             /\ Len(parts[k]) = Len(LineOf(text, k)) + 2 /\ Len(LineOf(text, k)) \in Nat
  <2> HIDE DEF end, parts
  <2>1. PICK i, j \in Nat : i = 64 * (k - 1) /\ i = end(k - 1) /\ j = end(k) /\ i <= j /\ j <= n
                            /\ i + 1 = 64 * k - 63
        BY <1>3, Zenon
  <2>2. LineOf(text, k) = SubSeq(text, i + 1, j)
        BY <2>1, <1>2, Zenon DEF LineOf, end
  <2>3. SubSeq(text, i + 1, j) \in Seq(PlainChars)
        BY <2>1, <1>2, SubSeqPart
  <2>4. SubSeq(text, i + 1, j) \in Seq(Bytes256)
        BY <2>1, <1>1, <1>2, SubSeqPart
  <2>5. SubSeq(text, 1, i) \o SubSeq(text, i + 1, j) = SubSeq(text, 1, j)
        BY <2>1, <1>1, <1>2, SubSeqJoin
  <2>6. SubSeq(text, 1, i) \in Seq(Bytes256)
    <3>1. 0 \in Nat /\ 0 <= i /\ i <= Len(text) /\ 0 + 1 = 1
          BY <2>1, <1>2
    <3>2. SubSeq(text, 0 + 1, i) \in Seq(Bytes256)
          BY <3>1, <1>1, SubSeqPart, Zenon
    <3> QED
        BY <3>1, <3>2, Zenon
  <2>7. PICK x, y : /\ x = LineOf(text, k) /\ x \in Seq(Bytes256) /\ y = x \o LineEnd /\ y \in Seq(Bytes256)
                    /\ Len(y) = Len(x) + 2 /\ Len(x) \in Nat
    <3>1. PICK x : x = LineOf(text, k) /\ x \in Seq(Bytes256)
          BY <2>2, <2>4, Zenon
    <3>2. x \o LineEnd \in Seq(Bytes256) /\ Len(x \o LineEnd) = Len(x) + 2 /\ Len(x) \in Nat
          BY <3>1, LineLengths, JoinedLength, Zenon
    <3> QED
        BY <3>1, <3>2, Zenon
  <2>8. parts[k] = y
        BY <2>7, Zenon DEF parts
  <2> HIDE DEF parts
  <2> QED
      BY <2>1, <2>2, <2>3, <2>4, <2>5, <2>6, <2>7, <2>8, Zenon
<1>5. parts \in Seq(Seq(Bytes256)) /\ Len(parts) = m
  <2>1. parts = [k \in 1..m |-> parts[k]]
        BY Zenon
  <2>2. \A k \in 1..m : parts[k] \in Seq(Bytes256)
        BY <1>4, Zenon
  <2> HIDE DEF parts
  <2> QED
      BY <2>1, <2>2, PartsOf
<1>6. Lines(text) = FlattenSeq(parts)
    BY <1>2, Zenon DEF Lines, LineOf, LineEnd
<1>7. PICK g : /\ \A k \in 0..m : g[k] \in Seq(Bytes256)
               /\ g[0] = <<>>
               /\ \A k \in 0..(m - 1) : g[k + 1] = g[k] \o parts[k + 1]
               /\ FlattenSeq(parts) = g[m]
  <2> HIDE DEF parts
  <2> QED
      BY <1>5, PartsJoin, Zenon
<1> HIDE DEF parts, end
<1> DEFINE sofar == [k \in 0..m |-> SubSeq(text, 1, end(k))]
<1>8. \A k \in 0..m : sofar[k] = SubSeq(text, 1, end(k))
    BY Zenon
<1>9. sofar[0] = <<>> /\ 0 \in 0..m
  <2>1. end(0) = 0 /\ 0 \in 0..m
        BY <1>2 DEF end
  <2>2. SubSeq(text, 1, 0) = <<>>
        OBVIOUS
  <2> HIDE DEF sofar
  <2> QED
      BY <2>1, <2>2, <1>8, Zenon
<1>10. sofar[m] = text
  <2>1. end(m) = n /\ m \in 0..m
        BY <1>2 DEF end
  <2>2. SubSeq(text, 1, n) = text
        BY <1>1, <1>2
  <2> HIDE DEF sofar
  <2> QED
      BY <2>1, <2>2, <1>8, Zenon
<1> HIDE DEF sofar
<1>11. ASSUME NEW k \in 0..(m - 1)
       PROVE  /\ sofar[k] \in Seq(Bytes256)
              /\ \E y : /\ y \in Seq(PlainChars) /\ y \in Seq(Bytes256)
                        /\ g[k + 1] = g[k] \o (y \o LineEnd)
                        /\ sofar[k + 1] = sofar[k] \o y
  <2>1. k \in 0..m /\ k + 1 \in 0..m /\ k + 1 \in 1..m /\ (k + 1) - 1 = k
        BY <1>2
  <2>2. PICK y : /\ y = LineOf(text, k + 1) /\ y \in Seq(PlainChars) /\ y \in Seq(Bytes256)
                 /\ SubSeq(text, 1, end(k)) \o y = SubSeq(text, 1, end(k + 1))
                 /\ SubSeq(text, 1, end(k)) \in Seq(Bytes256)
                 /\ parts[k + 1] = y \o LineEnd
        BY <2>1, <1>4, Zenon
  <2> QED
      BY <2>1, <2>2, <1>7, <1>8, Zenon
<1>12. \A k \in 0..m : sofar[k] \in Seq(Bytes256)
  <2>1. \A k \in 0..m : k \in 0..(m - 1) \/ k = m
        BY <1>2
  <2> QED
      BY <2>1, <1>1, <1>10, <1>11, Zenon
<1>13. IsLines(g, sofar, m, text)
    BY <1>6, <1>7, <1>9, <1>10, <1>11, <1>12, Zenon DEF IsLines
<1> QED
    BY <1>13

LEMMA LinesBytes ==
    ASSUME NEW text, text \in Seq(PlainChars)
    PROVE  Lines(text) \in Seq(Bytes256)
<1>0. PICK m \in Nat : \E g, sofar : IsLines(g, sofar, m, text)
    BY LinesRun, Zenon
<1>1. PICK g, sofar : IsLines(g, sofar, m, text)
    BY <1>0, Zenon
<1>2. m \in 0..m
    OBVIOUS
<1> QED
    BY <1>1, <1>2, Zenon DEF IsLines

LEMMA LinesKept ==
    ASSUME NEW text, text \in Seq(PlainChars), NEW pem, pem \in Seq(Bytes256), NEW r, IsStrip(r, pem),
           NEW a \in Nat, LiesAfter(Lines(text), pem, a), AtText(pem, r, a, <<>>)
    PROVE  AtText(pem, r, a + Len(Lines(text)), text)
<1>0. PICK m \in Nat : \E g, sofar : IsLines(g, sofar, m, text)
    BY LinesRun, Zenon
<1>2. PICK g, sofar : IsLines(g, sofar, m, text)
    BY <1>0, Zenon
<1>6. g[m] = Lines(text) /\ sofar[m] = text /\ g[0] = <<>> /\ sofar[0] = <<>>
    BY <1>2, Zenon DEF IsLines
<1>7. ASSUME NEW k \in 0..(m - 1)
      PROVE  \E x, y, w : /\ x = g[k] /\ x \in Seq(Bytes256) /\ w = sofar[k] /\ w \in Seq(Bytes256)
                          /\ y \in Seq(PlainChars) /\ y \in Seq(Bytes256)
                          /\ g[k + 1] = x \o (y \o LineEnd)
                          /\ sofar[k + 1] = w \o y
  <2>1. k \in 0..m
        OBVIOUS
  <2> QED
      BY <2>1, <1>2, Zenon DEF IsLines
<1>71. \A k \in 0..(m - 1) : \E x, p : x = g[k] /\ x \in Seq(Bytes256) /\ p \in Seq(Bytes256) /\ g[k + 1] = x \o p
  <2> TAKE k \in 0..(m - 1)
  <2>1. PICK x, y, w, p, v : /\ x = g[k] /\ x \in Seq(Bytes256) /\ w = sofar[k] /\ w \in Seq(Bytes256)
                             /\ y \in Seq(PlainChars) /\ y \in Seq(Bytes256)
                             /\ p = y \o LineEnd /\ g[k + 1] = x \o p
                             /\ v = w \o y /\ sofar[k + 1] = v
        BY <1>7, Zenon
  <2>2. p \in Seq(Bytes256)
        BY <2>1, LineLengths, JoinedLength, Zenon
  <2> QED
      BY <2>1, <2>2, Zenon
<1> DEFINE T == {k \in 0..m : LiesAfter(g[m - k], pem, a)}
<1>8. \A k \in 0..m : LiesAfter(g[k], pem, a)
  <2>1. 0 \in T
    <3>1. 0 \in 0..m /\ m - 0 = m
          BY <1>2
    <3> QED
        BY <3>1, <1>6, <1>7, Zenon
  <2>2. ASSUME NEW k \in 0..(m - 1), k \in T PROVE k + 1 \in T
    <3>1. k + 1 \in 0..m /\ m - (k + 1) \in 0..(m - 1) /\ m - (k + 1) \in 0..m /\ (m - (k + 1)) + 1 = m - k
          /\ m - k \in 1..m
          BY <1>2
    <3>2. PICK x, y : x = g[m - (k + 1)] /\ x \in Seq(Bytes256) /\ y \in Seq(Bytes256) /\ g[m - k] = x \o y
      <4>0. PICK q : q = m - (k + 1) /\ q \in 0..(m - 1) /\ q + 1 = m - k
            BY <3>1
      <4>1. PICK x, p : x = g[q] /\ x \in Seq(Bytes256) /\ p \in Seq(Bytes256) /\ g[q + 1] = x \o p
            BY <4>0, <1>71, Zenon
      <4> QED
          BY <4>0, <4>1, Zenon
    <3>3. LiesAfter(x \o y, pem, a)
          BY <2>2, <3>2, Zenon
    <3>4. LiesAfter(x, pem, a)
          BY <3>2, <3>3, LiesParts, Zenon
    <3> QED
        BY <3>1, <3>2, <3>4, Zenon
  <2> HIDE DEF T
  <2>3. \A k \in 0..m : k \in T
        BY <1>2, <2>1, <2>2, UpTo, Zenon
  <2> TAKE k \in 0..m
  <2>4. m - k \in 0..m /\ m - (m - k) = k
        OBVIOUS
  <2> QED
      BY <2>3, <2>4, Zenon DEF T
<1> DEFINE S == {k \in 0..m : AtText(pem, r, a + Len(g[k]), sofar[k])}
<1>9. 0 \in S
  <2>1. 0 \in 0..m /\ a + 0 = a /\ Len(<<>>) = 0
        BY <1>2
  <2> QED
      BY <2>1, <1>6, Zenon
<1>10. ASSUME NEW k \in 0..(m - 1), k \in S PROVE k + 1 \in S
  <2>1. k \in 0..m /\ k + 1 \in 0..m
        BY <1>2
  <2>2. PICK x, y, w, p, v : /\ x = g[k] /\ x \in Seq(Bytes256) /\ w = sofar[k] /\ w \in Seq(Bytes256)
                             /\ y \in Seq(PlainChars) /\ y \in Seq(Bytes256)
                             /\ p = y \o LineEnd /\ g[k + 1] = x \o p
                             /\ v = w \o y /\ sofar[k + 1] = v
        BY <1>7, Zenon
  <2>3. p \in Seq(Bytes256) /\ Len(p) = Len(y) + 2 /\ Len(y) \in Nat /\ v \in Seq(Bytes256) /\ Len(x) \in Nat
        /\ Len(x \o p) = Len(x) + Len(p)
        BY <2>2, LineLengths, JoinedLength, Zenon
  <2>4. LiesAfter(x \o p, pem, a)
        BY <2>1, <2>2, <1>8, Zenon
  <2>5. PICK b, c \in Nat : b = a + Len(x) /\ c = b + Len(y)
        BY <2>3
  <2>6. LiesAfter(y \o LineEnd, pem, b)
        BY <2>2, <2>3, <2>4, <2>5, LiesParts, Zenon
  <2>7. LiesAfter(y, pem, b) /\ LiesAfter(LineEnd, pem, c)
        BY <2>2, <2>5, <2>6, LineLengths, LiesParts, Zenon
  <2>8. AtText(pem, r, b, w)
        BY <1>10, <2>2, <2>5, Zenon
  <2>9. AtText(pem, r, c, v)
        BY <2>2, <2>5, <2>7, <2>8, PlainKept, Zenon
  <2>10. AtText(pem, r, c + 2, v)
        BY <2>3, <2>7, <2>9, EndOfLine, Zenon
  <2>11. c + 2 = a + Len(x \o p)
        BY <2>3, <2>5
  <2>12. AtText(pem, r, a + Len(g[k + 1]), sofar[k + 1])
        BY <2>2, <2>10, <2>11, Zenon
  <2> QED
      BY <2>1, <2>12, Zenon
<1> HIDE DEF S
<1>11. \A k \in 0..m : k \in S
    BY <1>9, <1>10, UpTo, Zenon
<1>12. m \in 0..m
    OBVIOUS
<1> QED
    BY <1>6, <1>11, <1>12, Zenon DEF S

LEMMA PemStripped ==
    ASSUME NEW text, text \in Seq(PlainChars)
    PROVE  StripPem(DashLine \o Lines(text) \o DashLine) = text
<1>1. PICK x, y, z : /\ x = Lines(text) /\ y = DashLine \o x /\ z = y \o DashLine
                     /\ x \in Seq(Bytes256) /\ y \in Seq(Bytes256) /\ z \in Seq(Bytes256)
                     /\ Len(y) = 7 + Len(x) /\ Len(z) = (7 + Len(x)) + 7 /\ Len(x) \in Nat
  <2>1. PICK x : x = Lines(text) /\ x \in Seq(Bytes256)
        BY LinesBytes, Zenon
  <2>2. PICK y : y = DashLine \o x /\ y \in Seq(Bytes256) /\ Len(y) = 7 + Len(x) /\ Len(x) \in Nat
        BY <2>1, LineLengths, JoinedLength, Zenon
  <2>3. PICK z : z = y \o DashLine /\ z \in Seq(Bytes256) /\ Len(z) = Len(y) + 7
        BY <2>2, LineLengths, JoinedLength, Zenon
  <2> QED
      BY <2>1, <2>2, <2>3, Zenon
<1>2. PICK r : IsStrip(r, z) /\ StripPem(z) = r[Len(z)]
    BY <1>1, StripRuns, Zenon
<1>3. LiesAfter(z, z, 0)
  <2>1. 0 + Len(z) <= Len(z) /\ \A i \in 1..Len(z) : z[0 + i] = z[i]
        BY <1>1
  <2> QED
      BY <2>1 DEF LiesAfter
<1>4. LiesAfter(y, z, 0) /\ LiesAfter(DashLine, z, 0 + Len(y))
    BY <1>1, <1>3, LineTexts, LiesParts
<1>5. LiesAfter(DashLine, z, 0) /\ LiesAfter(x, z, 0 + Len(DashLine))
    BY <1>1, <1>4, LineTexts, LiesParts
<1>6. AtText(z, r, 0, <<>>)
  <2>1. ~Skipped(z, 0)
        BY SkipSteps
  <2> QED
      BY <2>1, <1>2, Zenon DEF AtText, IsStrip
<1>7. AtText(z, r, 0 + 7, <<>>)
  <2>1. <<>> \in Seq(Bytes256) /\ 0 \in Nat
        OBVIOUS
  <2> QED
      BY <2>1, <1>1, <1>2, <1>5, <1>6, DashesPassed, Zenon
<1>8. 0 + Len(DashLine) = 7 /\ 0 + 7 = 7 /\ 7 \in Nat /\ 0 + Len(y) = 7 + Len(x) /\ 7 + Len(x) \in Nat
    BY <1>1, LineTexts
<1>9. LiesAfter(x, z, 7) /\ AtText(z, r, 7, <<>>) /\ LiesAfter(DashLine, z, 7 + Len(x))
    BY <1>4, <1>5, <1>7, <1>8, Zenon
<1>10. AtText(z, r, 7 + Len(x), text)
    BY <1>1, <1>2, <1>8, <1>9, LinesKept, Zenon
<1>11. text \in Seq(Bytes256)
    BY SeqOfMore DEF PlainChars
<1>12. AtText(z, r, (7 + Len(x)) + 7, text)
    BY <1>1, <1>2, <1>8, <1>9, <1>10, <1>11, DashesPassed, Zenon
<1> QED
    BY <1>1, <1>2, <1>12, Zenon DEF AtText

(* base64 has neither dashes nor space.  *)
LEMMA PlainChar ==
    ASSUME NEW v \in 0..63
    PROVE  Char(Std, v) \in PlainChars
<1>1. Std[1] = 43 /\ Std[2] = 47
    BY DEF Std
<1>2. Char(Std, v) = IF v < 26 THEN 65 + v ELSE IF v < 52 THEN 71 + v ELSE IF v < 62 THEN v - 4
                     ELSE IF v = 62 THEN 43 ELSE 47
    BY <1>1 DEF Char
<1> QED
    BY <1>2 DEF PlainChars, Bytes256, Dash, LF, CR, TAB, Space

LEMMA PlainSeq ==
    ASSUME NEW e, e \in Seq(Bytes256), NEW n \in Nat, Len(e) = n, \A k \in 1..n : e[k] \in PlainChars
    PROVE  e \in Seq(PlainChars)
OBVIOUS

LEMMA PlainGroup ==
    ASSUME NEW g \in Groups
    PROVE  EncodeGroup(Std, TRUE, g) \in Seq(PlainChars)
<1>1. PICK x, y, z, e, l : x = Byte1(g) /\ y = Byte2(g) /\ z = Byte3(g) /\ l = Len(g) /\ e = EncodeGroup(Std, TRUE, g)
    OBVIOUS
<1>2. x \in Bytes256 /\ y \in Bytes256 /\ z \in Bytes256
    BY <1>1, GroupBytes, Zenon
<1>3. l \in 1..3
    BY <1>1 DEF Groups
<1>4. Std \in Alphabets /\ TRUE \in BOOLEAN
    BY DEF Alphabets
<1>5. /\ e \in Seq(Bytes256)
      /\ Len(e) = IF TRUE THEN 4 ELSE l + 1
      /\ e[1] = Char(Std, Six1(x))
      /\ e[2] = Char(Std, Six2(x, y))
      /\ l > 1 => e[3] = Char(Std, Six3(y, z))
      /\ l > 2 => e[4] = Char(Std, Six4(z))
      /\ \A k \in (l + 2)..Len(e) : e[k] = Equals
    BY <1>1, <1>4, GroupChars, Zenon
<1>6. Equals \in PlainChars
    BY DEF Equals, PlainChars, Bytes256, Dash, LF, CR, TAB, Space
<1>7. \A v \in 0..63 : Char(Std, v) \in PlainChars
    BY PlainChar
<1>8. e[1] \in PlainChars /\ e[2] \in PlainChars
    BY <1>2, <1>5, <1>7, SixBitsRange, Zenon
<1>9. Six3(y, z) \in 0..63 /\ Six4(z) \in 0..63
    BY <1>2, SixBitsRange, Zenon
<1>10. e[3] \in PlainChars
  <2>1. CASE l > 1
        BY <2>1, <1>5, <1>7, <1>9, Zenon
  <2>2. CASE ~(l > 1)
    <3>1. 3 \in (l + 2)..Len(e)
          BY <2>2, <1>3, <1>5
    <3> QED
        BY <3>1, <1>5, <1>6, Zenon
  <2> QED
      BY <2>1, <2>2, Zenon
<1>11. e[4] \in PlainChars
  <2>1. CASE l > 2
        BY <2>1, <1>5, <1>7, <1>9, Zenon
  <2>2. CASE ~(l > 2)
    <3>1. 4 \in (l + 2)..Len(e)
          BY <2>2, <1>3, <1>5
    <3> QED
        BY <3>1, <1>5, <1>6, Zenon
  <2> QED
      BY <2>1, <2>2, Zenon
<1>12. e \in Seq(PlainChars)
  <2>1. e \in Seq(Bytes256) /\ Len(e) = 4
        BY <1>5
  <2>2. \A k \in 1..4 : e[k] \in PlainChars
    <3>1. \A k \in 1..4 : k = 1 \/ k = 2 \/ k = 3 \/ k = 4
          OBVIOUS
    <3> QED
        BY <3>1, <1>8, <1>10, <1>11, Zenon
  <2>3. 4 \in Nat
        OBVIOUS
  <2> QED
      BY <2>1, <2>2, <2>3, PlainSeq, Zenon
<1> QED
    BY <1>1, <1>12, Zenon

LEMMA EncodedPlain ==
    ASSUME NEW bytes, bytes \in Seq(Bytes256)
    PROVE  Base64Encode(bytes) \in Seq(PlainChars)
<1> DEFINE n == Len(bytes)
           m == (n + 2) \div 3
           upto(k) == IF 3 * k < n THEN 3 * k ELSE n
           part(k) == SubSeq(bytes, 3 * k - 2, upto(k))
           parts == [k \in 1..m |-> EncodeGroup(Std, TRUE, part(k))]
<1>1. Base64Encode(bytes) = FlattenSeq(parts)
    BY Zenon DEF Base64Encode, Encode
<1>2. n \in Nat
    OBVIOUS
<1>3. n = Len(bytes)
    OBVIOUS
<1> HIDE DEF n
<1>4. m \in Nat
    BY <1>2
<1>5. ASSUME NEW k \in 1..m PROVE part(k) \in Groups
  <2>1. PICK i, j \in Nat : i = 3 * (k - 1) /\ j = upto(k) /\ i <= j /\ j <= n /\ j - i \in 1..3 /\ i + 1 = 3 * k - 2
    <3>1. 3 * (k - 1) \in Nat /\ upto(k) \in Nat /\ 3 * (k - 1) <= upto(k) /\ upto(k) <= n
          /\ upto(k) - 3 * (k - 1) \in 1..3 /\ 3 * (k - 1) + 1 = 3 * k - 2
          BY <1>2
    <3> HIDE DEF upto
    <3> QED
        BY <3>1, Zenon
  <2>2. part(k) = SubSeq(bytes, i + 1, j)
        BY <2>1, Zenon
  <2>3. SubSeq(bytes, i + 1, j) \in Seq(Bytes256) /\ Len(SubSeq(bytes, i + 1, j)) = j - i
    <3>1. i <= j /\ j <= Len(bytes)
          BY <2>1, <1>3, Zenon
    <3> QED
        BY <3>1, SubSeqPart, Zenon
  <2> HIDE DEF part
  <2> QED
      BY <2>1, <2>2, <2>3, Zenon DEF Groups
<1> HIDE DEF part, m
<1>6. \A k \in 1..m : parts[k] \in Seq(PlainChars)
    BY <1>5, PlainGroup, Zenon
<1>7. parts \in Seq(Seq(PlainChars))
  <2>1. parts = [k \in 1..m |-> parts[k]]
        BY Zenon
  <2> HIDE DEF parts
  <2> QED
      BY <2>1, <1>4, <1>6
<1> HIDE DEF parts
<1>8. FlattenSeq(parts) \in Seq(PlainChars)
    BY <1>7, FlattenPlaces
<1> QED
    BY <1>1, <1>8, Zenon

(* What a PEM was made of comes back from it.  *)
LEMMA PemDecodes ==
    ASSUME NEW der, der \in Seq(Bytes256)
    PROVE  /\ Base64Decode(StripPem(Pem(der))).ok
           /\ Base64Decode(StripPem(Pem(der))).out = der
<1>1. PICK text : text = Base64Encode(der) /\ text \in Seq(PlainChars)
    BY EncodedPlain, Zenon
<1>3. StripPem(Pem(der)) = text
    BY <1>1, PemStripped, Zenon DEF Pem
<1>4. /\ {Equals, LF, CR} \in StopSets /\ Std \in Alphabets /\ TRUE \in BOOLEAN
      /\ PadStops(TRUE, {Equals, LF, CR})
    BY DEF StopSets, Alphabets, PadStops
<1>5. HasRead(DecodeState(Std, {Equals, LF, CR}, text), der)
    BY <1>1, <1>4, EncodedDecodes, Zenon DEF Base64Encode
<1>6. PICK s : s = DecodeState(Std, {Equals, LF, CR}, text) /\ s.mode # "bad" /\ s.out = der
    BY <1>5, Zenon DEF HasRead
<1>7. Base64Decode(text) = [ok |-> s.mode # "bad", out |-> s.out]
    BY <1>6, Zenon DEF Base64Decode, Decode
<1>8. Base64Decode(text).ok /\ Base64Decode(text).out = der
  <2>1. \A d : HasRead(d, der) =>
            [ok |-> d.mode # "bad", out |-> d.out].ok
              /\ [ok |-> d.mode # "bad", out |-> d.out].out = der
        BY DEF HasRead
  <2> QED
      BY <1>5, <1>6, <1>7, <2>1, Zenon
<1> QED
    BY <1>3, <1>8, Zenon

(* The longest contents the model's keys have.  *)
LongestTlv == 65535

(* How long the length is.  *)
Short(n)  == n < 128
Middle(n) == n >= 128 /\ n < 256
Long(n)   == n >= 256
OneMore  == 129
TwoMore  == 130
LengthOf(n) == IF n < 128 THEN <<n>> ELSE IF n < 256 THEN <<129, n>> ELSE <<130, n \div 256, n % 256>>
TlvHead(tag, n) == <<tag>> \o LengthOf(n)

LEMMA LengthSizes ==
    ASSUME NEW n \in Nat
    PROVE  Short(n) \/ Middle(n) \/ Long(n)
BY SMT DEF Short, Middle, Long

LEMMA ByteInFront ==
    ASSUME NEW a \in Bytes256, NEW t, t \in Seq(Bytes256), NEW l \in Nat, Len(t) = l, NEW u, u = <<a>> \o t
    PROVE  /\ u \in Seq(Bytes256) /\ Len(u) = l + 1 /\ u[1] = a
           /\ \A p \in 1..l : u[p + 1] = t[p]
<1>1. <<a>> \in Seq(Bytes256) /\ Len(<<a>>) = 1 /\ <<a>>[1] = a
    OBVIOUS
<1>2. PICK s : s = <<a>>
    OBVIOUS
<1>3. /\ u \in Seq(Bytes256) /\ Len(u) = 1 + l
      /\ \A p \in 1..1 : u[p] = s[p]
      /\ \A p \in 1..l : u[1 + p] = t[p]
    BY <1>1, <1>2, ConcatPlaces
<1>4. u[1] = a
  <2>1. 1 \in 1..1
        OBVIOUS
  <2> QED
      BY <1>1, <1>2, <1>3, <2>1, Zenon
<1>5. \A p \in 1..l : 1 + p = p + 1
    OBVIOUS
<1>6. 1 + l = l + 1
    OBVIOUS
<1> QED
    BY <1>3, <1>4, <1>5, <1>6, Zenon

(* What a head x of h bytes says of the length n.  *)
Says(x, h, n) ==
    \/ h = 2 /\ Short(n) /\ x[2] = n
    \/ h = 3 /\ Middle(n) /\ x[2] = OneMore /\ x[3] = n
    \/ h = 4 /\ Long(n) /\ x[2] = TwoMore /\ x[3] \in Nat /\ x[4] \in Nat /\ x[3] * 256 + x[4] = n

LEMMA HeadBytes ==
    ASSUME NEW tag \in Bytes256, NEW n \in Nat, n <= LongestTlv
    PROVE  \E h \in Nat : \E x : /\ x = TlvHead(tag, n) /\ x \in Seq(Bytes256) /\ Len(x) = h
                             /\ h \in 2..4 /\ x[1] = tag /\ Says(x, h, n)
<1>1. CASE Short(n)
  <2>1. n \in Bytes256 /\ LengthOf(n) = <<n>>
        BY <1>1 DEF Bytes256, Short, LengthOf
  <2>2. PICK l : l = LengthOf(n) /\ l \in Seq(Bytes256) /\ Len(l) = 1 /\ l[1] = n
    <3>1. <<n>> \in Seq(Bytes256) /\ Len(<<n>>) = 1 /\ <<n>>[1] = n
          BY <2>1
    <3> QED
        BY <2>1, <3>1, Zenon
  <2>3. PICK x : x = <<tag>> \o l
        OBVIOUS
  <2>4. x \in Seq(Bytes256) /\ Len(x) = 1 + 1 /\ x[1] = tag /\ \A p \in 1..1 : x[p + 1] = l[p]
        BY <2>2, <2>3, ByteInFront
  <2>5. 1 \in 1..1 /\ 1 + 1 = 2 /\ 2 \in Nat /\ 2 \in 2..4
        OBVIOUS
  <2>6. x[2] = n /\ Len(x) = 2 /\ x = TlvHead(tag, n)
        BY <2>2, <2>3, <2>4, <2>5, Zenon DEF TlvHead
  <2> QED
      BY <1>1, <2>4, <2>5, <2>6, Zenon DEF Says
<1>2. CASE Middle(n)
  <2>1. n \in Bytes256 /\ OneMore \in Bytes256 /\ LengthOf(n) = <<OneMore, n>>
        BY <1>2 DEF Bytes256, Middle, LengthOf, OneMore
  <2>2. PICK l : l = LengthOf(n) /\ l \in Seq(Bytes256) /\ Len(l) = 2 /\ l[1] = OneMore /\ l[2] = n
    <3>1. /\ <<OneMore, n>> \in Seq(Bytes256) /\ Len(<<OneMore, n>>) = 2
          /\ <<OneMore, n>>[1] = OneMore /\ <<OneMore, n>>[2] = n
          BY <2>1
    <3> QED
        BY <2>1, <3>1, Zenon
  <2>3. PICK x : x = <<tag>> \o l
        OBVIOUS
  <2>4. x \in Seq(Bytes256) /\ Len(x) = 2 + 1 /\ x[1] = tag /\ \A p \in 1..2 : x[p + 1] = l[p]
        BY <2>2, <2>3, ByteInFront
  <2>5. 1 \in 1..2 /\ 2 \in 1..2 /\ 1 + 1 = 2 /\ 2 + 1 = 3 /\ 3 \in Nat /\ 3 \in 2..4
        OBVIOUS
  <2>6. x[2] = OneMore /\ x[3] = n /\ Len(x) = 3 /\ x = TlvHead(tag, n)
        BY <2>2, <2>3, <2>4, <2>5, Zenon DEF TlvHead
  <2> QED
      BY <1>2, <2>4, <2>5, <2>6, Zenon DEF Says
<1>3. CASE Long(n)
  <2>1. PICK q, r : /\ q = n \div 256 /\ r = n % 256 /\ q \in Bytes256 /\ r \in Bytes256 /\ q \in Nat /\ r \in Nat
                    /\ q * 256 + r = n
        BY <1>3 DEF Bytes256, Long, LongestTlv
  <2>2. TwoMore \in Bytes256 /\ LengthOf(n) = <<TwoMore, q, r>>
        BY <1>3, <2>1 DEF Bytes256, Long, LengthOf, TwoMore
  <2>3. PICK l : /\ l = LengthOf(n) /\ l \in Seq(Bytes256) /\ Len(l) = 3
                 /\ l[1] = TwoMore /\ l[2] = q /\ l[3] = r
    <3>1. /\ <<TwoMore, q, r>> \in Seq(Bytes256) /\ Len(<<TwoMore, q, r>>) = 3
          /\ <<TwoMore, q, r>>[1] = TwoMore /\ <<TwoMore, q, r>>[2] = q /\ <<TwoMore, q, r>>[3] = r
          BY <2>1, <2>2
    <3> QED
        BY <2>2, <3>1, Zenon
  <2>4. PICK x : x = <<tag>> \o l
        OBVIOUS
  <2>5. x \in Seq(Bytes256) /\ Len(x) = 3 + 1 /\ x[1] = tag /\ \A p \in 1..3 : x[p + 1] = l[p]
    <3>1. PICK k \in Nat : k = 3
          OBVIOUS
    <3>2. x \in Seq(Bytes256) /\ Len(x) = k + 1 /\ x[1] = tag /\ \A p \in 1..k : x[p + 1] = l[p]
      <4>1. tag \in Bytes256 /\ l \in Seq(Bytes256) /\ k \in Nat /\ Len(l) = k /\ x = <<tag>> \o l
            BY <2>3, <2>4, <3>1, Zenon
      <4> QED
          BY <4>1, ByteInFront
    <3> QED
        BY <3>1, <3>2, Zenon
  <2>6. /\ 1 \in 1..3 /\ 2 \in 1..3 /\ 3 \in 1..3
        /\ 1 + 1 = 2 /\ 2 + 1 = 3 /\ 3 + 1 = 4 /\ 4 \in Nat /\ 4 \in 2..4
        OBVIOUS
  <2>7. x[2] = TwoMore /\ x[3] = q /\ x[4] = r /\ Len(x) = 4 /\ x = TlvHead(tag, n)
        BY <2>3, <2>4, <2>5, <2>6, Zenon DEF TlvHead
  <2>8. x[3] \in Nat /\ x[4] \in Nat /\ x[3] * 256 + x[4] = n
        BY <2>1, <2>7
  <2> QED
      BY <1>3, <2>5, <2>6, <2>7, <2>8, Zenon DEF Says
<1> QED
    BY <1>1, <1>2, <1>3, LengthSizes, Zenon

LEMMA TlvParts ==
    ASSUME NEW tag \in Bytes256, NEW c, c \in Seq(Bytes256), NEW n \in Nat, n = Len(c), n <= LongestTlv
    PROVE  /\ Tlv(tag, c) = TlvHead(tag, n) \o c
           /\ Tlv(tag, c) \in Seq(Bytes256) /\ Len(Tlv(tag, c)) = Len(TlvHead(tag, n)) + n
<1>1. Tlv(tag, c) = TlvHead(tag, n) \o c
    BY Zenon DEF Tlv, TlvHead, LengthOf
<1>2. TlvHead(tag, n) \in Seq(Bytes256)
    BY HeadBytes, Zenon
<1>3. /\ TlvHead(tag, n) \o c \in Seq(Bytes256)
      /\ Len(TlvHead(tag, n) \o c) = Len(TlvHead(tag, n)) + Len(c)
    BY <1>2, JoinedLength, Zenon
<1> QED
    BY <1>1, <1>3, Zenon

(* Lengths of one byte and of two.  *)
LEMMA NumbersIn ==
    ASSUME NEW der, NEW at \in Nat
    PROVE  /\ der[at] \in Nat => NumberIn(der, at, 1) = der[at]
           /\ der[at] \in Nat /\ der[at + 1] \in Nat => NumberIn(der, at, 2) = der[at] * 256 + der[at + 1]
<1> DEFINE Eq(n, f) == f = [k \in 0..n |-> IF k = 0 THEN 0 ELSE f[k - 1] * 256 + der[at + k - 1]]
           num(n) == CHOOSE f : Eq(n, f)
<1>1. ASSUME der[at] \in Nat PROVE NumberIn(der, at, 1) = der[at]
  <2>1. NumberIn(der, at, 1) = num(1)[1]
        BY DEF NumberIn
  <2>2. Eq(1, [k \in 0..1 |-> IF k = 0 THEN 0 ELSE der[at]])
    <3>1. ASSUME NEW k \in 0..1, k # 0 PROVE k - 1 = 0 /\ at + k - 1 = at
          BY <3>1
    <3> QED
        BY <3>1, <1>1
  <2>3. Eq(1, num(1))
    <3> HIDE DEF Eq
    <3> QED
        BY <2>2
  <2> HIDE DEF num
  <2>4. num(1)[0] = 0
        BY <2>3
  <2>5. num(1)[1] = num(1)[1 - 1] * 256 + der[at + 1 - 1]
        BY <2>3
  <2> QED
      BY <1>1, <2>1, <2>4, <2>5
<1>2. ASSUME der[at] \in Nat, der[at + 1] \in Nat PROVE NumberIn(der, at, 2) = der[at] * 256 + der[at + 1]
  <2>1. NumberIn(der, at, 2) = num(2)[2]
        BY DEF NumberIn
  <2>2. Eq(2, [k \in 0..2 |-> IF k = 0 THEN 0 ELSE IF k = 1 THEN der[at] ELSE der[at] * 256 + der[at + 1]])
    <3>1. ASSUME NEW k \in 0..2, k # 0, k # 1 PROVE k = 2 /\ k - 1 = 1 /\ at + k - 1 = at + 1
          BY <3>1
    <3>2. ASSUME NEW k \in 0..2, k = 1 PROVE k - 1 = 0 /\ at + k - 1 = at
          BY <3>2
    <3> QED
        BY <3>1, <3>2, <1>2
  <2>3. Eq(2, num(2))
    <3> HIDE DEF Eq
    <3> QED
        BY <2>2
  <2> HIDE DEF num
  <2>4. num(2)[0] = 0
        BY <2>3
  <2>5. num(2)[1] = num(2)[1 - 1] * 256 + der[at + 1 - 1]
        BY <2>3
  <2>6. num(2)[2] = num(2)[2 - 1] * 256 + der[at + 2 - 1]
        BY <2>3
  <2>7. num(2)[1] = der[at]
        BY <1>2, <2>4, <2>5
  <2> QED
      BY <1>2, <2>1, <2>6, <2>7
<1> QED
    BY <1>1, <1>2, Zenon

(* When an element is refused.  *)
Refused(last, at, lenByte, numBytes, len, data) ==
    \/ at + 1 > last
    \/ lenByte = 128 \/ numBytes > 4 \/ data - 1 > last
    \/ data + len - 1 > last

Fields(der, at, lb, nb, len, data) ==
    /\ lb = der[at + 1]
    /\ nb = IF lb < 128 THEN 0 ELSE lb - 128
    /\ len = IF lb < 128 THEN lb ELSE NumberIn(der, at + 2, nb)
    /\ data = at + 2 + nb

TlvIf(last, at, tag, lb, nb, len, data) ==
    IF Refused(last, at, lb, nb, len, data) THEN NoTlv
    ELSE [ok |-> TRUE, tag |-> tag, len |-> len, at |-> data]

LEMMA TlvOf ==
    ASSUME NEW der, NEW at, NEW lb, NEW nb, NEW len, NEW data, Fields(der, at, lb, nb, len, data)
    PROVE  ReadTlv(der, at) = TlvIf(Len(der), at, der[at], lb, nb, len, data)
<1>1. ReadTlv(der, at) = TlvAt(der, at, lb)
    BY Zenon DEF ReadTlv, Fields
<1>2. TlvAt(der, at, lb) = TlvIf(Len(der), at, der[at], lb, nb, len, data)
    BY Zenon DEF TlvAt, TlvIf, Refused, Fields
<1> QED
    BY <1>1, <1>2, Zenon

(* An element lies in der after its first a bytes, its contents c being n bytes;
   and it is read, its contents lying after b bytes.  *)
ElementAt(der, a, tag, c, n) ==
    /\ der \in Seq(Bytes256) /\ a \in Nat /\ tag \in Bytes256 /\ c \in Seq(Bytes256) /\ n \in Nat /\ n = Len(c)
    /\ n <= LongestTlv /\ LiesAfter(Tlv(tag, c), der, a)
ReadTo(der, a, tag, c, n, b) ==
    /\ b \in Nat /\ ReadTlv(der, a + 1) = [ok |-> TRUE, tag |-> tag, len |-> n, at |-> b + 1]
    /\ LiesAfter(c, der, b) /\ b + n = a + Len(Tlv(tag, c))

(* An element that lies in a text is read.  *)
LEMMA TlvReads ==
    ASSUME NEW der, NEW a, NEW tag, NEW c, NEW n, ElementAt(der, a, tag, c, n)
    PROVE  \E b : ReadTo(der, a, tag, c, n, b)
<1>1. /\ der \in Seq(Bytes256) /\ a \in Nat /\ tag \in Bytes256 /\ c \in Seq(Bytes256) /\ n \in Nat /\ n = Len(c)
      /\ n <= LongestTlv /\ LiesAfter(Tlv(tag, c), der, a)
    BY Zenon DEF ElementAt
<1>90. PICK lb, nb, len, data :
           /\ lb = der[(a + 1) + 1]
           /\ nb = IF lb < 128 THEN 0 ELSE lb - 128
           /\ len = IF lb < 128 THEN lb ELSE NumberIn(der, (a + 1) + 2, nb)
           /\ data = (a + 1) + 2 + nb
    OBVIOUS
<1>91. PICK at : at = a + 1
    OBVIOUS
<1>94. Fields(der, at, lb, nb, len, data)
    BY <1>90, <1>91 DEF Fields
<1>92. ReadTlv(der, at) = TlvIf(Len(der), at, der[at], lb, nb, len, data)
    BY <1>94, TlvOf, Zenon
<1> USE <1>1
<1>2. PICK h \in Nat : \E x : /\ x = TlvHead(tag, n) /\ x \in Seq(Bytes256) /\ Len(x) = h
                             /\ h \in 2..4 /\ x[1] = tag /\ Says(x, h, n)
    BY HeadBytes, Zenon
<1>3. PICK x : /\ x = TlvHead(tag, n) /\ x \in Seq(Bytes256) /\ Len(x) = h
               /\ h \in 2..4 /\ x[1] = tag /\ Says(x, h, n)
    BY <1>2, Zenon
<1>4. Tlv(tag, c) = x \o c /\ Len(Tlv(tag, c)) = h + n
    BY <1>3, TlvParts, Zenon
<1>5. LiesAfter(x, der, a) /\ LiesAfter(c, der, a + h)
    BY <1>3, <1>4, LiesParts, Zenon
<1>6. PICK l \in Nat : l = Len(der) /\ a + h <= l /\ (a + h) + n <= l
  <2>1. Len(der) \in Nat
        OBVIOUS
  <2> QED
      BY <2>1, <1>3, <1>5, Zenon DEF LiesAfter
<1>7. \A i \in 1..h : der[a + i] = x[i]
    BY <1>3, <1>5, Zenon DEF LiesAfter
<1>8. (h > 2 => der[a + 3] = x[3]) /\ (h > 3 => der[a + 4] = x[4]) /\ der[a + 1] = tag /\ der[a + 2] = x[2]
  <2>1. 1 \in 1..h /\ 2 \in 1..h /\ (h > 2 => 3 \in 1..h) /\ (h > 3 => 4 \in 1..h)
        BY <1>3
  <2> QED
      BY <2>1, <1>3, <1>7, Zenon
<1>9. /\ lb = der[(a + 1) + 1]
      /\ nb = IF lb < 128 THEN 0 ELSE lb - 128
      /\ len = IF lb < 128 THEN lb ELSE NumberIn(der, (a + 1) + 2, nb)
      /\ data = (a + 1) + 2 + nb
    BY <1>90
<1>10. ReadTlv(der, a + 1) = TlvIf(l, a + 1, der[a + 1], lb, nb, len, data)
    BY <1>6, <1>91, <1>92, Zenon
<1>11. (a + 1) + 1 = a + 2 /\ (a + 1) + 2 = a + 3 /\ (a + 3) + 1 = a + 4 /\ a + 3 \in Nat
    OBVIOUS
<1>111. lb = x[2]
    BY <1>8, <1>9, <1>11, Zenon
<1>113. lb \in Nat
  <2>1. PICK y : y = x /\ y \in Seq(Bytes256) /\ Len(y) = h
        BY <1>3, Zenon
  <2>2. y[2] \in Bytes256
        BY <2>1, <1>3
  <2>3. lb \in Bytes256
        BY <1>111, <2>1, <2>2, Zenon
  <2> QED
      BY <2>3 DEF Bytes256
<1>112. lb >= 128 => len = NumberIn(der, a + 3, nb)
    BY <1>9, <1>11, <1>113
<1>12. lb # 128 /\ ~(nb > 4) /\ len = n /\ data = (a + h) + 1
  <2>1. CASE h = 2 /\ Short(n) /\ x[2] = n
    <3>1. lb = n
          BY <1>111, <2>1, Zenon
    <3>11. lb < 128 /\ lb # 128
      <4>1. Short(lb)
            BY <2>1, <3>1, Zenon
      <4> QED
          BY <4>1, <1>113, SMT DEF Short
    <3>2. nb = 0 /\ len = n /\ lb # 128
          BY <1>9, <3>1, <3>11, Zenon
    <3> QED
        BY <1>9, <2>1, <3>2
  <2>2. CASE h = 3 /\ Middle(n) /\ x[2] = OneMore /\ x[3] = n
    <3>1. lb = OneMore
          BY <1>111, <2>2, Zenon
    <3>2. nb = 1 /\ lb >= 128 /\ lb # 128
          BY <1>9, <3>1 DEF OneMore
    <3>3. h > 2
          BY <2>2
    <3>4. der[a + 3] = n
          BY <1>8, <2>2, <3>3, Zenon
    <3>5. len = NumberIn(der, a + 3, 1)
          BY <1>112, <3>2, Zenon
    <3>6. der[a + 3] \in Nat
          BY <3>4, Zenon
    <3>7. len = n
          BY <1>11, <3>4, <3>5, <3>6, NumbersIn, Zenon
    <3> QED
        BY <1>9, <2>2, <3>2, <3>7
  <2>3. CASE h = 4 /\ Long(n) /\ x[2] = TwoMore /\ x[3] \in Nat /\ x[4] \in Nat /\ x[3] * 256 + x[4] = n
    <3>1. lb = TwoMore
          BY <1>111, <2>3, Zenon
    <3>2. nb = 2 /\ lb >= 128 /\ lb # 128
          BY <1>9, <3>1 DEF TwoMore
    <3>3. h > 2 /\ h > 3
          BY <2>3
    <3>4. /\ der[a + 3] = x[3] /\ der[(a + 3) + 1] = x[4]
          /\ der[a + 3] \in Nat /\ der[(a + 3) + 1] \in Nat
          BY <1>8, <1>11, <2>3, <3>3, Zenon
    <3>5. len = NumberIn(der, a + 3, 2)
          BY <1>112, <3>2, Zenon
    <3>6. NumberIn(der, a + 3, 2) = der[a + 3] * 256 + der[(a + 3) + 1]
          BY <1>11, <3>4, NumbersIn, Zenon
    <3>7. len = n
          BY <2>3, <3>4, <3>5, <3>6
    <3> QED
        BY <1>9, <2>3, <3>2, <3>7
  <2> QED
      BY <1>3, <2>1, <2>2, <2>3, Zenon DEF Says
<1>13. ReadTlv(der, a + 1) = [ok |-> TRUE, tag |-> tag, len |-> n, at |-> (a + h) + 1]
  <2>1. ~Refused(l, a + 1, lb, nb, n, (a + h) + 1)
    <3>1. ~((a + 1) + 1 > l) /\ ~((a + h) + 1 - 1 > l) /\ ~((a + h) + 1 + n - 1 > l)
          BY <1>3, <1>6
    <3> QED
        BY <1>12, <3>1, SMT DEF Refused
  <2> QED
      BY <1>8, <1>10, <1>12, <2>1, Zenon DEF TlvIf
<1>14. a + h \in Nat /\ (a + h) + n = a + (h + n)
    OBVIOUS
<1> QED
    BY <1>4, <1>5, <1>13, <1>14, Zenon DEF ReadTo

LEMMA LiesWhole ==
    ASSUME NEW x, x \in Seq(Bytes256)
    PROVE  LiesAfter(x, x, 0)
BY DEF LiesAfter

(* A sequence of bytes, its length named.  *)
Known(x, n) == x \in Seq(Bytes256) /\ Len(x) = n /\ n \in Nat

(* x is what der holds after its first a bytes.  *)
LEMMA LiesCut ==
    ASSUME NEW x, NEW n, Known(x, n), NEW der, der \in Seq(Bytes256), NEW a \in Nat, LiesAfter(x, der, a)
    PROVE  SubSeq(der, a + 1, a + n) = x
<1>1. PICK l \in Nat : l = Len(der) /\ a + n <= l /\ \A i \in 1..n : der[a + i] = x[i]
  <2>1. Len(der) \in Nat
        OBVIOUS
  <2> QED
      BY <2>1, Zenon DEF LiesAfter, Known
<1>2. PICK y : y = SubSeq(der, a + 1, a + n)
    OBVIOUS
<1>3. n \in Nat
    BY DEF Known
<1>4. y \in Seq(Bytes256) /\ Len(y) = n /\ \A i \in 1..n : y[i] = der[a + i]
  <2>1. l \in Nat /\ l = Len(der) /\ a + n <= l
        BY <1>1, Zenon
  <2>2. y \in Seq(Bytes256) /\ Len(y) = n
        BY <1>2, <1>3, <2>1
  <2>3. \A i \in 1..n : y[i] = der[a + i]
        BY <1>2, <1>3, <2>1
  <2> QED
      BY <2>2, <2>3, Zenon
<1>5. \A i \in 1..n : y[i] = x[i]
    BY <1>1, <1>4, Zenon
<1>6. x \in Seq(Bytes256) /\ Len(x) = n
    BY DEF Known
<1>7. y = x
    BY <1>4, <1>5, <1>6
<1> QED
    BY <1>2, <1>7, Zenon

LEMMA LiesPlaces ==
    ASSUME NEW x, NEW n, Known(x, n), NEW der, NEW a, LiesAfter(x, der, a)
    PROVE  \A i \in 1..n : der[a + i] = x[i]
BY Zenon DEF LiesAfter, Known

(* What is written for a number x: y, of m bytes, the first k of them zero. *)
Written(x, y, m, k) ==
    /\ DerInteger(x) = Tlv(2, y) /\ y \in Seq(Bytes256) /\ Len(y) = m
    /\ m \in Nat /\ k \in Nat /\ k <= 1 /\ m = k + Len(x) /\ m # k /\ m # 0
    /\ ~(y[1] >= 128) /\ k = IF y[1] = 0 THEN 1 ELSE 0
    /\ \A i \in 1..Len(x) : y[k + i] = x[i]

LEMMA NumberWritten ==
    ASSUME NEW x, x \in Seq(Bytes256), x # <<>>, x[1] # 0
    PROVE  \E y, m, k : Written(x, y, m, k)
<1>1. PICK n \in Nat : n = Len(x) /\ n > 0
    OBVIOUS
<1>2. x[1] \in Bytes256
    BY <1>1
<1>3. CASE x[1] >= 128
  <2>1. PICK y : y = <<0>> \o x
        OBVIOUS
  <2>2. 0 \in Bytes256
        BY DEF Bytes256
  <2>3. y \in Seq(Bytes256) /\ Len(y) = n + 1 /\ y[1] = 0 /\ \A p \in 1..n : y[p + 1] = x[p]
        BY <1>1, <2>1, <2>2, ByteInFront
  <2>4. DerInteger(x) = Tlv(2, y)
        BY <1>3, <2>1, Zenon DEF DerInteger
  <2>5. /\ n + 1 \in Nat /\ 1 \in Nat /\ 1 <= 1 /\ n + 1 = 1 + n /\ n + 1 # 1 /\ n + 1 # 0 /\ ~(0 >= 128)
        /\ \A p \in 1..n : 1 + p = p + 1
        BY <1>1
  <2>6. 1 = IF y[1] = 0 THEN 1 ELSE 0
        BY <2>3, Zenon
  <2>7. ~(y[1] >= 128)
        BY <2>3, <2>5, Zenon
  <2>8. Written(x, y, n + 1, 1)
        BY <1>1, <2>3, <2>4, <2>5, <2>6, <2>7, Zenon DEF Written
  <2> QED
      BY <2>8, Zenon
<1>4. CASE ~(x[1] >= 128)
  <2>1. DerInteger(x) = Tlv(2, x)
        BY <1>4, Zenon DEF DerInteger
  <2>2. /\ n \in Nat /\ 0 \in Nat /\ 0 <= 1 /\ n = 0 + n /\ n # 0
        /\ \A p \in 1..n : 0 + p = p
        BY <1>1
  <2>3. 0 = IF x[1] = 0 THEN 1 ELSE 0
        OBVIOUS
  <2>4. Written(x, x, n, 0)
        BY <1>1, <1>4, <2>1, <2>2, <2>3, Zenon DEF Written
  <2> QED
      BY <2>4, Zenon
<1> QED
    BY <1>3, <1>4, Zenon

LEMMA IntegerOf ==
    ASSUME NEW der, NEW at, NEW n, NEW data, NEW skip,
           ReadTlv(der, at) = [ok |-> TRUE, tag |-> 2, len |-> n, at |-> data],
           skip = IF der[data] = 0 THEN 1 ELSE 0, n # 0, ~(der[data] >= 128), n # skip
    PROVE  ReadDerInteger(der, at) =
               [ok |-> TRUE, bytes |-> SubSeq(der, data + skip, data + n - 1), at |-> data + n]
<1>1. PICK tlv : tlv = ReadTlv(der, at)
    OBVIOUS
<1>2. tlv.ok /\ tlv.tag = 2 /\ tlv.len = n /\ tlv.at = data
    BY <1>1
<1> DEFINE t == ReadTlv(der, at)
           s == IF der[t.at] = 0 THEN 1 ELSE 0
<1>3. ReadDerInteger(der, at) =
          IF ~t.ok \/ t.tag # 2 \/ t.len = 0 \/ der[t.at] >= 128 \/ t.len = s THEN NoInteger
          ELSE [ok |-> TRUE, bytes |-> SubSeq(der, t.at + s, t.at + t.len - 1), at |-> t.at + t.len]
    BY Zenon DEF ReadDerInteger
<1>4. s = skip /\ t = tlv
    BY <1>1, <1>2, Zenon
<1> HIDE DEF t, s
<1>5. t.ok /\ t.tag = 2 /\ t.len = n /\ t.at = data
    BY <1>2, <1>4, Zenon
<1> QED
    BY <1>3, <1>4, <1>5, Zenon

(* A number that lies in a text is read.  *)
LEMMA IntegerReads ==
    ASSUME NEW der, der \in Seq(Bytes256), NEW a \in Nat, NEW x, x \in Seq(Bytes256), x # <<>>, x[1] # 0,
           Len(x) < LongestTlv, LiesAfter(DerInteger(x), der, a)
    PROVE  \E b \in Nat : /\ b = a + Len(DerInteger(x))
                          /\ ReadDerInteger(der, a + 1) = [ok |-> TRUE, bytes |-> x, at |-> b + 1]
<1>1. PICK y, m, k : Written(x, y, m, k)
    BY NumberWritten, Zenon
<1>2. /\ m \in Nat /\ k \in Nat /\ m = Len(y) /\ y \in Seq(Bytes256) /\ m = k + Len(x)
      /\ LiesAfter(Tlv(2, y), der, a) /\ DerInteger(x) = Tlv(2, y)
    BY <1>1, Zenon DEF Written
<1>3. PICK n \in Nat : n = Len(x) /\ n > 0
    OBVIOUS
<1>4. m <= LongestTlv /\ 2 \in Bytes256 /\ m = k + n
  <2>1. k <= 1
        BY <1>1, Zenon DEF Written
  <2> QED
      BY <1>2, <1>3, <2>1, SMT DEF Bytes256, LongestTlv
<1>5. PICK b \in Nat : /\ ReadTlv(der, a + 1) = [ok |-> TRUE, tag |-> 2, len |-> m, at |-> b + 1]
                       /\ LiesAfter(y, der, b)
                       /\ b + m = a + Len(Tlv(2, y))
  <2>1. ElementAt(der, a, 2, y, m)
        BY <1>2, <1>4, Zenon DEF ElementAt
  <2>2. PICK b : ReadTo(der, a, 2, y, m, b)
        BY <2>1, TlvReads, Zenon
  <2> QED
      BY <2>2, Zenon DEF ReadTo
<1>6. Known(y, m)
    BY <1>2, Zenon DEF Known
<1>7. \A i \in 1..m : der[b + i] = y[i]
  <2>1. LiesAfter(y, der, b)
        BY <1>5
  <2> QED
      BY <2>1, <1>6, LiesPlaces
<1>8. 1 \in 1..m /\ k \in 0..m
    BY <1>2, <1>3
<1>9. der[b + 1] = y[1]
    BY <1>7, <1>8, Zenon
<1>10. ReadDerInteger(der, a + 1) =
           [ok |-> TRUE, bytes |-> SubSeq(der, (b + 1) + k, (b + 1) + m - 1), at |-> (b + 1) + m]
  <2>1. /\ k = IF der[b + 1] = 0 THEN 1 ELSE 0
        /\ m # 0 /\ ~(der[b + 1] >= 128) /\ m # k
        BY <1>1, <1>9, Zenon DEF Written
  <2> QED
      BY <1>5, <2>1, IntegerOf, Zenon
<1>11. LiesAfter(x, der, b + k)
  <2>1. LiesAfter(y, der, b)
        BY <1>5
  <2>2. b + m <= Len(der)
        BY <1>2, <2>1, Zenon DEF LiesAfter
  <2>3. (b + k) + n <= Len(der)
    <3>1. (b + k) + n = b + m
          BY <1>4, <1>3, <1>2, SMT
    <3> QED
        BY <2>2, <3>1, Zenon
  <2>4. ASSUME NEW i \in 1..n PROVE der[(b + k) + i] = x[i]
    <3>1. PICK j : j = k + i /\ j \in 1..m /\ (b + k) + i = b + j
          BY <1>2, <1>4
    <3>2. y[k + i] = x[i]
          BY <1>1, <1>3, Zenon DEF Written
    <3> QED
        BY <1>7, <3>1, <3>2, Zenon
  <2> QED
      BY <1>3, <2>3, <2>4, Zenon DEF LiesAfter
<1>12. SubSeq(der, (b + k) + 1, (b + k) + n) = x
  <2>1. Known(x, n) /\ b + k \in Nat
        BY <1>2, <1>3 DEF Known
  <2> QED
      BY <1>11, <2>1, LiesCut, Zenon
<1>13. (b + 1) + k = (b + k) + 1 /\ (b + 1) + m - 1 = (b + k) + n /\ (b + 1) + m = (b + m) + 1 /\ b + m \in Nat
    BY <1>2, <1>4
<1> QED
    BY <1>2, <1>5, <1>10, <1>12, <1>13, Zenon

LEMMA TlvBytes ==
    ASSUME NEW tag \in Bytes256, NEW c, NEW n, Known(c, n), n <= LongestTlv
    PROVE  \E z, h : /\ z = Tlv(tag, c) /\ Known(z, h + n) /\ h \in 2..4 /\ h \in Nat
                     /\ \E x : /\ z = x \o c /\ x \in Seq(Bytes256) /\ Len(x) = h /\ Says(x, h, n)
<1>1. c \in Seq(Bytes256) /\ n = Len(c) /\ n \in Nat
    BY Zenon DEF Known
<1>2. PICK h \in Nat : \E x : /\ x = TlvHead(tag, n) /\ x \in Seq(Bytes256) /\ Len(x) = h
                             /\ h \in 2..4 /\ x[1] = tag /\ Says(x, h, n)
    BY <1>1, HeadBytes, Zenon
<1>3. PICK x : /\ x = TlvHead(tag, n) /\ x \in Seq(Bytes256) /\ Len(x) = h
               /\ h \in 2..4 /\ x[1] = tag /\ Says(x, h, n)
    BY <1>2, Zenon
<1>4. Tlv(tag, c) = x \o c /\ Tlv(tag, c) \in Seq(Bytes256) /\ Len(Tlv(tag, c)) = h + n
    BY <1>1, <1>3, TlvParts, Zenon
<1>5. h + n \in Nat
    BY <1>1
<1> QED
    BY <1>3, <1>4, <1>5, Zenon DEF Known

(* An element cut short is refused: its length reaches past the end.  *)
LEMMA CutRefused ==
    ASSUME NEW tag \in Bytes256, NEW c, NEW n, Known(c, n), n <= LongestTlv,
           NEW w, NEW l, Known(w, l), l < Len(Tlv(tag, c)), \A i \in 1..l : w[i] = Tlv(tag, c)[i]
    PROVE  ReadTlv(w, 1) = NoTlv
<1>1. n \in Nat /\ l \in Nat /\ Len(w) = l /\ w \in Seq(Bytes256) /\ c \in Seq(Bytes256)
    BY Zenon DEF Known
<1>2. PICK z, h : /\ z = Tlv(tag, c) /\ Known(z, h + n) /\ h \in 2..4 /\ h \in Nat
                  /\ \E x : /\ z = x \o c /\ x \in Seq(Bytes256) /\ Len(x) = h /\ Says(x, h, n)
    BY TlvBytes, Zenon
<1>3. PICK x : z = x \o c /\ x \in Seq(Bytes256) /\ Len(x) = h /\ Says(x, h, n)
    BY <1>2, Zenon
<1>4. l < h + n
    BY <1>2, Zenon DEF Known
<1>5. \A i \in 1..h : z[i] = x[i]
    BY <1>1, <1>3, ConcatPlaces
<1>6. \A i \in 1..l : w[i] = z[i]
    BY <1>2, Zenon
<1>7. \A i \in 1..4 : i <= l /\ i <= h => w[i] = x[i]
  <2> TAKE i \in 1..4
  <2> HAVE i <= l /\ i <= h
  <2>1. i \in 1..l /\ i \in 1..h
        BY <1>1, <1>2
  <2> QED
      BY <2>1, <1>5, <1>6, Zenon
<1>8. PICK lb, nb, len, data, at :
           /\ at = 1 /\ lb = w[2] /\ at + 1 = 2
           /\ nb = IF lb < 128 THEN 0 ELSE lb - 128
           /\ len = IF lb < 128 THEN lb ELSE NumberIn(w, 3, nb)
           /\ data = 3 + nb
    OBVIOUS
<1>9. Fields(w, at, lb, nb, len, data)
  <2>1. at + 2 = 3
        BY <1>8
  <2> QED
      BY <1>8, <2>1, Zenon DEF Fields
<1>10. ReadTlv(w, at) = TlvIf(Len(w), at, w[at], lb, nb, len, data)
    BY <1>9, TlvOf, Zenon
<1>11. Refused(l, at, lb, nb, len, data)
  <2>1. CASE l < 2
    <3>1. at + 1 > l
          BY <1>1, <1>8, <2>1
    <3> QED
        BY <3>1, Zenon DEF Refused
  <2>2. CASE ~(l < 2)
    <3>1. lb = x[2]
      <4>1. 2 \in 1..4 /\ 2 <= l /\ 2 <= h
            BY <1>1, <1>2, <2>2
      <4> QED
          BY <4>1, <1>7, <1>8, Zenon
    <3>2. CASE h = 2 /\ Short(n) /\ x[2] = n
      <4>1. Short(lb) /\ lb = n
            BY <3>1, <3>2, Zenon
      <4>2. lb < 128
            BY <4>1, Zenon DEF Short
      <4>3. nb = 0 /\ len = n
            BY <1>8, <4>1, <4>2, Zenon
      <4>4. data + len - 1 > l
            BY <1>1, <1>4, <1>8, <3>2, <4>3
      <4> QED
          BY <4>4, Zenon DEF Refused
    <3>3. CASE h = 3 /\ Middle(n) /\ x[2] = OneMore /\ x[3] = n
      <4>1. lb = OneMore
            BY <3>1, <3>3, Zenon
      <4>2. nb = 1 /\ ~(lb < 128)
            BY <1>8, <4>1 DEF OneMore
      <4>3. CASE l < 3
        <5>1. data - 1 > l
              BY <1>1, <1>8, <4>2, <4>3
        <5> QED
            BY <5>1, Zenon DEF Refused
      <4>4. CASE ~(l < 3)
        <5>1. 3 \in 1..4 /\ 3 <= l /\ 3 <= h /\ 3 \in Nat
              BY <1>1, <3>3, <4>4
        <5>2. w[3] = n /\ w[3] \in Nat
              BY <1>1, <1>7, <3>3, <5>1, Zenon
        <5>3. len = NumberIn(w, 3, 1)
              BY <1>8, <4>2, Zenon
        <5>4. len = n
              BY <5>1, <5>2, <5>3, NumbersIn, Zenon
        <5>5. data + len - 1 > l
              BY <1>1, <1>4, <1>8, <3>3, <4>2, <5>4
        <5> QED
            BY <5>5, Zenon DEF Refused
      <4> QED
          BY <4>3, <4>4, Zenon
    <3>4. CASE h = 4 /\ Long(n) /\ x[2] = TwoMore /\ x[3] \in Nat /\ x[4] \in Nat /\ x[3] * 256 + x[4] = n
      <4>1. lb = TwoMore
            BY <3>1, <3>4, Zenon
      <4>2. nb = 2 /\ ~(lb < 128)
            BY <1>8, <4>1 DEF TwoMore
      <4>3. CASE l < 4
        <5>1. data - 1 > l
              BY <1>1, <1>8, <4>2, <4>3
        <5> QED
            BY <5>1, Zenon DEF Refused
      <4>4. CASE ~(l < 4)
        <5>1. /\ 3 \in 1..4 /\ 3 <= l /\ 3 <= h /\ 3 \in Nat
              /\ 4 \in 1..4 /\ 4 <= l /\ 4 <= h /\ 3 + 1 = 4
              BY <1>1, <3>4, <4>4
        <5>2. w[3] = x[3] /\ w[3 + 1] = x[4] /\ w[3] \in Nat /\ w[3 + 1] \in Nat
              BY <1>7, <3>4, <5>1, Zenon
        <5>3. len = NumberIn(w, 3, 2)
              BY <1>8, <4>2, Zenon
        <5>4. len = w[3] * 256 + w[3 + 1]
              BY <5>1, <5>2, <5>3, NumbersIn, Zenon
        <5>5. len = n
              BY <3>4, <5>2, <5>4, Zenon
        <5>6. data = 5 /\ len = n /\ n = h + n - 4
          <6>1. h = 4
                BY <3>4, Zenon
          <6>2. data = 3 + nb /\ nb = 2
                BY <1>8, <4>2, Zenon
          <6> QED
              BY <1>1, <5>5, <6>1, <6>2
        <5>7. h = 4
              BY <3>4, Zenon
        <5>8. data + len - 1 > l
              BY <1>1, <1>4, <5>6, <5>7
        <5> QED
            BY <5>8, Zenon DEF Refused
      <4> QED
          BY <4>3, <4>4, Zenon
    <3> QED
        BY <1>3, <3>2, <3>3, <3>4, Zenon DEF Says
  <2> QED
      BY <2>1, <2>2, Zenon
<1> QED
    BY <1>1, <1>8, <1>10, <1>11, Zenon DEF TlvIf

(* A number's element is its bytes and at most five more.  *)
LEMMA IntegerBytes ==
    ASSUME NEW x, x \in Seq(Bytes256), x # <<>>, x[1] # 0, Len(x) < LongestTlv
    PROVE  DerInteger(x) \in Seq(Bytes256) /\ Len(DerInteger(x)) \in Nat /\ Len(DerInteger(x)) <= Len(x) + 5
<1>1. PICK y, m, k : Written(x, y, m, k)
    BY NumberWritten, Zenon
<1>2. PICK n \in Nat : n = Len(x)
    OBVIOUS
<1>3. Known(y, m) /\ DerInteger(x) = Tlv(2, y) /\ m \in Nat /\ k \in Nat /\ k <= 1 /\ m = k + n
    BY <1>1, <1>2, Zenon DEF Written, Known
<1>4. m <= LongestTlv /\ 2 \in Bytes256
    BY <1>2, <1>3, SMT DEF Bytes256, LongestTlv
<1>5. PICK z, h : z = Tlv(2, y) /\ Known(z, h + m) /\ h \in 2..4 /\ h \in Nat
    BY <1>3, <1>4, TlvBytes, Zenon
<1>6. z \in Seq(Bytes256) /\ Len(z) = h + m /\ h + m \in Nat
    BY <1>5, Zenon DEF Known
<1>7. h + m <= n + 5
    BY <1>3, <1>5
<1> QED
    BY <1>2, <1>3, <1>5, <1>6, <1>7, Zenon

(* The outer elements of a key read from der, w being what is in the bits. *)
OuterRead(der, w) ==
    \E p, q, r, s, m, k :
        /\ ReadTlv(der, 1) = [ok |-> TRUE, tag |-> 48, len |-> q, at |-> p]
        /\ ReadTlv(der, p) = [ok |-> TRUE, tag |-> 48, len |-> m, at |-> r]
        /\ ReadTlv(der, r + m) = [ok |-> TRUE, tag |-> 3, len |-> k, at |-> s]
        /\ k > 0 /\ der[s] = 0 /\ SubSeq(der, s + 1, s + k - 1) = w

(* What ParseSpki does with what is in the bits.  *)
InnerKey(rsa) ==
    LET seq == ReadTlv(rsa, 1)
        n   == ReadDerInteger(rsa, seq.at)
        e   == ReadDerInteger(rsa, n.at)
    IN  IF seq.ok /\ seq.tag = 48 /\ n.ok /\ e.ok
        THEN [ok |-> TRUE, n |-> n.bytes, e |-> e.bytes] ELSE NoPublicKey

LEMMA OuterParses ==
    ASSUME NEW der, NEW w, OuterRead(der, w)
    PROVE  ParseSpki(der) = InnerKey(w)
<1> DEFINE spki  == ReadTlv(der, 1)
           algId == ReadTlv(der, spki.at)
           bits  == ReadTlv(der, algId.at + algId.len)
           rsa   == SubSeq(der, bits.at + 1, bits.at + bits.len - 1)
           seq   == ReadTlv(rsa, 1)
           n     == ReadDerInteger(rsa, seq.at)
           e     == ReadDerInteger(rsa, n.at)
<1>1. ParseSpki(der) =
          IF /\ spki.ok /\ spki.tag = 48
             /\ algId.ok /\ algId.tag = 48
             /\ bits.ok /\ bits.tag = 3 /\ bits.len > 0 /\ der[bits.at] = 0
             /\ seq.ok /\ seq.tag = 48
             /\ n.ok /\ e.ok
          THEN [ok |-> TRUE, n |-> n.bytes, e |-> e.bytes] ELSE NoPublicKey
    BY Zenon DEF ParseSpki
<1>2. PICK p, q, r, s, m, k :
        /\ ReadTlv(der, 1) = [ok |-> TRUE, tag |-> 48, len |-> q, at |-> p]
        /\ ReadTlv(der, p) = [ok |-> TRUE, tag |-> 48, len |-> m, at |-> r]
        /\ ReadTlv(der, r + m) = [ok |-> TRUE, tag |-> 3, len |-> k, at |-> s]
        /\ k > 0 /\ der[s] = 0 /\ SubSeq(der, s + 1, s + k - 1) = w
    BY Zenon DEF OuterRead
<1>3. spki.ok /\ spki.tag = 48 /\ spki.at = p
    BY <1>2
<1>4. algId.ok /\ algId.tag = 48 /\ algId.at = r /\ algId.len = m
  <2>1. algId = ReadTlv(der, p)
        BY <1>3, Zenon
  <2> HIDE DEF algId
  <2> QED
      BY <1>2, <2>1
<1>5. bits.ok /\ bits.tag = 3 /\ bits.len = k /\ bits.at = s
  <2>1. bits = ReadTlv(der, r + m)
        BY <1>4, Zenon
  <2> HIDE DEF bits
  <2> QED
      BY <1>2, <2>1
<1>6. bits.len > 0 /\ der[bits.at] = 0 /\ rsa = w
    BY <1>2, <1>5, Zenon
<1>7. InnerKey(w) = IF seq.ok /\ seq.tag = 48 /\ n.ok /\ e.ok
                    THEN [ok |-> TRUE, n |-> n.bytes, e |-> e.bytes] ELSE NoPublicKey
  <2>1. InnerKey(rsa) = IF seq.ok /\ seq.tag = 48 /\ n.ok /\ e.ok
                        THEN [ok |-> TRUE, n |-> n.bytes, e |-> e.bytes] ELSE NoPublicKey
        BY Zenon DEF InnerKey
  <2> QED
      BY <1>6, <2>1, Zenon
<1> HIDE DEF spki, algId, bits, rsa, seq, n, e
<1>8. CASE seq.ok /\ seq.tag = 48 /\ n.ok /\ e.ok
  <2>1. InnerKey(w) = [ok |-> TRUE, n |-> n.bytes, e |-> e.bytes]
        BY <1>7, <1>8, Zenon
  <2>2. ParseSpki(der) = [ok |-> TRUE, n |-> n.bytes, e |-> e.bytes]
        BY <1>1, <1>3, <1>4, <1>5, <1>6, <1>8, Zenon
  <2> QED
      BY <2>1, <2>2, Zenon
<1>9. CASE ~(seq.ok /\ seq.tag = 48 /\ n.ok /\ e.ok)
  <2>1. InnerKey(w) = NoPublicKey
        BY <1>7, <1>9, Zenon
  <2>2. ParseSpki(der) = NoPublicKey
        BY <1>1, <1>9, Zenon
  <2> QED
      BY <2>1, <2>2, Zenon
<1> QED
    BY <1>8, <1>9, Zenon

LEMMA InnerCut ==
    ASSUME NEW w, ReadTlv(w, 1) = NoTlv
    PROVE  InnerKey(w) = NoPublicKey
<1>1. ~ReadTlv(w, 1).ok
    BY DEF NoTlv
<1> QED
    BY <1>1, Zenon DEF InnerKey

LEMMA InnerReads ==
    ASSUME NEW w, NEW n, NEW e, NEW p, NEW q, NEW r, NEW s,
           ReadTlv(w, 1) = [ok |-> TRUE, tag |-> 48, len |-> q, at |-> p],
           ReadDerInteger(w, p) = [ok |-> TRUE, bytes |-> n, at |-> r],
           ReadDerInteger(w, r) = [ok |-> TRUE, bytes |-> e, at |-> s]
    PROVE  InnerKey(w) = [ok |-> TRUE, n |-> n, e |-> e]
<1> DEFINE seq == ReadTlv(w, 1)
           nn  == ReadDerInteger(w, seq.at)
           ee  == ReadDerInteger(w, nn.at)
<1>1. InnerKey(w) = IF seq.ok /\ seq.tag = 48 /\ nn.ok /\ ee.ok
                    THEN [ok |-> TRUE, n |-> nn.bytes, e |-> ee.bytes] ELSE NoPublicKey
    BY Zenon DEF InnerKey
<1>2. seq.ok /\ seq.tag = 48 /\ seq.at = p
    OBVIOUS
<1>3. nn.ok /\ nn.bytes = n /\ nn.at = r
  <2>1. nn = ReadDerInteger(w, p)
        BY <1>2, Zenon
  <2> HIDE DEF nn
  <2> QED
      BY <2>1
<1>4. ee.ok /\ ee.bytes = e
  <2>1. ee = ReadDerInteger(w, r)
        BY <1>3, Zenon
  <2> HIDE DEF ee
  <2> QED
      BY <2>1
<1> HIDE DEF seq, nn, ee
<1> QED
    BY <1>1, <1>2, <1>3, <1>4, Zenon

(* Two sequences of bytes joined.  *)
LEMMA KnownJoin ==
    ASSUME NEW x, NEW a, Known(x, a), NEW y, NEW b, Known(y, b)
    PROVE  Known(x \o y, a + b)
<1>1. x \in Seq(Bytes256) /\ y \in Seq(Bytes256) /\ Len(x) = a /\ Len(y) = b /\ a \in Nat /\ b \in Nat
    BY Zenon DEF Known
<1>2. x \o y \in Seq(Bytes256) /\ Len(x \o y) = Len(x) + Len(y)
    BY <1>1, JoinedLength, Zenon
<1>3. a + b \in Nat
    BY <1>1
<1> QED
    BY <1>1, <1>2, <1>3, Zenon DEF Known

(* An element known by its length.  *)
LEMMA KnownTlv ==
    ASSUME NEW tag \in Bytes256, NEW c, NEW n, Known(c, n), n <= LongestTlv
    PROVE  \E l \in Nat : Known(Tlv(tag, c), l) /\ l <= n + 4 /\ l > n
<1>1. PICK z, h : z = Tlv(tag, c) /\ Known(z, h + n) /\ h \in 2..4 /\ h \in Nat
    BY TlvBytes, Zenon
<1>2. n \in Nat
    BY Zenon DEF Known
<1>3. h + n \in Nat /\ h + n <= n + 4 /\ h + n > n
    BY <1>1, <1>2
<1> QED
    BY <1>1, <1>3, Zenon

(* The outer elements of a key, whatever is in the bits.  *)
OuterLimit == 65400
OuterDer(alg, w) == Tlv(48, Tlv(48, alg) \o Tlv(3, ZeroByte \o w))

LEMMA OuterReads ==
    ASSUME NEW alg, NEW m, Known(alg, m), NEW w, NEW n, Known(w, n), m + n <= OuterLimit
    PROVE  OuterDer(alg, w) \in Seq(Bytes256) /\ OuterRead(OuterDer(alg, w), w)
<1>1. m \in Nat /\ n \in Nat /\ m <= LongestTlv /\ 1 + n <= LongestTlv /\ 1 + n \in Nat
  <2>1. m \in Nat /\ n \in Nat
        BY Zenon DEF Known
  <2> QED
      BY <2>1, SMT DEF LongestTlv, OuterLimit
<1>2. 48 \in Bytes256 /\ 3 \in Bytes256
    BY DEF Bytes256
<1>3. Known(ZeroByte, 1) /\ ZeroByte[1] = 0
    BY DEF Known, ZeroByte, Bytes256
<1>4. PICK v : v = ZeroByte \o w /\ Known(v, 1 + n)
    BY <1>3, KnownJoin, Zenon
<1>5. PICK x, lx : lx \in Nat /\ x = Tlv(48, alg) /\ Known(x, lx) /\ lx <= m + 4 /\ lx > m
    BY <1>1, <1>2, KnownTlv, Zenon
<1>6. PICK y, ly : ly \in Nat /\ y = Tlv(3, v) /\ Known(y, ly) /\ ly <= (1 + n) + 4 /\ ly > 1 + n
    BY <1>1, <1>2, <1>4, KnownTlv, Zenon
<1>7. PICK u : u = x \o y /\ Known(u, lx + ly)
    BY <1>5, <1>6, KnownJoin, Zenon
<1>8. lx + ly <= LongestTlv /\ lx + ly \in Nat
    BY <1>1, <1>5, <1>6, SMT DEF LongestTlv, OuterLimit
<1>9. PICK der, ld : ld \in Nat /\ der = Tlv(48, u) /\ Known(der, ld)
    BY <1>2, <1>7, <1>8, KnownTlv, Zenon
<1>10. der = OuterDer(alg, w)
    BY <1>4, <1>5, <1>6, <1>7, <1>9, Zenon DEF OuterDer
<1>11. /\ der \in Seq(Bytes256) /\ u \in Seq(Bytes256) /\ x \in Seq(Bytes256) /\ y \in Seq(Bytes256)
       /\ v \in Seq(Bytes256) /\ w \in Seq(Bytes256) /\ alg \in Seq(Bytes256) /\ ZeroByte \in Seq(Bytes256)
       /\ Len(u) = lx + ly /\ Len(x) = lx /\ Len(v) = 1 + n /\ Len(alg) = m /\ Len(ZeroByte) = 1
    BY <1>3, <1>4, <1>5, <1>6, <1>7, <1>9, Zenon DEF Known
<1>12. PICK p : ReadTo(der, 0, 48, u, lx + ly, p)
  <2>1. LiesAfter(Tlv(48, u), der, 0)
        BY <1>9, <1>11, LiesWhole, Zenon
  <2>2. 0 \in Nat
        OBVIOUS
  <2>3. ElementAt(der, 0, 48, u, lx + ly)
        BY <1>2, <1>8, <1>11, <2>1, <2>2, Zenon DEF ElementAt
  <2> QED
      BY <2>3, TlvReads, Zenon
<1>13. /\ p \in Nat /\ ReadTlv(der, 0 + 1) = [ok |-> TRUE, tag |-> 48, len |-> lx + ly, at |-> p + 1]
       /\ LiesAfter(u, der, p)
    BY <1>12, Zenon DEF ReadTo
<1>14. LiesAfter(x, der, p) /\ LiesAfter(y, der, p + lx)
    BY <1>7, <1>11, <1>13, LiesParts, Zenon
<1>15. PICK r : ReadTo(der, p, 48, alg, m, r)
  <2>1. LiesAfter(Tlv(48, alg), der, p)
        BY <1>5, <1>14, Zenon
  <2>2. ElementAt(der, p, 48, alg, m)
        BY <1>1, <1>2, <1>11, <1>13, <2>1, Zenon DEF ElementAt
  <2> QED
      BY <2>2, TlvReads, Zenon
<1>16. /\ r \in Nat /\ ReadTlv(der, p + 1) = [ok |-> TRUE, tag |-> 48, len |-> m, at |-> r + 1]
       /\ r + m = p + lx
    BY <1>5, <1>11, <1>15, Zenon DEF ReadTo
<1>17. r + m \in Nat /\ (r + 1) + m = (r + m) + 1
    BY <1>1, <1>16
<1>18. PICK s : ReadTo(der, r + m, 3, v, 1 + n, s)
  <2>1. LiesAfter(Tlv(3, v), der, r + m)
        BY <1>6, <1>14, <1>16, Zenon
  <2>2. ElementAt(der, r + m, 3, v, 1 + n)
        BY <1>1, <1>2, <1>11, <1>17, <2>1, Zenon DEF ElementAt
  <2> QED
      BY <2>2, TlvReads, Zenon
<1>19. /\ s \in Nat /\ ReadTlv(der, (r + m) + 1) = [ok |-> TRUE, tag |-> 3, len |-> 1 + n, at |-> s + 1]
       /\ LiesAfter(v, der, s)
    BY <1>18, Zenon DEF ReadTo
<1>20. LiesAfter(ZeroByte, der, s) /\ LiesAfter(w, der, s + 1)
    BY <1>4, <1>11, <1>19, LiesParts, Zenon
<1>21. der[s + 1] = 0
  <2>1. \A i \in 1..1 : der[s + i] = ZeroByte[i]
        BY <1>3, <1>20, LiesPlaces
  <2>2. 1 \in 1..1
        OBVIOUS
  <2> QED
      BY <1>3, <2>1, <2>2, Zenon
<1>22. SubSeq(der, (s + 1) + 1, (s + 1) + n) = w
  <2>1. s + 1 \in Nat
        BY <1>19
  <2> QED
      BY <1>11, <1>20, <2>1, LiesCut, Zenon
<1>23. (s + 1) + (1 + n) - 1 = (s + 1) + n /\ 1 + n > 0 /\ 0 + 1 = 1
    BY <1>1, <1>19
<1>24. OuterRead(der, w)
  <2>1. /\ ReadTlv(der, 1) = [ok |-> TRUE, tag |-> 48, len |-> lx + ly, at |-> p + 1]
        /\ ReadTlv(der, (r + 1) + m) = [ok |-> TRUE, tag |-> 3, len |-> 1 + n, at |-> s + 1]
        /\ SubSeq(der, (s + 1) + 1, (s + 1) + (1 + n) - 1) = w
        BY <1>13, <1>17, <1>19, <1>22, <1>23, Zenon
  <2> QED
      BY <1>16, <1>21, <1>23, <2>1, Zenon DEF OuterRead
<1> QED
    BY <1>10, <1>11, <1>24, Zenon

(* A number of a key, in as many bytes as a key may have.  *)
IsNumber(x, m) == Known(x, m) /\ x # <<>> /\ x[1] # 0 /\ m <= KeyLimit

LEMMA KnownInteger ==
    ASSUME NEW x, NEW m, IsNumber(x, m)
    PROVE  \E l \in Nat : Known(DerInteger(x), l) /\ l <= m + 5
<1>1. x \in Seq(Bytes256) /\ x # <<>> /\ x[1] # 0 /\ Len(x) = m /\ m \in Nat /\ m <= KeyLimit
    BY Zenon DEF IsNumber, Known
<1>2. Len(x) < LongestTlv
    BY <1>1, SMT DEF KeyLimit, LongestTlv
<1>3. DerInteger(x) \in Seq(Bytes256) /\ Len(DerInteger(x)) \in Nat /\ Len(DerInteger(x)) <= m + 5
    BY <1>1, <1>2, IntegerBytes, Zenon
<1> QED
    BY <1>3, Zenon DEF Known

LEMMA IntegerLies ==
    ASSUME NEW x, NEW m, IsNumber(x, m), NEW l, Known(DerInteger(x), l),
           NEW der, der \in Seq(Bytes256), NEW a \in Nat, LiesAfter(DerInteger(x), der, a)
    PROVE  ReadDerInteger(der, a + 1) = [ok |-> TRUE, bytes |-> x, at |-> (a + l) + 1]
<1>1. x \in Seq(Bytes256) /\ x # <<>> /\ x[1] # 0 /\ Len(x) = m /\ m \in Nat /\ m <= KeyLimit
    BY Zenon DEF IsNumber, Known
<1>2. Len(x) < LongestTlv
    BY <1>1, SMT DEF KeyLimit, LongestTlv
<1>3. Len(DerInteger(x)) = l
    BY Zenon DEF Known
<1>4. PICK b \in Nat : /\ b = a + Len(DerInteger(x))
                       /\ ReadDerInteger(der, a + 1) = [ok |-> TRUE, bytes |-> x, at |-> b + 1]
  <2>1. x \in Seq(Bytes256) /\ x # <<>> /\ x[1] # 0
        BY <1>1, Zenon
  <2> QED
      BY <1>2, <2>1, IntegerReads, Zenon
<1> QED
    BY <1>3, <1>4, Zenon

(* What a cut key gives, and a whole one.  *)
KeyRead(key, n, e, cut) == key = IF cut > 0 THEN NoPublicKey ELSE [ok |-> TRUE, n |-> n, e |-> e]

LEMMA BytesLength ==
    ASSUME NEW x, x \in Seq(Bytes256)
    PROVE  Len(x) \in Nat
OBVIOUS

(* The inner sequence of a key, whole.  *)
InnerDer(n, e) == Tlv(48, DerInteger(n) \o DerInteger(e))

LEMMA InnerWhole ==
    ASSUME NEW n, NEW ln, IsNumber(n, ln), NEW e, NEW le, IsNumber(e, le), ln + le <= KeyLimit
    PROVE  \E l \in Nat : \E c, m :
               /\ Known(c, m) /\ m <= LongestTlv /\ InnerDer(n, e) = Tlv(48, c)
               /\ Known(InnerDer(n, e), l) /\ l <= ln + le + 14
               /\ InnerKey(InnerDer(n, e)) = [ok |-> TRUE, n |-> n, e |-> e]
<1>1. ln \in Nat /\ le \in Nat /\ 48 \in Bytes256
  <2>1. 48 \in Bytes256
        BY DEF Bytes256
  <2> QED
      BY <2>1, Zenon DEF IsNumber, Known
<1>2. PICK x, lx : lx \in Nat /\ x = DerInteger(n) /\ Known(x, lx) /\ lx <= ln + 5
    BY KnownInteger, Zenon
<1>3. PICK y, ly : ly \in Nat /\ y = DerInteger(e) /\ Known(y, ly) /\ ly <= le + 5
    BY KnownInteger, Zenon
<1>4. PICK c : c = x \o y /\ Known(c, lx + ly)
    BY <1>2, <1>3, KnownJoin, Zenon
<1>5. lx + ly <= LongestTlv /\ lx + ly \in Nat
    BY <1>1, <1>2, <1>3, SMT DEF KeyLimit, LongestTlv
<1>6. PICK w, l : w = Tlv(48, c) /\ l \in Nat /\ Known(w, l) /\ l <= (lx + ly) + 4
    BY <1>1, <1>4, <1>5, KnownTlv, Zenon
<1>7. l <= ln + le + 14
    BY <1>1, <1>2, <1>3, <1>6
<1>8. w = InnerDer(n, e)
    BY <1>2, <1>3, <1>4, <1>6, Zenon DEF InnerDer
<1>9. /\ w \in Seq(Bytes256) /\ c \in Seq(Bytes256) /\ x \in Seq(Bytes256) /\ y \in Seq(Bytes256)
      /\ Len(c) = lx + ly /\ Len(x) = lx
    BY <1>2, <1>3, <1>4, <1>6, Zenon DEF Known
<1>10. PICK p : ReadTo(w, 0, 48, c, lx + ly, p)
  <2>1. LiesAfter(Tlv(48, c), w, 0)
        BY <1>6, <1>9, LiesWhole, Zenon
  <2>2. 0 \in Nat
        OBVIOUS
  <2>3. ElementAt(w, 0, 48, c, lx + ly)
        BY <1>1, <1>5, <1>9, <2>1, <2>2, Zenon DEF ElementAt
  <2> QED
      BY <2>3, TlvReads, Zenon
<1>11. /\ p \in Nat /\ ReadTlv(w, 0 + 1) = [ok |-> TRUE, tag |-> 48, len |-> lx + ly, at |-> p + 1]
       /\ LiesAfter(c, w, p)
    BY <1>10, Zenon DEF ReadTo
<1>12. LiesAfter(x, w, p) /\ LiesAfter(y, w, p + lx)
    BY <1>4, <1>9, <1>11, LiesParts, Zenon
<1>13. ReadDerInteger(w, p + 1) = [ok |-> TRUE, bytes |-> n, at |-> (p + lx) + 1]
    BY <1>2, <1>9, <1>11, <1>12, IntegerLies, Zenon
<1>14. ReadDerInteger(w, (p + lx) + 1) = [ok |-> TRUE, bytes |-> e, at |-> ((p + lx) + ly) + 1]
  <2>1. p + lx \in Nat
        BY <1>2, <1>11
  <2> QED
      BY <2>1, <1>3, <1>9, <1>12, IntegerLies, Zenon
<1>15. InnerKey(w) = [ok |-> TRUE, n |-> n, e |-> e]
  <2>1. 0 + 1 = 1
        OBVIOUS
  <2>2. ReadTlv(w, 1) = [ok |-> TRUE, tag |-> 48, len |-> lx + ly, at |-> p + 1]
        BY <1>11, <2>1, Zenon
  <2> QED
      BY <1>13, <1>14, <2>2, InnerReads, Zenon
<1> QED
    BY <1>4, <1>5, <1>6, <1>7, <1>8, <1>15, Zenon

(* What is in the bits of a key: the inner sequence, whole or cut.  *)
LEMMA BitsKey ==
    ASSUME NEW n, NEW ln, IsNumber(n, ln), NEW e, NEW le, IsNumber(e, le), ln + le <= KeyLimit,
           NEW cut \in Nat, NEW w, w = SubSeq(InnerDer(n, e), 1, Len(InnerDer(n, e)) - cut)
    PROVE  /\ \E l \in Nat : Known(w, l) /\ l <= ln + le + 14
           /\ KeyRead(InnerKey(w), n, e, cut)
<1>1. PICK l, c, m : /\ l \in Nat /\ Known(c, m) /\ m <= LongestTlv /\ InnerDer(n, e) = Tlv(48, c)
                     /\ Known(InnerDer(n, e), l) /\ l <= ln + le + 14
                     /\ InnerKey(InnerDer(n, e)) = [ok |-> TRUE, n |-> n, e |-> e]
    BY InnerWhole, Zenon
<1>2. PICK x : x = InnerDer(n, e) /\ x \in Seq(Bytes256) /\ Len(x) = l
    BY <1>1, Zenon DEF Known
<1>3. w = SubSeq(x, 1, l - cut)
    BY <1>2, Zenon
<1>4. ln \in Nat /\ le \in Nat /\ 48 \in Bytes256
  <2>1. 48 \in Bytes256
        BY DEF Bytes256
  <2> QED
      BY <2>1, Zenon DEF IsNumber, Known
<1>5. CASE cut = 0
  <2>1. w = x
    <3>1. SubSeq(x, 1, l) = x
          BY <1>2
    <3>2. l - cut = l
          BY <1>1, <1>5
    <3> QED
        BY <1>3, <3>1, <3>2, Zenon
  <2>2. ~(cut > 0)
        BY <1>5
  <2> QED
      BY <1>1, <1>2, <2>1, <2>2, Zenon DEF KeyRead
<1>6. CASE cut # 0
  <2>1. PICK k : /\ k \in Nat /\ k < l /\ Len(w) = k /\ w \in Seq(Bytes256)
                 /\ \A i \in 1..k : w[i] = x[i]
    <3>1. CASE cut <= l
      <4>1. l - cut \in Nat /\ l - cut < l /\ l - cut \in 0..l
            BY <1>1, <1>6, <3>1
      <4>2. /\ Len(w) = l - cut /\ w \in Seq(Bytes256)
            /\ \A i \in 1..(l - cut) : w[i] = x[i]
            BY <1>2, <1>3, <4>1
      <4> QED
          BY <4>1, <4>2, Zenon
    <3>2. CASE cut > l
      <4>1. w = <<>>
            BY <1>1, <1>2, <1>3, <3>2
      <4>2. 0 < l
        <5>1. l > m
          <6>1. PICK h \in Nat : Known(Tlv(48, c), h) /\ h <= m + 4 /\ h > m
                BY <1>1, <1>4, KnownTlv, Zenon
          <6>2. h = l
                BY <1>1, <6>1, Zenon DEF Known
          <6> QED
              BY <6>1, <6>2, Zenon
        <5>2. m \in Nat
              BY <1>1, Zenon DEF Known
        <5> QED
            BY <1>1, <5>1, <5>2
      <4>3. 0 \in Nat /\ \A i \in 1..0 : w[i] = x[i]
            OBVIOUS
      <4>4. Len(<<>>) = 0 /\ <<>> \in Seq(Bytes256)
            OBVIOUS
      <4>5. Len(w) = 0 /\ w \in Seq(Bytes256)
            BY <4>1, <4>4, Zenon
      <4> QED
          BY <4>2, <4>3, <4>5, Zenon
    <3>3. l \in Nat
          BY <1>1, Zenon
    <3>4. cut <= l \/ cut > l
          BY <3>3
    <3> QED
        BY <3>1, <3>2, <3>4, Zenon
  <2>2. Known(w, k)
        BY <2>1, Zenon DEF Known
  <2>3. ReadTlv(w, 1) = NoTlv
    <3>1. k < Len(Tlv(48, c)) /\ \A i \in 1..k : w[i] = Tlv(48, c)[i]
          BY <1>1, <1>2, <2>1, Zenon
    <3>2. Known(c, m) /\ m <= LongestTlv /\ 48 \in Bytes256
          BY <1>1, <1>4, Zenon
    <3> QED
        BY <2>2, <3>1, <3>2, CutRefused
  <2>4. InnerKey(w) = NoPublicKey
        BY <2>3, InnerCut, Zenon
  <2>5. cut > 0 /\ k <= ln + le + 14
        BY <1>1, <1>4, <1>6, <2>1
  <2> QED
      BY <2>1, <2>2, <2>4, <2>5, Zenon DEF KeyRead
<1> QED
    BY <1>5, <1>6, Zenon

(* A key is what is read from its PEM.  *)
LEMMA KeyParses ==
    ASSUME NEW n, NEW ln, IsNumber(n, ln), NEW e, NEW le, IsNumber(e, le), NEW alg, NEW la, Known(alg, la),
           ln + le + la <= KeyLimit, NEW cut \in Nat
    PROVE  KeyRead(ParseSpkiPem(Pem(SpkiDer(n, e, alg, cut))), n, e, cut)
<1>1. ln \in Nat /\ le \in Nat /\ la \in Nat
    BY Zenon DEF IsNumber, Known
<1>2. ln + le <= KeyLimit
    BY <1>1, SMT DEF KeyLimit
<1>3. PICK w : w = SubSeq(InnerDer(n, e), 1, Len(InnerDer(n, e)) - cut)
    OBVIOUS
<1>4. PICK l : l \in Nat /\ Known(w, l) /\ l <= ln + le + 14
  <2>1. \E l \in Nat : Known(w, l) /\ l <= ln + le + 14
        BY <1>2, <1>3, BitsKey
  <2> QED
      BY <2>1, Zenon
<1>5. KeyRead(InnerKey(w), n, e, cut)
    BY <1>2, <1>3, BitsKey
<1>6. la + l <= OuterLimit
    BY <1>1, <1>4, SMT DEF KeyLimit, OuterLimit
<1>7. PICK der : der = OuterDer(alg, w) /\ der \in Seq(Bytes256) /\ OuterRead(der, w)
    BY <1>4, <1>6, OuterReads, Zenon
<1>8. ParseSpki(der) = InnerKey(w)
    BY <1>7, OuterParses, Zenon
<1>9. der = SpkiDer(n, e, alg, cut)
    BY <1>3, <1>7, Zenon DEF SpkiDer, OuterDer, InnerDer, ZeroByte
<1>10. ParseSpkiPem(Pem(der)) = ParseSpki(der)
  <2>1. /\ Base64Decode(StripPem(Pem(der))).ok
        /\ Base64Decode(StripPem(Pem(der))).out = der
        BY <1>7, PemDecodes, Zenon
  <2> QED
      BY <2>1, Zenon DEF ParseSpkiPem
<1> QED
    BY <1>5, <1>8, <1>9, <1>10, Zenon

(* The key in a PEM is read back, whatever its size; and one whose inner   *)
(* sequence is cut short is refused, wherever it is cut                    *)
(* (rsa_verify.cpp:69-182).                                                *)
THEOREM KeysRoundTrip == Spec => []SpkiRoundTrips
<1>1. Computed => SpkiRoundTrips
  <2> SUFFICES ASSUME Computed, done, job.kind = "spki" PROVE SpkiRoundTrips
      BY DEF SpkiRoundTrips, Answered
  <2>1. /\ job.n \in Seq(Bytes256) /\ job.n # <<>> /\ job.n[1] # 0
        /\ job.e \in Seq(Bytes256) /\ job.e # <<>> /\ job.e[1] # 0
        /\ job.algorithm \in Seq(Bytes256) /\ job.cut \in Nat
        /\ Len(job.n) + Len(job.e) + Len(job.algorithm) <= KeyLimit
    <3>1. IsKey(job)
          BY DEF Computed, JobsAssumed
    <3> QED
        BY <3>1, Zenon DEF IsKey
  <2>2. PICK ln, le, la : /\ ln = Len(job.n) /\ le = Len(job.e) /\ la = Len(job.algorithm)
                        /\ ln \in Nat /\ le \in Nat /\ la \in Nat
        BY <2>1, BytesLength, Zenon
  <2>3. ln <= KeyLimit /\ le <= KeyLimit /\ ln + le + la <= KeyLimit
    <3>1. ln + le + la <= KeyLimit
          BY <2>1, <2>2, Zenon
    <3>2. ln \in Nat /\ le \in Nat /\ la \in Nat
          BY <2>2, Zenon
    <3> QED
        BY <3>1, <3>2, SMT DEF KeyLimit
  <2>4. IsNumber(job.n, ln) /\ IsNumber(job.e, le) /\ Known(job.algorithm, la)
        BY <2>1, <2>2, <2>3, Zenon DEF IsNumber, Known
  <2>5. out = ParseSpkiPem(Pem(SpkiDer(job.n, job.e, job.algorithm, job.cut)))
        BY DEF Computed, Result
  <2>6. out = IF job.cut > 0 THEN NoPublicKey ELSE [ok |-> TRUE, n |-> job.n, e |-> job.e]
    <3>1. job.cut \in Nat
          BY <2>1, Zenon
    <3>2. PICK key : key = ParseSpkiPem(Pem(SpkiDer(job.n, job.e, job.algorithm, job.cut)))
          OBVIOUS
    <3>3. KeyRead(key, job.n, job.e, job.cut)
          BY <2>3, <2>4, <3>1, <3>2, KeyParses
    <3> QED
        BY <2>5, <3>2, <3>3, Zenon DEF KeyRead
  <2>7. ~NoPublicKey.ok
        BY DEF NoPublicKey
  <2> QED
      BY <2>6, <2>7, Zenon DEF SpkiRoundTrips, Answered
<1> QED
    BY <1>1, ComputedHolds, PTL

----------------------------------------------------------------------------
(* JSON.  Each kind of value.  *)
Kinds == {"null", "bool", "number", "double", "string", "array", "object"}

LEMMA ValueKinds ==
    ASSUME NEW v \in Values
    PROVE  /\ v.t \in Kinds
           /\ v.t = "null"   => v = NullValue
           /\ v.t = "bool"   => v = BoolValue(v.b)   /\ v.b \in BOOLEAN
           /\ v.t = "number" => v = IntValue(v.n)    /\ v.n \in Int
           /\ v.t = "double" => v = Double(v.d)      /\ IsDouble(v.d)
           /\ v.t = "string" => v = StringValue(v.s) /\ v.s \in Seq(Bytes256)
           /\ v.t = "array"  => v = ArrayValue(v.a)  /\ v.a \in Seq(Values)
           /\ v.t = "object" => v = ObjectValue(v.o) /\ v.o \in Seq(Seq(Bytes256) \X Values)
<1>1. IsJson(v)
    BY ValuesAssumption, Zenon
<1>2. v = NullValue => v.t = "null"
    BY DEF NullValue
<1> QED
    BY <1>1, <1>2 DEF IsJson, Kinds, Bytes256

LEMMA Deeper ==
    ASSUME NEW v \in Values
    PROVE  /\ Depth[v] \in Nat
           /\ v.t = "array" => \A k \in DOMAIN v.a : v.a[k] \in Values /\ Depth[v.a[k]] < Depth[v]
           /\ v.t = "object" => \A k \in DOMAIN v.o : v.o[k][2] \in Values /\ Depth[v.o[k][2]] < Depth[v]
<1>1. /\ Depth[v] \in Nat
      /\ v.t = "array"  => \A k \in DOMAIN v.a : Depth[v.a[k]] < Depth[v]
      /\ v.t = "object" => \A k \in DOMAIN v.o : Depth[v.o[k][2]] < Depth[v]
    BY ValuesAssumption, Zenon
<1>2. ASSUME v.t = "array", NEW k \in DOMAIN v.a PROVE v.a[k] \in Values
  <2>1. v.a \in Seq(Values)
        BY <1>2, ValueKinds
  <2> QED
      BY <1>2, <2>1
<1>3. ASSUME v.t = "object", NEW k \in DOMAIN v.o PROVE v.o[k][2] \in Values
  <2>1. v.o \in Seq(Seq(Bytes256) \X Values)
        BY <1>3, ValueKinds
  <2>2. v.o[k] \in Seq(Bytes256) \X Values
        BY <1>3, <2>1
  <2> QED
      BY <2>2
<1> QED
    BY <1>1, <1>2, <1>3, Zenon

(* What is written depends on what is written for the values inside.  *)
LEMMA TextDepends ==
    ASSUME NEW v \in Values, NEW f, NEW g, NEW n \in Nat, Depth[v] < n + 1,
           \A w \in Values : Depth[w] < n => f[w] = g[w]
    PROVE  TextOf(v, f) = TextOf(v, g)
<1>0. Depth[v] \in Nat
    BY Deeper, Zenon
<1>1. ASSUME NEW w \in Values, Depth[w] < Depth[v] PROVE f[w] = g[w]
  <2>1. Depth[w] \in Nat
        BY Deeper, Zenon
  <2>2. Depth[w] < n
        BY <1>0, <1>1, <2>1
  <2> QED
      BY <2>2
<1>2. CASE v.t = "array"
  <2>1. \A k \in DOMAIN v.a : f[v.a[k]] = g[v.a[k]]
        BY <1>1, <1>2, Deeper, Zenon
  <2>2. ItemTexts(v, f) = ItemTexts(v, g)
        BY <2>1, Zenon DEF ItemTexts
  <2> QED
      BY <1>2, <2>2 DEF TextOf
<1>3. CASE v.t = "object"
  <2>1. \A k \in DOMAIN v.o : f[v.o[k][2]] = g[v.o[k][2]]
        BY <1>1, <1>3, Deeper, Zenon
  <2>2. PairTexts(v, f) = PairTexts(v, g)
        BY <2>1, Zenon DEF PairTexts
  <2> QED
      BY <1>3, <2>2 DEF TextOf
<1>4. CASE v.t \notin {"array", "object"}
  <2>1. v.t \in {"null", "bool", "number", "double", "string"}
        BY <1>4, ValueKinds DEF Kinds
  <2> QED
      BY <2>1 DEF TextOf
<1> QED
    BY <1>2, <1>3, <1>4

(* Right for the values nested less than n deep; that is one function.  *)
RightTo(f, n) == \A v \in Values : Depth[v] < n => f[v] = TextOf(v, f)

LEMMA RightAgree ==
    ASSUME NEW f, NEW g, NEW n \in Nat, RightTo(f, n), RightTo(g, n)
    PROVE  \A v \in Values : Depth[v] < n => f[v] = g[v]
<1> DEFINE S == {k \in 0..n : \A v \in Values : Depth[v] < k => f[v] = g[v]}
<1>1. 0 \in S
  <2>1. ASSUME NEW v \in Values PROVE ~(Depth[v] < 0)
    <3>1. Depth[v] \in Nat
          BY Deeper, Zenon
    <3> QED
        BY <3>1
  <2>2. 0 \in 0..n
        OBVIOUS
  <2> QED
      BY <2>1, <2>2, Zenon
<1>2. ASSUME NEW k \in 0..(n - 1), k \in S PROVE k + 1 \in S
  <2>1. k + 1 \in 0..n /\ k \in Nat
        OBVIOUS
  <2>2. ASSUME NEW v \in Values, Depth[v] < k + 1 PROVE f[v] = g[v]
    <3>1. Depth[v] \in Nat
          BY Deeper, Zenon
    <3>2. Depth[v] < n
          BY <2>1, <2>2, <3>1
    <3>3. TextOf(v, f) = TextOf(v, g)
          BY <1>2, <2>1, <2>2, TextDepends
    <3> QED
        BY <3>2, <3>3, Zenon DEF RightTo
  <2> QED
      BY <2>1, <2>2, Zenon
<1>3. \A k \in 0..n : k \in S
  <2> HIDE DEF S
  <2> QED
      BY <1>1, <1>2, UpTo, Zenon
<1>4. n \in 0..n
    OBVIOUS
<1> QED
    BY <1>3, <1>4, Zenon

LEMMA RightExists ==
    ASSUME NEW n \in Nat
    PROVE  \E f : RightTo(f, n)
<1> DEFINE S == {k \in 0..n : \E f : RightTo(f, k)}
<1>1. 0 \in S
  <2>1. ASSUME NEW v \in Values PROVE ~(Depth[v] < 0)
    <3>1. Depth[v] \in Nat
          BY Deeper, Zenon
    <3> QED
        BY <3>1
  <2>2. 0 \in 0..n
        OBVIOUS
  <2> QED
      BY <2>1, <2>2, Zenon DEF RightTo
<1>2. ASSUME NEW k \in 0..(n - 1), k \in S PROVE k + 1 \in S
  <2>1. k + 1 \in 0..n /\ k \in Nat
        OBVIOUS
  <2>2. PICK f : RightTo(f, k)
        BY <1>2
  <2>3. PICK g : g = [v \in Values |-> TextOf(v, f)]
        OBVIOUS
  <2>4. \A v \in Values : Depth[v] < k => f[v] = g[v]
        BY <2>2, <2>3, Zenon DEF RightTo
  <2>5. ASSUME NEW v \in Values, Depth[v] < k + 1 PROVE g[v] = TextOf(v, g)
    <3>1. TextOf(v, f) = TextOf(v, g)
          BY <2>1, <2>4, <2>5, TextDepends
    <3> QED
        BY <2>3, <3>1, Zenon
  <2>6. RightTo(g, k + 1)
        BY <2>5, Zenon DEF RightTo
  <2> QED
      BY <2>1, <2>6, Zenon
<1>3. \A k \in 0..n : k \in S
  <2> HIDE DEF S
  <2> QED
      BY <1>1, <1>2, UpTo, Zenon
<1>4. n \in 0..n
    OBVIOUS
<1> QED
    BY <1>3, <1>4, Zenon

(* Dump is one function, right for every value.  *)
LEMMA Dumps ==
    \E text : \A v \in Values : Dump(v) = text[v] /\ text[v] = TextOf(v, text)
<1> DEFINE Eq(f) == f = [v \in Values |-> TextOf(v, f)]
           text == CHOOSE f : Eq(f)
<1>1. ASSUME NEW value PROVE Dump(value) = text[value]
    BY DEF Dump
<1>2. \A f : Eq(f) <=> f = [v \in Values |-> TextOf(v, f)]
    BY Zenon
<1> HIDE DEF Eq
<1> DEFINE right(n) == CHOOSE f : RightTo(f, n)
           all == [v \in Values |-> right(Depth[v] + 1)[v]]
<1>3. \A v \in Values : Depth[v] \in Nat /\ Depth[v] + 1 \in Nat /\ Depth[v] < Depth[v] + 1
  <2>1. \A v \in Values : Depth[v] \in Nat
        BY Deeper, Zenon
  <2> QED
      BY <2>1
<1>4. \A v \in Values : RightTo(right(Depth[v] + 1), Depth[v] + 1)
    BY <1>3, RightExists, Zenon
<1> HIDE DEF right
<1>5. ASSUME NEW v \in Values PROVE all[v] = TextOf(v, all)
  <2>1. PICK f, n : f = right(Depth[v] + 1) /\ n = Depth[v] /\ RightTo(f, n + 1) /\ n \in Nat /\ n < n + 1
        BY <1>3, <1>4, Zenon
  <2>2. ASSUME NEW w \in Values, Depth[w] < n PROVE f[w] = all[w]
    <3>1. PICK g, m : g = right(Depth[w] + 1) /\ m = Depth[w] /\ RightTo(g, m + 1) /\ m \in Nat /\ m < m + 1
                      /\ m + 1 \in Nat
          BY <1>3, <1>4, Zenon
    <3>2. RightTo(f, m + 1)
      <4>1. ASSUME NEW u \in Values, Depth[u] < m + 1 PROVE Depth[u] < n + 1
        <5>1. Depth[u] \in Nat
              BY <1>3
        <5> QED
            BY <2>1, <2>2, <3>1, <4>1, <5>1
      <4> QED
          BY <2>1, <4>1, Zenon DEF RightTo
    <3>3. f[w] = g[w]
          BY <3>1, <3>2, RightAgree, Zenon
    <3> QED
        BY <3>1, <3>3, Zenon
  <2>3. TextOf(v, f) = TextOf(v, all)
    <3> HIDE DEF all
    <3> QED
        BY <2>1, <2>2, TextDepends
  <2>4. f[v] = TextOf(v, f)
        BY <2>1, Zenon DEF RightTo
  <2>5. all[v] = f[v]
        BY <2>1, Zenon
  <2> HIDE DEF all
  <2> QED
      BY <2>3, <2>4, <2>5, Zenon
<1>6. Eq(all)
  <2>1. all = [v \in Values |-> all[v]]
        BY Zenon
  <2> HIDE DEF all
  <2>2. all = [v \in Values |-> TextOf(v, all)]
        BY <1>5, <2>1, Zenon
  <2> QED
      BY <1>2, <2>2, Zenon
<1>7. Eq(text)
  <2> HIDE DEF all
  <2> QED
      BY <1>6, Zenon
<1> HIDE DEF text
<1>8. text = [v \in Values |-> TextOf(v, text)]
    BY <1>2, <1>7, Zenon
<1>9. \A v \in Values : text[v] = TextOf(v, text)
    BY <1>8, Zenon
<1> QED
    BY <1>1, <1>9, Zenon

(* The number that digits are, and the digits of a number.  *)
LEMMA IntOfRun ==
    ASSUME NEW t, NEW n \in Nat, n = Len(t), NEW g, g[0] = 0,
           \A k \in 1..n : g[k] = g[k - 1] * 10 + (t[k] - 48)
    PROVE  IntOf(t) = g[n]
<1> DEFINE Eq(f) == f = [k \in 0..n |-> IF k = 0 THEN 0 ELSE f[k - 1] * 10 + (t[k] - 48)]
           int == CHOOSE f : Eq(f)
<1>1. IntOf(t) = int[n]
    BY DEF IntOf
<1> DEFINE h == [k \in 0..n |-> g[k]]
<1>2. Eq(h)
  <2>1. ASSUME NEW k \in 0..n PROVE h[k] = IF k = 0 THEN 0 ELSE h[k - 1] * 10 + (t[k] - 48)
    <3>1. CASE k = 0
          BY <3>1
    <3>2. CASE k # 0
      <4>1. k \in 1..n /\ k - 1 \in 0..n
            BY <3>2
      <4>2. h[k - 1] = g[k - 1] /\ h[k] = g[k]
            BY <4>1
      <4>3. g[k] = g[k - 1] * 10 + (t[k] - 48)
            BY <4>1
      <4> HIDE DEF h
      <4> QED
          BY <3>2, <4>2, <4>3, Zenon
    <3> QED
        BY <3>1, <3>2
  <2>2. h = [k \in 0..n |-> h[k]]
        BY Zenon
  <2> HIDE DEF h
  <2> QED
      BY <2>1, <2>2, Zenon
<1>3. Eq(int)
  <2> HIDE DEF h, Eq
  <2> QED
      BY <1>2, Zenon
<1> HIDE DEF int
<1>4. \A k \in 0..n : int[k] = IF k = 0 THEN 0 ELSE int[k - 1] * 10 + (t[k] - 48)
    BY <1>3, Zenon
<1> DEFINE S == {k \in 0..n : int[k] = g[k]}
<1>5. 0 \in S
  <2>1. 0 \in 0..n
        OBVIOUS
  <2> QED
      BY <1>4, <2>1, Zenon
<1>6. ASSUME NEW k \in 0..(n - 1), k \in S PROVE k + 1 \in S
  <2>1. k + 1 \in 0..n /\ k + 1 \in 1..n /\ k + 1 # 0 /\ (k + 1) - 1 = k
        OBVIOUS
  <2>2. int[k + 1] = int[k] * 10 + (t[k + 1] - 48)
        BY <1>4, <2>1, Zenon
  <2>3. g[k + 1] = g[(k + 1) - 1] * 10 + (t[k + 1] - 48)
        BY <2>1, Zenon
  <2> QED
      BY <1>6, <2>1, <2>2, <2>3, Zenon
<1>7. \A k \in 0..n : k \in S
  <2> HIDE DEF S
  <2> QED
      BY <1>5, <1>6, UpTo, Zenon
<1>8. n \in 0..n
    OBVIOUS
<1> QED
    BY <1>1, <1>7, <1>8, Zenon

LEMMA BytesAreInts == \A b \in Bytes256 : b \in Int
BY DEF Bytes256

LEMMA IntOfSteps ==
    ASSUME NEW t, t \in Seq(Bytes256), NEW c \in Bytes256
    PROVE  /\ IntOf(<<>>) = 0
           /\ IntOf(t) \in Int
           /\ IntOf(t \o <<c>>) = IntOf(t) * 10 + (c - 48)
<1>1. IntOf(<<>>) = 0
  <2>1. PICK g : g = [k \in 0..0 |-> 0]
        OBVIOUS
  <2>2. g[0] = 0 /\ Len(<<>>) = 0 /\ 0 \in Nat /\ \A k \in 1..0 : g[k] = g[k - 1] * 10 + (<<>>[k] - 48)
        BY <2>1
  <2> QED
      BY <2>2, IntOfRun
<1>2. PICK n \in Nat : n = Len(t)
    OBVIOUS
<1>3. PICK u : /\ u = t \o <<c>> /\ u \in Seq(Bytes256) /\ Len(u) = n + 1
               /\ u[n + 1] = c /\ \A k \in 1..n : u[k] = t[k]
  <2>1. /\ t \o <<c>> \in Seq(Bytes256) /\ Len(t \o <<c>>) = n + 1
        /\ (t \o <<c>>)[n + 1] = c /\ \A k \in 1..n : (t \o <<c>>)[k] = t[k]
        BY <1>2
  <2> QED
      BY <2>1, Zenon
<1>4. PICK g : /\ \A k \in 0..(n + 1) : g[k] \in Int
               /\ g[0] = 0
               /\ \A k \in 1..(n + 1) : g[k] = g[k - 1] * 10 + (u[k] - 48)
  <2> DEFINE step == [k \in 1..(n + 1) |-> [m \in Int |-> m * 10 + (u[k] - 48)]]
  <2>1. step \in [1..(n + 1) -> [Int -> Int]]
    <3>1. ASSUME NEW k \in 1..(n + 1), NEW m \in Int PROVE m * 10 + (u[k] - 48) \in Int
      <4>1. u[k] \in Int
        <5>1. u[k] \in Bytes256
              BY <1>3
        <5> QED
            BY <5>1, BytesAreInts, Zenon
      <4> QED
          BY <4>1
    <3> QED
        BY <3>1
  <2>2. 0 \in Int /\ n + 1 \in Nat
        OBVIOUS
  <2>3. PICK g : IsRun(g, n + 1, Int, 0, step)
    <3> HIDE DEF step
    <3> QED
        BY <2>1, <2>2, Iteration, Zenon
  <2>4. /\ \A k \in 0..(n + 1) : g[k] \in Int
        /\ g[0] = 0
        /\ \A k \in 1..(n + 1) : k - 1 \in 0..(n + 1) /\ g[k - 1] \in Int /\ g[k] = step[k][g[k - 1]]
    <3> HIDE DEF step
    <3> QED
        BY <2>2, <2>3, RunPasses
  <2>5. ASSUME NEW k \in 1..(n + 1) PROVE g[k] = g[k - 1] * 10 + (u[k] - 48)
    <3>1. g[k - 1] \in Int /\ g[k] = step[k][g[k - 1]]
          BY <2>4
    <3>2. step[k] = [m \in Int |-> m * 10 + (u[k] - 48)]
          OBVIOUS
    <3> HIDE DEF step
    <3> QED
        BY <3>1, <3>2
  <2> QED
      BY <2>4, <2>5
<1>5. IntOf(u) = g[n + 1]
  <2>1. n + 1 \in Nat
        OBVIOUS
  <2>2. PICK m \in Nat : m = n + 1 /\ m = Len(u)
        BY <1>3, <2>1, Zenon
  <2>3. \A k \in 1..m : g[k] = g[k - 1] * 10 + (u[k] - 48)
        BY <1>4, <2>2, Zenon
  <2>4. IntOf(u) = g[m]
    <3>1. g[0] = 0 /\ m = Len(u)
          BY <1>4, <2>2, Zenon
    <3> QED
        BY <2>3, <3>1, IntOfRun
  <2> QED
      BY <2>2, <2>4, Zenon
<1>6. IntOf(t) = g[n]
  <2>1. ASSUME NEW k \in 1..n PROVE g[k] = g[k - 1] * 10 + (t[k] - 48)
    <3>1. k \in 1..(n + 1) /\ u[k] = t[k]
          BY <1>3
    <3> QED
        BY <1>4, <3>1, Zenon
  <2> QED
      BY <1>2, <1>4, <2>1, IntOfRun
<1>7. n + 1 \in 1..(n + 1) /\ (n + 1) - 1 = n /\ n \in 0..(n + 1)
    OBVIOUS
<1>8. g[n] \in Int
    BY <1>4, <1>7, Zenon
<1>9. g[n + 1] = g[n] * 10 + (c - 48)
    BY <1>3, <1>4, <1>7, Zenon
<1> QED
    BY <1>1, <1>3, <1>5, <1>6, <1>8, <1>9, Zenon

(* t is what is written for m.  *)
Written10(t, m) == t \in Seq(Digits) /\ t # <<>> /\ IntOf(t) = m

LEMMA DigitBytes == Digits \subseteq Bytes256
BY DEF Digits, Bytes256

LEMMA DigitsAreBytes ==
    ASSUME NEW t, t \in Seq(Digits)
    PROVE  t \in Seq(Bytes256)
BY DigitBytes

LEMMA OneDigit ==
    ASSUME NEW m \in Nat, m < 10
    PROVE  Written10(<<48 + m>>, m)
<1>1. 48 + m \in Digits /\ 48 + m \in Bytes256 /\ (48 + m) - 48 = m
    BY DEF Digits, Bytes256
<1>2. <<48 + m>> \in Seq(Digits) /\ <<48 + m>> # <<>> /\ <<>> \o <<48 + m>> = <<48 + m>>
    BY <1>1
<1>3. <<>> \in Seq(Bytes256)
    OBVIOUS
<1>4. IntOf(<<>> \o <<48 + m>>) = IntOf(<<>>) * 10 + ((48 + m) - 48) /\ IntOf(<<>>) = 0
    BY <1>1, <1>3, IntOfSteps, Zenon
<1>5. IntOf(<<48 + m>>) = m
    BY <1>1, <1>2, <1>4
<1> QED
    BY <1>2, <1>5, Zenon DEF Written10

LEMMA MoreDigits ==
    ASSUME NEW m \in Nat, m >= 10, NEW t, Written10(t, m \div 10)
    PROVE  Written10(t \o <<48 + (m % 10)>>, m)
<1>1. PICK q \in Nat, r \in 0..9 : q = m \div 10 /\ r = m % 10 /\ m = q * 10 + r
    OBVIOUS
<1>2. 48 + r \in Digits /\ 48 + r \in Bytes256 /\ (48 + r) - 48 = r
    BY DEF Digits, Bytes256
<1>3. t \in Seq(Digits) /\ t \in Seq(Bytes256) /\ IntOf(t) = q
    BY <1>1, DigitsAreBytes, Zenon DEF Written10
<1>4. t \o <<48 + r>> \in Seq(Digits) /\ t \o <<48 + r>> # <<>>
    BY <1>2, <1>3
<1>5. IntOf(t \o <<48 + r>>) = IntOf(t) * 10 + ((48 + r) - 48)
    BY <1>2, <1>3, IntOfSteps, Zenon
<1>6. IntOf(t \o <<48 + r>>) = m
    BY <1>1, <1>2, <1>3, <1>5
<1> QED
    BY <1>1, <1>4, <1>6, Zenon DEF Written10

LEMMA TenthBelow ==
    ASSUME NEW m \in Nat, m >= 10
    PROVE  m \div 10 \in Nat /\ m \div 10 < m
OBVIOUS

DigitsOf(m, f) == IF m < 10 THEN <<48 + m>> ELSE f[m \div 10] \o <<48 + (m % 10)>>

LEMMA DumpNatWrites ==
    ASSUME NEW n \in Nat
    PROVE  Written10(DumpNat(n), n)
<1> DEFINE Eq(f) == f = [m \in 0..n |-> IF m < 10 THEN <<48 + m>> ELSE f[m \div 10] \o <<48 + (m % 10)>>]
           digits == CHOOSE f : Eq(f)
<1>1. DumpNat(n) = digits[n]
    BY DEF DumpNat
<1>2. \A f : Eq(f) <=> f = [m \in 0..n |-> DigitsOf(m, f)]
    BY Zenon DEF DigitsOf
<1> HIDE DEF Eq
<1>3. PICK g : \A m \in 0..n : g[m] = DigitsOf(m, g)
  <2> DEFINE S == {k \in 0..n : \E f : \A m \in 0..k : f[m] = DigitsOf(m, f)}
  <2>1. 0 \in S
    <3>1. PICK f : f = [m \in 0..0 |-> <<48 + m>>]
          OBVIOUS
    <3>2. \A m \in 0..0 : f[m] = DigitsOf(m, f)
          BY <3>1 DEF DigitsOf
    <3>3. 0 \in 0..n
          OBVIOUS
    <3> QED
        BY <3>2, <3>3, Zenon
  <2>2. ASSUME NEW k \in 0..(n - 1), k \in S PROVE k + 1 \in S
    <3>1. PICK f : \A m \in 0..k : f[m] = DigitsOf(m, f)
          BY <2>2
    <3>2. PICK h : h = [m \in 0..(k + 1) |-> IF m = k + 1 THEN DigitsOf(m, f) ELSE f[m]]
          OBVIOUS
    <3>3. ASSUME NEW m \in 0..(k + 1) PROVE h[m] = DigitsOf(m, h)
      <4>1. DigitsOf(m, f) = DigitsOf(m, h)
        <5>1. CASE m < 10
              BY <5>1, Zenon DEF DigitsOf
        <5>2. CASE ~(m < 10)
          <6>1. m \div 10 \in 0..k
            <7>1. m \in Nat /\ m >= 10
                  BY <5>2
            <7>2. m \div 10 \in Nat /\ m \div 10 < m
                  BY <7>1, TenthBelow
            <7> QED
                BY <7>2
          <6>2. m \div 10 # k + 1 /\ m \div 10 \in 0..(k + 1)
                BY <6>1
          <6>3. h[m \div 10] = f[m \div 10]
                BY <3>2, <6>2, Zenon
          <6> QED
              BY <5>2, <6>3, Zenon DEF DigitsOf
        <5> QED
            BY <5>1, <5>2
      <4>2. CASE m = k + 1
            BY <3>2, <4>1, <4>2, Zenon
      <4>3. CASE m # k + 1
        <5>1. m \in 0..k
              BY <4>3
        <5> QED
            BY <3>1, <3>2, <4>1, <4>3, <5>1, Zenon
      <4> QED
          BY <4>2, <4>3
    <3>4. k + 1 \in 0..n
          OBVIOUS
    <3> QED
        BY <3>3, <3>4, Zenon
  <2>3. \A k \in 0..n : k \in S
    <3> HIDE DEF S
    <3> QED
        BY <2>1, <2>2, UpTo, Zenon
  <2>4. n \in 0..n
        OBVIOUS
  <2> QED
      BY <2>3, <2>4, Zenon
<1>4. PICK h : h = [m \in 0..n |-> g[m]]
    OBVIOUS
<1>5. Eq(h)
  <2>1. ASSUME NEW m \in 0..n PROVE g[m] = DigitsOf(m, h)
    <3>1. CASE m < 10
          BY <1>3, <3>1, Zenon DEF DigitsOf
    <3>2. CASE ~(m < 10)
      <4>1. m \div 10 \in 0..n
        <5>1. m \in Nat /\ m >= 10
              BY <3>2
        <5>2. m \div 10 \in Nat /\ m \div 10 < m
              BY <5>1, TenthBelow
        <5> QED
            BY <5>2
      <4>2. h[m \div 10] = g[m \div 10]
            BY <1>4, <4>1, Zenon
      <4> QED
          BY <1>3, <3>2, <4>2, Zenon DEF DigitsOf
    <3> QED
        BY <3>1, <3>2
  <2>2. h = [m \in 0..n |-> DigitsOf(m, h)]
        BY <1>4, <2>1, Zenon
  <2> QED
      BY <1>2, <2>2, Zenon
<1>6. Eq(digits)
    BY <1>5, Zenon
<1> HIDE DEF digits
<1>7. digits = [m \in 0..n |-> DigitsOf(m, digits)]
    BY <1>2, <1>6, Zenon
<1>8. \A m \in 0..n : digits[m] = DigitsOf(m, digits)
    BY <1>7, Zenon
<1> DEFINE S == {k \in 0..n : \A m \in 0..k : Written10(digits[m], m)}
<1>9. ASSUME NEW m \in 0..n, \A l \in 0..n : l < m => Written10(digits[l], l) PROVE Written10(digits[m], m)
  <2>1. CASE m < 10
    <3>1. digits[m] = <<48 + m>>
          BY <1>8, <2>1, Zenon DEF DigitsOf
    <3>2. m \in Nat
          OBVIOUS
    <3> QED
        BY <2>1, <3>1, <3>2, OneDigit, Zenon
  <2>2. CASE ~(m < 10)
    <3>1. m \in Nat /\ m >= 10
          BY <2>2
    <3>2. m \div 10 \in 0..n /\ m \div 10 < m
      <4>1. m \div 10 \in Nat /\ m \div 10 < m
            BY <3>1, TenthBelow
      <4> QED
          BY <4>1
    <3>3. digits[m] = digits[m \div 10] \o <<48 + (m % 10)>>
          BY <1>8, <2>2, Zenon DEF DigitsOf
    <3> QED
        BY <1>9, <3>1, <3>2, <3>3, MoreDigits, Zenon
  <2> QED
      BY <2>1, <2>2
<1>10. 0 \in S
  <2>1. 0 \in 0..n /\ \A l \in 0..n : ~(l < 0)
        OBVIOUS
  <2>2. Written10(digits[0], 0)
        BY <1>9, <2>1, Zenon
  <2>3. \A m \in 0..0 : m = 0
        OBVIOUS
  <2> QED
      BY <2>1, <2>2, <2>3, Zenon
<1>11. ASSUME NEW k \in 0..(n - 1), k \in S PROVE k + 1 \in S
  <2>1. k + 1 \in 0..n /\ (\A l \in 0..n : l < k + 1 => l \in 0..k) /\ \A m \in 0..(k + 1) : m \in 0..k \/ m = k + 1
        OBVIOUS
  <2>2. Written10(digits[k + 1], k + 1)
        BY <1>9, <1>11, <2>1, Zenon
  <2> QED
      BY <1>11, <2>1, <2>2, Zenon
<1>12. \A k \in 0..n : k \in S
  <2> HIDE DEF S
  <2> QED
      BY <1>10, <1>11, UpTo, Zenon
<1>13. n \in 0..n
    OBVIOUS
<1> QED
    BY <1>1, <1>12, <1>13, Zenon

(* What holds of a value when it holds of those nested less deep holds of  *)
(* all.                                                                    *)
LEMMA DepthInduction ==
    ASSUME NEW V, \A v \in Values : (\A w \in Values : Depth[w] < Depth[v] => w \in V) => v \in V
    PROVE  \A v \in Values : v \in V
<1> SUFFICES ASSUME NEW v \in Values PROVE v \in V
    OBVIOUS
<1>0. \A w \in Values : Depth[w] \in Nat
    BY Deeper, Zenon
<1>1. PICK n \in Nat : Depth[v] = n
    BY <1>0
<1> DEFINE S == {k \in 0..(n + 1) : \A w \in Values : Depth[w] < k => w \in V}
<1>2. 0 \in S
  <2>1. 0 \in 0..(n + 1) /\ \A w \in Values : ~(Depth[w] < 0)
        BY <1>0
  <2> QED
      BY <2>1, Zenon
<1>3. ASSUME NEW k \in 0..((n + 1) - 1), k \in S PROVE k + 1 \in S
  <2>1. k + 1 \in 0..(n + 1)
        OBVIOUS
  <2>2. ASSUME NEW w \in Values, Depth[w] < k + 1 PROVE w \in V
    <3>1. ASSUME NEW u \in Values, Depth[u] < Depth[w] PROVE u \in V
      <4>1. Depth[u] < k
            BY <1>0, <2>2, <3>1
      <4> QED
          BY <1>3, <4>1
    <3> QED
        BY <3>1
  <2> QED
      BY <2>1, <2>2, Zenon
<1>4. \A k \in 0..(n + 1) : k \in S
  <2>1. n + 1 \in Nat
        OBVIOUS
  <2> HIDE DEF S
  <2> QED
      BY <1>2, <1>3, <2>1, UpTo, Zenon
<1>5. n + 1 \in 0..(n + 1) /\ n < n + 1
    OBVIOUS
<1> QED
    BY <1>1, <1>4, <1>5, Zenon

(* The bytes of a line.  *)
LineBytes == Bytes256 \ {LF, CR}

LEMMA LinesAreBytes ==
    ASSUME NEW t, t \in Seq(LineBytes)
    PROVE  t \in Seq(Bytes256)
BY DEF LineBytes

(* What is written for a byte of a string.  *)
EscapeOf(c, l) == <<l, c>> \in Escapes
DumpedChar(c, t) ==
    \/ \E l : EscapeOf(c, l) /\ t = <<ReverseSolidus, l>>
    \/ c < 32 /\ t = <<ReverseSolidus, 117, 48, 48, HexDigit(c \div 16), HexDigit(c % 16)>>
    \/ c >= 32 /\ c \notin {QuoteMark, ReverseSolidus} /\ t = <<c>>

LEMMA EscapePairs == \A e \in Escapes : e = <<e[1], e[2]>>
BY DEF Escapes

LEMMA CharDumps ==
    ASSUME NEW c \in Bytes256
    PROVE  DumpedChar(c, DumpChar(c))
<1>1. CASE \E e \in Escapes : e[2] = c
  <2>1. PICK e : e = CHOOSE x \in Escapes : x[2] = c
        OBVIOUS
  <2>2. e \in Escapes /\ e[2] = c
        BY <1>1, <2>1, Zenon
  <2>3. EscapeOf(c, e[1])
        BY <2>2, EscapePairs, Zenon DEF EscapeOf
  <2>4. DumpChar(c) = <<ReverseSolidus, e[1]>>
        BY <1>1, <2>1, Zenon DEF DumpChar
  <2> QED
      BY <2>3, <2>4, Zenon DEF DumpedChar
<1>2. CASE ~\E e \in Escapes : e[2] = c
  <2>1. CASE c < 32
        BY <1>2, <2>1, Zenon DEF DumpChar, DumpedChar
  <2>2. CASE ~(c < 32)
    <3>1. c >= 32
          BY <2>2 DEF Bytes256
    <3>2. <<34, 34>> \in Escapes /\ <<92, 92>> \in Escapes /\ <<34, 34>>[2] = 34 /\ <<92, 92>>[2] = 92
          BY DEF Escapes
    <3>3. c # 34 /\ c # 92
          BY <1>2, <3>2, Zenon
    <3>4. c \notin {QuoteMark, ReverseSolidus}
          BY <3>3, Zenon DEF QuoteMark, ReverseSolidus
    <3>5. DumpChar(c) = <<c>>
          BY <1>2, <2>2, Zenon DEF DumpChar
    <3> QED
        BY <3>1, <3>4, <3>5, Zenon DEF DumpedChar
  <2> QED
      BY <2>1, <2>2
<1> QED
    BY <1>1, <1>2

LEMMA HexLine ==
    ASSUME NEW d \in 0..15
    PROVE  HexDigit(d) \in LineBytes /\ HexDigit(d) \in 48..57 \cup 97..102
BY DEF HexDigit, LineBytes, Bytes256, LF, CR

LEMMA EscapeLine ==
    ASSUME NEW c, NEW l, EscapeOf(c, l)
    PROVE  /\ l \in LineBytes /\ l # 117 /\ l # Solidus /\ c \in Bytes256 /\ \A d : EscapeOf(d, l) => d = c
           /\ l \in {34, 92, 98, 102, 110, 114, 116}
<1>1. \/ (l = 34 /\ c = 34) \/ (l = 92 /\ c = 92) \/ (l = 98 /\ c = 8) \/ (l = 102 /\ c = 12)
      \/ (l = 110 /\ c = 10) \/ (l = 114 /\ c = 13) \/ (l = 116 /\ c = 9)
    BY DEF EscapeOf, Escapes
<1>2. ASSUME NEW d, EscapeOf(d, l) PROVE d = c
  <2>1. \/ (l = 34 /\ d = 34) \/ (l = 92 /\ d = 92) \/ (l = 98 /\ d = 8) \/ (l = 102 /\ d = 12)
        \/ (l = 110 /\ d = 10) \/ (l = 114 /\ d = 13) \/ (l = 116 /\ d = 9)
        BY <1>2 DEF EscapeOf, Escapes
  <2> QED
      BY <1>1, <2>1
<1>3. l \in LineBytes /\ l # 117 /\ l # Solidus /\ c \in Bytes256 /\ l \in {34, 92, 98, 102, 110, 114, 116}
    BY <1>1 DEF LineBytes, Bytes256, LF, CR, Solidus
<1> QED
    BY <1>2, <1>3, Zenon

LEMMA CharLine ==
    ASSUME NEW c \in Bytes256
    PROVE  DumpChar(c) \in Seq(LineBytes)
<1>1. DumpedChar(c, DumpChar(c))
    BY CharDumps, Zenon
<1>0. ReverseSolidus \in LineBytes /\ 117 \in LineBytes /\ 48 \in LineBytes
    BY DEF ReverseSolidus, LineBytes, Bytes256, LF, CR
<1>2. ASSUME NEW l, EscapeOf(c, l), DumpChar(c) = <<ReverseSolidus, l>> PROVE DumpChar(c) \in Seq(LineBytes)
  <2>1. l \in LineBytes
        BY <1>2, EscapeLine, Zenon
  <2> QED
      BY <1>0, <1>2, <2>1
<1>3. ASSUME c < 32, DumpChar(c) = <<ReverseSolidus, 117, 48, 48, HexDigit(c \div 16), HexDigit(c % 16)>>
      PROVE  DumpChar(c) \in Seq(LineBytes)
  <2>1. c \div 16 \in 0..15 /\ c % 16 \in 0..15
        BY <1>3 DEF Bytes256
  <2>2. HexDigit(c \div 16) \in LineBytes /\ HexDigit(c % 16) \in LineBytes
        BY <2>1, HexLine, Zenon
  <2> QED
      BY <1>0, <1>3, <2>2
<1>4. ASSUME c >= 32, DumpChar(c) = <<c>> PROVE DumpChar(c) \in Seq(LineBytes)
  <2>1. c \in LineBytes
        BY <1>4 DEF LineBytes, LF, CR, Bytes256
  <2> QED
      BY <1>4, <2>1
<1> QED
    BY <1>1, <1>2, <1>3, <1>4, Zenon DEF DumpedChar

(* Parts joined, in a set of bytes.  *)
LEMMA PartsIn ==
    ASSUME NEW S, NEW n \in Nat, NEW f, f = [k \in 1..n |-> f[k]], \A k \in 1..n : f[k] \in Seq(S)
    PROVE  FlattenSeq(f) \in Seq(S)
<1>1. f \in Seq(Seq(S)) /\ Len(f) = n
    OBVIOUS
<1>2. PICK g : g \in [0..Len(f) -> Seq(S)] /\ FlattenSeq(f) = g[Len(f)]
    BY <1>1, FlattenJoins, Zenon
<1> QED
    BY <1>1, <1>2

LEMMA StringLine ==
    ASSUME NEW s, s \in Seq(Bytes256)
    PROVE  DumpString(s) \in Seq(LineBytes)
<1>1. PICK n \in Nat : n = Len(s) /\ DOMAIN s = 1..n
    OBVIOUS
<1>2. PICK f : f = [k \in 1..n |-> DumpChar(s[k])]
    OBVIOUS
<1>3. FlattenSeq(f) \in Seq(LineBytes)
  <2>1. f = [k \in 1..n |-> f[k]]
        BY <1>2
  <2>2. ASSUME NEW k \in 1..n PROVE f[k] \in Seq(LineBytes)
    <3>1. s[k] \in Bytes256
          BY <1>1
    <3> QED
        BY <1>2, <3>1, CharLine, Zenon
  <2> QED
      BY <2>1, <2>2, PartsIn
<1>4. DumpString(s) = <<QuoteMark>> \o FlattenSeq(f) \o <<QuoteMark>>
    BY <1>1, <1>2, Zenon DEF DumpString
<1>5. QuoteMark \in LineBytes
    BY DEF QuoteMark, LineBytes, Bytes256, LF, CR
<1> HIDE DEF LineBytes
<1> QED
    BY <1>3, <1>4, <1>5

LEMMA JoinedLine ==
    ASSUME NEW n \in Nat, NEW f, f = [k \in 1..n |-> f[k]], \A k \in 1..n : f[k] \in Seq(LineBytes)
    PROVE  Joined(f) \in Seq(LineBytes)
<1>1. PICK h : h = [k \in 1..n |-> IF k = 1 THEN f[k] ELSE <<Comma>> \o f[k]]
    OBVIOUS
<1>2. DOMAIN f = 1..n
    BY Zenon
<1>3. Joined(f) = FlattenSeq(h)
    BY <1>1, <1>2, Zenon DEF Joined
<1>4. Comma \in LineBytes
    BY DEF Comma, LineBytes, Bytes256, LF, CR
<1>5. h = [k \in 1..n |-> h[k]]
    BY <1>1
<1>6. ASSUME NEW k \in 1..n PROVE h[k] \in Seq(LineBytes)
  <2>1. f[k] \in Seq(LineBytes)
        OBVIOUS
  <2>2. <<Comma>> \o f[k] \in Seq(LineBytes)
        BY <1>4, <2>1
  <2> QED
      BY <1>1, <2>1, <2>2
<1> QED
    BY <1>3, <1>5, <1>6, PartsIn

LEMMA DoubleLine ==
    ASSUME NEW d, IsDouble(d)
    PROVE  d \in Seq(LineBytes)
<1>1. PICK int \in {1, 2}, dot \in 1..Len(d), e \in 1..(Len(d) + 1) :
          /\ int < dot /\ dot <= e
          /\ int = 2 => d[1] = Minus
          /\ \A k \in int..(dot - 1) : d[k] \in Digits
          /\ dot < e => d[dot] = Point /\ \A k \in (dot + 1)..(e - 1) : d[k] \in Digits
          /\ e <= Len(d) => /\ e < Len(d) /\ d[e] = 101 /\ d[e + 1] \in {Plus, Minus}
                            /\ \A k \in (e + 2)..Len(d) : d[k] \in Digits
    BY Zenon DEF IsDouble
<1>2. PICK n \in Nat : n = Len(d)
  <2>1. d \in Seq(0..255)
        BY Zenon DEF IsDouble
  <2> QED
      BY <2>1
<1>3. d = [k \in 1..n |-> d[k]]
  <2>1. d \in Seq(0..255)
        BY Zenon DEF IsDouble
  <2> QED
      BY <1>2, <2>1
<1>4. ASSUME NEW k \in 1..n PROVE d[k] \in Digits \/ d[k] \in {Minus, Plus, Point, 101}
  <2>1. CASE k < int
    <3>1. k = 1 /\ int = 2
          BY <2>1
    <3> QED
        BY <1>1, <3>1
  <2>2. CASE int <= k /\ k < dot
    <3>1. k \in int..(dot - 1)
          BY <2>2
    <3> QED
        BY <1>1, <3>1
  <2>3. CASE k = dot /\ dot < e
        BY <1>1, <2>3
  <2>4. CASE dot < k /\ k < e
    <3>1. k \in (dot + 1)..(e - 1) /\ dot < e
          BY <2>4
    <3> QED
        BY <1>1, <3>1
  <2>5. CASE k = e
    <3>1. e <= Len(d)
          BY <1>2, <2>5
    <3> QED
        BY <1>1, <2>5, <3>1
  <2>6. CASE k = e + 1
    <3>1. e <= Len(d)
          BY <1>2, <2>6
    <3> QED
        BY <1>1, <2>6, <3>1
  <2>7. CASE k > e + 1
    <3>1. e <= Len(d) /\ k \in (e + 2)..Len(d)
          BY <1>2, <2>7
    <3> QED
        BY <1>1, <3>1
  <2>8. int <= dot /\ dot <= e
        BY <1>1
  <2> QED
      BY <2>1, <2>2, <2>3, <2>4, <2>5, <2>6, <2>7, <2>8
<1>5. \A b : b \in Digits \/ b \in {Minus, Plus, Point, 101} => b \in LineBytes
    BY DEF Digits, Minus, Plus, Point, LineBytes, Bytes256, LF, CR
<1>6. \A k \in 1..n : d[k] \in LineBytes
    BY <1>4, <1>5, Zenon
<1> HIDE DEF LineBytes
<1> QED
    BY <1>3, <1>6

LEMMA IntLine ==
    ASSUME NEW n \in Int
    PROVE  DumpInt(n) \in Seq(LineBytes)
<1>1. Digits \subseteq LineBytes /\ Minus \in LineBytes
    BY DEF Digits, Minus, LineBytes, Bytes256, LF, CR
<1>2. CASE n < 0
  <2>1. -n \in Nat
        BY <1>2
  <2>2. DumpNat(-n) \in Seq(Digits)
        BY <2>1, DumpNatWrites, Zenon DEF Written10
  <2>3. DumpInt(n) = <<Minus>> \o DumpNat(-n)
        BY <1>2, Zenon DEF DumpInt
  <2> QED
      BY <1>1, <2>2, <2>3
<1>3. CASE ~(n < 0)
  <2>1. n \in Nat
        BY <1>3
  <2>2. DumpNat(n) \in Seq(Digits)
        BY <2>1, DumpNatWrites, Zenon DEF Written10
  <2>3. DumpInt(n) = DumpNat(n)
        BY <1>3, Zenon DEF DumpInt
  <2> QED
      BY <1>1, <2>2, <2>3
<1> QED
    BY <1>2, <1>3

(* What is written for a value is one line.  *)
LEMMA TextsAreLines ==
    ASSUME NEW text, \A v \in Values : text[v] = TextOf(v, text)
    PROVE  \A v \in Values : text[v] \in Seq(LineBytes)
<1> DEFINE V == {v \in Values : text[v] \in Seq(LineBytes)}
<1>1. ASSUME NEW v \in Values, \A w \in Values : Depth[w] < Depth[v] => w \in V PROVE v \in V
  <2>0. True_ \in Seq(LineBytes) /\ False_ \in Seq(LineBytes) /\ Null_ \in Seq(LineBytes)
        /\ 91 \in LineBytes /\ 93 \in LineBytes /\ 123 \in LineBytes /\ 125 \in LineBytes /\ Colon \in LineBytes
        BY DEF True_, False_, Null_, Colon, LineBytes, Bytes256, LF, CR
  <2> HIDE DEF LineBytes
  <2>1. CASE v.t = "null"
    <3>1. TextOf(v, text) = Null_
          BY <2>1 DEF TextOf
    <3> QED
        BY <2>0, <3>1
  <2>2. CASE v.t = "bool"
    <3>1. TextOf(v, text) = IF v.b THEN True_ ELSE False_
          BY <2>2 DEF TextOf
    <3> QED
        BY <2>0, <3>1
  <2>3. CASE v.t = "number"
    <3>1. TextOf(v, text) = DumpInt(v.n)
          BY <2>3 DEF TextOf
    <3>2. v.n \in Int
          BY <2>3, ValueKinds, Zenon
    <3> QED
        BY <3>1, <3>2, IntLine
  <2>4. CASE v.t = "double"
    <3>1. TextOf(v, text) = v.d
          BY <2>4 DEF TextOf
    <3>2. IsDouble(v.d)
          BY <2>4, ValueKinds, Zenon
    <3> QED
        BY <3>1, <3>2, DoubleLine
  <2>5. CASE v.t = "string"
    <3>1. TextOf(v, text) = DumpString(v.s)
          BY <2>5 DEF TextOf
    <3>2. v.s \in Seq(Bytes256)
          BY <2>5, ValueKinds, Zenon
    <3> QED
        BY <3>1, <3>2, StringLine
  <2>6. CASE v.t = "array"
    <3>1. TextOf(v, text) = <<91>> \o Joined(ItemTexts(v, text)) \o <<93>>
          BY <2>6 DEF TextOf
    <3>2. v.a \in Seq(Values)
          BY <2>6, ValueKinds, Zenon
    <3>3. PICK n \in Nat : DOMAIN v.a = 1..n
          BY <3>2
    <3>4. PICK f : f = ItemTexts(v, text) /\ f = [k \in 1..n |-> text[v.a[k]]]
          BY <3>3, Zenon DEF ItemTexts
    <3>5. f = [k \in 1..n |-> f[k]]
          BY <3>4
    <3>6. ASSUME NEW k \in 1..n PROVE f[k] \in Seq(LineBytes)
      <4>1. v.a[k] \in V
            BY <1>1, <2>6, <3>3, Deeper, Zenon
      <4> QED
          BY <3>4, <4>1, Zenon
    <3>7. Joined(f) \in Seq(LineBytes)
          BY <3>5, <3>6, JoinedLine
    <3>8. <<91>> \o Joined(f) \o <<93>> \in Seq(LineBytes)
          BY <2>0, <3>7
    <3> QED
        BY <3>1, <3>4, <3>8, Zenon
  <2>7. CASE v.t = "object"
    <3>1. TextOf(v, text) = <<123>> \o Joined(PairTexts(v, text)) \o <<125>>
          BY <2>7 DEF TextOf
    <3>2. v.o \in Seq(Seq(Bytes256) \X Values)
          BY <2>7, ValueKinds, Zenon
    <3>3. PICK n \in Nat : DOMAIN v.o = 1..n
          BY <3>2
    <3>4. PICK f : f = PairTexts(v, text)
                   /\ f = [k \in 1..n |-> DumpString(v.o[k][1]) \o <<Colon>> \o text[v.o[k][2]]]
          BY <3>3, Zenon DEF PairTexts
    <3>5. f = [k \in 1..n |-> f[k]]
          BY <3>4
    <3>6. ASSUME NEW k \in 1..n PROVE f[k] \in Seq(LineBytes)
      <4>1. v.o[k][2] \in V
            BY <1>1, <2>7, <3>3, Deeper, Zenon
      <4>2. v.o[k][1] \in Seq(Bytes256)
        <5>1. v.o[k] \in Seq(Bytes256) \X Values
              BY <3>2, <3>3
        <5> QED
            BY <5>1
      <4>3. DumpString(v.o[k][1]) \in Seq(LineBytes) /\ text[v.o[k][2]] \in Seq(LineBytes)
            BY <4>1, <4>2, StringLine, Zenon
      <4>4. DumpString(v.o[k][1]) \o <<Colon>> \o text[v.o[k][2]] \in Seq(LineBytes)
            BY <2>0, <4>3
      <4> QED
          BY <3>4, <4>4, Zenon
    <3>7. Joined(f) \in Seq(LineBytes)
          BY <3>5, <3>6, JoinedLine
    <3>8. <<123>> \o Joined(f) \o <<125>> \in Seq(LineBytes)
          BY <2>0, <3>7
    <3> QED
        BY <3>1, <3>4, <3>8, Zenon
  <2>8. v.t \in Kinds
        BY ValueKinds, Zenon
  <2> QED
      BY <2>1, <2>2, <2>3, <2>4, <2>5, <2>6, <2>7, <2>8 DEF Kinds
<1>2. \A v \in Values : v \in V
  <2> HIDE DEF V
  <2> QED
      BY <1>1, DepthInduction
<1> QED
    BY <1>2

(* Second parse.  A \u escape ends after its digits, or after those of a   *)
(* second one.                                                             *)
LEMMA UnicodeEnds ==
    ASSUME NEW s, NEW at \in Nat, ParseUnicode(s, at).ok
    PROVE  ParseUnicode(s, at).at \in {at + 4, at + 10}
<1> DEFINE hi   == ParseHex4(s, at)
           next == Peek(s, at + 4) = ReverseSolidus /\ Peek(s, at + 5) = 117
           lo   == ParseHex4(s, at + 6)
           no   == [ok |-> FALSE, cp |-> 0, at |-> 0]
           two  == [ok |-> TRUE, cp |-> 65536 + (hi - 55296) * 1024 + (lo - 56320), at |-> at + 10]
           one  == [ok |-> TRUE, cp |-> hi, at |-> at + 4]
<1>1. ParseUnicode(s, at) = IF hi = -1 \/ (IsHigh(hi) /\ next /\ lo = -1) THEN no
                            ELSE IF IsHigh(hi) /\ next /\ IsLow(lo) THEN two ELSE one
    BY DEF ParseUnicode
<1>2. ~no.ok /\ two.at = at + 10 /\ one.at = at + 4
    OBVIOUS
<1> HIDE DEF hi, next, lo, no, two, one
<1>3. ParseUnicode(s, at) \in {no, two, one}
    BY <1>1
<1> QED
    BY <1>2, <1>3

LEMMA StringDepends ==
    ASSUME NEW s, NEW p \in Nat, NEW f, NEW g, \A q \in Nat : q > p => f[q] = g[q]
    PROVE  StringFrom(s, p, f) = StringFrom(s, p, g)
<1> DEFINE e == Peek(s, p + 1)
           u == ParseUnicode(s, p + 2)
<1>1. f[p + 1] = g[p + 1] /\ f[p + 2] = g[p + 2]
  <2>1. p + 1 \in Nat /\ p + 2 \in Nat /\ p + 1 > p /\ p + 2 > p
        OBVIOUS
  <2> QED
      BY <2>1, Zenon
<1>2. u.ok => f[u.at] = g[u.at]
  <2> SUFFICES ASSUME u.ok PROVE f[u.at] = g[u.at]
      OBVIOUS
  <2>1. u.at \in {(p + 2) + 4, (p + 2) + 10}
    <3>1. p + 2 \in Nat
          OBVIOUS
    <3> QED
        BY <3>1, UnicodeEnds, Zenon
  <2> HIDE DEF u
  <2>2. u.at \in Nat /\ u.at > p
        BY <2>1
  <2> QED
      BY <2>2, Zenon
<1> DEFINE next(c) == IF p > Len(s) THEN Fails
                      ELSE IF s[p] = QuoteMark THEN Is(<<>>, p + 1)
                      ELSE IF s[p] # ReverseSolidus THEN Then(<<s[p]>>, c[p + 1])
                      ELSE IF e = Solidus THEN Then(<<Solidus>>, c[p + 2])
                      ELSE IF \E q \in Escapes : q[1] = e
                      THEN Then(<<(CHOOSE q \in Escapes : q[1] = e)[2]>>, c[p + 2])
                      ELSE IF e = 117 /\ u.ok THEN Then(AppendUtf8(u.cp), c[u.at])
                      ELSE Fails
<1>3. StringFrom(s, p, f) = next(f) /\ StringFrom(s, p, g) = next(g)
    BY Zenon DEF StringFrom
<1> HIDE DEF e, u
<1>4. next(f) = next(g)
  <2>1. CASE u.ok
        BY <1>1, <1>2, <2>1
  <2>2. CASE ~u.ok
        BY <1>1, <2>2
  <2> QED
      BY <2>1, <2>2
<1> HIDE DEF next
<1> QED
    BY <1>3, <1>4, Zenon

(* The strings of a text.  *)
IsChars(f, s) == \A p \in Nat : f[p] = StringFrom(s, p, f)

LEMMA CharsFrom ==
    ASSUME NEW s, s \in Seq(Bytes256)
    PROVE  \E f : IsChars(f, s)
<1>1. PICK l \in Nat : l = Len(s)
    OBVIOUS
<1> DEFINE S == {k \in 0..(l + 1) : \E f : \A p \in Nat : p >= (l + 1) - k => f[p] = StringFrom(s, p, f)}
<1>2. 0 \in S
  <2>1. PICK f : f = [p \in Nat |-> Fails]
        OBVIOUS
  <2>2. ASSUME NEW p \in Nat, p >= (l + 1) - 0 PROVE f[p] = StringFrom(s, p, f)
    <3>1. p > Len(s)
          BY <1>1, <2>2
    <3>2. StringFrom(s, p, f) = Fails
          BY <3>1, Zenon DEF StringFrom
    <3> QED
        BY <2>1, <3>2, Zenon
  <2>3. 0 \in 0..(l + 1)
        OBVIOUS
  <2> QED
      BY <2>2, <2>3, Zenon
<1>3. ASSUME NEW k \in 0..((l + 1) - 1), k \in S PROVE k + 1 \in S
  <2>1. PICK f : \A p \in Nat : p >= (l + 1) - k => f[p] = StringFrom(s, p, f)
        BY <1>3
  <2>2. PICK c \in Nat : c = (l + 1) - (k + 1) /\ c + 1 = (l + 1) - k
    <3>1. (l + 1) - (k + 1) \in Nat /\ ((l + 1) - (k + 1)) + 1 = (l + 1) - k
          OBVIOUS
    <3> QED
        BY <3>1, Zenon
  <2>3. PICK g : g = [p \in Nat |-> IF p = c THEN StringFrom(s, c, f) ELSE f[p]]
        OBVIOUS
  <2>4. ASSUME NEW p \in Nat, p >= c PROVE g[p] = StringFrom(s, p, g)
    <3>1. ASSUME NEW q \in Nat, q > p PROVE f[q] = g[q]
      <4>1. q # c
            BY <2>4, <3>1
      <4> QED
          BY <2>3, <4>1, Zenon
    <3>2. StringFrom(s, p, f) = StringFrom(s, p, g)
          BY <3>1, StringDepends
    <3>3. CASE p = c
          BY <2>3, <3>2, <3>3, Zenon
    <3>4. CASE p # c
      <4>1. p >= (l + 1) - k
            BY <2>2, <2>4, <3>4
      <4> QED
          BY <2>1, <2>3, <3>2, <3>4, <4>1, Zenon
    <3> QED
        BY <3>3, <3>4
  <2>5. k + 1 \in 0..(l + 1)
        OBVIOUS
  <2> QED
      BY <2>2, <2>4, <2>5, Zenon
<1>4. \A k \in 0..(l + 1) : k \in S
  <2>1. l + 1 \in Nat
        OBVIOUS
  <2> HIDE DEF S
  <2> QED
      BY <1>2, <1>3, <2>1, UpTo, Zenon
<1>5. l + 1 \in 0..(l + 1) /\ \A p \in Nat : p >= (l + 1) - (l + 1)
    OBVIOUS
<1>6. PICK f : \A p \in Nat : p >= (l + 1) - (l + 1) => f[p] = StringFrom(s, p, f)
    BY <1>4, <1>5, Zenon
<1> QED
    BY <1>5, <1>6, Zenon DEF IsChars

LEMMA Strings ==
    ASSUME NEW s, s \in Seq(Bytes256)
    PROVE  \E f : IsChars(f, s) /\ \A at : ParseString(s, at) = StringRead(f[at + 1])
<1> DEFINE Eq(f) == f = [p \in Nat |-> StringFrom(s, p, f)]
           chars == CHOOSE f : Eq(f)
<1>1. ASSUME NEW at PROVE ParseString(s, at) = StringRead(chars[at + 1])
    BY DEF ParseString, StringRead
<1>2. PICK h : IsChars(h, s)
    BY CharsFrom, Zenon
<1>3. PICK f : f = [p \in Nat |-> h[p]]
    OBVIOUS
<1>4. Eq(f)
  <2>1. ASSUME NEW p \in Nat PROVE h[p] = StringFrom(s, p, f)
    <3>1. \A q \in Nat : q > p => h[q] = f[q]
          BY <1>3, Zenon
    <3>2. StringFrom(s, p, h) = StringFrom(s, p, f)
          BY <3>1, StringDepends
    <3> QED
        BY <1>2, <3>2, Zenon DEF IsChars
  <2> QED
      BY <1>3, <2>1, Zenon
<1>5. Eq(chars)
    BY <1>4, Zenon
<1> HIDE DEF chars
<1>6. IsChars(chars, s)
    BY <1>5, Zenon DEF IsChars
<1> QED
    BY <1>1, <1>6, Zenon

(* The parsers of a text.  *)
IsParser(f, s) ==
    \A p \in Parsers : \A at \in 1..(Len(s) + 1) : f[<<p, at>>] = ParserAt(s, Later(s, f, at), p, at)

LEMMA ParsersFrom ==
    ASSUME NEW s, s \in Seq(Bytes256)
    PROVE  \E f : IsParser(f, s)
<1>1. PICK m \in Nat : m = Len(s) + 1
    OBVIOUS
<1> DEFINE Right(f, c) == \A p \in Parsers : \A at \in 1..m :
                              at >= c => f[<<p, at>>] = ParserAt(s, Later(s, f, at), p, at)
           S == {k \in 0..m : \E f : Right(f, (m + 1) - k)}
<1>2. 0 \in S
  <2>1. 0 \in 0..m /\ \A at \in 1..m : ~(at >= (m + 1) - 0)
        OBVIOUS
  <2> QED
      BY <2>1, Zenon
<1>3. ASSUME NEW k \in 0..(m - 1), k \in S PROVE k + 1 \in S
  <2>1. PICK f : Right(f, (m + 1) - k)
        BY <1>3
  <2>2. PICK c \in 1..m : c = (m + 1) - (k + 1) /\ c + 1 = (m + 1) - k
    <3>1. (m + 1) - (k + 1) \in 1..m /\ ((m + 1) - (k + 1)) + 1 = (m + 1) - k
          OBVIOUS
    <3> QED
        BY <3>1, Zenon
  <2>3. PICK g : g = [q \in Parsers \X (1..m) |->
                         IF q[2] = c THEN ParserAt(s, Later(s, f, c), q[1], c) ELSE f[q]]
        OBVIOUS
  <2>4. ASSUME NEW p \in Parsers, NEW at \in 1..m
        PROVE  g[<<p, at>>] = IF at = c THEN ParserAt(s, Later(s, f, c), p, c) ELSE f[<<p, at>>]
    <3>1. <<p, at>> \in Parsers \X (1..m) /\ <<p, at>>[1] = p /\ <<p, at>>[2] = at
          OBVIOUS
    <3> QED
        BY <2>3, <3>1
  <2>5. ASSUME NEW at \in 1..m, at >= c PROVE Later(s, f, at) = Later(s, g, at)
    <3>1. ASSUME NEW q \in Parsers \X ((at + 1)..(Len(s) + 1)) PROVE f[q] = g[q]
      <4>1. PICK p, b : q = <<p, b>> /\ p \in Parsers /\ b \in (at + 1)..(Len(s) + 1)
            OBVIOUS
      <4>2. b \in 1..m /\ b # c
            BY <1>1, <2>5, <4>1
      <4> QED
          BY <2>4, <4>1, <4>2, Zenon
    <3> QED
        BY <3>1, Zenon DEF Later
  <2>6. ASSUME NEW p \in Parsers, NEW at \in 1..m, at >= c
        PROVE  g[<<p, at>>] = ParserAt(s, Later(s, g, at), p, at)
    <3>1. Later(s, f, at) = Later(s, g, at)
          BY <2>5, <2>6, Zenon
    <3>2. CASE at = c
      <4>1. g[<<p, at>>] = ParserAt(s, Later(s, f, c), p, c)
            BY <2>4, <3>2, Zenon
      <4> QED
          BY <3>1, <3>2, <4>1, Zenon
    <3>3. CASE at # c
      <4>1. g[<<p, at>>] = f[<<p, at>>]
            BY <2>4, <3>3, Zenon
      <4>2. at >= (m + 1) - k
            BY <2>2, <2>6, <3>3
      <4>3. f[<<p, at>>] = ParserAt(s, Later(s, f, at), p, at)
            BY <2>1, <4>2, Zenon
      <4> QED
          BY <3>1, <4>1, <4>3, Zenon
    <3> QED
        BY <3>2, <3>3
  <2>7. k + 1 \in 0..m
        OBVIOUS
  <2>8. Right(g, (m + 1) - (k + 1))
        BY <2>2, <2>6, Zenon
  <2> HIDE DEF Right
  <2> QED
      BY <2>7, <2>8, Zenon
<1>4. \A k \in 0..m : k \in S
  <2> HIDE DEF S
  <2> QED
      BY <1>2, <1>3, UpTo, Zenon
<1>5. m \in 0..m /\ \A at \in 1..m : at >= (m + 1) - m
    OBVIOUS
<1>6. PICK f : Right(f, (m + 1) - m)
    BY <1>4, <1>5, Zenon
<1>7. \A p \in Parsers : \A at \in 1..m : f[<<p, at>>] = ParserAt(s, Later(s, f, at), p, at)
    BY <1>5, <1>6, Zenon
<1> QED
    BY <1>1, <1>7, Zenon DEF IsParser

LEMMA ParserOf ==
    ASSUME NEW s, s \in Seq(Bytes256)
    PROVE  \E f : IsParser(f, s) /\ Parse(s) = TextRead(s, f[<<"value", 1>>])
<1> DEFINE Eq(f) == f = [q \in Parsers \X (1..(Len(s) + 1)) |-> ParserAt(s, Later(s, f, q[2]), q[1], q[2])]
           parse == CHOOSE f : Eq(f)
<1>1. Parse(s) = TextRead(s, parse[<<"value", 1>>])
    BY DEF Parse, TextRead
<1>2. PICK h : IsParser(h, s)
    BY ParsersFrom, Zenon
<1>3. PICK f : f = [q \in Parsers \X (1..(Len(s) + 1)) |-> h[q]]
    OBVIOUS
<1>4. Eq(f)
  <2>1. ASSUME NEW q \in Parsers \X (1..(Len(s) + 1)) PROVE h[q] = ParserAt(s, Later(s, f, q[2]), q[1], q[2])
    <3>1. PICK p, at : q = <<p, at>> /\ p \in Parsers /\ at \in 1..(Len(s) + 1) /\ q[1] = p /\ q[2] = at
          OBVIOUS
    <3>2. \A r \in Parsers \X ((at + 1)..(Len(s) + 1)) : r \in Parsers \X (1..(Len(s) + 1))
      <4>1. Len(s) \in Nat
            OBVIOUS
      <4>2. \A b \in (at + 1)..(Len(s) + 1) : b \in 1..(Len(s) + 1)
            BY <3>1, <4>1
      <4> QED
          BY <4>2
    <3>3. Later(s, h, at) = Later(s, f, at)
          BY <1>3, <3>2, Zenon DEF Later
    <3>4. h[q] = ParserAt(s, Later(s, h, at), p, at)
          BY <1>2, <3>1, Zenon DEF IsParser
    <3> QED
        BY <3>1, <3>3, <3>4, Zenon
  <2> QED
      BY <1>3, <2>1, Zenon
<1>5. Eq(parse)
    BY <1>4, Zenon
<1> HIDE DEF parse
<1>6. IsParser(parse, s)
  <2>1. ASSUME NEW p \in Parsers, NEW at \in 1..(Len(s) + 1)
        PROVE  parse[<<p, at>>] = ParserAt(s, Later(s, parse, at), p, at)
    <3>1. <<p, at>> \in Parsers \X (1..(Len(s) + 1)) /\ <<p, at>>[1] = p /\ <<p, at>>[2] = at
          OBVIOUS
    <3>2. parse = [q \in Parsers \X (1..(Len(s) + 1)) |-> ParserAt(s, Later(s, parse, q[2]), q[1], q[2])]
          BY <1>5, Zenon
    <3> QED
        BY <3>1, <3>2
  <2> QED
      BY <2>1, Zenon DEF IsParser
<1> QED
    BY <1>1, <1>6, Zenon

(* What is left of x when the text ends in it, after its first a bytes.  *)
CutAfter(x, text, a) ==
    /\ a <= Len(text) /\ Len(text) < a + Len(x)
    /\ \A i \in 1..(Len(text) - a) : text[a + i] = x[i]

LEMMA CutParts ==
    ASSUME NEW x, NEW y, NEW text, NEW a \in Nat,
           x \in Seq(Bytes256), y \in Seq(Bytes256), text \in Seq(Bytes256),
           CutAfter(x \o y, text, a)
    PROVE  CutAfter(x, text, a) \/ (LiesAfter(x, text, a) /\ CutAfter(y, text, a + Len(x)))
<1>1. PICK p \in Nat, q \in Nat, l \in Nat : p = Len(x) /\ q = Len(y) /\ l = Len(text)
    OBVIOUS
<1>2. PICK z : /\ z = x \o y /\ Len(z) = p + q
               /\ \A i \in 1..p : z[i] = x[i]
               /\ \A i \in 1..q : z[p + i] = y[i]
  <2>1. PICK z : z = x \o y
        OBVIOUS
  <2>2. Len(z) = Len(x) + Len(y) /\ (\A i \in 1..Len(x) : z[i] = x[i])
        /\ \A i \in 1..Len(y) : z[Len(x) + i] = y[i]
        BY <2>1, ConcatPlaces
  <2> QED
      BY <1>1, <2>1, <2>2, Zenon
<1>3. a <= l /\ l < a + (p + q) /\ \A i \in 1..(l - a) : text[a + i] = z[i]
    BY <1>1, <1>2, Zenon DEF CutAfter
<1>4. CASE l < a + p
  <2>1. ASSUME NEW i \in 1..(l - a) PROVE text[a + i] = x[i]
    <3>1. i \in 1..p
          BY <1>4
    <3> QED
        BY <1>2, <1>3, <3>1, Zenon
  <2> QED
      BY <1>1, <1>3, <1>4, <2>1, Zenon DEF CutAfter
<1>5. CASE ~(l < a + p)
  <2>1. a + p <= l /\ l < (a + p) + q
        BY <1>3, <1>5
  <2>2. ASSUME NEW i \in 1..p PROVE text[a + i] = x[i]
    <3>1. i \in 1..(l - a)
          BY <1>3, <2>1
    <3> QED
        BY <1>2, <1>3, <3>1, Zenon
  <2>3. ASSUME NEW i \in 1..(l - (a + p)) PROVE text[(a + p) + i] = y[i]
    <3>1. p + i \in 1..(l - a) /\ i \in 1..q /\ (a + p) + i = a + (p + i)
          BY <1>3, <2>1
    <3> QED
        BY <1>2, <1>3, <3>1, Zenon
  <2> QED
      BY <1>1, <2>1, <2>2, <2>3, Zenon DEF CutAfter, LiesAfter
<1> QED
    BY <1>4, <1>5

LEMMA NothingCut ==
    ASSUME NEW text, text \in Seq(Bytes256), NEW a \in Nat
    PROVE  ~CutAfter(<<>>, text, a)
<1>1. Len(<<>>) = 0 /\ Len(text) \in Nat
    OBVIOUS
<1>2. ~(a <= Len(text) /\ Len(text) < a + 0)
    BY <1>1
<1> QED
    BY <1>1, <1>2, Zenon DEF CutAfter

(* Parts joined one after the other: g[k] is the first k of them.  *)
IsJoin(g, part, n) ==
    /\ \A k \in 0..n : g[k] \in Seq(Bytes256)
    /\ g[0] = <<>>
    /\ \A k \in 0..(n - 1) : part[k + 1] \in Seq(Bytes256) /\ g[k + 1] = g[k] \o part[k + 1]

LEMMA JoinOf ==
    ASSUME NEW n \in Nat, NEW f, f = [k \in 1..n |-> f[k]], \A k \in 1..n : f[k] \in Seq(Bytes256)
    PROVE  \E g : IsJoin(g, f, n) /\ FlattenSeq(f) = g[n]
<1>1. f \in Seq(Seq(Bytes256)) /\ Len(f) = n
    BY PartsOf
<1>2. PICK g : /\ \A k \in 0..n : g[k] \in Seq(Bytes256)
               /\ g[0] = <<>>
               /\ \A k \in 0..(n - 1) : g[k + 1] = g[k] \o f[k + 1]
               /\ FlattenSeq(f) = g[n]
    BY <1>1, PartsJoin
<1>3. \A k \in 0..(n - 1) : f[k + 1] \in Seq(Bytes256)
  <2>1. \A k \in 0..(n - 1) : k + 1 \in 1..n
        OBVIOUS
  <2> QED
      BY <2>1, Zenon
<1> QED
    BY <1>2, <1>3, Zenon DEF IsJoin

LEMMA PartsLie ==
    ASSUME NEW n \in Nat, NEW g, NEW part, IsJoin(g, part, n), NEW m \in 0..n,
           NEW text, text \in Seq(Bytes256), NEW a \in Nat, LiesAfter(g[m], text, a)
    PROVE  \A j \in 0..(m - 1) : LiesAfter(part[j + 1], text, a + Len(g[j]))
<1>1. m \in Nat
    OBVIOUS
<1> DEFINE S == {k \in 0..m : LiesAfter(g[m - k], text, a)}
<1>2. 0 \in S
  <2>1. 0 \in 0..m /\ m - 0 = m
        BY <1>1
  <2> QED
      BY <2>1, Zenon
<1>3. ASSUME NEW j \in 0..(m - 1), LiesAfter(g[j + 1], text, a)
      PROVE  LiesAfter(g[j], text, a) /\ LiesAfter(part[j + 1], text, a + Len(g[j]))
  <2>1. j \in 0..(n - 1) /\ j \in 0..n
        OBVIOUS
  <2>2. g[j] \in Seq(Bytes256) /\ part[j + 1] \in Seq(Bytes256) /\ g[j + 1] = g[j] \o part[j + 1]
        BY <2>1, Zenon DEF IsJoin
  <2>3. LiesAfter(g[j] \o part[j + 1], text, a)
        BY <1>3, <2>2, Zenon
  <2> QED
      BY <2>2, <2>3, LiesParts, Zenon
<1>4. ASSUME NEW k \in 0..(m - 1), k \in S PROVE k + 1 \in S
  <2>1. PICK j \in 0..(m - 1) : j + 1 = m - k /\ j = m - (k + 1)
    <3>1. m - (k + 1) \in 0..(m - 1) /\ (m - (k + 1)) + 1 = m - k
          BY <1>1
    <3> QED
        BY <3>1, Zenon
  <2>2. LiesAfter(g[j], text, a)
        BY <1>3, <1>4, <2>1, Zenon
  <2>3. k + 1 \in 0..m
        BY <1>1
  <2> QED
      BY <2>1, <2>2, <2>3, Zenon
<1>5. \A k \in 0..m : k \in S
  <2> HIDE DEF S
  <2> QED
      BY <1>1, <1>2, <1>4, UpTo, Zenon
<1> TAKE j \in 0..(m - 1)
<1>6. m - (j + 1) \in 0..m /\ m - (m - (j + 1)) = j + 1
    BY <1>1
<1>7. LiesAfter(g[j + 1], text, a)
    BY <1>5, <1>6, Zenon
<1> QED
    BY <1>3, <1>7, Zenon

LEMMA PartsCut ==
    ASSUME NEW n \in Nat, NEW g, NEW part, IsJoin(g, part, n),
           NEW text, text \in Seq(Bytes256), NEW a \in Nat, CutAfter(g[n], text, a)
    PROVE  \E m \in 0..(n - 1) : LiesAfter(g[m], text, a) /\ CutAfter(part[m + 1], text, a + Len(g[m]))
<1> DEFINE cut(m) == LiesAfter(g[m], text, a) /\ CutAfter(part[m + 1], text, a + Len(g[m]))
           S == {k \in 0..n : CutAfter(g[k], text, a) => \E m \in 0..(n - 1) : cut(m)}
<1>1. 0 \in S
  <2>1. 0 \in 0..n
        OBVIOUS
  <2>2. ~CutAfter(g[0], text, a)
        BY NothingCut, Zenon DEF IsJoin
  <2> QED
      BY <2>1, <2>2, Zenon
<1>2. ASSUME NEW k \in 0..(n - 1), k \in S PROVE k + 1 \in S
  <2>1. k + 1 \in 0..n /\ k \in 0..n
        OBVIOUS
  <2>2. g[k] \in Seq(Bytes256) /\ part[k + 1] \in Seq(Bytes256) /\ g[k + 1] = g[k] \o part[k + 1]
        BY <2>1, Zenon DEF IsJoin
  <2>3. ASSUME CutAfter(g[k + 1], text, a) PROVE \E m \in 0..(n - 1) : cut(m)
    <3>1. CutAfter(g[k] \o part[k + 1], text, a)
          BY <2>2, <2>3, Zenon
    <3>2. CutAfter(g[k], text, a) \/ cut(k)
          BY <2>2, <3>1, CutParts, Zenon
    <3> HIDE DEF cut
    <3> QED
        BY <1>2, <3>2, Zenon
  <2> QED
      BY <2>1, <2>3, Zenon
<1>3. \A k \in 0..n : k \in S
  <2> HIDE DEF S
  <2> QED
      BY <1>1, <1>2, UpTo, Zenon
<1>4. n \in 0..n
    OBVIOUS
<1> QED
    BY <1>3, <1>4, Zenon

(* A result that grew from the back: x[j] is read before what is after it.  *)
Read(w, z) == IF z.ok THEN Is(w, z.at) ELSE Fails

LEMMA ThenReads ==
    ASSUME NEW w, NEW y, NEW z
    PROVE  Then(w, Read(y, z)) = Read(w \o y, z)
<1>1. CASE z.ok
  <2>1. Read(y, z) = Is(y, z.at) /\ Read(w \o y, z) = Is(w \o y, z.at)
        BY <1>1, Zenon DEF Read
  <2>2. Is(y, z.at).ok /\ Is(y, z.at).v = y /\ Is(y, z.at).at = z.at
        BY DEF Is
  <2>3. Then(w, Is(y, z.at)) = Is(w \o y, z.at)
        BY <2>2, Zenon DEF Then
  <2> QED
      BY <2>1, <2>3, Zenon
<1>2. CASE ~z.ok
  <2>1. Read(y, z) = Fails /\ Read(w \o y, z) = Fails
        BY <1>2, Zenon DEF Read
  <2>2. ~Fails.ok
        BY DEF Fails
  <2>3. Then(w, Fails) = Fails
        BY <2>2, Zenon DEF Then
  <2> QED
      BY <2>1, <2>3, Zenon
<1> QED
    BY <1>1, <1>2

ReadsOn(r, part, w, n) ==
    \A j \in 0..(n - 1) : r[j] = Then(part[j + 1], r[j + 1]) /\ w[j] = part[j + 1] \o w[j + 1]

ReadFrom(r, w, k, z) == r[k] = Read(w[k], z)

LEMMA RunsBack ==
    ASSUME NEW n \in Nat, NEW r, NEW part, NEW w, NEW z,
           ReadsOn(r, part, w, n), ReadFrom(r, w, n, z)
    PROVE  ReadFrom(r, w, 0, z)
<1> USE DEF ReadFrom
<1> DEFINE S == {k \in 0..n : r[n - k] = Read(w[n - k], z)}
<1>1. 0 \in S
  <2>1. 0 \in 0..n /\ n - 0 = n
        OBVIOUS
  <2> QED
      BY <2>1, Zenon
<1>2. ASSUME NEW k \in 0..(n - 1), k \in S PROVE k + 1 \in S
  <2>1. PICK j \in 0..(n - 1) : j + 1 = n - k /\ j = n - (k + 1)
    <3>1. n - (k + 1) \in 0..(n - 1) /\ (n - (k + 1)) + 1 = n - k
          OBVIOUS
    <3> QED
        BY <3>1, Zenon
  <2>2. r[j + 1] = Read(w[j + 1], z)
        BY <1>2, <2>1, Zenon
  <2>3. Then(part[j + 1], Read(w[j + 1], z)) = Read(part[j + 1] \o w[j + 1], z)
        BY ThenReads
  <2>4. r[j] = Then(part[j + 1], r[j + 1]) /\ w[j] = part[j + 1] \o w[j + 1]
        BY Zenon DEF ReadsOn
  <2>6. r[j] = Read(w[j], z)
        BY <2>2, <2>3, <2>4
  <2>5. k + 1 \in 0..n
        OBVIOUS
  <2> QED
      BY <2>1, <2>5, <2>6, Zenon
<1>3. \A k \in 0..n : k \in S
  <2> HIDE DEF S
  <2> QED
      BY <1>1, <1>2, UpTo, Zenon
<1>4. n \in 0..n /\ n - n = 0
    OBVIOUS
<1> QED
    BY <1>3, <1>4, Zenon

(* The items of a sequence, read one at a time.  *)
LEMMA ItemsBack ==
    ASSUME NEW S, NEW x, x \in Seq(S), NEW m \in Nat, m <= Len(x), NEW r, NEW z,
           \A j \in 0..(m - 1) : r[j] = Then(<<x[j + 1]>>, r[j + 1]),
           r[m] = Read(<<>>, z)
    PROVE  r[0] = Read(SubSeq(x, 1, m), z)
<1>1. PICK w : w = [j \in 0..m |-> SubSeq(x, j + 1, m)]
    OBVIOUS
<1>2. PICK part : part = [j \in 1..m |-> <<x[j]>>]
    OBVIOUS
<1>3. ASSUME NEW j \in 0..(m - 1) PROVE r[j] = Then(part[j + 1], r[j + 1]) /\ w[j] = part[j + 1] \o w[j + 1]
  <2>1. j \in 0..m /\ j + 1 \in 0..m /\ j + 1 \in 1..m /\ j + 1 \in Nat
        OBVIOUS
  <2>2. part[j + 1] = <<x[j + 1]>> /\ w[j] = SubSeq(x, j + 1, m) /\ w[j + 1] = SubSeq(x, (j + 1) + 1, m)
        BY <1>1, <1>2, <2>1, Zenon
  <2>3. SubSeq(x, j + 1, m) = <<x[j + 1]>> \o SubSeq(x, (j + 1) + 1, m)
        OBVIOUS
  <2> QED
      BY <2>2, <2>3, Zenon
<1>4. w[m] = <<>> /\ w[0] = SubSeq(x, 1, m)
  <2>1. m \in 0..m /\ 0 \in 0..m /\ 0 + 1 = 1
        OBVIOUS
  <2>2. w[m] = SubSeq(x, m + 1, m) /\ w[0] = SubSeq(x, 0 + 1, m)
        BY <1>1, <2>1, Zenon
  <2>3. SubSeq(x, m + 1, m) = <<>>
        OBVIOUS
  <2> QED
      BY <2>1, <2>2, <2>3, Zenon
<1>5. ReadFrom(r, w, m, z)
    BY <1>4, Zenon DEF ReadFrom
<1>6. ReadFrom(r, w, 0, z)
  <2>1. ReadsOn(r, part, w, m)
        BY <1>3, Zenon DEF ReadsOn
  <2> QED
      BY <1>5, <2>1, RunsBack, Zenon
<1> QED
    BY <1>4, <1>6, Zenon DEF ReadFrom

LEMMA PeekIn ==
    ASSUME NEW s, s \in Seq(Bytes256), NEW p \in Nat
    PROVE  /\ p \in 1..Len(s) => Peek(s, p) = s[p]
           /\ p > Len(s) => Peek(s, p) = 0
           /\ Peek(s, p) \in Bytes256
<1>1. DOMAIN s = 1..Len(s) /\ Len(s) \in Nat /\ 0 \in Bytes256 /\ \A k \in 1..Len(s) : s[k] \in Bytes256
  <2>1. DOMAIN s = 1..Len(s) /\ Len(s) \in Nat /\ \A k \in 1..Len(s) : s[k] \in Bytes256
        OBVIOUS
  <2>2. 0 \in Bytes256
        BY DEF Bytes256
  <2> QED
      BY <2>1, <2>2, Zenon
<1>2. p > Len(s) => p \notin 1..Len(s)
    BY <1>1
<1> QED
    BY <1>1, <1>2, Zenon DEF Peek

(* What a byte of a text is: text lies in s after a, and p is in it.  *)
SeenAfter(x, s, a) ==
    \A i \in 1..Len(x) : a + i \in 1..Len(s) /\ s[a + i] = x[i] /\ Peek(s, a + i) = x[i]

LEMMA PeekLies ==
    ASSUME NEW s, s \in Seq(Bytes256), NEW x, x \in Seq(Bytes256), NEW a \in Nat, LiesAfter(x, s, a)
    PROVE  SeenAfter(x, s, a)
<1>1. a + Len(x) <= Len(s) /\ \A i \in 1..Len(x) : s[a + i] = x[i]
    BY Zenon DEF LiesAfter
<1>2. Len(s) \in Nat /\ Len(x) \in Nat
    OBVIOUS
<1> SUFFICES ASSUME NEW i \in 1..Len(x)
             PROVE  a + i \in 1..Len(s) /\ s[a + i] = x[i] /\ Peek(s, a + i) = x[i]
    BY Zenon DEF SeenAfter
<1>3. a + i \in 1..Len(s) /\ a + i \in Nat
    BY <1>1, <1>2
<1> QED
    BY <1>1, <1>3, PeekIn, Zenon

(* The escapes of one letter that parseString knows.  *)
LEMMA EscapeRead ==
    ASSUME NEW c, NEW l, EscapeOf(c, l)
    PROVE  (\E q \in Escapes : q[1] = l) /\ (CHOOSE q \in Escapes : q[1] = l)[2] = c
<1>1. <<l, c>> \in Escapes /\ <<l, c>>[1] = l
    BY DEF EscapeOf
<1>2. PICK q : q = CHOOSE x \in Escapes : x[1] = l
    OBVIOUS
<1>3. q \in Escapes /\ q[1] = l
    BY <1>1, <1>2, Zenon
<1>4. q = <<l, q[2]>>
    BY <1>3, EscapePairs, Zenon
<1>5. EscapeOf(q[2], l)
    BY <1>3, <1>4, Zenon DEF EscapeOf
<1>6. q[2] = c
    BY <1>5, EscapeLine, Zenon
<1> QED
    BY <1>1, <1>2, <1>6, Zenon

(* How a string goes on at p.  *)
LEMMA CharSteps ==
    ASSUME NEW s, s \in Seq(Bytes256), NEW f, IsChars(f, s), NEW p \in Nat
    PROVE  /\ p > Len(s) => f[p] = Fails
           /\ p <= Len(s) /\ s[p] = QuoteMark => f[p] = Is(<<>>, p + 1)
           /\ p <= Len(s) /\ s[p] \notin {QuoteMark, ReverseSolidus} => f[p] = Then(<<s[p]>>, f[p + 1])
<1>1. f[p] = StringFrom(s, p, f)
    BY Zenon DEF IsChars
<1>2. p <= Len(s) => ~(p > Len(s))
  <2>1. Len(s) \in Nat
        OBVIOUS
  <2> QED
      BY <2>1
<1>3. QuoteMark # ReverseSolidus
    BY DEF QuoteMark, ReverseSolidus
<1> QED
    BY <1>1, <1>2, <1>3, Zenon DEF StringFrom

(* What an escape stands for: e is the byte after the backslash, u what a  *)
(* \u there would be.                                                      *)
IsU(c) == c = 117
UnicodeFrom(f, u) == IF u.ok THEN Then(AppendUtf8(u.cp), f[u.at]) ELSE Fails
Escaped(f, p, e, u) ==
    IF e = Solidus THEN Then(<<Solidus>>, f[p + 2])
    ELSE IF \E q \in Escapes : q[1] = e
    THEN Then(<<(CHOOSE q \in Escapes : q[1] = e)[2]>>, f[p + 2])
    ELSE IF IsU(e) /\ u.ok THEN Then(AppendUtf8(u.cp), f[u.at])
    ELSE Fails

LEMMA EscapedAt ==
    ASSUME NEW s, s \in Seq(Bytes256), NEW f, IsChars(f, s), NEW p \in Nat, p <= Len(s), s[p] = ReverseSolidus
    PROVE  f[p] = Escaped(f, p, Peek(s, p + 1), ParseUnicode(s, p + 2))
<1> DEFINE e == Peek(s, p + 1)
           u == ParseUnicode(s, p + 2)
           z == Escaped(f, p, e, u)
<1>1. f[p] = IF p > Len(s) THEN Fails
             ELSE IF s[p] = QuoteMark THEN Is(<<>>, p + 1)
             ELSE IF s[p] # ReverseSolidus THEN Then(<<s[p]>>, f[p + 1])
             ELSE z
    BY Zenon DEF IsChars, StringFrom, Escaped, IsU
<1>2. ~(p > Len(s))
  <2>1. Len(s) \in Nat
        OBVIOUS
  <2> QED
      BY <2>1
<1>3. QuoteMark # ReverseSolidus
    BY DEF QuoteMark, ReverseSolidus
<1> HIDE DEF z
<1>4. f[p] = z
    BY <1>1, <1>2, <1>3, Zenon
<1> QED
    BY <1>4, Zenon DEF z

LEMMA EscapeStep ==
    ASSUME NEW s, s \in Seq(Bytes256), NEW f, IsChars(f, s), NEW p \in Nat, p <= Len(s), s[p] = ReverseSolidus,
           NEW c, EscapeOf(c, Peek(s, p + 1))
    PROVE  f[p] = Then(<<c>>, f[p + 2])
<1> DEFINE e == Peek(s, p + 1)
<1>1. f[p] = Escaped(f, p, e, ParseUnicode(s, p + 2))
    BY EscapedAt, Zenon
<1>2. EscapeOf(c, e)
    OBVIOUS
<1> HIDE DEF e
<1>3. e # Solidus
    BY <1>2, EscapeLine, Zenon
<1>4. (\E q \in Escapes : q[1] = e) /\ (CHOOSE q \in Escapes : q[1] = e)[2] = c
    BY <1>2, EscapeRead
<1> QED
    BY <1>1, <1>3, <1>4, Zenon DEF Escaped

LEMMA EscapedU ==
    ASSUME NEW f, NEW p, NEW e, NEW u, IsU(e)
    PROVE  Escaped(f, p, e, u) = UnicodeFrom(f, u)
<1>1. e # Solidus
    BY DEF IsU, Solidus
<1>2. ~\E q \in Escapes : q[1] = e
    BY DEF IsU, Escapes
<1> QED
    BY <1>1, <1>2 DEF Escaped, UnicodeFrom

LEMMA UnicodeStep ==
    ASSUME NEW s, s \in Seq(Bytes256), NEW f, IsChars(f, s), NEW p \in Nat, p <= Len(s), s[p] = ReverseSolidus,
           IsU(Peek(s, p + 1))
    PROVE  f[p] = UnicodeFrom(f, ParseUnicode(s, p + 2))
<1>1. f[p] = Escaped(f, p, Peek(s, p + 1), ParseUnicode(s, p + 2))
    BY EscapedAt, Zenon
<1> QED
    BY <1>1, EscapedU, Zenon

LEMMA NothingEscaped ==
    ASSUME NEW s, s \in Seq(Bytes256), NEW f, IsChars(f, s), NEW p \in Nat, p <= Len(s), s[p] = ReverseSolidus,
           Peek(s, p + 1) = 0
    PROVE  f[p] = Fails
<1> DEFINE e == Peek(s, p + 1)
           u == ParseUnicode(s, p + 2)
<1>1. f[p] = Escaped(f, p, e, u)
    BY EscapedAt, Zenon
<1>2. e = 0
    OBVIOUS
<1> HIDE DEF e, u
<1>3. e # Solidus /\ ~IsU(e)
    BY <1>2 DEF IsU, Solidus
<1>4. ~\E q \in Escapes : q[1] = e
    BY <1>2 DEF Escapes
<1> QED
    BY <1>1, <1>3, <1>4, Zenon DEF Escaped

(* Four digits, read.  *)
HexAt(s, at, h) == h \in [0..3 -> 0..15] /\ \A k \in 0..3 : HexVal(Peek(s, at + k)) = h[k]

Hex4Of(h) == h[0] * 4096 + h[1] * 256 + h[2] * 16 + h[3]

LEMMA Hex4Read ==
    ASSUME NEW s, NEW at \in Nat, NEW h, HexAt(s, at, h)
    PROVE  ParseHex4(s, at) = Hex4Of(h)
<1> DEFINE g == [k \in 0..3 |-> HexVal(Peek(s, at + k))]
<1>1. ParseHex4(s, at) = IF -1 \in {g[k] : k \in 0..3} THEN -1
                         ELSE g[0] * 4096 + g[1] * 256 + g[2] * 16 + g[3]
    BY DEF ParseHex4
<1>2. \A k \in 0..3 : g[k] = h[k] /\ h[k] # -1
  <2>1. \A k \in 0..3 : h[k] \in 0..15
        BY DEF HexAt
  <2> QED
      BY <2>1 DEF HexAt
<1>3. 0 \in 0..3 /\ 1 \in 0..3 /\ 2 \in 0..3 /\ 3 \in 0..3
    OBVIOUS
<1> HIDE DEF g
<1>4. -1 \notin {g[k] : k \in 0..3}
    BY <1>2
<1>5. ParseHex4(s, at) = g[0] * 4096 + g[1] * 256 + g[2] * 16 + g[3]
    BY <1>1, <1>4
<1>6. g[0] = h[0] /\ g[1] = h[1] /\ g[2] = h[2] /\ g[3] = h[3]
    BY <1>2, <1>3, Zenon
<1> QED
    BY <1>5, <1>6 DEF Hex4Of

LEMMA Hex4Missing ==
    ASSUME NEW s, NEW at \in Nat, NEW k \in 0..3, HexVal(Peek(s, at + k)) = -1
    PROVE  ParseHex4(s, at) = -1
<1> DEFINE g == [j \in 0..3 |-> HexVal(Peek(s, at + j))]
<1>1. ParseHex4(s, at) = IF -1 \in {g[j] : j \in 0..3} THEN -1
                         ELSE g[0] * 4096 + g[1] * 256 + g[2] * 16 + g[3]
    BY DEF ParseHex4
<1>2. g[k] = -1
    OBVIOUS
<1>3. -1 \in {g[j] : j \in 0..3}
    BY <1>2
<1> HIDE DEF g
<1> QED
    BY <1>1, <1>3

(* An escape that stands alone, and one that is none.  *)
LEMMA UnicodeOne ==
    ASSUME NEW s, NEW at, NEW hi, ParseHex4(s, at) = hi, ~IsHigh(hi), hi # -1
    PROVE  ParseUnicode(s, at) = [ok |-> TRUE, cp |-> hi, at |-> at + 4]
BY DEF ParseUnicode

LEMMA UnicodeNone ==
    ASSUME NEW s, NEW at, ParseHex4(s, at) = -1
    PROVE  ~ParseUnicode(s, at).ok
BY DEF ParseUnicode

LEMMA HexDigitRead ==
    ASSUME NEW d \in 0..15
    PROVE  HexVal(HexDigit(d)) = d
<1>1. d < 10 => HexDigit(d) \in 48..57 /\ HexDigit(d) - 48 = d
    BY DEF HexDigit
<1>2. ~(d < 10) => HexDigit(d) \in 97..102 /\ HexDigit(d) - 87 = d /\ HexDigit(d) \notin 48..57
    BY DEF HexDigit
<1> QED
    BY <1>1, <1>2, Zenon DEF HexVal, Digits

LEMMA HexZero == HexVal(0) = -1
<1>1. 0 \notin 48..57 /\ 0 \notin 97..102 /\ 0 \notin 65..70
    OBVIOUS
<1> QED
    BY <1>1, Zenon DEF HexVal, Digits

(* What is written for a byte is read back as it.  *)
ReadsChar(f, a, c) == f[a + 1] = Then(<<c>>, f[(a + Len(DumpChar(c))) + 1])

LEMMA CharRead ==
    ASSUME NEW s, s \in Seq(Bytes256), NEW f, IsChars(f, s), NEW a \in Nat,
           NEW c \in Bytes256, LiesAfter(DumpChar(c), s, a)
    PROVE  ReadsChar(f, a, c)
<1> USE DEF ReadsChar
<1>0. PICK x : x = DumpChar(c)
    OBVIOUS
<1>1. DumpedChar(c, x) /\ LiesAfter(x, s, a) /\ x \in Seq(Bytes256)
    BY <1>0, CharDumps, CharLine, LinesAreBytes, Zenon
<1>2. \A i \in 1..Len(x) : a + i \in 1..Len(s) /\ s[a + i] = x[i] /\ Peek(s, a + i) = x[i]
  <2>1. SeenAfter(x, s, a)
        BY <1>1, PeekLies, Zenon
  <2> QED
      BY <2>1, Zenon DEF SeenAfter
<1>3. a + 1 \in Nat /\ Len(s) \in Nat
    OBVIOUS
<1>4. CASE \E l : EscapeOf(c, l) /\ x = <<ReverseSolidus, l>>
  <2>1. PICK l : EscapeOf(c, l) /\ x = <<ReverseSolidus, l>>
        BY <1>4
  <2>2. Len(x) = 2 /\ x[1] = ReverseSolidus /\ x[2] = l /\ 1 \in 1..2 /\ 2 \in 1..2
        BY <2>1
  <2>3. a + 1 \in 1..Len(s) /\ s[a + 1] = ReverseSolidus /\ Peek(s, a + 2) = l
        BY <1>2, <2>2, Zenon
  <2>4. a + 1 <= Len(s) /\ (a + 1) + 1 = a + 2 /\ (a + 1) + 2 = (a + 2) + 1
        BY <1>3, <2>3
  <2>5. EscapeOf(c, Peek(s, (a + 1) + 1))
        BY <2>1, <2>3, <2>4, Zenon
  <2>6. f[a + 1] = Then(<<c>>, f[(a + 1) + 2])
        BY <1>3, <2>3, <2>4, <2>5, EscapeStep, Zenon
  <2> QED
      BY <1>0, <2>2, <2>4, <2>6, Zenon
<1>5. CASE c < 32 /\ x = <<ReverseSolidus, 117, 48, 48, HexDigit(c \div 16), HexDigit(c % 16)>>
  <2>1. PICK d \in 0..15, r \in 0..15 : d = c \div 16 /\ r = c % 16 /\ d * 16 + r = c
    <3>1. c \in 0..31
          BY <1>5 DEF Bytes256
    <3>2. c \div 16 \in 0..15 /\ c % 16 \in 0..15 /\ (c \div 16) * 16 + (c % 16) = c
          BY <3>1
    <3> QED
        BY <3>2
  <2>2. /\ Len(x) = 6 /\ x[1] = ReverseSolidus /\ x[2] = 117 /\ x[3] = 48 /\ x[4] = 48
        /\ x[5] = HexDigit(d) /\ x[6] = HexDigit(r)
        BY <1>5, <2>1
  <2>3. \A i \in 1..6 : a + i \in 1..Len(s) /\ s[a + i] = x[i] /\ Peek(s, a + i) = x[i]
        BY <1>2, <2>2, Zenon
  <2>4. 1 \in 1..6 /\ 2 \in 1..6 /\ 3 \in 1..6 /\ 4 \in 1..6 /\ 5 \in 1..6 /\ 6 \in 1..6
        OBVIOUS
  <2>5. PICK h : h = [k \in 0..3 |-> IF k = 0 THEN 0 ELSE IF k = 1 THEN 0 ELSE IF k = 2 THEN d ELSE r]
        OBVIOUS
  <2>6. h \in [0..3 -> 0..15] /\ h[0] = 0 /\ h[1] = 0 /\ h[2] = d /\ h[3] = r
        BY <2>5
  <2>7. HexAt(s, a + 3, h)
    <3>1. HexVal(48) = 0
          BY DEF HexVal, Digits
    <3>2. /\ HexVal(Peek(s, a + 3)) = h[0] /\ HexVal(Peek(s, a + 4)) = h[1]
          /\ HexVal(Peek(s, a + 5)) = h[2] /\ HexVal(Peek(s, a + 6)) = h[3]
      <4>1. HexVal(Peek(s, a + 3)) = h[0] /\ HexVal(Peek(s, a + 4)) = h[1]
            BY <2>2, <2>3, <2>4, <2>6, <3>1, Zenon
      <4>2. HexVal(HexDigit(d)) = d /\ HexVal(HexDigit(r)) = r
            BY HexDigitRead, Zenon
      <4>3. HexVal(Peek(s, a + 5)) = h[2] /\ HexVal(Peek(s, a + 6)) = h[3]
            BY <2>2, <2>3, <2>4, <2>6, <4>2, Zenon
      <4> QED
          BY <4>1, <4>3, Zenon
    <3>3. ASSUME NEW k \in 0..3 PROVE HexVal(Peek(s, (a + 3) + k)) = h[k]
      <4>1. /\ k \in {0, 1, 2, 3} /\ (a + 3) + 0 = a + 3 /\ (a + 3) + 1 = a + 4
            /\ (a + 3) + 2 = a + 5 /\ (a + 3) + 3 = a + 6
            OBVIOUS
      <4> QED
          BY <3>2, <4>1, Zenon
    <3> QED
        BY <2>6, <3>3, Zenon DEF HexAt
  <2>8. ParseHex4(s, a + 3) = c
    <3>1. a + 3 \in Nat
          OBVIOUS
    <3>2. ParseHex4(s, a + 3) = Hex4Of(h)
          BY <2>7, <3>1, Hex4Read, Zenon
    <3>3. Hex4Of(h) = c
          BY <2>1, <2>6 DEF Hex4Of
    <3> QED
        BY <3>2, <3>3, Zenon
  <2>9. ~IsHigh(c) /\ c # -1 /\ c < 128
    <3>1. c \in Nat /\ c < 32
          BY <1>5 DEF Bytes256
    <3>2. c \notin 55296..56319 /\ c # -1 /\ c < 128
          BY <3>1
    <3> QED
        BY <3>2 DEF IsHigh
  <2>10. ParseUnicode(s, a + 3) = [ok |-> TRUE, cp |-> c, at |-> (a + 3) + 4]
        BY <2>8, <2>9, UnicodeOne, Zenon
  <2>11. AppendUtf8(c) = <<c>>
        BY <2>9 DEF AppendUtf8
  <2>12. /\ a + 1 <= Len(s) /\ s[a + 1] = ReverseSolidus /\ IsU(Peek(s, (a + 1) + 1))
         /\ (a + 1) + 2 = a + 3 /\ (a + 3) + 4 = (a + 6) + 1
    <3>1. a + 1 \in 1..Len(s) /\ s[a + 1] = ReverseSolidus /\ Peek(s, a + 2) = 117
          BY <2>2, <2>3, <2>4
    <3> QED
        BY <1>3, <3>1 DEF IsU
  <2>13. f[a + 1] = Then(AppendUtf8(c), f[(a + 3) + 4])
    <3>0. f[a + 1] = UnicodeFrom(f, ParseUnicode(s, (a + 1) + 2))
          BY <1>3, <2>12, UnicodeStep, Zenon
    <3>1. f[a + 1] = UnicodeFrom(f, ParseUnicode(s, a + 3))
          BY <2>12, <3>0, Zenon
    <3>2. ParseUnicode(s, a + 3).ok /\ ParseUnicode(s, a + 3).cp = c /\ ParseUnicode(s, a + 3).at = (a + 3) + 4
          BY <2>10
    <3> QED
        BY <3>1, <3>2, Zenon DEF UnicodeFrom
  <2> QED
      BY <1>0, <2>2, <2>11, <2>12, <2>13, Zenon
<1>6. CASE c >= 32 /\ c \notin {QuoteMark, ReverseSolidus} /\ x = <<c>>
  <2>1. Len(x) = 1 /\ x[1] = c /\ 1 \in 1..1
        BY <1>6
  <2>2. a + 1 \in 1..Len(s) /\ s[a + 1] = c
        BY <1>2, <2>1, Zenon
  <2>3. a + 1 <= Len(s)
        BY <1>3, <2>2
  <2>4. f[a + 1] = Then(<<c>>, f[(a + 1) + 1])
        BY <1>3, <1>6, <2>2, <2>3, CharSteps
  <2> QED
      BY <1>0, <2>1, <2>4, Zenon
<1> QED
    BY <1>1, <1>4, <1>5, <1>6, Zenon DEF DumpedChar

(* A byte's text that is cut is no string.  *)
LEMMA CharCut ==
    ASSUME NEW s, s \in Seq(Bytes256), NEW f, IsChars(f, s), NEW a \in Nat,
           NEW c \in Bytes256, CutAfter(DumpChar(c), s, a)
    PROVE  f[a + 1] = Fails
<1>0. PICK x : x = DumpChar(c)
    OBVIOUS
<1>1. DumpedChar(c, x) /\ CutAfter(x, s, a)
    BY <1>0, CharDumps, Zenon
<1>2. PICK l \in Nat : l = Len(s)
    OBVIOUS
<1>3. a <= l /\ l < a + Len(x) /\ \A i \in 1..(l - a) : s[a + i] = x[i]
    BY <1>1, <1>2, Zenon DEF CutAfter
<1>4. CASE a = l
  <2>1. a + 1 \in Nat /\ a + 1 > Len(s)
        BY <1>2, <1>4
  <2> QED
      BY <2>1, CharSteps
<1>5. CASE a # l
  <2>1. a + 1 <= l /\ 1 \in 1..(l - a)
        BY <1>3, <1>5
  <2>2. s[a + 1] = x[1]
        BY <1>3, <2>1, Zenon
  <2>3. Len(x) # 1
    <3>1. Len(x) = 1 => l < a + 1
          BY <1>3
    <3> QED
        BY <2>1, <3>1
  <2>4. CASE a + 1 = l
    <3>1. x[1] = ReverseSolidus
      <4>1. \A d : Len(<<d>>) = 1
            OBVIOUS
      <4>2. x = <<c>> => Len(x) = 1
            BY <4>1
      <4>3. (\E e : x = <<ReverseSolidus, e>>)
            \/ x = <<ReverseSolidus, 117, 48, 48, HexDigit(c \div 16), HexDigit(c % 16)>>
            BY <1>1, <2>3, <4>2, Zenon DEF DumpedChar
      <4> QED
          BY <4>3
    <3>2. Peek(s, (a + 1) + 1) = 0
      <4>1. (a + 1) + 1 \in Nat /\ (a + 1) + 1 > Len(s)
            BY <1>2, <2>4
      <4> QED
          BY <4>1, PeekIn
    <3>3. a + 1 \in Nat /\ a + 1 <= Len(s)
          BY <1>2, <2>1
    <3> QED
        BY <2>2, <3>1, <3>2, <3>3, NothingEscaped
  <2>5. CASE a + 1 # l
    <3>1. Len(x) # 2
      <4>1. Len(x) = 2 => l < a + 2
            BY <1>3
      <4> QED
          BY <2>1, <2>5, <4>1
    <3>2. x = <<ReverseSolidus, 117, 48, 48, HexDigit(c \div 16), HexDigit(c % 16)>>
      <4>1. \A d : Len(<<d>>) = 1
            OBVIOUS
      <4>2. \A d, e : Len(<<d, e>>) = 2
            OBVIOUS
      <4>3. x # <<c>>
            BY <2>3, <4>1
      <4>4. \A e : x # <<ReverseSolidus, e>>
            BY <3>1, <4>2
      <4> QED
          BY <1>1, <4>3, <4>4, Zenon DEF DumpedChar
    <3>3. Len(x) = 6 /\ x[1] = ReverseSolidus /\ x[2] = 117
          BY <3>2
    <3>4. 2 \in 1..(l - a) /\ l < a + 6 /\ a + 2 \in 1..Len(s) /\ a + 2 \in Nat
          BY <1>2, <1>3, <2>1, <2>5, <3>3
    <3>5. s[a + 2] = 117
          BY <1>3, <3>3, <3>4, Zenon
    <3>6. Peek(s, a + 2) = 117
          BY <3>4, <3>5, PeekIn
    <3>7. HexVal(Peek(s, (a + 3) + 3)) = -1
      <4>1. (a + 3) + 3 \in Nat /\ (a + 3) + 3 > Len(s)
            BY <1>2, <3>4
      <4>2. Peek(s, (a + 3) + 3) = 0
            BY <4>1, PeekIn
      <4> QED
          BY <4>2, HexZero
    <3>8. ParseHex4(s, a + 3) = -1
      <4>1. a + 3 \in Nat /\ 3 \in 0..3
            OBVIOUS
      <4> QED
          BY <3>7, <4>1, Hex4Missing
    <3>9. ~ParseUnicode(s, a + 3).ok
          BY <3>8, UnicodeNone, Zenon
    <3>10. /\ a + 1 \in Nat /\ a + 1 <= Len(s) /\ (a + 1) + 1 = a + 2 /\ (a + 1) + 2 = a + 3
          BY <1>2, <2>1
    <3>11. s[a + 1] = ReverseSolidus /\ IsU(Peek(s, (a + 1) + 1))
          BY <2>2, <3>3, <3>6, <3>10 DEF IsU
    <3>12. f[a + 1] = UnicodeFrom(f, ParseUnicode(s, (a + 1) + 2))
          BY <3>10, <3>11, UnicodeStep, Zenon
    <3> QED
        BY <3>9, <3>10, <3>12, Zenon DEF UnicodeFrom
  <2> QED
      BY <2>4, <2>5
<1> QED
    BY <1>4, <1>5

LEMMA ReadEnds ==
    /\ Read(<<>>, Fails) = Fails
    /\ \A at : Read(<<>>, Is(<<>>, at)) = Is(<<>>, at)
    /\ \A w : Read(w, Fails) = Fails
    /\ \A w, at : Read(w, Is(<<>>, at)) = Is(w, at)
<1>1. ~Fails.ok
    BY DEF Fails
<1>2. \A w, at : Is(w, at).ok /\ Is(w, at).at = at
    BY DEF Is
<1> QED
    BY <1>1, <1>2, Zenon DEF Read

(* The texts of a string's bytes, joined.  *)
CharParts(part, x, n) == n = Len(x) /\ \A k \in 1..n : x[k] \in Bytes256 /\ part[k] = DumpChar(x[k])

LEMMA StringJoin ==
    ASSUME NEW x, x \in Seq(Bytes256)
    PROVE  \E g, part : /\ CharParts(part, x, Len(x)) /\ IsJoin(g, part, Len(x))
                        /\ DumpString(x) = (<<QuoteMark>> \o g[Len(x)]) \o <<QuoteMark>>
<1>1. PICK n \in Nat : n = Len(x)
    OBVIOUS
<1>2. PICK part : part = [k \in DOMAIN x |-> DumpChar(x[k])]
    OBVIOUS
<1>3. DOMAIN x = 1..n /\ \A k \in 1..n : x[k] \in Bytes256
    BY <1>1
<1>4. part = [k \in 1..n |-> part[k]] /\ \A k \in 1..n : part[k] = DumpChar(x[k])
    BY <1>2, <1>3
<1>5. \A k \in 1..n : part[k] \in Seq(Bytes256)
    BY <1>3, <1>4, CharLine, LinesAreBytes, Zenon
<1>6. PICK g : IsJoin(g, part, n) /\ FlattenSeq(part) = g[n]
    BY <1>4, <1>5, JoinOf, Zenon
<1>7. DumpString(x) = (<<QuoteMark>> \o g[n]) \o <<QuoteMark>>
    BY <1>2, <1>6, Zenon DEF DumpString
<1>8. CharParts(part, x, n)
    BY <1>1, <1>3, <1>4, Zenon DEF CharParts
<1> QED
    BY <1>1, <1>6, <1>7, <1>8, Zenon

BackTo(f, a, w, z) == f[a + 1] = Read(w, z)

(* The first m bytes of a string are read, before what ends it.  *)
LEMMA CharsBack ==
    ASSUME NEW s, s \in Seq(Bytes256), NEW f, IsChars(f, s),
           NEW x, x \in Seq(Bytes256), NEW g, NEW part, NEW n \in Nat, CharParts(part, x, n),
           IsJoin(g, part, n), NEW m \in 0..n, NEW b \in Nat, LiesAfter(g[m], s, b),
           NEW z, BackTo(f, b + Len(g[m]), <<>>, z)
    PROVE  BackTo(f, b, SubSeq(x, 1, m), z)
<1> USE DEF BackTo
<1>1. m \in Nat /\ m <= Len(x)
  <2>1. n = Len(x)
        BY Zenon DEF CharParts
  <2>2. m \in Nat /\ m <= n
        OBVIOUS
  <2> QED
      BY <2>1, <2>2, Zenon
<1>2. PICK r : r = [j \in 0..m |-> f[(b + Len(g[j])) + 1]]
    OBVIOUS
<1>3. ASSUME NEW j \in 0..(m - 1) PROVE r[j] = Then(<<x[j + 1]>>, r[j + 1])
  <2>1. j \in 0..m /\ j + 1 \in 0..m /\ j \in 0..(n - 1) /\ j + 1 \in 1..n /\ j \in 0..n /\ j + 1 \in 0..n
        BY <1>1
  <2>2. LiesAfter(part[j + 1], s, b + Len(g[j]))
        BY PartsLie, Zenon
  <2>3. part[j + 1] = DumpChar(x[j + 1]) /\ x[j + 1] \in Bytes256
        BY <2>1, Zenon DEF CharParts
  <2>4. /\ g[j] \in Seq(Bytes256) /\ g[j + 1] \in Seq(Bytes256)
        /\ part[j + 1] \in Seq(Bytes256) /\ g[j + 1] = g[j] \o part[j + 1]
        BY <2>1, Zenon DEF IsJoin
  <2>5. PICK c \in Nat : c = b + Len(g[j])
    <3>1. Len(g[j]) \in Nat
          BY <2>4
    <3> QED
        BY <3>1
  <2>6. c + Len(part[j + 1]) = b + Len(g[j + 1])
    <3>1. PICK y : y = g[j] \o part[j + 1]
          OBVIOUS
    <3>2. Len(y) = Len(g[j]) + Len(part[j + 1]) /\ Len(g[j]) \in Nat /\ Len(part[j + 1]) \in Nat
          BY <2>4, <3>1, ConcatPlaces
    <3>3. g[j + 1] = y
          BY <2>4, <3>1, Zenon
    <3>4. PICK u \in Nat, v \in Nat : u = Len(g[j]) /\ v = Len(part[j + 1]) /\ Len(g[j + 1]) = u + v
          BY <3>2, <3>3, Zenon
    <3>5. c = b + u
          BY <2>5, <3>4, Zenon
    <3>6. c + v = b + (u + v)
          BY <3>5
    <3> QED
        BY <3>4, <3>6, Zenon
  <2>7. f[c + 1] = Then(<<x[j + 1]>>, f[(c + Len(part[j + 1])) + 1])
    <3>1. LiesAfter(DumpChar(x[j + 1]), s, c)
          BY <2>2, <2>3, <2>5, Zenon
    <3>2. f[c + 1] = Then(<<x[j + 1]>>, f[(c + Len(DumpChar(x[j + 1]))) + 1])
      <4>1. ReadsChar(f, c, x[j + 1])
            BY <2>3, <3>1, CharRead, Zenon
      <4> QED
          BY <4>1, Zenon DEF ReadsChar
    <3> QED
        BY <2>3, <3>2, Zenon
  <2>8. r[j] = f[c + 1] /\ r[j + 1] = f[(b + Len(g[j + 1])) + 1]
        BY <1>2, <2>1, <2>5, Zenon
  <2> QED
      BY <2>6, <2>7, <2>8, Zenon
<1>4. m \in 0..m /\ 0 \in 0..m /\ 0 \in 0..n
    BY <1>1
<1>5. r[m] = Read(<<>>, z)
    BY <1>2, <1>4, Zenon
<1>6. r[0] = Read(SubSeq(x, 1, m), z)
    BY <1>1, <1>3, <1>5, ItemsBack
<1>7. g[0] = <<>>
    BY Zenon DEF IsJoin
<1>8. b + Len(<<>>) = b
    OBVIOUS
<1>9. r[0] = f[b + 1]
    BY <1>2, <1>4, <1>7, <1>8, Zenon
<1> QED
    BY <1>6, <1>9, Zenon

(* parseString reads what dumpString wrote.  *)
LEMMA StringReads ==
    ASSUME NEW s, s \in Seq(Bytes256), NEW x, x \in Seq(Bytes256), NEW a \in Nat, LiesAfter(DumpString(x), s, a)
    PROVE  ParseString(s, a + 1) = Is(StringValue(x), (a + Len(DumpString(x))) + 1)
<1>1. PICK f : IsChars(f, s) /\ \A at : ParseString(s, at) = StringRead(f[at + 1])
    BY Strings, Zenon
<1>2. PICK n \in Nat : n = Len(x)
    OBVIOUS
<1>3. PICK g, part : /\ CharParts(part, x, n) /\ IsJoin(g, part, n)
                     /\ DumpString(x) = (<<QuoteMark>> \o g[n]) \o <<QuoteMark>>
    BY <1>2, StringJoin, Zenon
<1>4. PICK y, q : y = g[n] /\ y \in Seq(Bytes256) /\ q = <<QuoteMark>> /\ q \in Seq(Bytes256) /\ Len(q) = 1 /\ q[1] = QuoteMark
  <2>1. n \in 0..n
        OBVIOUS
  <2>2. g[n] \in Seq(Bytes256)
        BY <1>3, <2>1, Zenon DEF IsJoin
  <2>3. QuoteMark \in Bytes256
        BY DEF QuoteMark, Bytes256
  <2>4. <<QuoteMark>> \in Seq(Bytes256) /\ Len(<<QuoteMark>>) = 1 /\ <<QuoteMark>>[1] = QuoteMark
        BY <2>3
  <2> QED
      BY <2>2, <2>4, Zenon
<1>5. PICK w : w = q \o y /\ w \in Seq(Bytes256) /\ Len(w) = 1 + Len(y) /\ DumpString(x) = w \o q
  <2>1. PICK v : v = q \o y
        OBVIOUS
  <2>2. v \in Seq(Bytes256) /\ Len(v) = Len(q) + Len(y)
        BY <1>4, <2>1, ConcatPlaces
  <2> QED
      BY <1>3, <1>4, <2>1, <2>2, Zenon
<1>6. LiesAfter(w, s, a) /\ LiesAfter(q, s, a + Len(w))
    BY <1>4, <1>5, LiesParts, Zenon
<1>7. LiesAfter(y, s, a + 1)
  <2>1. LiesAfter(q \o y, s, a)
        BY <1>5, <1>6, Zenon
  <2> QED
      BY <1>4, <2>1, LiesParts, Zenon
<1>8. PICK l \in Nat : l = Len(y) /\ Len(w) = 1 + l /\ Len(DumpString(x)) = (1 + l) + 1
  <2>1. PICK v : v = w \o q
        OBVIOUS
  <2>2. Len(v) = Len(w) + Len(q)
        BY <1>4, <1>5, <2>1, ConcatPlaces
  <2>3. Len(y) \in Nat
        BY <1>4
  <2>4. Len(DumpString(x)) = (1 + Len(y)) + 1
        BY <1>4, <1>5, <2>1, <2>2, Zenon
  <2> QED
      BY <1>5, <2>3, <2>4
<1>9. PICK p \in Nat : p = ((a + 1) + l) + 1 /\ p = (a + (1 + l)) + 1 /\ p + 1 = (a + ((1 + l) + 1)) + 1
    OBVIOUS
<1>10. p \in 1..Len(s) /\ s[p] = QuoteMark
  <2>1. a + (1 + l) \in Nat /\ 1 \in 1..1
        OBVIOUS
  <2>2. (a + (1 + l)) + 1 \in 1..Len(s) /\ s[(a + (1 + l)) + 1] = q[1]
    <3>1. LiesAfter(q, s, a + (1 + l))
          BY <1>6, <1>8, Zenon
    <3>2. \A i \in 1..Len(q) : (a + (1 + l)) + i \in 1..Len(s) /\ s[(a + (1 + l)) + i] = q[i]
      <4>1. SeenAfter(q, s, a + (1 + l))
            BY <1>4, <2>1, <3>1, PeekLies, Zenon
      <4> QED
          BY <4>1, Zenon DEF SeenAfter
    <3> QED
        BY <1>4, <2>1, <3>2, Zenon
  <2> QED
      BY <1>4, <1>9, <2>2, Zenon
<1>11. f[p] = Is(<<>>, p + 1)
  <2>1. p <= Len(s)
        BY <1>10
  <2> QED
      BY <1>1, <1>10, <2>1, CharSteps
<1>12. f[(a + 1) + 1] = Read(SubSeq(x, 1, n), Is(<<>>, p + 1))
  <2>1. n \in 0..n /\ a + 1 \in Nat
        OBVIOUS
  <2>2. BackTo(f, (a + 1) + Len(g[n]), <<>>, Is(<<>>, p + 1))
        BY <1>4, <1>8, <1>9, <1>11, ReadEnds, Zenon DEF BackTo
  <2>3. LiesAfter(g[n], s, a + 1)
        BY <1>4, <1>7, Zenon
  <2>4. BackTo(f, a + 1, SubSeq(x, 1, n), Is(<<>>, p + 1))
        BY <1>1, <1>2, <1>3, <2>1, <2>2, <2>3, CharsBack, Zenon
  <2> QED
      BY <2>4, Zenon DEF BackTo
<1>13. SubSeq(x, 1, n) = x
    BY <1>2
<1>14. f[(a + 1) + 1] = Is(x, p + 1)
    BY <1>12, <1>13, ReadEnds, Zenon
<1>15. ParseString(s, a + 1) = Is(StringValue(x), p + 1)
  <2>1. ParseString(s, a + 1) = StringRead(Is(x, p + 1))
        BY <1>1, <1>14, Zenon
  <2>2. Is(x, p + 1).ok /\ Is(x, p + 1).v = x /\ Is(x, p + 1).at = p + 1
        BY DEF Is
  <2> QED
      BY <2>1, <2>2, Zenon DEF StringRead
<1> QED
    BY <1>8, <1>9, <1>15, Zenon

(* Cut, it reads nothing.  *)
LEMMA StringCut ==
    ASSUME NEW s, s \in Seq(Bytes256), NEW x, x \in Seq(Bytes256), NEW a \in Nat, CutAfter(DumpString(x), s, a)
    PROVE  ParseString(s, a + 1) = Fails
<1>1. PICK f : IsChars(f, s) /\ \A at : ParseString(s, at) = StringRead(f[at + 1])
    BY Strings, Zenon
<1>2. PICK n \in Nat : n = Len(x)
    OBVIOUS
<1>3. PICK g, part : /\ CharParts(part, x, n) /\ IsJoin(g, part, n)
                     /\ DumpString(x) = (<<QuoteMark>> \o g[n]) \o <<QuoteMark>>
    BY <1>2, StringJoin, Zenon
<1>4. PICK y, q : y = g[n] /\ y \in Seq(Bytes256) /\ q = <<QuoteMark>> /\ q \in Seq(Bytes256) /\ Len(q) = 1
  <2>1. n \in 0..n
        OBVIOUS
  <2>2. g[n] \in Seq(Bytes256)
        BY <1>3, <2>1, Zenon DEF IsJoin
  <2>3. QuoteMark \in Bytes256
        BY DEF QuoteMark, Bytes256
  <2>4. <<QuoteMark>> \in Seq(Bytes256) /\ Len(<<QuoteMark>>) = 1
        BY <2>3
  <2> QED
      BY <2>2, <2>4, Zenon
<1>5. PICK w : w = q \o y /\ w \in Seq(Bytes256) /\ Len(w) = 1 + Len(y) /\ DumpString(x) = w \o q
  <2>1. PICK v : v = q \o y
        OBVIOUS
  <2>2. v \in Seq(Bytes256) /\ Len(v) = Len(q) + Len(y)
        BY <1>4, <2>1, ConcatPlaces
  <2> QED
      BY <1>3, <1>4, <2>1, <2>2, Zenon
<1>6. f[(a + 1) + 1] = Fails => ParseString(s, a + 1) = Fails
  <2>1. ~Fails.ok
        BY DEF Fails
  <2> QED
      BY <1>1, <2>1, Zenon DEF StringRead
<1>7. PICK l \in Nat : l = Len(s)
    OBVIOUS
<1>8. CASE CutAfter(q, s, a)
  <2>1. a <= l /\ l < a + 1
        BY <1>4, <1>7, <1>8, Zenon DEF CutAfter
  <2>2. (a + 1) + 1 \in Nat /\ (a + 1) + 1 > Len(s)
        BY <1>7, <2>1
  <2>3. f[(a + 1) + 1] = Fails
        BY <1>1, <2>2, CharSteps
  <2> QED
      BY <1>6, <2>3, Zenon
<1>9. CASE CutAfter(y, s, a + 1)
  <2>1. a + 1 \in Nat
        OBVIOUS
  <2>2. PICK m \in 0..(n - 1) : LiesAfter(g[m], s, a + 1) /\ CutAfter(part[m + 1], s, (a + 1) + Len(g[m]))
        BY <1>3, <1>4, <1>9, <2>1, PartsCut, Zenon
  <2>3. m + 1 \in 1..n /\ m \in 0..n
        OBVIOUS
  <2>4. part[m + 1] = DumpChar(x[m + 1]) /\ x[m + 1] \in Bytes256 /\ g[m] \in Seq(Bytes256)
        BY <1>3, <2>3, Zenon DEF CharParts, IsJoin
  <2>5. (a + 1) + Len(g[m]) \in Nat
    <3>1. Len(g[m]) \in Nat
          BY <2>4
    <3>2. PICK k \in Nat : k = Len(g[m])
          BY <3>1, Zenon
    <3>3. (a + 1) + k \in Nat
          OBVIOUS
    <3> QED
        BY <3>2, <3>3, Zenon
  <2>6. f[((a + 1) + Len(g[m])) + 1] = Fails
        BY <1>1, <2>2, <2>4, <2>5, CharCut, Zenon
  <2>7. BackTo(f, (a + 1) + Len(g[m]), <<>>, Fails)
        BY <2>6, ReadEnds, Zenon DEF BackTo
  <2>8. BackTo(f, a + 1, SubSeq(x, 1, m), Fails)
        BY <1>1, <1>2, <1>3, <2>1, <2>2, <2>3, <2>7, CharsBack, Zenon
  <2>9. f[(a + 1) + 1] = Fails
        BY <2>8, ReadEnds, Zenon DEF BackTo
  <2> QED
      BY <1>6, <2>9, Zenon
<1>10. CASE LiesAfter(y, s, a + 1) /\ CutAfter(q, s, a + Len(w))
  <2>1. a + 1 \in Nat /\ n \in 0..n
        OBVIOUS
  <2>2. PICK k \in Nat : k = Len(y) /\ Len(w) = 1 + k /\ Len(g[n]) = k
    <3>1. Len(y) \in Nat
          BY <1>4
    <3> QED
        BY <1>4, <1>5, <3>1, Zenon
  <2>3. a + (1 + k) <= l /\ l < (a + (1 + k)) + 1
        BY <1>4, <1>7, <1>10, <2>2, Zenon DEF CutAfter
  <2>4. ((a + 1) + k) + 1 \in Nat /\ ((a + 1) + k) + 1 > Len(s)
        BY <1>7, <2>3
  <2>5. f[((a + 1) + k) + 1] = Fails
        BY <1>1, <2>4, CharSteps
  <2>6. BackTo(f, (a + 1) + Len(g[n]), <<>>, Fails)
        BY <2>2, <2>5, ReadEnds, Zenon DEF BackTo
  <2>7. LiesAfter(g[n], s, a + 1)
        BY <1>4, <1>10, Zenon
  <2>8. BackTo(f, a + 1, SubSeq(x, 1, n), Fails)
        BY <1>1, <1>2, <1>3, <2>1, <2>6, <2>7, CharsBack, Zenon
  <2>9. f[(a + 1) + 1] = Fails
        BY <2>8, ReadEnds, Zenon DEF BackTo
  <2> QED
      BY <1>6, <2>9, Zenon
<1> QED
  <2>1. CutAfter(w \o q, s, a)
        BY <1>5, Zenon
  <2>2. CutAfter(w, s, a) \/ (LiesAfter(w, s, a) /\ CutAfter(q, s, a + Len(w)))
        BY <1>4, <1>5, <2>1, CutParts, Zenon
  <2>3. CutAfter(q \o y, s, a) => CutAfter(q, s, a) \/ (LiesAfter(q, s, a) /\ CutAfter(y, s, a + Len(q)))
        BY <1>4, CutParts, Zenon
  <2>4. LiesAfter(q \o y, s, a) => LiesAfter(y, s, a + Len(q))
        BY <1>4, LiesParts, Zenon
  <2> QED
      BY <1>4, <1>5, <1>8, <1>9, <1>10, <2>2, <2>3, <2>4, Zenon

(* What a value is followed by: the end, a comma, a bracket.  *)
Enders == {0, Comma, 93, 125}

LEMMA EndersAre ==
    ASSUME NEW c \in Enders
    PROVE  c \notin Digits /\ c # Minus /\ c # Plus /\ c # Point /\ c \notin {69, 101} /\ c \notin Blanks
BY DEF Enders, Comma, Digits, Minus, Plus, Point, Blanks

(* Past stops at p.  *)
StopsAt(bytes, s, at, p) ==
    /\ at \in Nat /\ p \in Nat /\ 1 <= at /\ at <= p /\ p <= Len(s) + 1
    /\ \A q \in at..(p - 1) : s[q] \in bytes
    /\ p <= Len(s) => s[p] \notin bytes

LEMMA PastStops ==
    ASSUME NEW s, s \in Seq(Bytes256), NEW bytes, NEW at, NEW p, StopsAt(bytes, s, at, p)
    PROVE  Past(bytes, s, at) = p
<1>1. PICK n \in Nat : n = Len(s) /\ DOMAIN s = 1..n
    OBVIOUS
<1>2. /\ at \in Nat /\ p \in Nat /\ 1 <= at /\ at <= p /\ p <= n + 1
      /\ \A q \in at..(p - 1) : s[q] \in bytes
      /\ p <= n => s[p] \notin bytes
    BY <1>1, Zenon DEF StopsAt
<1>3. CASE at \notin DOMAIN s
  <2>1. Past(bytes, s, at) = at
        BY <1>3, Zenon DEF Past
  <2>2. at = p
        BY <1>1, <1>2, <1>3
  <2> QED
      BY <2>1, <2>2, Zenon
<1>4. CASE at \in DOMAIN s
  <2> DEFINE Stop(q) == (q > n \/ s[q] \notin bytes) /\ \A r \in at..(q - 1) : s[r] \in bytes
  <2>1. Past(bytes, s, at) = CHOOSE q \in at..(n + 1) : Stop(q)
        BY <1>1, <1>4, Zenon DEF Past
  <2>2. p \in at..(n + 1) /\ Stop(p)
        BY <1>2
  <2>3. ASSUME NEW q \in at..(n + 1), Stop(q) PROVE q = p
    <3>1. q \in Nat
          BY <1>2
    <3>2. CASE q < p
      <4>1. q \in at..(p - 1) /\ ~(q > n)
            BY <1>2, <3>1, <3>2
      <4> QED
          BY <1>2, <2>3, <4>1, Zenon
    <3>3. CASE q > p
      <4>1. p \in at..(q - 1) /\ p <= n
            BY <1>2, <3>1, <3>3
      <4> QED
          BY <1>2, <2>3, <4>1, Zenon
    <3> QED
        BY <1>2, <3>1, <3>2, <3>3
  <2> HIDE DEF Stop
  <2>4. PICK q : q = CHOOSE r \in at..(n + 1) : Stop(r)
        OBVIOUS
  <2>5. q \in at..(n + 1) /\ Stop(q)
        BY <2>2, <2>4, Zenon
  <2> QED
      BY <2>1, <2>3, <2>4, <2>5, Zenon
<1> QED
    BY <1>3, <1>4

(* Where nothing is to be skipped.  *)
LEMMA NoBlanks ==
    ASSUME NEW s, s \in Seq(Bytes256), NEW p \in Nat, 1 <= p, Peek(s, p) \notin Blanks
    PROVE  SkipWs(s, p) = p
<1>1. CASE p \notin DOMAIN s
    BY <1>1, Zenon DEF SkipWs, Past
<1>2. CASE p \in DOMAIN s
  <2>1. s[p] \notin Blanks
        BY <1>2, Zenon DEF Peek
  <2>2. p <= Len(s) + 1 /\ p <= p /\ \A q \in p..(p - 1) : FALSE
        BY <1>2
  <2>3. StopsAt(Blanks, s, p, p)
        BY <2>1, <2>2, Zenon DEF StopsAt
  <2> QED
      BY <2>3, PastStops, Zenon DEF SkipWs
<1> QED
    BY <1>1, <1>2

(* parseNumber, one place after the other.  *)
IntAt(s, at) == IF Peek(s, at) = Minus THEN at + 1 ELSE at
FracAt(s, dot) == IF Peek(s, dot) = Point THEN Past(Digits, s, dot + 1) ELSE dot
SignAt(s, frac) == IF Peek(s, frac + 1) \in {Plus, Minus} THEN frac + 2 ELSE frac + 1
EndAt(s, frac) == IF Peek(s, frac) \in {69, 101} THEN Past(Digits, s, SignAt(s, frac)) ELSE frac
NumberRead(s, at, int, dot, frac, end) ==
    IF ~\E k \in int..(frac - 1) : s[k] \in Digits THEN Fails
    ELSE IF end > dot THEN Is(Double(SubSeq(s, at, end - 1)), end)
    ELSE Is(IntValue((IF int > at THEN -1 ELSE 1) * IntOf(SubSeq(s, int, dot - 1))), end)

LEMMA NumberPlaces ==
    ASSUME NEW s, NEW at, NEW int, NEW dot, NEW frac, NEW end,
           int = IntAt(s, at), dot = Past(Digits, s, int), frac = FracAt(s, dot), end = EndAt(s, frac)
    PROVE  ParseNumber(s, at) = NumberRead(s, at, int, dot, frac, end)
BY DEF ParseNumber, NumberRead, IntAt, FracAt, EndAt, SignAt

(* The text of a number: digits from int to dot, a point and digits to e,  *)
(* an exponent.                                                            *)
NumberText(d, int, dot, e) ==
    /\ d \in Seq(Bytes256) /\ int \in {1, 2} /\ dot \in Nat /\ e \in Nat
    /\ int < dot /\ dot <= e /\ e <= Len(d) + 1
    /\ int = 2 => d[1] = Minus
    /\ \A k \in int..(dot - 1) : d[k] \in Digits
    /\ dot < e => d[dot] = Point /\ \A k \in (dot + 1)..(e - 1) : d[k] \in Digits
    /\ e <= Len(d) => /\ e < Len(d) /\ d[e] = 101 /\ d[e + 1] \in {Plus, Minus}
                      /\ \A k \in (e + 2)..Len(d) : d[k] \in Digits

(* Its first m bytes are what s holds after a, and no more.  *)
Holds(d, s, a, m) ==
    /\ a \in Nat /\ m \in 1..Len(d) /\ a + m <= Len(s)
    /\ \A i \in 1..m : s[a + i] = d[i]
    /\ Peek(s, a + m + 1) \in Enders

LEMMA HoldsPeek ==
    ASSUME NEW s, s \in Seq(Bytes256), NEW d, NEW a, NEW m, Holds(d, s, a, m), d \in Seq(Bytes256)
    PROVE  \A i \in 1..m : a + i \in 1..Len(s) /\ s[a + i] = d[i] /\ Peek(s, a + i) = d[i]
<1>1. a \in Nat /\ m \in Nat /\ a + m <= Len(s) /\ Len(s) \in Nat /\ \A i \in 1..m : s[a + i] = d[i]
    BY DEF Holds
<1> TAKE i \in 1..m
<1>2. a + i \in 1..Len(s) /\ a + i \in Nat
    BY <1>1
<1> QED
    BY <1>1, <1>2, PeekIn, Zenon

(* Where a run of digits of the text ends.  *)
RunStops(s, a, i, j, m) == Past(Digits, s, a + i) = a + (IF j <= m THEN j ELSE m + 1)

LEMMA DigitsStop ==
    ASSUME NEW s, s \in Seq(Bytes256), NEW d, d \in Seq(Bytes256), NEW a, NEW m, Holds(d, s, a, m),
           NEW i \in Nat, 1 <= i, NEW j \in Nat, i <= j, i <= m + 1,
           \A k \in i..(j - 1) : d[k] \in Digits,
           j <= m => d[j] \notin Digits
    PROVE  RunStops(s, a, i, j, m)
<1> USE DEF RunStops
<1>1. PICK l \in Nat : l = Len(s)
    OBVIOUS
<1>2. a \in Nat /\ m \in Nat /\ a + m <= l /\ Peek(s, a + m + 1) \in Enders
  <2>1. a \in Nat /\ m \in 1..Len(d) /\ a + m <= l /\ Peek(s, a + m + 1) \in Enders
        BY <1>1, Zenon DEF Holds
  <2> QED
      BY <2>1
<1>0. \A k \in 1..m : s[a + k] = d[k]
    BY Zenon DEF Holds
<1>3. PICK p \in Nat : p = (IF j <= m THEN j ELSE m + 1)
    BY <1>2
<1>4. a + i \in Nat /\ a + p \in Nat /\ 1 <= a + i /\ a + i <= a + p /\ a + p <= l + 1
    BY <1>2, <1>3
<1>5. ASSUME NEW q \in (a + i)..((a + p) - 1) PROVE s[q] \in Digits
  <2>1. PICK k \in Nat : k = q - a /\ q = a + k /\ k \in 1..m /\ k \in i..(j - 1)
    <3>1. q - a \in Nat /\ q = a + (q - a) /\ q - a \in 1..m /\ q - a \in i..(j - 1)
          BY <1>2, <1>3, <1>4
    <3> QED
        BY <3>1, Zenon
  <2> QED
      BY <1>0, <2>1, Zenon
<1>6. ASSUME a + p <= l PROVE s[a + p] \notin Digits
  <2>1. CASE j <= m
    <3>1. p = j /\ j \in 1..m
          BY <1>2, <1>3, <2>1
    <3>2. s[a + j] = d[j]
          BY <1>0, <3>1, Zenon
    <3> QED
        BY <2>1, <3>1, <3>2, Zenon
  <2>2. CASE ~(j <= m)
    <3>1. p = m + 1 /\ a + p = a + m + 1 /\ a + p \in 1..Len(s)
          BY <1>1, <1>2, <1>3, <1>6, <2>2
    <3>2. Peek(s, a + p) = s[a + p]
          BY <1>4, <3>1, PeekIn, Zenon
    <3>3. s[a + p] \in Enders
          BY <1>2, <3>1, <3>2, Zenon
    <3> QED
        BY <3>3, EndersAre, Zenon
  <2> QED
      BY <2>1, <2>2
<1>7. StopsAt(Digits, s, a + i, a + p)
    BY <1>1, <1>4, <1>5, <1>6, Zenon DEF StopsAt
<1> QED
    BY <1>3, <1>7, PastStops, Zenon
SameTail(s, d, j, n, a) == SubSeq(s, a + j, a + n) = SubSeq(d, j, n)

LEMMA SameStretch ==
    ASSUME NEW s, s \in Seq(Bytes256), NEW d, NEW n, Known(d, n), NEW a \in Nat, LiesAfter(d, s, a), NEW j \in 1..n
    PROVE  SameTail(s, d, j, n, a)
<1>1. d \in Seq(Bytes256) /\ Len(d) = n /\ n \in Nat
    BY Zenon DEF Known
<1>2. PICK l \in Nat : l = Len(s) /\ a + n <= l /\ \A i \in 1..n : s[a + i] = d[i]
  <2>1. Len(s) \in Nat
        OBVIOUS
  <2> QED
      BY <1>1, <2>1, Zenon DEF LiesAfter
<1>3. PICK x, y : x = SubSeq(s, a + j, a + n) /\ y = SubSeq(d, j, n)
    OBVIOUS
<1>4. PICK m \in Nat : m = (n - j) + 1
    BY <1>1
<1>5. x \in Seq(Bytes256) /\ Len(x) = m /\ \A k \in 1..m : x[k] = s[(a + j) + k - 1]
  <2>1. x \in Seq(Bytes256) /\ Len(x) = m
        BY <1>1, <1>2, <1>3, <1>4
  <2>2. \A k \in 1..m : x[k] = s[(a + j) + k - 1]
        BY <1>1, <1>2, <1>3, <1>4
  <2> QED
      BY <2>1, <2>2, Zenon
<1>6. y \in Seq(Bytes256) /\ Len(y) = m /\ \A k \in 1..m : y[k] = d[j + k - 1]
  <2>1. y \in Seq(Bytes256) /\ Len(y) = m
        BY <1>1, <1>3, <1>4
  <2>2. \A k \in 1..m : y[k] = d[j + k - 1]
        BY <1>1, <1>3, <1>4
  <2> QED
      BY <2>1, <2>2, Zenon
<1>7. \A k \in 1..m : x[k] = y[k]
  <2> TAKE k \in 1..m
  <2>1. j + k - 1 \in 1..n /\ (a + j) + k - 1 = a + (j + k - 1)
        BY <1>1, <1>4
  <2>2. s[a + (j + k - 1)] = d[j + k - 1]
        BY <1>2, <2>1, Zenon
  <2> QED
      BY <1>5, <1>6, <2>1, <2>2, Zenon
<1>8. x = y
    BY <1>5, <1>6, <1>7
<1> QED
    BY <1>3, <1>8, Zenon DEF SameTail

(* A number's text is read to where it ends, and as what it says if it is  *)
(* all there.                                                              *)
NumberValue(d, int, dot) ==
    IF dot <= Len(d) THEN Double(d)
    ELSE IntValue((IF int = 2 THEN -1 ELSE 1) * IntOf(SubSeq(d, int, Len(d))))

LEMMA NumberReads ==
    ASSUME NEW s, s \in Seq(Bytes256), NEW d, NEW int, NEW dot, NEW e, NumberText(d, int, dot, e),
           NEW a, NEW m, Holds(d, s, a, m)
    PROVE  /\ ParseNumber(s, a + 1) = Fails \/ ParseNumber(s, a + 1).at = a + m + 1
           /\ m = Len(d) => ParseNumber(s, a + 1) = Is(NumberValue(d, int, dot), a + m + 1)
<1>1. PICK n \in Nat, l \in Nat : n = Len(d) /\ l = Len(s) /\ d \in Seq(Bytes256)
  <2>1. d \in Seq(Bytes256)
        BY Zenon DEF NumberText
  <2>2. Len(d) \in Nat /\ Len(s) \in Nat
        BY <2>1
  <2> QED
      BY <2>1, <2>2, Zenon
<1>2. /\ int \in {1, 2} /\ dot \in Nat /\ e \in Nat /\ int < dot /\ dot <= e /\ e <= n + 1
      /\ int = 2 => d[1] = Minus
      /\ \A k \in int..(dot - 1) : d[k] \in Digits
      /\ dot < e => d[dot] = Point /\ \A k \in (dot + 1)..(e - 1) : d[k] \in Digits
      /\ e <= n => /\ e < n /\ d[e] = 101 /\ d[e + 1] \in {Plus, Minus}
                   /\ \A k \in (e + 2)..n : d[k] \in Digits
    BY <1>1, Zenon DEF NumberText
<1>3. /\ a \in Nat /\ m \in Nat /\ m \in 1..n /\ a + m <= l
      /\ \A i \in 1..m : s[a + i] = d[i]
      /\ Peek(s, a + m + 1) \in Enders
  <2>1. /\ a \in Nat /\ m \in 1..n /\ a + m <= l
        /\ \A i \in 1..m : s[a + i] = d[i]
        /\ Peek(s, a + m + 1) \in Enders
        BY <1>1, Zenon DEF Holds
  <2>2. m \in Nat
        BY <2>1
  <2> QED
      BY <2>1, <2>2, Zenon
<1>4. \A i \in 1..m : Peek(s, a + i) = d[i]
    BY <1>1, HoldsPeek
<1>5. 101 \notin Digits /\ Point \notin Digits /\ Minus \notin Digits /\ 101 # Point /\ Minus # Point
    BY DEF Digits, Point, Minus
<1>6. IntAt(s, a + 1) = a + int
  <2>1. 1 \in 1..m
        BY <1>3
  <2>2. Peek(s, a + 1) = d[1]
        BY <1>4, <2>1, Zenon
  <2>3. CASE int = 2
    <3>1. (a + 1) + 1 = a + 2
          BY <1>3
    <3> QED
        BY <1>2, <2>2, <2>3, <3>1, Zenon DEF IntAt
  <2>4. CASE int = 1
    <3>1. 1 \in int..(dot - 1)
          BY <1>2, <2>4
    <3>3. d[1] \in Digits
          BY <1>2, <3>1
    <3>2. d[1] # Minus
          BY <1>5, <3>3, Zenon
    <3> QED
        BY <2>2, <2>4, <3>2, Zenon DEF IntAt
  <2> QED
      BY <1>2, <2>3, <2>4, Zenon
<1>7. PICK x \in Nat : x = (IF dot <= m THEN dot ELSE m + 1) /\ Past(Digits, s, a + int) = a + x
  <2>1. int \in Nat /\ 1 <= int /\ int <= dot /\ int <= m + 1
        BY <1>2, <1>3
  <2>2. dot <= m => d[dot] \notin Digits
    <3>1. dot < e \/ (dot = e /\ (dot <= m => e <= n))
          BY <1>2, <1>3
    <3> QED
        BY <1>2, <1>5, <3>1
  <2>3. Past(Digits, s, a + int) = a + (IF dot <= m THEN dot ELSE m + 1)
    <3>1. RunStops(s, a, int, dot, m)
          BY <1>1, <1>2, <2>1, <2>2, DigitsStop, Zenon
    <3> QED
        BY <3>1, Zenon DEF RunStops
  <2>4. (IF dot <= m THEN dot ELSE m + 1) \in Nat
        BY <1>2, <1>3
  <2> QED
      BY <2>3, <2>4, Zenon
<1>8. a + (m + 1) = a + m + 1
    BY <1>3
<1>9. Peek(s, a + m + 1) # Point /\ Peek(s, a + m + 1) \notin {69, 101}
    BY <1>3, EndersAre, Zenon
<1>10. PICK y \in Nat : y = (IF e <= m THEN e ELSE m + 1) /\ FracAt(s, a + x) = a + y
  <2>1. (IF e <= m THEN e ELSE m + 1) \in Nat
        BY <1>2, <1>3
  <2>2. CASE dot <= m /\ dot < e
    <3>1. x = dot /\ dot \in 1..m
          BY <1>2, <1>7, <2>2
    <3>2. Peek(s, a + x) = Point
          BY <1>2, <1>4, <2>2, <3>1, Zenon
    <3>3. /\ dot + 1 \in Nat /\ 1 <= dot + 1 /\ dot + 1 <= e /\ dot + 1 <= m + 1
          /\ (a + x) + 1 = a + (dot + 1)
          BY <1>2, <1>3, <2>2, <3>1
    <3>4. e <= m => d[e] \notin Digits
      <4>1. e <= m => e <= n
            BY <1>2, <1>3
      <4> QED
          BY <1>2, <1>5, <4>1, Zenon
    <3>5. Past(Digits, s, a + (dot + 1)) = a + (IF e <= m THEN e ELSE m + 1)
      <4>1. RunStops(s, a, dot + 1, e, m)
            BY <1>1, <1>2, <2>2, <3>3, <3>4, DigitsStop, Zenon
      <4> QED
          BY <4>1, Zenon DEF RunStops
    <3> QED
        BY <2>1, <3>2, <3>3, <3>5, Zenon DEF FracAt
  <2>3. CASE ~(dot <= m)
    <3>1. x = m + 1 /\ ~(e <= m)
          BY <1>2, <1>3, <1>7, <2>3
    <3>2. FracAt(s, a + x) = a + x
          BY <1>8, <1>9, <3>1, Zenon DEF FracAt
    <3> QED
        BY <2>1, <3>1, <3>2, Zenon
  <2>4. CASE dot <= m /\ dot = e
    <3>1. x = e /\ e \in 1..m /\ e <= m /\ e <= n
          BY <1>2, <1>3, <1>7, <2>4
    <3>2. Peek(s, a + x) # Point
          BY <1>2, <1>4, <1>5, <3>1, Zenon
    <3>3. FracAt(s, a + x) = a + x
          BY <3>2, Zenon DEF FracAt
    <3> QED
        BY <2>1, <3>1, <3>3, Zenon
  <2> QED
    <3>1. dot < e \/ dot = e
          BY <1>2
    <3> QED
        BY <2>2, <2>3, <2>4, <3>1, Zenon
<1>11. EndAt(s, a + y) = a + m + 1
  <2>1. CASE ~(e <= m)
    <3>1. y = m + 1
          BY <1>10, <2>1, Zenon
    <3> QED
        BY <1>8, <1>9, <3>1, Zenon DEF EndAt
  <2>2. CASE e <= m
    <3>1. y = e /\ e \in 1..m /\ e <= n
          BY <1>2, <1>3, <1>10, <2>2
    <3>2. Peek(s, a + y) \in {69, 101}
      <4>1. Peek(s, a + y) = d[e] /\ d[e] = 101
            BY <1>2, <1>4, <3>1, Zenon
      <4> QED
          BY <4>1
    <3>3. CASE m = e
      <4>1. Peek(s, (a + y) + 1) \notin {Plus, Minus}
        <5>1. (a + y) + 1 = a + m + 1
              BY <1>3, <3>1, <3>3
        <5>2. Peek(s, a + m + 1) # Plus /\ Peek(s, a + m + 1) # Minus
              BY <1>3, EndersAre, Zenon
        <5> QED
            BY <5>1, <5>2, Zenon
      <4>2. SignAt(s, a + y) = (a + y) + 1
            BY <4>1, Zenon DEF SignAt
      <4>3. (a + y) + 1 = a + (m + 1) /\ m + 1 \in Nat /\ 1 <= m + 1 /\ m + 1 <= m + 1 /\ ~(m + 1 <= m)
            /\ \A k \in (m + 1)..((m + 1) - 1) : d[k] \in Digits
            BY <1>3, <3>1, <3>3
      <4>4. Past(Digits, s, a + (m + 1)) = a + (IF m + 1 <= m THEN m + 1 ELSE m + 1)
        <5>1. RunStops(s, a, m + 1, m + 1, m)
              BY <1>1, <4>3, DigitsStop, Zenon
        <5> QED
            BY <5>1, Zenon DEF RunStops
      <4> QED
          BY <1>8, <3>2, <4>2, <4>3, <4>4, Zenon DEF EndAt
    <3>4. CASE m # e
      <4>1. e + 1 \in 1..m /\ (a + y) + 1 = a + (e + 1) /\ (a + y) + 2 = a + (e + 2)
            BY <1>2, <1>3, <2>2, <3>1, <3>4
      <4>2. Peek(s, (a + y) + 1) \in {Plus, Minus}
            BY <1>2, <1>4, <3>1, <4>1, Zenon
      <4>3. SignAt(s, a + y) = a + (e + 2)
            BY <4>1, <4>2, Zenon DEF SignAt
      <4>4. /\ e + 2 \in Nat /\ 1 <= e + 2 /\ m + 1 \in Nat /\ e + 2 <= m + 1 /\ ~(m + 1 <= m)
            /\ \A k \in (e + 2)..((m + 1) - 1) : k \in (e + 2)..n
            BY <1>2, <1>3, <2>2, <3>4
      <4>5. \A k \in (e + 2)..((m + 1) - 1) : d[k] \in Digits
            BY <1>2, <3>1, <4>4, Zenon
      <4>6. Past(Digits, s, a + (e + 2)) = a + (IF m + 1 <= m THEN m + 1 ELSE m + 1)
        <5>1. RunStops(s, a, e + 2, m + 1, m)
              BY <1>1, <4>4, <4>5, DigitsStop, Zenon
        <5> QED
            BY <5>1, Zenon DEF RunStops
      <4> QED
          BY <1>8, <3>2, <4>3, <4>6, Zenon DEF EndAt
    <3> QED
        BY <3>3, <3>4
  <2> QED
      BY <2>1, <2>2
<1>12. ParseNumber(s, a + 1) = NumberRead(s, a + 1, a + int, a + x, a + y, a + m + 1)
    BY <1>6, <1>7, <1>10, <1>11, NumberPlaces, Zenon
<1>13. ParseNumber(s, a + 1) = Fails \/ ParseNumber(s, a + 1).at = a + m + 1
  <2>1. \A v, at : Is(v, at).at = at
        BY DEF Is
  <2> QED
      BY <1>12, <2>1, Zenon DEF NumberRead
<1>14. ASSUME m = n PROVE ParseNumber(s, a + 1) = Is(NumberValue(d, int, dot), a + m + 1)
  <2>1. a + int \in (a + int)..((a + y) - 1) /\ s[a + int] \in Digits
    <3>1. int < y /\ int \in int..(dot - 1) /\ int \in 1..m
          BY <1>2, <1>3, <1>10, <1>14
    <3>2. a + int \in (a + int)..((a + y) - 1)
          BY <1>2, <1>3, <1>10, <3>1
    <3> QED
        BY <1>2, <1>3, <3>1, <3>2, Zenon
  <2>2. CASE dot <= n
    <3>1. x = dot /\ a + m + 1 > a + x
          BY <1>2, <1>3, <1>7, <1>14, <2>2
    <3>2. SubSeq(s, a + 1, (a + m + 1) - 1) = d
      <4>1. Known(d, n) /\ LiesAfter(d, s, a)
            BY <1>1, <1>3, <1>14, Zenon DEF Known, LiesAfter
      <4>2. SubSeq(s, a + 1, a + n) = d
            BY <1>3, <4>1, LiesCut, Zenon
      <4>3. (a + m + 1) - 1 = a + n
            BY <1>3, <1>14
      <4> QED
          BY <4>2, <4>3, Zenon
    <3>3. NumberValue(d, int, dot) = Double(d)
          BY <1>1, <2>2, Zenon DEF NumberValue
    <3> QED
        BY <1>12, <2>1, <3>1, <3>2, <3>3, Zenon DEF NumberRead
  <2>3. CASE ~(dot <= n)
    <3>1. x = m + 1 /\ ~(a + m + 1 > a + x) /\ (a + int > a + 1 <=> int = 2)
          BY <1>2, <1>3, <1>7, <1>14, <2>3
    <3>2. SubSeq(s, a + int, (a + x) - 1) = SubSeq(d, int, n)
      <4>1. (a + x) - 1 = a + n /\ int \in 1..n
            BY <1>2, <1>3, <1>14, <2>3, <3>1
      <4>3. Known(d, n) /\ LiesAfter(d, s, a)
            BY <1>1, <1>3, <1>14, Zenon DEF Known, LiesAfter
      <4>2. SubSeq(s, a + int, a + n) = SubSeq(d, int, n)
        <5>1. SameTail(s, d, int, n, a)
              BY <1>3, <4>1, <4>3, SameStretch, Zenon
        <5> QED
            BY <5>1, Zenon DEF SameTail
      <4> QED
          BY <4>1, <4>2, Zenon
    <3>3. NumberValue(d, int, dot) = IntValue((IF int = 2 THEN -1 ELSE 1) * IntOf(SubSeq(d, int, n)))
          BY <1>1, <2>3 DEF NumberValue
    <3>4. PICK g : g = IF int = 2 THEN -1 ELSE 1
          OBVIOUS
    <3>5. g = IF a + int > a + 1 THEN -1 ELSE 1
          BY <3>1, <3>4
    <3>6. ParseNumber(s, a + 1) = Is(IntValue(g * IntOf(SubSeq(s, a + int, (a + x) - 1))), a + m + 1)
          BY <1>12, <2>1, <3>1, <3>5 DEF NumberRead
    <3> QED
        BY <3>2, <3>3, <3>4, <3>6
  <2> QED
      BY <2>2, <2>3
<1> QED
    BY <1>1, <1>13, <1>14, Zenon

(* How a value reads at its first byte c.  *)
ValueFrom(s, later, at, c) ==
    CASE c = 123 -> ParseObject(s, later, at)
      [] c = 91  -> ParseArray(s, later, at)
      [] c = QuoteMark -> ParseString(s, at)
      [] c = 116 -> ParseLiteral(s, at, True_, BoolValue(TRUE))
      [] c = 102 -> ParseLiteral(s, at, False_, BoolValue(FALSE))
      [] c = 110 -> ParseLiteral(s, at, Null_, NullValue)
      [] c = Minus \/ c \in Digits -> ParseNumber(s, at)
      [] OTHER -> Fails

ByFirst(c, o, a, q, t, f, n, d) ==
    CASE c = 123 -> o
      [] c = 91  -> a
      [] c = QuoteMark -> q
      [] c = 116 -> t
      [] c = 102 -> f
      [] c = 110 -> n
      [] c = Minus \/ c \in Digits -> d
      [] OTHER -> Fails

LEMMA ByFirstIs ==
    ASSUME NEW o, NEW a, NEW q, NEW t, NEW f, NEW n, NEW d, NEW c
    PROVE  /\ c = 123 => ByFirst(c, o, a, q, t, f, n, d) = o
           /\ c = 91 => ByFirst(c, o, a, q, t, f, n, d) = a
           /\ c = QuoteMark => ByFirst(c, o, a, q, t, f, n, d) = q
           /\ c = 116 => ByFirst(c, o, a, q, t, f, n, d) = t
           /\ c = 102 => ByFirst(c, o, a, q, t, f, n, d) = f
           /\ c = 110 => ByFirst(c, o, a, q, t, f, n, d) = n
           /\ c = Minus \/ c \in Digits => ByFirst(c, o, a, q, t, f, n, d) = d
           /\ c = 0 => ByFirst(c, o, a, q, t, f, n, d) = Fails
BY DEF ByFirst, QuoteMark, Minus, Digits

LEMMA ValueFromIs ==
    ASSUME NEW s, NEW later, NEW at, NEW c
    PROVE  /\ c = 123 => ValueFrom(s, later, at, c) = ParseObject(s, later, at)
           /\ c = 91 => ValueFrom(s, later, at, c) = ParseArray(s, later, at)
           /\ c = QuoteMark => ValueFrom(s, later, at, c) = ParseString(s, at)
           /\ c = 116 => ValueFrom(s, later, at, c) = ParseLiteral(s, at, True_, BoolValue(TRUE))
           /\ c = 102 => ValueFrom(s, later, at, c) = ParseLiteral(s, at, False_, BoolValue(FALSE))
           /\ c = 110 => ValueFrom(s, later, at, c) = ParseLiteral(s, at, Null_, NullValue)
           /\ c = Minus \/ c \in Digits => ValueFrom(s, later, at, c) = ParseNumber(s, at)
           /\ c = 0 => ValueFrom(s, later, at, c) = Fails
<1>1. PICK o, a, q, t, f, n, d :
          /\ o = ParseObject(s, later, at) /\ a = ParseArray(s, later, at) /\ q = ParseString(s, at)
          /\ t = ParseLiteral(s, at, True_, BoolValue(TRUE)) /\ f = ParseLiteral(s, at, False_, BoolValue(FALSE))
          /\ n = ParseLiteral(s, at, Null_, NullValue) /\ d = ParseNumber(s, at)
    BY Zenon
<1>2. ValueFrom(s, later, at, c) = ByFirst(c, o, a, q, t, f, n, d)
    BY <1>1, Zenon DEF ValueFrom, ByFirst
<1>3. /\ c = 123 => ByFirst(c, o, a, q, t, f, n, d) = o
      /\ c = 91 => ByFirst(c, o, a, q, t, f, n, d) = a
      /\ c = QuoteMark => ByFirst(c, o, a, q, t, f, n, d) = q
      /\ c = 116 => ByFirst(c, o, a, q, t, f, n, d) = t
      /\ c = 102 => ByFirst(c, o, a, q, t, f, n, d) = f
      /\ c = 110 => ByFirst(c, o, a, q, t, f, n, d) = n
      /\ c = Minus \/ c \in Digits => ByFirst(c, o, a, q, t, f, n, d) = d
      /\ c = 0 => ByFirst(c, o, a, q, t, f, n, d) = Fails
    BY ByFirstIs
<1> QED
    BY <1>1, <1>2, <1>3, Zenon

Begins(c, n) == c = n

LEMMA LiteralFrom ==
    ASSUME NEW s, NEW later, NEW at, NEW c
    PROVE  /\ Begins(c, 116) => ValueFrom(s, later, at, c) = ParseLiteral(s, at, True_, BoolValue(TRUE))
           /\ Begins(c, 102) => ValueFrom(s, later, at, c) = ParseLiteral(s, at, False_, BoolValue(FALSE))
           /\ Begins(c, 110) => ValueFrom(s, later, at, c) = ParseLiteral(s, at, Null_, NullValue)
<1>1. PICK o, a, q, t, f, n, d :
          /\ o = ParseObject(s, later, at) /\ a = ParseArray(s, later, at) /\ q = ParseString(s, at)
          /\ t = ParseLiteral(s, at, True_, BoolValue(TRUE)) /\ f = ParseLiteral(s, at, False_, BoolValue(FALSE))
          /\ n = ParseLiteral(s, at, Null_, NullValue) /\ d = ParseNumber(s, at)
    BY Zenon
<1>2. ValueFrom(s, later, at, c) = ByFirst(c, o, a, q, t, f, n, d)
    BY <1>1, Zenon DEF ValueFrom, ByFirst
<1>3. /\ Begins(c, 116) => ByFirst(c, o, a, q, t, f, n, d) = t
      /\ Begins(c, 102) => ByFirst(c, o, a, q, t, f, n, d) = f
      /\ Begins(c, 110) => ByFirst(c, o, a, q, t, f, n, d) = n
    BY ByFirstIs DEF Begins
<1> QED
    BY <1>1, <1>2, <1>3, Zenon

(* The value a parser finds at p, where no blank is.  *)
ValueAt(f, s, p) == f[<<"value", p>>] = ValueFrom(s, Later(s, f, p), p, Peek(s, p))

LEMMA ValueParser ==
    ASSUME NEW s, NEW f, IsParser(f, s), NEW p \in 1..(Len(s) + 1)
    PROVE  f[<<"value", p>>] = ParseValue(s, Later(s, f, p), p)
<1>1. "value" \in Parsers
    BY DEF Parsers
<1>2. f[<<"value", p>>] = ParserAt(s, Later(s, f, p), "value", p)
    BY <1>1, Zenon DEF IsParser
<1>3. ParserAt(s, Later(s, f, p), "value", p) = ParseValue(s, Later(s, f, p), p)
    BY DEF ParserAt
<1> QED
    BY <1>2, <1>3, Zenon

LEMMA ValueStarts ==
    ASSUME NEW s, s \in Seq(Bytes256), NEW f, IsParser(f, s), NEW p \in Nat, 1 <= p, p <= Len(s) + 1,
           Peek(s, p) \notin Blanks
    PROVE  ValueAt(f, s, p)
<1>1. p \in 1..(Len(s) + 1)
    OBVIOUS
<1>2. f[<<"value", p>>] = ParseValue(s, Later(s, f, p), p)
    BY <1>1, ValueParser, Zenon
<1>3. SkipWs(s, p) = p
    BY NoBlanks, Zenon
<1>4. \A later : ParseValue(s, later, p) = ValueFrom(s, later, SkipWs(s, p), Peek(s, SkipWs(s, p)))
    BY DEF ParseValue, ValueFrom
<1> QED
    BY <1>2, <1>3, <1>4, Zenon DEF ValueAt

(* A text is read as the value v, cut it fails, or it is a number.  *)
ReadsFull(t, v, s, f) ==
    \A a \in Nat : LiesAfter(t, s, a) /\ Peek(s, (a + Len(t)) + 1) \in Enders =>
                      f[<<"value", a + 1>>] = Is(v, (a + Len(t)) + 1)
ReadsCut(t, v, s, f) ==
    \A a \in Nat : CutAfter(t, s, a) =>
                      \/ f[<<"value", a + 1>>] = Fails
                      \/ v.t \in {"number", "double"} /\ f[<<"value", a + 1>>].at = Len(s) + 1

(* Nothing is a value.  *)
LEMMA NothingReads ==
    ASSUME NEW s, s \in Seq(Bytes256), NEW f, IsParser(f, s)
    PROVE  f[<<"value", Len(s) + 1>>] = Fails
<1>1. PICK p \in Nat : p = Len(s) + 1 /\ 1 <= p /\ p <= Len(s) + 1 /\ p > Len(s)
    OBVIOUS
<1>2. Peek(s, p) = 0
    BY <1>1, PeekIn
<1>3. 0 \notin Blanks
    BY DEF Blanks
<1>4. ValueAt(f, s, p)
    BY <1>1, <1>2, <1>3, ValueStarts, Zenon
<1>5. ValueFrom(s, Later(s, f, p), p, 0) = Fails
    BY ValueFromIs, Zenon
<1> QED
    BY <1>1, <1>2, <1>4, <1>5, Zenon DEF ValueAt

(* What a text that is cut holds after a: nothing, or its first bytes.  *)
HeldFirst(t, s, a) ==
    \E m \in Nat : /\ m \in 1..Len(t) /\ m # Len(t) /\ a + m = Len(s)
                   /\ \A i \in 1..m : s[a + i] = t[i] /\ Peek(s, a + i) = t[i]
                   /\ Peek(s, (a + m) + 1) = 0

LEMMA CutFirst ==
    ASSUME NEW s, s \in Seq(Bytes256), NEW t, t \in Seq(Bytes256), NEW a \in Nat, CutAfter(t, s, a)
    PROVE  \/ a = Len(s)
           \/ HeldFirst(t, s, a) /\ a + 1 <= Len(s) /\ Peek(s, a + 1) = t[1]
<1> USE DEF HeldFirst
<1>1. PICK l \in Nat, n \in Nat : l = Len(s) /\ n = Len(t)
    OBVIOUS
<1>2. a <= l /\ l < a + n /\ \A i \in 1..(l - a) : s[a + i] = t[i]
    BY <1>1, Zenon DEF CutAfter
<1>3. CASE a # l
  <2>1. PICK m \in Nat : m = l - a /\ m \in 1..n /\ m # n /\ a + m = l /\ 1 \in 1..m /\ a + 1 <= l
    <3>1. l - a \in Nat /\ l - a \in 1..n /\ l - a # n /\ a + (l - a) = l /\ 1 \in 1..(l - a) /\ a + 1 <= l
          BY <1>2, <1>3
    <3> QED
        BY <3>1, Zenon
  <2>2. ASSUME NEW i \in 1..m PROVE s[a + i] = t[i] /\ Peek(s, a + i) = t[i]
    <3>1. s[a + i] = t[i]
          BY <1>2, <2>1, Zenon
    <3>2. a + i \in 1..Len(s) /\ a + i \in Nat
          BY <1>1, <2>1
    <3> QED
        BY <3>1, <3>2, PeekIn, Zenon
  <2>3. Peek(s, (a + m) + 1) = 0
    <3>1. (a + m) + 1 \in Nat /\ (a + m) + 1 > Len(s)
          BY <1>1, <2>1
    <3> QED
        BY <3>1, PeekIn
  <2> QED
      BY <1>1, <2>1, <2>2, <2>3, Zenon
<1> QED
    BY <1>1, <1>3, Zenon

(* Literals.  *)
LEMMA LiteralReads ==
    ASSUME NEW s, s \in Seq(Bytes256), NEW t, t \in Seq(Bytes256), t # <<>>, NEW v,
           \A k \in 1..Len(t) : t[k] # 0, NEW a \in Nat
    PROVE  /\ LiesAfter(t, s, a) => ParseLiteral(s, a + 1, t, v) = Is(v, (a + Len(t)) + 1)
           /\ CutAfter(t, s, a) => ParseLiteral(s, a + 1, t, v) = Fails
<1>1. PICK n \in Nat : n = Len(t) /\ DOMAIN t = 1..n
    OBVIOUS
<1>2. \A k \in 1..n : (a + 1) + k - 1 = a + k
    OBVIOUS
<1>3. ParseLiteral(s, a + 1, t, v) = IF \A k \in 1..n : Peek(s, a + k) = t[k] THEN Is(v, (a + n) + 1) ELSE Fails
  <2>1. (a + 1) + n = (a + n) + 1
        OBVIOUS
  <2>2. (\A k \in 1..n : Peek(s, (a + 1) + k - 1) = t[k]) <=> \A k \in 1..n : Peek(s, a + k) = t[k]
        BY <1>2, Zenon
  <2> QED
      BY <1>1, <2>1, <2>2, Zenon DEF ParseLiteral
<1>4. ASSUME LiesAfter(t, s, a) PROVE \A k \in 1..n : Peek(s, a + k) = t[k]
  <2>1. SeenAfter(t, s, a)
        BY <1>4, PeekLies, Zenon
  <2> QED
      BY <1>1, <2>1, Zenon DEF SeenAfter
<1>5. ASSUME CutAfter(t, s, a) PROVE \E k \in 1..n : Peek(s, a + k) # t[k]
  <2>1. PICK l \in Nat : l = Len(s)
        OBVIOUS
  <2>2. a <= l /\ l < a + n
        BY <1>1, <1>5, <2>1, Zenon DEF CutAfter
  <2>3. PICK k \in 1..n : k = (l - a) + 1 /\ a + k = l + 1
    <3>1. (l - a) + 1 \in 1..n /\ a + ((l - a) + 1) = l + 1
          BY <2>2
    <3> QED
        BY <3>1, Zenon
  <2>4. Peek(s, a + k) = 0
    <3>1. a + k \in Nat /\ a + k > Len(s)
          BY <2>1, <2>3
    <3> QED
        BY <3>1, PeekIn
  <2>5. t[k] # 0
        BY <1>1, Zenon
  <2> QED
      BY <2>4, <2>5
<1> QED
    BY <1>1, <1>3, <1>4, <1>5, Zenon

(* A value whose text is there, or its first byte is.  *)
StartsAs(f, s, a, c) == f[<<"value", a + 1>>] = ValueFrom(s, Later(s, f, a + 1), a + 1, c)

LEMMA TextStarts ==
    ASSUME NEW s, s \in Seq(Bytes256), NEW f, IsParser(f, s), NEW t, t \in Seq(Bytes256), t # <<>>,
           t[1] \notin Blanks, NEW a \in Nat, LiesAfter(t, s, a) \/ (CutAfter(t, s, a) /\ a # Len(s))
    PROVE  StartsAs(f, s, a, t[1]) /\ a + 1 <= Len(s)
<1>1. PICK n \in Nat, l \in Nat : n = Len(t) /\ l = Len(s) /\ 1 \in 1..n
    OBVIOUS
<1>2. a + 1 <= l /\ Peek(s, a + 1) = t[1]
  <2>1. CASE LiesAfter(t, s, a)
    <3>1. a + n <= l
          BY <1>1, <2>1, Zenon DEF LiesAfter
    <3>2. a + 1 <= l
          BY <1>1, <3>1
    <3>3. SeenAfter(t, s, a)
          BY <2>1, PeekLies, Zenon
    <3>4. Peek(s, a + 1) = t[1]
          BY <1>1, <3>3, Zenon DEF SeenAfter
    <3> QED
        BY <3>2, <3>4, Zenon
  <2>2. CASE CutAfter(t, s, a) /\ a # Len(s)
        BY <1>1, <2>2, CutFirst, Zenon
  <2> QED
      BY <2>1, <2>2
<1>3. a + 1 \in Nat /\ 1 <= a + 1 /\ a + 1 <= Len(s) + 1
    BY <1>1, <1>2
<1>4. ValueAt(f, s, a + 1)
    BY <1>2, <1>3, ValueStarts, Zenon
<1> QED
    BY <1>1, <1>2, <1>4, Zenon DEF ValueAt, StartsAs

LEMMA NothingCutReads ==
    ASSUME NEW s, s \in Seq(Bytes256), NEW f, IsParser(f, s), NEW a \in Nat, a = Len(s)
    PROVE  f[<<"value", a + 1>>] = Fails
BY NothingReads, Zenon

LEMMA LiteralValue ==
    ASSUME NEW s, s \in Seq(Bytes256), NEW f, IsParser(f, s), NEW t, t \in Seq(Bytes256), t # <<>>,
           t[1] \notin Blanks, \A k \in 1..Len(t) : t[k] # 0, NEW v,
           \A later, at : ValueFrom(s, later, at, t[1]) = ParseLiteral(s, at, t, v)
    PROVE  ReadsFull(t, v, s, f) /\ ReadsCut(t, v, s, f)
<1>1. ASSUME NEW a \in Nat, LiesAfter(t, s, a) PROVE f[<<"value", a + 1>>] = Is(v, (a + Len(t)) + 1)
  <2>1. StartsAs(f, s, a, t[1])
        BY <1>1, TextStarts, Zenon
  <2>2. f[<<"value", a + 1>>] = ParseLiteral(s, a + 1, t, v)
        BY <2>1, Zenon DEF StartsAs
  <2>3. ParseLiteral(s, a + 1, t, v) = Is(v, (a + Len(t)) + 1)
        BY <1>1, LiteralReads
  <2> QED
      BY <2>2, <2>3, Zenon
<1>2. ASSUME NEW a \in Nat, CutAfter(t, s, a) PROVE f[<<"value", a + 1>>] = Fails
  <2>1. CASE a = Len(s)
        BY <2>1, NothingCutReads, Zenon
  <2>2. CASE a # Len(s)
    <3>1. StartsAs(f, s, a, t[1])
          BY <1>2, <2>2, TextStarts, Zenon
    <3>2. f[<<"value", a + 1>>] = ParseLiteral(s, a + 1, t, v)
          BY <3>1, Zenon DEF StartsAs
    <3>3. ParseLiteral(s, a + 1, t, v) = Fails
          BY <1>2, LiteralReads
    <3> QED
        BY <3>2, <3>3, Zenon
  <2> QED
      BY <2>1, <2>2
<1> QED
    BY <1>1, <1>2, Zenon DEF ReadsFull, ReadsCut

LEMMA StringFirst ==
    ASSUME NEW x, x \in Seq(Bytes256), NEW t, t = DumpString(x)
    PROVE  t \in Seq(Bytes256) /\ t # <<>> /\ t[1] = QuoteMark
<1>1. PICK g, part : IsJoin(g, part, Len(x)) /\ t = (<<QuoteMark>> \o g[Len(x)]) \o <<QuoteMark>>
    BY StringJoin, Zenon
<1>2. Len(x) \in 0..Len(x)
    OBVIOUS
<1>3. PICK y : y = g[Len(x)] /\ y \in Seq(Bytes256)
    BY <1>1, <1>2, Zenon DEF IsJoin
<1>4. t = (<<QuoteMark>> \o y) \o <<QuoteMark>>
    BY <1>1, <1>3, Zenon
<1>5. QuoteMark \in Bytes256
    BY DEF QuoteMark, Bytes256
<1> QED
    BY <1>3, <1>4, <1>5

LEMMA StringValueReads ==
    ASSUME NEW s, s \in Seq(Bytes256), NEW f, IsParser(f, s), NEW x, x \in Seq(Bytes256), NEW v, v = StringValue(x)
    PROVE  ReadsFull(DumpString(x), v, s, f) /\ ReadsCut(DumpString(x), v, s, f)
<1>1. PICK t : t = DumpString(x)
    OBVIOUS
<1>2. t \in Seq(Bytes256) /\ t # <<>> /\ t[1] = QuoteMark
    BY <1>1, StringFirst, Zenon
<1>3. QuoteMark \notin Blanks
    BY DEF QuoteMark, Blanks
<1>4. t[1] \notin Blanks
    BY <1>2, <1>3, Zenon
<1>5. \A later, at : ValueFrom(s, later, at, t[1]) = ParseString(s, at)
    BY <1>2, ValueFromIs, Zenon
<1>6. ASSUME NEW a \in Nat, LiesAfter(t, s, a) PROVE f[<<"value", a + 1>>] = Is(v, (a + Len(t)) + 1)
  <2>1. StartsAs(f, s, a, t[1])
        BY <1>2, <1>4, <1>6, TextStarts, Zenon
  <2>2. f[<<"value", a + 1>>] = ParseString(s, a + 1)
        BY <1>5, <2>1, Zenon DEF StartsAs
  <2>3. LiesAfter(DumpString(x), s, a)
        BY <1>1, <1>6, Zenon
  <2>4. ParseString(s, a + 1) = Is(StringValue(x), (a + Len(DumpString(x))) + 1)
        BY <2>3, StringReads
  <2> QED
      BY <1>1, <2>2, <2>4, Zenon
<1>7. ASSUME NEW a \in Nat, CutAfter(t, s, a) PROVE f[<<"value", a + 1>>] = Fails
  <2>1. CASE a = Len(s)
        BY <2>1, NothingCutReads, Zenon
  <2>2. CASE a # Len(s)
    <3>1. StartsAs(f, s, a, t[1])
          BY <1>2, <1>4, <1>7, <2>2, TextStarts, Zenon
    <3>2. f[<<"value", a + 1>>] = ParseString(s, a + 1)
          BY <1>5, <3>1, Zenon DEF StartsAs
    <3>3. CutAfter(DumpString(x), s, a)
          BY <1>1, <1>7, Zenon
    <3>4. ParseString(s, a + 1) = Fails
          BY <3>3, StringCut
    <3> QED
        BY <3>2, <3>4, Zenon
  <2> QED
      BY <2>1, <2>2
<1>8. ReadsFull(t, v, s, f) /\ ReadsCut(t, v, s, f)
    BY <1>6, <1>7, Zenon DEF ReadsFull, ReadsCut
<1> QED
    BY <1>1, <1>8, Zenon

(* Numbers.  *)
LEMMA NumberValueReads ==
    ASSUME NEW s, s \in Seq(Bytes256), NEW f, IsParser(f, s),
           NEW d, NEW int, NEW dot, NEW e, NumberText(d, int, dot, e),
           NEW v, v = NumberValue(d, int, dot), v.t \in {"number", "double"}
    PROVE  ReadsFull(d, v, s, f) /\ ReadsCut(d, v, s, f)
<1>1. PICK n \in Nat, l \in Nat : n = Len(d) /\ l = Len(s) /\ d \in Seq(Bytes256)
  <2>1. d \in Seq(Bytes256)
        BY Zenon DEF NumberText
  <2>2. Len(d) \in Nat /\ Len(s) \in Nat
        BY <2>1
  <2> QED
      BY <2>1, <2>2, Zenon
<1>2. 1 <= n /\ (d[1] = Minus \/ d[1] \in Digits)
  <2>1. /\ int \in {1, 2} /\ dot \in Nat /\ e \in Nat /\ int < dot /\ dot <= e /\ e <= n + 1
        /\ int = 2 => d[1] = Minus
        /\ \A k \in int..(dot - 1) : d[k] \in Digits
        BY <1>1, Zenon DEF NumberText
  <2> QED
      BY <2>1
<1>3. d # <<>> /\ d[1] \notin Blanks
  <2>1. Minus \notin Blanks /\ \A b \in Digits : b \notin Blanks
        BY DEF Minus, Blanks, Digits
  <2>2. d # <<>>
        BY <1>1, <1>2
  <2> QED
      BY <1>2, <2>1, <2>2, Zenon
<1>4. \A later, at : ValueFrom(s, later, at, d[1]) = ParseNumber(s, at)
    BY <1>2, ValueFromIs, Zenon
<1>5. ASSUME NEW a \in Nat, LiesAfter(d, s, a), Peek(s, (a + Len(d)) + 1) \in Enders
      PROVE  f[<<"value", a + 1>>] = Is(v, (a + Len(d)) + 1)
  <2>1. StartsAs(f, s, a, d[1])
        BY <1>1, <1>3, <1>5, TextStarts, Zenon
  <2>2. f[<<"value", a + 1>>] = ParseNumber(s, a + 1)
        BY <1>4, <2>1, Zenon DEF StartsAs
  <2>3. Holds(d, s, a, n)
    <3>1. n \in 1..n /\ a + n + 1 = (a + n) + 1
          BY <1>2
    <3> QED
        BY <1>1, <1>5, <3>1, Zenon DEF Holds, LiesAfter
  <2>4. n = Len(d) => ParseNumber(s, a + 1) = Is(NumberValue(d, int, dot), a + n + 1)
        BY <2>3, NumberReads
  <2> QED
      BY <1>1, <2>2, <2>4, Zenon
<1>6. ASSUME NEW a \in Nat, CutAfter(d, s, a)
      PROVE  f[<<"value", a + 1>>] = Fails \/ f[<<"value", a + 1>>].at = Len(s) + 1
  <2>1. CASE a = Len(s)
        BY <2>1, NothingCutReads, Zenon
  <2>2. CASE a # Len(s)
    <3>1. StartsAs(f, s, a, d[1])
          BY <1>1, <1>3, <1>6, <2>2, TextStarts, Zenon
    <3>2. f[<<"value", a + 1>>] = ParseNumber(s, a + 1)
          BY <1>4, <3>1, Zenon DEF StartsAs
    <3>3. PICK m \in Nat : /\ m \in 1..Len(d) /\ a + m = Len(s) /\ Peek(s, (a + m) + 1) = 0
                           /\ \A i \in 1..m : s[a + i] = d[i]
      <4>1. HeldFirst(d, s, a)
            BY <1>1, <1>6, <2>2, CutFirst, Zenon
      <4> QED
          BY <4>1, Zenon DEF HeldFirst
    <3>4. Holds(d, s, a, m)
      <4>1. 0 \in Enders /\ a + m <= Len(s) /\ a + m + 1 = (a + m) + 1
            BY <1>1, <3>3 DEF Enders
      <4> QED
          BY <3>3, <4>1, Zenon DEF Holds
    <3>5. ParseNumber(s, a + 1) = Fails \/ ParseNumber(s, a + 1).at = a + m + 1
          BY <3>4, NumberReads
    <3>6. a + m + 1 = Len(s) + 1
          BY <3>3
    <3> QED
        BY <3>2, <3>5, <3>6, Zenon
  <2> QED
      BY <2>1, <2>2
<1> QED
    BY <1>5, <1>6, Zenon DEF ReadsFull, ReadsCut

(* The texts that are written for numbers.  *)
LEMMA DoubleText ==
    ASSUME NEW d, IsDouble(d)
    PROVE  \E int, dot, e : NumberText(d, int, dot, e) /\ NumberValue(d, int, dot) = Double(d)
<1>1. d \in Seq(Bytes256)
    BY DEF IsDouble, Bytes256
<1>2. PICK int \in {1, 2}, dot \in 1..Len(d), e \in 1..(Len(d) + 1) :
          /\ int < dot /\ dot <= e
          /\ int = 2 => d[1] = Minus
          /\ \A k \in int..(dot - 1) : d[k] \in Digits
          /\ dot < e => d[dot] = Point /\ \A k \in (dot + 1)..(e - 1) : d[k] \in Digits
          /\ e <= Len(d) => /\ e < Len(d) /\ d[e] = 101 /\ d[e + 1] \in {Plus, Minus}
                            /\ \A k \in (e + 2)..Len(d) : d[k] \in Digits
    BY Zenon DEF IsDouble
<1>3. dot \in Nat /\ e \in Nat /\ dot <= Len(d) /\ e <= Len(d) + 1
    BY <1>1, <1>2
<1>4. NumberText(d, int, dot, e)
    BY <1>1, <1>2, <1>3, Zenon DEF NumberText
<1>5. NumberValue(d, int, dot) = Double(d)
    BY <1>3, Zenon DEF NumberValue
<1> QED
    BY <1>4, <1>5, Zenon

LEMMA IntText ==
    ASSUME NEW n \in Int
    PROVE  \E int, dot, e : NumberText(DumpInt(n), int, dot, e) /\ NumberValue(DumpInt(n), int, dot) = IntValue(n)
<1>1. CASE n < 0
  <2>1. PICK x \in Nat : x = -n /\ (-1) * x = n
    <3>1. -n \in Nat /\ (-1) * (-n) = n
          BY <1>1
    <3> QED
        BY <3>1
  <2>2. PICK t : t = DumpNat(x) /\ t \in Seq(Digits) /\ t # <<>> /\ IntOf(t) = x
        BY <2>1, DumpNatWrites, Zenon DEF Written10
  <2>3. t \in Seq(Bytes256)
        BY <2>2, DigitsAreBytes, Zenon
  <2>4. PICK q : q = <<Minus>> /\ q \in Seq(Bytes256) /\ Len(q) = 1 /\ q[1] = Minus
    <3>1. Minus \in Bytes256
          BY DEF Minus, Bytes256
    <3>2. <<Minus>> \in Seq(Bytes256) /\ Len(<<Minus>>) = 1 /\ <<Minus>>[1] = Minus
          BY <3>1
    <3> QED
        BY <3>2, Zenon
  <2>5. PICK d : d = q \o t
        OBVIOUS
  <2>6. DumpInt(n) = d
        BY <1>1, <2>1, <2>2, <2>4, <2>5, Zenon DEF DumpInt
  <2>7. PICK l \in Nat : l = Len(t)
        BY <2>3
  <2>8. l >= 1 /\ \A i \in 1..l : t[i] \in Digits
        BY <2>2, <2>7
  <2>9. /\ d \in Seq(Bytes256) /\ Len(d) = 1 + l /\ d[1] = Minus
        /\ \A i \in 1..l : d[1 + i] = t[i]
    <3>1. d \in Seq(Bytes256) /\ Len(d) = Len(q) + Len(t) /\ (\A i \in 1..Len(q) : d[i] = q[i])
          /\ \A i \in 1..Len(t) : d[Len(q) + i] = t[i]
          BY <2>3, <2>4, <2>5, ConcatPlaces
    <3>2. 1 \in 1..1
          OBVIOUS
    <3> QED
        BY <2>4, <2>7, <3>1, <3>2, Zenon
  <2>10. NumberText(d, 2, l + 2, l + 2)
    <3>1. /\ 2 \in {1, 2} /\ l + 2 \in Nat /\ 2 < l + 2 /\ l + 2 <= l + 2 /\ l + 2 <= (1 + l) + 1
          /\ ~(l + 2 < l + 2) /\ ~(l + 2 <= 1 + l)
          BY <2>8
    <3>2. ASSUME NEW k \in 2..((l + 2) - 1) PROVE d[k] \in Digits
      <4>1. k - 1 \in 1..l /\ 1 + (k - 1) = k
            BY <2>8
      <4> QED
          BY <2>8, <2>9, <4>1, Zenon
    <3> QED
        BY <2>9, <3>1, <3>2, Zenon DEF NumberText
  <2>11. SubSeq(d, 2, Len(d)) = t
    <3>1. Known(t, l) /\ LiesAfter(t, d, 1)
      <4>1. 1 + l <= 1 + l
            OBVIOUS
      <4> QED
          BY <2>3, <2>7, <2>9, <4>1, Zenon DEF Known, LiesAfter
    <3>2. SubSeq(d, 1 + 1, 1 + l) = t
          BY <2>9, <3>1, LiesCut, Zenon
    <3>3. 1 + 1 = 2
          OBVIOUS
    <3> QED
        BY <2>9, <3>2, <3>3, Zenon
  <2>12. NumberValue(d, 2, l + 2) = IntValue(n)
    <3>1. ~(l + 2 <= Len(d))
          BY <2>9
    <3>2. NumberValue(d, 2, l + 2) = IntValue((-1) * IntOf(t))
          BY <2>11, <3>1 DEF NumberValue
    <3>3. (-1) * IntOf(t) = n
          BY <2>1, <2>2
    <3> QED
        BY <3>2, <3>3
  <2> QED
      BY <2>6, <2>10, <2>12, Zenon
<1>2. CASE ~(n < 0)
  <2>1. n \in Nat
        BY <1>2
  <2>2. PICK t : t = DumpNat(n) /\ t \in Seq(Digits) /\ t # <<>> /\ IntOf(t) = n
        BY <2>1, DumpNatWrites, Zenon DEF Written10
  <2>3. t \in Seq(Bytes256)
        BY <2>2, DigitsAreBytes, Zenon
  <2>4. DumpInt(n) = t
        BY <1>2, <2>2, Zenon DEF DumpInt
  <2>5. PICK l \in Nat : l = Len(t) /\ l >= 1 /\ \A i \in 1..l : t[i] \in Digits
        BY <2>2
  <2>6. NumberText(t, 1, l + 1, l + 1)
    <3>1. /\ 1 \in {1, 2} /\ l + 1 \in Nat /\ 1 < l + 1 /\ l + 1 <= l + 1 /\ 1 # 2
          /\ ~(l + 1 < l + 1) /\ ~(l + 1 <= l) /\ (l + 1) - 1 = l
          BY <2>5
    <3> QED
        BY <2>3, <2>5, <3>1, Zenon DEF NumberText
  <2>7. NumberValue(t, 1, l + 1) = IntValue(n)
    <3>1. ~(l + 1 <= Len(t))
          BY <2>5
    <3>2. SubSeq(t, 1, Len(t)) = t
          BY <2>3
    <3>3. NumberValue(t, 1, l + 1) = IntValue((IF 1 = 2 THEN -1 ELSE 1) * IntOf(t))
          BY <3>1, <3>2, Zenon DEF NumberValue
    <3>4. (IF 1 = 2 THEN -1 ELSE 1) * IntOf(t) = n
          BY <2>1, <2>2
    <3> QED
        BY <3>3, <3>4, Zenon
  <2> QED
      BY <2>4, <2>6, <2>7, Zenon
<1> QED
    BY <1>1, <1>2

(* An element of a list: t is what is written for w, c closes the list,    *)
(* parser p reads its elements.                                            *)
ElementReads(t, w, c, p, s, f) ==
    \A b \in Nat :
        /\ LiesAfter(t, s, b) /\ Peek(s, (b + Len(t)) + 1) = Comma =>
              f[<<p, b + 1>>] = Then(<<w>>, f[<<p, (b + Len(t)) + 2>>])
        /\ LiesAfter(t, s, b) /\ Peek(s, (b + Len(t)) + 1) = c =>
              f[<<p, b + 1>>] = Is(<<w>>, (b + Len(t)) + 2)
        /\ LiesAfter(t, s, b) /\ b + Len(t) = Len(s) => f[<<p, b + 1>>] = Fails
        /\ CutAfter(t, s, b) => f[<<p, b + 1>>] = Fails

IsList(t, x, n, part, g, c, p, s, f) ==
    /\ n \in Nat /\ n >= 1 /\ n = Len(x) /\ IsJoin(g, part, n)
    /\ \A k \in 1..n : /\ t[k] \in Seq(Bytes256) /\ ElementReads(t[k], x[k], c, p, s, f)
                       /\ part[k] = IF k = 1 THEN t[k] ELSE <<Comma>> \o t[k]

(* Where element k begins, after a.  *)
Place(g, a, k) == (a + Len(g[k - 1])) + (IF k = 1 THEN 0 ELSE 1)

CommaBefore(s, g, a, k) == k # 1 => Peek(s, (a + Len(g[k - 1])) + 1) = Comma

Placed(t, part, g, s, a, j) ==
    /\ Place(g, a, j) \in Nat /\ Place(g, a, j) + Len(t[j]) = a + Len(g[j])
    /\ Len(g[j]) \in Nat /\ Len(g[j - 1]) \in Nat
    /\ LiesAfter(part[j], s, a + Len(g[j - 1])) =>
          LiesAfter(t[j], s, Place(g, a, j)) /\ CommaBefore(s, g, a, j)
    /\ CutAfter(part[j], s, a + Len(g[j - 1])) =>
          \/ j # 1 /\ a + Len(g[j - 1]) = Len(s)
          \/ CutAfter(t[j], s, Place(g, a, j)) /\ CommaBefore(s, g, a, j)

LEMMA ListPlaces ==
    ASSUME NEW s, s \in Seq(Bytes256), NEW f, NEW t, NEW x, NEW n, NEW part, NEW g, NEW c, NEW p,
           IsList(t, x, n, part, g, c, p, s, f), NEW j \in 1..n, NEW a \in Nat
    PROVE  Placed(t, part, g, s, a, j)
<1> USE DEF Placed
<1>1. /\ n \in Nat /\ IsJoin(g, part, n)
      /\ t[j] \in Seq(Bytes256) /\ part[j] = IF j = 1 THEN t[j] ELSE <<Comma>> \o t[j]
    BY Zenon DEF IsList
<1>2. j \in Nat /\ j - 1 \in 0..(n - 1) /\ j - 1 \in 0..n /\ (j - 1) + 1 = j
    BY <1>1
<1>3. /\ g[j - 1] \in Seq(Bytes256) /\ part[j] \in Seq(Bytes256) /\ g[j] = g[j - 1] \o part[j]
  <2>1. /\ g[j - 1] \in Seq(Bytes256)
        /\ part[(j - 1) + 1] \in Seq(Bytes256) /\ g[(j - 1) + 1] = g[j - 1] \o part[(j - 1) + 1]
        BY <1>1, <1>2, Zenon DEF IsJoin
  <2> QED
      BY <1>2, <2>1
<1>4. PICK u \in Nat, v \in Nat, w \in Nat : u = Len(g[j - 1]) /\ v = Len(part[j]) /\ w = Len(t[j])
    BY <1>1, <1>3
<1>5. Len(g[j]) = u + v
  <2>1. PICK y : y = g[j - 1] \o part[j]
        OBVIOUS
  <2>2. Len(y) = Len(g[j - 1]) + Len(part[j])
        BY <1>3, <2>1, ConcatPlaces
  <2> QED
      BY <1>3, <1>4, <2>1, <2>2, Zenon
<1>6. CASE j = 1
  <2>1. part[j] = t[j] /\ Place(g, a, j) = (a + u) + 0 /\ v = w
        BY <1>1, <1>4, <1>6, Zenon DEF Place
  <2>2. /\ Place(g, a, j) = a + u /\ a + u \in Nat /\ (a + u) + w = a + (u + v) /\ u + v \in Nat
        BY <2>1
  <2> QED
      BY <1>4, <1>5, <1>6, <2>1, <2>2, Zenon DEF CommaBefore
<1>7. CASE j # 1
  <2>1. PICK q : q = <<Comma>> /\ q \in Seq(Bytes256) /\ Len(q) = 1 /\ q[1] = Comma
    <3>1. Comma \in Bytes256
          BY DEF Comma, Bytes256
    <3>2. <<Comma>> \in Seq(Bytes256) /\ Len(<<Comma>>) = 1 /\ <<Comma>>[1] = Comma
          BY <3>1
    <3> QED
        BY <3>2, Zenon
  <2>2. part[j] = q \o t[j] /\ Place(g, a, j) = (a + u) + 1
        BY <1>1, <1>4, <1>7, <2>1, Zenon DEF Place
  <2>3. v = 1 + w
    <3>1. PICK y : y = q \o t[j]
          OBVIOUS
    <3>2. Len(y) = Len(q) + Len(t[j])
          BY <1>1, <2>1, <3>1, ConcatPlaces
    <3> QED
        BY <1>4, <2>1, <2>2, <3>1, <3>2, Zenon
  <2>4. a + u \in Nat /\ (a + u) + 1 \in Nat /\ ((a + u) + 1) + w = a + (u + v) /\ u + v \in Nat
        BY <2>3
  <2>5. ASSUME LiesAfter(q, s, a + u) PROVE Peek(s, (a + u) + 1) = Comma
    <3>1. SeenAfter(q, s, a + u)
          BY <2>1, <2>4, <2>5, PeekLies, Zenon
    <3>2. 1 \in 1..1
          OBVIOUS
    <3> QED
        BY <2>1, <3>1, <3>2, Zenon DEF SeenAfter
  <2>6. ASSUME LiesAfter(part[j], s, a + u)
        PROVE  LiesAfter(t[j], s, (a + u) + 1) /\ Peek(s, (a + u) + 1) = Comma
    <3>1. LiesAfter(q \o t[j], s, a + u)
          BY <2>2, <2>6, Zenon
    <3>2. LiesAfter(q, s, a + u) /\ LiesAfter(t[j], s, (a + u) + Len(q))
          BY <1>1, <2>1, <2>4, <3>1, LiesParts, Zenon
    <3> QED
        BY <2>1, <2>5, <3>2, Zenon
  <2>7. ASSUME CutAfter(part[j], s, a + u)
        PROVE  \/ a + u = Len(s)
               \/ CutAfter(t[j], s, (a + u) + 1) /\ Peek(s, (a + u) + 1) = Comma
    <3>1. CutAfter(q \o t[j], s, a + u)
          BY <2>2, <2>7, Zenon
    <3>2. CutAfter(q, s, a + u) \/ (LiesAfter(q, s, a + u) /\ CutAfter(t[j], s, (a + u) + Len(q)))
          BY <1>1, <2>1, <2>4, <3>1, CutParts, Zenon
    <3>3. CutAfter(q, s, a + u) => a + u = Len(s)
      <4>1. PICK l \in Nat : l = Len(s)
            OBVIOUS
      <4>2. CutAfter(q, s, a + u) => a + u <= l /\ l < (a + u) + 1
            BY <2>1, <4>1, Zenon DEF CutAfter
      <4>3. a + u <= l /\ l < (a + u) + 1 => a + u = l
            OBVIOUS
      <4> QED
          BY <4>1, <4>2, <4>3, Zenon
    <3> QED
        BY <2>1, <2>5, <3>2, <3>3, Zenon
  <2> QED
      BY <1>4, <1>5, <1>7, <2>2, <2>4, <2>6, <2>7, Zenon DEF CommaBefore
<1> QED
    BY <1>6, <1>7

(* The first m elements, before what ends them.  *)
ReadAtPlace(f, p, g, a, k, w, z) == f[<<p, Place(g, a, k) + 1>>] = Then(<<w>>, z)
ListFrom(f, p, a, w, z) == f[<<p, a + 1>>] = Read(w, z)

LEMMA ListBack ==
    ASSUME NEW s, s \in Seq(Bytes256), NEW f, NEW S, NEW t, NEW x, x \in Seq(S), NEW n, NEW part, NEW g, NEW c, NEW p,
           IsList(t, x, n, part, g, c, p, s, f), NEW m \in 1..n, NEW a \in Nat, LiesAfter(g[m], s, a),
           NEW z, z = Read(<<>>, z), ReadAtPlace(f, p, g, a, m, x[m], z)
    PROVE  ListFrom(f, p, a, SubSeq(x, 1, m), z)
<1>1. n \in Nat /\ n = Len(x) /\ IsJoin(g, part, n)
    BY Zenon DEF IsList
<1>2. m \in Nat /\ m <= Len(x) /\ m \in 0..n
    BY <1>1
<1>3. PICK r : r = [j \in 0..m |-> IF j = m THEN z ELSE f[<<p, Place(g, a, j + 1) + 1>>]]
    OBVIOUS
<1>4. \A j \in 0..(m - 1) : LiesAfter(part[j + 1], s, a + Len(g[j]))
    BY <1>1, <1>2, PartsLie
<1>5. ASSUME NEW j \in 0..(m - 1) PROVE r[j] = Then(<<x[j + 1]>>, r[j + 1])
  <2>1. j \in 0..m /\ j # m /\ j + 1 \in 0..m /\ j + 1 \in 1..n /\ (j + 1) - 1 = j
        BY <1>1, <1>2
  <2>2. r[j] = f[<<p, Place(g, a, j + 1) + 1>>]
        BY <1>3, <2>1, Zenon
  <2>3. CASE j + 1 = m
    <3>1. r[j + 1] = z
          BY <1>3, <2>1, <2>3, Zenon
    <3> QED
        BY <2>2, <2>3, <3>1, Zenon DEF ReadAtPlace
  <2>4. CASE j + 1 # m
    <3>1. j + 1 \in 0..(m - 1) /\ (j + 1) + 1 \in 1..n /\ ((j + 1) + 1) - 1 = j + 1 /\ (j + 1) + 1 # 1
          BY <1>1, <1>2, <2>4
    <3>2. r[j + 1] = f[<<p, Place(g, a, (j + 1) + 1) + 1>>]
          BY <1>3, <2>1, <2>4, Zenon
    <3>3. LiesAfter(part[j + 1], s, a + Len(g[(j + 1) - 1]))
      <4>1. LiesAfter(part[j + 1], s, a + Len(g[j]))
            BY <1>4, Zenon
      <4> QED
          BY <2>1, <4>1, Zenon
    <3>4. LiesAfter(part[(j + 1) + 1], s, a + Len(g[((j + 1) + 1) - 1]))
      <4>1. LiesAfter(part[(j + 1) + 1], s, a + Len(g[j + 1]))
            BY <1>4, <3>1, Zenon
      <4> QED
          BY <3>1, <4>1, Zenon
    <3>5. /\ Place(g, a, j + 1) \in Nat /\ Place(g, a, j + 1) + Len(t[j + 1]) = a + Len(g[j + 1])
          /\ LiesAfter(t[j + 1], s, Place(g, a, j + 1)) /\ Len(g[j + 1]) \in Nat
      <4>1. Placed(t, part, g, s, a, j + 1)
            BY <2>1, ListPlaces, Zenon
      <4> QED
          BY <3>3, <4>1, Zenon DEF Placed
    <3>6. Peek(s, (a + Len(g[j + 1])) + 1) = Comma
      <4>1. CommaBefore(s, g, a, (j + 1) + 1)
        <5>1. Placed(t, part, g, s, a, (j + 1) + 1)
              BY <3>1, ListPlaces, Zenon
        <5> QED
            BY <3>4, <5>1, Zenon DEF Placed
      <4> QED
          BY <3>1, <4>1, Zenon DEF CommaBefore
    <3>7. Place(g, a, (j + 1) + 1) + 1 = (a + Len(g[j + 1])) + 2
      <4>1. Place(g, a, (j + 1) + 1) = (a + Len(g[j + 1])) + 1
            BY <3>1, Zenon DEF Place
      <4>2. PICK k \in Nat : k = a + Len(g[j + 1])
            BY <3>5
      <4>3. (k + 1) + 1 = k + 2
            OBVIOUS
      <4> QED
          BY <4>1, <4>2, <4>3, Zenon
    <3>8. ElementReads(t[j + 1], x[j + 1], c, p, s, f)
          BY <2>1, Zenon DEF IsList
    <3>9. PICK b \in Nat : b = Place(g, a, j + 1)
          BY <3>5, Zenon
    <3>10. f[<<p, b + 1>>] = Then(<<x[j + 1]>>, f[<<p, (b + Len(t[j + 1])) + 2>>])
      <4>1. LiesAfter(t[j + 1], s, b) /\ Peek(s, (b + Len(t[j + 1])) + 1) = Comma
            BY <3>5, <3>6, <3>9, Zenon
      <4> QED
          BY <3>8, <4>1, Zenon DEF ElementReads
    <3> QED
        BY <2>2, <3>2, <3>5, <3>7, <3>9, <3>10, Zenon
  <2> QED
      BY <2>3, <2>4
<1>6. r[m] = Read(<<>>, z)
  <2>1. m \in 0..m
        BY <1>2
  <2> QED
      BY <1>3, <2>1, Zenon
<1>7. r[0] = Read(SubSeq(x, 1, m), z)
    BY <1>2, <1>5, <1>6, ItemsBack
<1>8. r[0] = f[<<p, a + 1>>]
  <2>1. 0 \in 0..m /\ 0 # m /\ 0 + 1 = 1 /\ 1 - 1 = 0
        BY <1>2
  <2>2. r[0] = f[<<p, Place(g, a, 1) + 1>>]
        BY <1>3, <2>1, Zenon
  <2>3. g[0] = <<>>
        BY <1>1, Zenon DEF IsJoin
  <2>4. Place(g, a, 1) = (a + Len(<<>>)) + 0
        BY <2>1, <2>3, Zenon DEF Place
  <2>5. (a + Len(<<>>)) + 0 = a
        OBVIOUS
  <2> QED
      BY <2>2, <2>4, <2>5, Zenon
<1> QED
    BY <1>7, <1>8, Zenon DEF ListFrom

LEMMA ReadOne ==
    /\ \A w, at : Is(<<w>>, at) = Then(<<w>>, Is(<<>>, at))
    /\ \A w : Fails = Then(<<w>>, Fails)
<1>1. ~Fails.ok
    BY DEF Fails
<1>2. \A at : Is(<<>>, at).ok /\ Is(<<>>, at).v = <<>> /\ Is(<<>>, at).at = at
    BY DEF Is
<1>3. \A w : <<w>> \o <<>> = <<w>>
    OBVIOUS
<1> QED
    BY <1>1, <1>2, <1>3, Zenon DEF Then

(* A list that is there, and closed.  *)
ListFound(f, p, a, x, l) == f[<<p, a + 1>>] = Is(x, (a + l) + 2)

LEMMA ListReads ==
    ASSUME NEW s, s \in Seq(Bytes256), NEW f, NEW S, NEW t, NEW x, x \in Seq(S), NEW n, NEW part, NEW g, NEW c, NEW p,
           IsList(t, x, n, part, g, c, p, s, f), NEW a \in Nat, LiesAfter(g[n], s, a),
           Peek(s, (a + Len(g[n])) + 1) = c
    PROVE  ListFound(f, p, a, x, Len(g[n]))
<1>1. n \in Nat /\ n >= 1 /\ n = Len(x) /\ IsJoin(g, part, n)
    BY Zenon DEF IsList
<1>2. n \in 1..n /\ n - 1 \in 0..(n - 1) /\ (n - 1) + 1 = n /\ n \in 0..n
    BY <1>1
<1>3. Placed(t, part, g, s, a, n)
    BY <1>2, ListPlaces, Zenon
<1>4. LiesAfter(part[n], s, a + Len(g[n - 1]))
  <2>1. \A j \in 0..(n - 1) : LiesAfter(part[j + 1], s, a + Len(g[j]))
        BY <1>1, <1>2, PartsLie
  <2>2. LiesAfter(part[(n - 1) + 1], s, a + Len(g[n - 1]))
        BY <1>2, <2>1, Zenon
  <2> QED
      BY <1>2, <2>2, Zenon
<1>5. PICK b \in Nat : b = Place(g, a, n) /\ b + Len(t[n]) = a + Len(g[n]) /\ LiesAfter(t[n], s, b)
    BY <1>3, <1>4, Zenon DEF Placed
<1>6. ElementReads(t[n], x[n], c, p, s, f)
    BY <1>2, Zenon DEF IsList
<1>7. f[<<p, b + 1>>] = Is(<<x[n]>>, (b + Len(t[n])) + 2)
  <2>1. Peek(s, (b + Len(t[n])) + 1) = c
        BY <1>5, Zenon
  <2> QED
      BY <1>5, <1>6, <2>1, Zenon DEF ElementReads
<1>8. PICK z : z = Is(<<>>, (a + Len(g[n])) + 2)
    OBVIOUS
<1>9. ReadAtPlace(f, p, g, a, n, x[n], z) /\ z = Read(<<>>, z)
    BY <1>5, <1>7, <1>8, ReadOne, ReadEnds, Zenon DEF ReadAtPlace
<1>10. ListFrom(f, p, a, SubSeq(x, 1, n), z)
    BY <1>2, <1>9, ListBack, Zenon
<1>11. SubSeq(x, 1, n) = x
    BY <1>1
<1> QED
    BY <1>8, <1>10, <1>11, ReadEnds, Zenon DEF ListFrom, ListFound

(* A list that is cut.  *)
ListFails(f, p, a) == f[<<p, a + 1>>] = Fails

LEMMA ListEnds ==
    ASSUME NEW s, s \in Seq(Bytes256), NEW f, NEW S, NEW t, NEW x, x \in Seq(S), NEW n, NEW part, NEW g, NEW c, NEW p,
           IsList(t, x, n, part, g, c, p, s, f), NEW m \in 1..n, NEW a \in Nat, LiesAfter(g[m], s, a),
           a + Len(g[m]) = Len(s)
    PROVE  ListFails(f, p, a)
<1>1. n \in Nat /\ n >= 1 /\ n = Len(x) /\ IsJoin(g, part, n)
    BY Zenon DEF IsList
<1>2. m - 1 \in 0..(m - 1) /\ (m - 1) + 1 = m /\ m \in 0..n
    BY <1>1
<1>3. Placed(t, part, g, s, a, m)
    BY ListPlaces, Zenon
<1>4. LiesAfter(part[m], s, a + Len(g[m - 1]))
  <2>1. \A j \in 0..(m - 1) : LiesAfter(part[j + 1], s, a + Len(g[j]))
        BY <1>1, <1>2, PartsLie
  <2>2. LiesAfter(part[(m - 1) + 1], s, a + Len(g[m - 1]))
        BY <1>2, <2>1, Zenon
  <2> QED
      BY <1>2, <2>2, Zenon
<1>5. PICK b \in Nat : b = Place(g, a, m) /\ b + Len(t[m]) = a + Len(g[m]) /\ LiesAfter(t[m], s, b)
    BY <1>3, <1>4, Zenon DEF Placed
<1>6. ElementReads(t[m], x[m], c, p, s, f)
    BY Zenon DEF IsList
<1>7. f[<<p, b + 1>>] = Fails
  <2>1. b + Len(t[m]) = Len(s)
        BY <1>5, Zenon
  <2> QED
      BY <1>5, <1>6, <2>1, Zenon DEF ElementReads
<1>8. ReadAtPlace(f, p, g, a, m, x[m], Fails)
    BY <1>5, <1>7, ReadOne, Zenon DEF ReadAtPlace
<1>9. ListFrom(f, p, a, SubSeq(x, 1, m), Fails)
    BY <1>8, ReadEnds, ListBack, Zenon
<1> QED
    BY <1>9, ReadEnds, Zenon DEF ListFrom, ListFails

LEMMA ListCut ==
    ASSUME NEW s, s \in Seq(Bytes256), NEW f, NEW S, NEW t, NEW x, x \in Seq(S), NEW n, NEW part, NEW g, NEW c, NEW p,
           IsList(t, x, n, part, g, c, p, s, f), NEW a \in Nat,
           CutAfter(g[n], s, a) \/ (LiesAfter(g[n], s, a) /\ a + Len(g[n]) = Len(s))
    PROVE  ListFails(f, p, a)
<1>1. n \in Nat /\ n >= 1 /\ n = Len(x) /\ IsJoin(g, part, n)
    BY Zenon DEF IsList
<1>2. n \in 1..n
    BY <1>1
<1>3. CASE LiesAfter(g[n], s, a) /\ a + Len(g[n]) = Len(s)
    BY <1>2, <1>3, ListEnds, Zenon
<1>4. CASE CutAfter(g[n], s, a)
  <2>1. PICK m \in 0..(n - 1) : LiesAfter(g[m], s, a) /\ CutAfter(part[m + 1], s, a + Len(g[m]))
        BY <1>1, <1>4, PartsCut, Zenon
  <2>2. m + 1 \in 1..n /\ (m + 1) - 1 = m /\ m \in Nat
        BY <1>1
  <2>3. Placed(t, part, g, s, a, m + 1)
        BY <2>2, ListPlaces, Zenon
  <2>4. CutAfter(part[m + 1], s, a + Len(g[(m + 1) - 1]))
        BY <2>1, <2>2, Zenon
  <2>5. \/ m + 1 # 1 /\ a + Len(g[(m + 1) - 1]) = Len(s)
        \/ CutAfter(t[m + 1], s, Place(g, a, m + 1)) /\ CommaBefore(s, g, a, m + 1)
        BY <2>3, <2>4, Zenon DEF Placed
  <2>6. CASE m + 1 # 1 /\ a + Len(g[(m + 1) - 1]) = Len(s)
    <3>1. m \in 1..n
      <4>1. m + 1 # 1
            BY <2>6, Zenon
      <4> QED
          BY <1>1, <2>2, <4>1
    <3>2. a + Len(g[m]) = Len(s)
          BY <2>2, <2>6, Zenon
    <3> QED
        BY <2>1, <3>1, <3>2, ListEnds, Zenon
  <2>7. CASE CutAfter(t[m + 1], s, Place(g, a, m + 1)) /\ CommaBefore(s, g, a, m + 1)
    <3>1. PICK b \in Nat : b = Place(g, a, m + 1)
          BY <2>3, Zenon DEF Placed
    <3>2. ElementReads(t[m + 1], x[m + 1], c, p, s, f)
          BY <2>2, Zenon DEF IsList
    <3>3. f[<<p, b + 1>>] = Fails
          BY <2>7, <3>1, <3>2, Zenon DEF ElementReads
    <3>4. CASE m = 0
      <4>1. g[0] = <<>>
            BY <1>1, Zenon DEF IsJoin
      <4>2. m + 1 = 1
            BY <3>4
      <4>3. b = (a + Len(<<>>)) + 0
            BY <2>2, <3>1, <3>4, <4>1, <4>2, Zenon DEF Place
      <4>4. b = a
            BY <4>3
      <4> QED
          BY <3>3, <4>4, Zenon DEF ListFails
    <3>5. CASE m # 0
      <4>1. m \in 1..n /\ m + 1 # 1
            BY <1>1, <2>2, <3>5
      <4>2. Placed(t, part, g, s, a, m)
            BY <4>1, ListPlaces, Zenon
      <4>3. LiesAfter(part[m], s, a + Len(g[m - 1]))
        <5>1. m \in 0..n /\ m - 1 \in 0..(m - 1) /\ (m - 1) + 1 = m
              BY <4>1
        <5>2. \A j \in 0..(m - 1) : LiesAfter(part[j + 1], s, a + Len(g[j]))
              BY <1>1, <2>1, <5>1, PartsLie
        <5>3. LiesAfter(part[(m - 1) + 1], s, a + Len(g[m - 1]))
              BY <5>1, <5>2, Zenon
        <5> QED
            BY <5>1, <5>3, Zenon
      <4>4. PICK d \in Nat : d = Place(g, a, m) /\ d + Len(t[m]) = a + Len(g[m]) /\ LiesAfter(t[m], s, d)
            BY <4>2, <4>3, Zenon DEF Placed
      <4>5. Peek(s, (d + Len(t[m])) + 1) = Comma
            BY <2>2, <2>7, <4>1, <4>4, Zenon DEF CommaBefore
      <4>6. ElementReads(t[m], x[m], c, p, s, f)
            BY <4>1, Zenon DEF IsList
      <4>7. f[<<p, d + 1>>] = Then(<<x[m]>>, f[<<p, (d + Len(t[m])) + 2>>])
            BY <4>4, <4>5, <4>6, Zenon DEF ElementReads
      <4>8. (d + Len(t[m])) + 2 = b + 1
        <5>1. b = (a + Len(g[m])) + 1
              BY <2>2, <3>1, <4>1, Zenon DEF Place
        <5>2. PICK k \in Nat : k = a + Len(g[m])
          <6>1. Len(g[m]) \in Nat
                BY <4>2, Zenon DEF Placed
          <6> QED
              BY <6>1
        <5>3. (k + 1) + 1 = k + 2
              OBVIOUS
        <5> QED
            BY <4>4, <5>1, <5>2, <5>3, Zenon
      <4>9. ReadAtPlace(f, p, g, a, m, x[m], Fails)
            BY <3>3, <4>4, <4>7, <4>8, Zenon DEF ReadAtPlace
      <4>10. ListFrom(f, p, a, SubSeq(x, 1, m), Fails)
            BY <2>1, <4>1, <4>9, ReadEnds, ListBack, Zenon
      <4> QED
          BY <4>10, ReadEnds, Zenon DEF ListFrom, ListFails
    <3> QED
        BY <3>4, <3>5
  <2> QED
      BY <2>5, <2>6, <2>7
<1> QED
    BY <1>3, <1>4

(* What is found later.  *)
LEMMA LaterIs ==
    ASSUME NEW s, s \in Seq(Bytes256), NEW f, NEW at \in Nat, NEW p \in Parsers, NEW b \in Nat, at < b, b <= Len(s) + 1
    PROVE  Later(s, f, at)[<<p, b>>] = f[<<p, b>>]
<1>1. b \in (at + 1)..(Len(s) + 1)
    OBVIOUS
<1>2. <<p, b>> \in Parsers \X ((at + 1)..(Len(s) + 1))
    BY <1>1
<1> QED
    BY <1>2, Zenon DEF Later

(* The items of an array: a value, and what follows it.  *)
LEMMA ItemsParser ==
    ASSUME NEW s, NEW f, IsParser(f, s), NEW p \in 1..(Len(s) + 1), NEW v, v = f[<<"value", p>>],
           NEW next, next = SkipWs(s, v.at)
    PROVE  f[<<"items", p>>] = ItemFrom(s, Later(s, f, p), v, next)
<1>1. "items" \in Parsers
    BY DEF Parsers
<1>2. f[<<"items", p>>] = ParserAt(s, Later(s, f, p), "items", p)
    BY <1>1, Zenon DEF IsParser
<1>3. ParserAt(s, Later(s, f, p), "items", p) = ParseItems(s, Later(s, f, p), p)
    BY DEF ParserAt
<1>4. v = ParseValue(s, Later(s, f, p), p)
    BY ValueParser, Zenon
<1>5. ParseItems(s, Later(s, f, p), p) = ItemFrom(s, Later(s, f, p), v, next)
    BY <1>4, Zenon DEF ParseItems, ItemFrom
<1> QED
    BY <1>2, <1>3, <1>5, Zenon

LEMMA FailsIs == ~Fails.ok
BY DEF Fails

LEMMA FoundIs == \A w, q : Is(w, q).ok /\ Is(w, q).v = w /\ Is(w, q).at = q
BY DEF Is

LEMMA Distinct == Comma # 93 /\ Comma # 125 /\ Comma # 0 /\ 93 # 0 /\ 125 # 0
BY DEF Comma

(* What may follow an element in a list closed by c.  *)
ItemFound(f, p, w, q, s) ==
    /\ Peek(s, q) = Comma => f[<<"items", p>>] = Then(<<w>>, f[<<"items", q + 1>>])
    /\ Peek(s, q) = 93 => f[<<"items", p>>] = Is(<<w>>, q + 1)
    /\ Peek(s, q) = 0 => f[<<"items", p>>] = Fails

LEMMA ItemsFound ==
    ASSUME NEW s, s \in Seq(Bytes256), NEW f, IsParser(f, s), NEW p \in Nat, 1 <= p, NEW q \in Nat, p < q,
           q <= Len(s) + 1, NEW w, f[<<"value", p>>] = Is(w, q)
    PROVE  ItemFound(f, p, w, q, s)
<1>1. p \in 1..(Len(s) + 1) /\ 1 <= q
    OBVIOUS
<1>2. PICK v : v = f[<<"value", p>>] /\ v.ok /\ v.v = w /\ v.at = q
  <2>1. PICK v : v = f[<<"value", p>>]
        OBVIOUS
  <2>2. v = Is(w, q)
        BY <2>1, Zenon
  <2>3. v.ok /\ v.v = w /\ v.at = q
        BY <2>2 DEF Is
  <2> QED
      BY <2>1, <2>3, Zenon
<1>3. ASSUME Peek(s, q) \in {0, Comma, 93} PROVE f[<<"items", p>>] = ItemFrom(s, Later(s, f, p), v, q)
  <2>1. Peek(s, q) \notin Blanks
    <3>1. \A c \in {0, Comma, 93} : c \notin Blanks
          BY DEF Blanks, Comma
    <3> QED
        BY <1>3, <3>1, Zenon
  <2>2. q = SkipWs(s, v.at)
        BY <1>1, <1>2, <2>1, NoBlanks, Zenon
  <2>3. PICK next : next = SkipWs(s, v.at)
        OBVIOUS
  <2>4. f[<<"items", p>>] = ItemFrom(s, Later(s, f, p), v, next)
        BY <1>1, <1>2, <2>3, ItemsParser, Zenon
  <2> QED
      BY <2>2, <2>3, <2>4, Zenon
<1>4. ASSUME Peek(s, q) = Comma PROVE f[<<"items", p>>] = Then(<<w>>, f[<<"items", q + 1>>])
  <2>1. f[<<"items", p>>] = Then(<<w>>, Later(s, f, p)[<<"items", q + 1>>])
        BY <1>2, <1>3, <1>4, Zenon DEF ItemFrom
  <2>2. q <= Len(s)
    <3>1. q > Len(s) => Peek(s, q) = 0
          BY PeekIn, Zenon
    <3>2. ~(q > Len(s))
          BY <1>4, <3>1, Distinct, Zenon
    <3> QED
        BY <3>2
  <2>3. PICK b \in Nat : b = q + 1 /\ p < b /\ b <= Len(s) + 1
    <3>1. q + 1 \in Nat /\ p < q + 1 /\ q + 1 <= Len(s) + 1
          BY <2>2
    <3> QED
        BY <3>1, Zenon
  <2>5. "items" \in Parsers
        BY DEF Parsers
  <2>6. Later(s, f, p)[<<"items", b>>] = f[<<"items", b>>]
        BY <2>3, <2>5, LaterIs
  <2>4. Later(s, f, p)[<<"items", q + 1>>] = f[<<"items", q + 1>>]
        BY <2>3, <2>6, Zenon
  <2> QED
      BY <2>1, <2>4, Zenon
<1>5. ASSUME Peek(s, q) = 93 PROVE f[<<"items", p>>] = Is(<<w>>, q + 1)
    BY <1>2, <1>3, <1>5, Distinct, Zenon DEF ItemFrom
<1>6. ASSUME Peek(s, q) = 0 PROVE f[<<"items", p>>] = Fails
    BY <1>2, <1>3, <1>6, Distinct, Zenon DEF ItemFrom
<1> QED
    BY <1>4, <1>5, <1>6, Zenon DEF ItemFound

LEMMA PastEnd ==
    ASSUME NEW s, s \in Seq(Bytes256)
    PROVE  Peek(s, Len(s) + 1) = 0 /\ SkipWs(s, Len(s) + 1) = Len(s) + 1
<1>1. PICK p \in Nat : p = Len(s) + 1 /\ 1 <= p /\ p > Len(s)
    OBVIOUS
<1>2. Peek(s, p) = 0
    BY <1>1, PeekIn, Zenon
<1>3. Peek(s, p) \notin Blanks
  <2>1. 0 \notin Blanks
        BY DEF Blanks
  <2> QED
      BY <1>2, <2>1, Zenon
<1>4. SkipWs(s, p) = p
    BY <1>1, <1>3, NoBlanks, Zenon
<1> QED
    BY <1>1, <1>2, <1>4, Zenon

(* No value, or one that ends where the text does: no items.  *)
LEMMA ItemsMissing ==
    ASSUME NEW s, s \in Seq(Bytes256), NEW f, IsParser(f, s), NEW p \in Nat, 1 <= p, p <= Len(s) + 1,
           f[<<"value", p>>] = Fails \/ f[<<"value", p>>].at = Len(s) + 1
    PROVE  f[<<"items", p>>] = Fails
<1>1. p \in 1..(Len(s) + 1)
    OBVIOUS
<1>2. PICK v : v = f[<<"value", p>>]
    OBVIOUS
<1>3. PICK next : next = SkipWs(s, v.at)
    OBVIOUS
<1>4. f[<<"items", p>>] = ItemFrom(s, Later(s, f, p), v, next)
    BY <1>1, <1>2, <1>3, ItemsParser, Zenon
<1>5. CASE v = Fails
    BY <1>4, <1>5, FailsIs, Zenon DEF ItemFrom
<1>6. CASE v.at = Len(s) + 1
  <2>1. Peek(s, next) = 0
        BY <1>3, <1>6, PastEnd, Zenon
  <2> QED
      BY <1>4, <2>1, Distinct, Zenon DEF ItemFrom
<1> QED
    BY <1>2, <1>5, <1>6, Zenon

LEMMA CommaEnds == Comma \in Enders /\ 93 \in Enders /\ 125 \in Enders /\ 0 \in Enders
BY DEF Enders

LEMMA ItemReads ==
    ASSUME NEW s, s \in Seq(Bytes256), NEW f, IsParser(f, s), NEW t, t \in Seq(Bytes256), t # <<>>, NEW w,
           ReadsFull(t, w, s, f), ReadsCut(t, w, s, f)
    PROVE  ElementReads(t, w, 93, "items", s, f)
<1>1. PICK n \in Nat, l \in Nat : n = Len(t) /\ l = Len(s) /\ 1 <= n
    OBVIOUS
<1>2. ASSUME NEW b \in Nat, LiesAfter(t, s, b), Peek(s, (b + n) + 1) \in Enders
      PROVE  ItemFound(f, b + 1, w, (b + n) + 1, s)
  <2>1. b + n <= l
        BY <1>1, <1>2, Zenon DEF LiesAfter
  <2>2. /\ b + 1 \in Nat /\ 1 <= b + 1 /\ (b + n) + 1 \in Nat /\ b + 1 < (b + n) + 1
        /\ (b + n) + 1 <= Len(s) + 1
        BY <1>1, <2>1
  <2>3. f[<<"value", b + 1>>] = Is(w, (b + n) + 1)
        BY <1>1, <1>2, Zenon DEF ReadsFull
  <2> QED
      BY <2>2, <2>3, ItemsFound, Zenon
<1>3. ASSUME NEW b \in Nat, CutAfter(t, s, b) PROVE f[<<"items", b + 1>>] = Fails
  <2>1. b <= l
        BY <1>1, <1>3, Zenon DEF CutAfter
  <2>2. b + 1 \in Nat /\ 1 <= b + 1 /\ b + 1 <= Len(s) + 1
        BY <1>1, <2>1
  <2>3. f[<<"value", b + 1>>] = Fails \/ f[<<"value", b + 1>>].at = Len(s) + 1
        BY <1>3, Zenon DEF ReadsCut
  <2> QED
      BY <2>2, <2>3, ItemsMissing, Zenon
<1>4. \A b \in Nat : ((b + n) + 1) + 1 = (b + n) + 2
    OBVIOUS
<1>5. ASSUME NEW b \in Nat, b + n = l PROVE Peek(s, (b + n) + 1) = 0
    BY <1>1, <1>5, PastEnd, Zenon
<1>6. ASSUME NEW b \in Nat, LiesAfter(t, s, b), Peek(s, (b + n) + 1) = Comma
      PROVE  f[<<"items", b + 1>>] = Then(<<w>>, f[<<"items", (b + n) + 2>>])
  <2>1. ItemFound(f, b + 1, w, (b + n) + 1, s)
        BY <1>2, <1>6, CommaEnds, Zenon
  <2>2. f[<<"items", b + 1>>] = Then(<<w>>, f[<<"items", ((b + n) + 1) + 1>>])
        BY <1>6, <2>1, Zenon DEF ItemFound
  <2> QED
      BY <1>4, <2>2, Zenon
<1>7. ASSUME NEW b \in Nat, LiesAfter(t, s, b), Peek(s, (b + n) + 1) = 93
      PROVE  f[<<"items", b + 1>>] = Is(<<w>>, (b + n) + 2)
  <2>1. ItemFound(f, b + 1, w, (b + n) + 1, s)
        BY <1>2, <1>7, CommaEnds, Zenon
  <2>2. f[<<"items", b + 1>>] = Is(<<w>>, ((b + n) + 1) + 1)
        BY <1>7, <2>1, Zenon DEF ItemFound
  <2> QED
      BY <1>4, <2>2, Zenon
<1>8. ASSUME NEW b \in Nat, LiesAfter(t, s, b), b + n = l
      PROVE  f[<<"items", b + 1>>] = Fails
  <2>1. Peek(s, (b + n) + 1) = 0
        BY <1>5, <1>8, Zenon
  <2>2. ItemFound(f, b + 1, w, (b + n) + 1, s)
        BY <1>2, <1>8, <2>1, CommaEnds, Zenon
  <2> QED
      BY <2>1, <2>2, Zenon DEF ItemFound
<1> QED
    BY <1>1, <1>3, <1>6, <1>7, <1>8, Zenon DEF ElementReads

(* The pairs of an object: a key, a colon, a value, and what follows.  *)
PairParts(s, later, at, k, key, c, v, next) ==
    /\ k = SkipWs(s, at) /\ key = ParseString(s, k) /\ c = SkipWs(s, key.at)
    /\ v = later[<<"value", c + 1>>] /\ next = SkipWs(s, v.at)
PairAt(s, f, p, k, key, c, v, next) == f[<<"pairs", p>>] = PairRead(s, Later(s, f, p), k, key, c, v, next)

LEMMA PairsParser ==
    ASSUME NEW s, NEW f, IsParser(f, s), NEW p \in 1..(Len(s) + 1), NEW k, NEW key, NEW c, NEW v, NEW next,
           PairParts(s, Later(s, f, p), p, k, key, c, v, next)
    PROVE  PairAt(s, f, p, k, key, c, v, next)
<1>1. "pairs" \in Parsers
    BY DEF Parsers
<1>2. f[<<"pairs", p>>] = ParserAt(s, Later(s, f, p), "pairs", p)
    BY <1>1, Zenon DEF IsParser
<1>3. ParserAt(s, Later(s, f, p), "pairs", p) = ParsePairs(s, Later(s, f, p), p)
    BY DEF ParserAt
<1>4. ParsePairs(s, Later(s, f, p), p) = PairRead(s, Later(s, f, p), k, key, c, v, next)
    BY Zenon DEF PairParts, ParsePairs, PairRead
<1> QED
    BY <1>2, <1>3, <1>4, Zenon DEF PairAt

LEMMA SomeEnds ==
    /\ 0 \notin Blanks /\ Comma \notin Blanks /\ 93 \notin Blanks /\ 125 \notin Blanks
    /\ QuoteMark \notin Blanks /\ Colon \notin Blanks
    /\ Colon # 0 /\ QuoteMark # 93 /\ QuoteMark # 125 /\ Colon \in Bytes256
BY DEF Blanks, Comma, QuoteMark, Colon, Bytes256

(* A place inside the text is one where a byte is.  *)
LEMMA PeekInside ==
    ASSUME NEW s, s \in Seq(Bytes256), NEW q \in Nat, Peek(s, q) # 0
    PROVE  q <= Len(s)
<1>1. q > Len(s) => Peek(s, q) = 0
    BY PeekIn, Zenon
<1>2. ~(q > Len(s))
    BY <1>1, Zenon
<1> QED
    BY <1>2

SameLater(s, f, p, q, z) == Later(s, f, p)[<<z, q + 1>>] = f[<<z, q + 1>>]

LEMMA LaterFound ==
    ASSUME NEW s, s \in Seq(Bytes256), NEW f, NEW p \in Nat, NEW q \in Nat, p <= q, q <= Len(s), NEW z \in Parsers
    PROVE  SameLater(s, f, p, q, z)
<1>1. PICK b \in Nat : b = q + 1 /\ p < b /\ b <= Len(s) + 1
  <2>1. q + 1 \in Nat /\ p < q + 1 /\ q + 1 <= Len(s) + 1
        OBVIOUS
  <2> QED
      BY <2>1, Zenon
<1>2. Later(s, f, p)[<<z, b>>] = f[<<z, b>>]
    BY <1>1, LaterIs
<1> QED
    BY <1>1, <1>2, Zenon DEF SameLater

KeyAt(s, p, x, c) == Peek(s, p) = QuoteMark /\ ParseString(s, p) = Is(StringValue(x), c)

PairFound(f, p, w, q, s) ==
    /\ Peek(s, q) = Comma => f[<<"pairs", p>>] = Then(<<w>>, f[<<"pairs", q + 1>>])
    /\ Peek(s, q) = 125 => f[<<"pairs", p>>] = Is(<<w>>, q + 1)
    /\ Peek(s, q) = 0 => f[<<"pairs", p>>] = Fails

LEMMA KeyIs ==
    ASSUME NEW key, NEW x, NEW c, key = Is(StringValue(x), c)
    PROVE  key.ok /\ key.v.s = x /\ key.at = c
BY DEF Is, StringValue

LEMMA PairsFound ==
    ASSUME NEW s, s \in Seq(Bytes256), NEW f, IsParser(f, s), NEW p \in Nat, 1 <= p, NEW c \in Nat, p < c,
           NEW x, KeyAt(s, p, x, c), Peek(s, c) = Colon,
           NEW q \in Nat, c + 1 < q, q <= Len(s) + 1, NEW w, f[<<"value", c + 1>>] = Is(w, q)
    PROVE  PairFound(f, p, <<x, w>>, q, s)
<1>1. c <= Len(s)
    BY SomeEnds, PeekInside
<1>2. p \in 1..(Len(s) + 1) /\ 1 <= q /\ p <= q /\ p <= c /\ 1 <= c
    BY <1>1
<1>3. PICK key : key = ParseString(s, p) /\ key.ok /\ key.v.s = x /\ key.at = c
  <2>1. PICK key : key = ParseString(s, p)
        OBVIOUS
  <2>2. key = Is(StringValue(x), c)
        BY <2>1, Zenon DEF KeyAt
  <2>3. key.ok /\ key.v.s = x /\ key.at = c
        BY <2>2, KeyIs
  <2> QED
      BY <2>1, <2>3, Zenon
<1>4. PICK v : v = f[<<"value", c + 1>>] /\ v.ok /\ v.v = w /\ v.at = q
  <2>1. PICK v : v = f[<<"value", c + 1>>]
        OBVIOUS
  <2>2. v = Is(w, q)
        BY <2>1, Zenon
  <2>3. v.ok /\ v.v = w /\ v.at = q
        BY <2>2 DEF Is
  <2> QED
      BY <2>1, <2>3, Zenon
<1>5. p = SkipWs(s, p)
  <2>1. Peek(s, p) \notin Blanks
        BY SomeEnds, Zenon DEF KeyAt
  <2> QED
      BY <2>1, NoBlanks, Zenon
<1>6. c = SkipWs(s, key.at)
  <2>1. Peek(s, c) \notin Blanks
        BY SomeEnds, Zenon
  <2> QED
      BY <1>2, <1>3, <2>1, NoBlanks, Zenon
<1>7. v = Later(s, f, p)[<<"value", c + 1>>]
  <2>1. "value" \in Parsers
        BY DEF Parsers
  <2>2. SameLater(s, f, p, c, "value")
        BY <1>1, <1>2, <2>1, LaterFound, Zenon
  <2> QED
      BY <1>4, <2>2, Zenon DEF SameLater
<1>8. PICK next : next = SkipWs(s, v.at)
    OBVIOUS
<1>9. f[<<"pairs", p>>] = PairRead(s, Later(s, f, p), p, key, c, v, next)
  <2>1. PairParts(s, Later(s, f, p), p, p, key, c, v, next)
        BY <1>3, <1>5, <1>6, <1>7, <1>8, Zenon DEF PairParts
  <2>2. PairAt(s, f, p, p, key, c, v, next)
        BY <1>2, <2>1, PairsParser, Zenon
  <2> QED
      BY <2>2, Zenon DEF PairAt
<1>10. ASSUME Peek(s, q) \in {0, Comma, 125} PROVE next = q
  <2>1. Peek(s, q) \notin Blanks
    <3>1. \A d \in {0, Comma, 125} : d \notin Blanks
          BY DEF Blanks, Comma
    <3> QED
        BY <1>10, <3>1, Zenon
  <2> QED
      BY <1>2, <1>4, <1>8, <2>1, NoBlanks, Zenon
<1>11. Peek(s, p) = QuoteMark
    BY Zenon DEF KeyAt
<1>12. ASSUME Peek(s, q) = Comma PROVE f[<<"pairs", p>>] = Then(<<<<x, w>>>>, f[<<"pairs", q + 1>>])
  <2>1. f[<<"pairs", p>>] = Then(<<<<x, w>>>>, Later(s, f, p)[<<"pairs", q + 1>>])
        BY <1>3, <1>4, <1>9, <1>10, <1>11, <1>12, Zenon DEF PairRead
  <2>2. q <= Len(s)
        BY <1>12, Distinct, PeekInside
  <2>3. "pairs" \in Parsers
        BY DEF Parsers
  <2>4. SameLater(s, f, p, q, "pairs")
        BY <1>2, <2>2, <2>3, LaterFound, Zenon
  <2> QED
      BY <2>1, <2>4, Zenon DEF SameLater
<1>13. ASSUME Peek(s, q) = 125 PROVE f[<<"pairs", p>>] = Is(<<<<x, w>>>>, q + 1)
    BY <1>3, <1>4, <1>9, <1>10, <1>11, <1>13, Distinct, Zenon DEF PairRead
<1>14. ASSUME Peek(s, q) = 0 PROVE f[<<"pairs", p>>] = Fails
    BY <1>3, <1>4, <1>9, <1>10, <1>11, <1>14, Distinct, Zenon DEF PairRead
<1> QED
    BY <1>12, <1>13, <1>14, Zenon DEF PairFound

(* No key.  *)
LEMMA KeyMissing ==
    ASSUME NEW s, s \in Seq(Bytes256), NEW f, IsParser(f, s), NEW p \in Nat, 1 <= p, p <= Len(s) + 1,
           Peek(s, p) \notin Blanks, ParseString(s, p) = Fails
    PROVE  f[<<"pairs", p>>] = Fails
<1>1. p \in 1..(Len(s) + 1)
    OBVIOUS
<1>2. p = SkipWs(s, p)
    BY NoBlanks, Zenon
<1>3. PICK key, c, v, next : /\ key = ParseString(s, p) /\ c = SkipWs(s, key.at)
                             /\ v = Later(s, f, p)[<<"value", c + 1>>] /\ next = SkipWs(s, v.at)
    OBVIOUS
<1>4. f[<<"pairs", p>>] = PairRead(s, Later(s, f, p), p, key, c, v, next)
  <2>1. PairParts(s, Later(s, f, p), p, p, key, c, v, next)
        BY <1>2, <1>3, Zenon DEF PairParts
  <2>2. PairAt(s, f, p, p, key, c, v, next)
        BY <1>1, <2>1, PairsParser, Zenon
  <2> QED
      BY <2>2, Zenon DEF PairAt
<1>5. ~key.ok
    BY <1>3, FailsIs, Zenon
<1> QED
    BY <1>4, <1>5, Zenon DEF PairRead

(* A key, and no colon.  *)
LEMMA ColonMissing ==
    ASSUME NEW s, s \in Seq(Bytes256), NEW f, IsParser(f, s), NEW p \in Nat, 1 <= p, p <= Len(s) + 1,
           NEW x, KeyAt(s, p, x, Len(s) + 1)
    PROVE  f[<<"pairs", p>>] = Fails
<1>1. p \in 1..(Len(s) + 1)
    OBVIOUS
<1>2. p = SkipWs(s, p)
  <2>1. Peek(s, p) \notin Blanks
        BY SomeEnds, Zenon DEF KeyAt
  <2> QED
      BY <2>1, NoBlanks, Zenon
<1>3. PICK key, c, v, next : /\ key = ParseString(s, p) /\ c = SkipWs(s, key.at)
                             /\ v = Later(s, f, p)[<<"value", c + 1>>] /\ next = SkipWs(s, v.at)
    OBVIOUS
<1>4. f[<<"pairs", p>>] = PairRead(s, Later(s, f, p), p, key, c, v, next)
  <2>1. PairParts(s, Later(s, f, p), p, p, key, c, v, next)
        BY <1>2, <1>3, Zenon DEF PairParts
  <2>2. PairAt(s, f, p, p, key, c, v, next)
        BY <1>1, <2>1, PairsParser, Zenon
  <2> QED
      BY <2>2, Zenon DEF PairAt
<1>5. Peek(s, c) # Colon
  <2>1. key = Is(StringValue(x), Len(s) + 1)
        BY <1>3, Zenon DEF KeyAt
  <2>2. key.at = Len(s) + 1
        BY <2>1, KeyIs
  <2>3. Peek(s, c) = 0
        BY <1>3, <2>2, PastEnd, Zenon
  <2> QED
      BY <2>3, SomeEnds, Zenon
<1> QED
    BY <1>4, <1>5, Zenon DEF PairRead

(* A key and a colon, and no value, or one that ends where the text does.  *)
LEMMA PairsMissing ==
    ASSUME NEW s, s \in Seq(Bytes256), NEW f, IsParser(f, s), NEW p \in Nat, 1 <= p, NEW c \in Nat, p < c,
           NEW x, KeyAt(s, p, x, c), Peek(s, c) = Colon,
           f[<<"value", c + 1>>] = Fails \/ f[<<"value", c + 1>>].at = Len(s) + 1
    PROVE  f[<<"pairs", p>>] = Fails
<1>1. c <= Len(s)
    BY SomeEnds, PeekInside
<1>2. p \in 1..(Len(s) + 1) /\ p <= c /\ 1 <= c
    BY <1>1
<1>3. PICK key : key = ParseString(s, p) /\ key.at = c
  <2>1. PICK key : key = ParseString(s, p)
        OBVIOUS
  <2>2. key = Is(StringValue(x), c)
        BY <2>1, Zenon DEF KeyAt
  <2>3. key.at = c
        BY <2>2, KeyIs
  <2> QED
      BY <2>1, <2>3, Zenon
<1>4. PICK v : v = f[<<"value", c + 1>>]
    OBVIOUS
<1>5. p = SkipWs(s, p)
  <2>1. Peek(s, p) \notin Blanks
        BY SomeEnds, Zenon DEF KeyAt
  <2> QED
      BY <2>1, NoBlanks, Zenon
<1>6. c = SkipWs(s, key.at)
  <2>1. Peek(s, c) \notin Blanks
        BY SomeEnds, Zenon
  <2> QED
      BY <1>2, <1>3, <2>1, NoBlanks, Zenon
<1>7. v = Later(s, f, p)[<<"value", c + 1>>]
  <2>1. "value" \in Parsers
        BY DEF Parsers
  <2>2. SameLater(s, f, p, c, "value")
        BY <1>1, <1>2, <2>1, LaterFound, Zenon
  <2> QED
      BY <1>4, <2>2, Zenon DEF SameLater
<1>8. PICK next : next = SkipWs(s, v.at)
    OBVIOUS
<1>9. f[<<"pairs", p>>] = PairRead(s, Later(s, f, p), p, key, c, v, next)
  <2>1. PairParts(s, Later(s, f, p), p, p, key, c, v, next)
        BY <1>3, <1>5, <1>6, <1>7, <1>8, Zenon DEF PairParts
  <2>2. PairAt(s, f, p, p, key, c, v, next)
        BY <1>2, <2>1, PairsParser, Zenon
  <2> QED
      BY <2>2, Zenon DEF PairAt
<1>10. CASE v = Fails
    BY <1>9, <1>10, FailsIs, Zenon DEF PairRead
<1>11. CASE v.at = Len(s) + 1
  <2>1. Peek(s, next) = 0
        BY <1>8, <1>11, PastEnd, Zenon
  <2> QED
      BY <1>9, <2>1, Distinct, Zenon DEF PairRead
<1> QED
    BY <1>4, <1>10, <1>11, Zenon

(* The text of a pair: a key, a colon and a value.  *)
IsPair(t, k, q, y, x) ==
    /\ k = DumpString(x) /\ q = <<Colon>> /\ t = (k \o q) \o y
    /\ x \in Seq(Bytes256) /\ y \in Seq(Bytes256) /\ t \in Seq(Bytes256)
    /\ k \in Seq(Bytes256) /\ k # <<>> /\ k[1] = QuoteMark
    /\ q \in Seq(Bytes256) /\ Len(q) = 1 /\ q[1] = Colon

LEMMA PairIs ==
    ASSUME NEW x, x \in Seq(Bytes256), NEW y, y \in Seq(Bytes256),
           NEW t, t = DumpString(x) \o <<Colon>> \o y
    PROVE  \E k, q : IsPair(t, k, q, y, x)
<1>1. PICK k : k = DumpString(x) /\ k \in Seq(Bytes256) /\ k # <<>> /\ k[1] = QuoteMark
    BY StringFirst, Zenon
<1>2. PICK q : q = <<Colon>> /\ q \in Seq(Bytes256) /\ Len(q) = 1 /\ q[1] = Colon
  <2>1. <<Colon>> \in Seq(Bytes256) /\ Len(<<Colon>>) = 1 /\ <<Colon>>[1] = Colon
        BY SomeEnds
  <2> QED
      BY <2>1, Zenon
<1>3. t = (k \o q) \o y
    BY <1>1, <1>2, Zenon
<1>4. t \in Seq(Bytes256)
    BY <1>1, <1>2, <1>3
<1> QED
    BY <1>1, <1>2, <1>3, <1>4, Zenon DEF IsPair

IsConcat(u, x, y) == u \in Seq(Bytes256) /\ Len(u) = Len(x) + Len(y)

LEMMA ConcatSize ==
    ASSUME NEW x, x \in Seq(Bytes256), NEW y, y \in Seq(Bytes256), NEW u, u = x \o y
    PROVE  IsConcat(u, x, y)
<1>1. u \in Seq(Bytes256) /\ Len(u) = Len(x) + Len(y)
    BY ConcatPlaces
<1> QED
    BY <1>1, Zenon DEF IsConcat

PairLength(t, k, y) == Len(t) = (Len(k) + 1) + Len(y)

LEMMA PairSize ==
    ASSUME NEW t, NEW k, NEW q, NEW y, NEW x, IsPair(t, k, q, y, x)
    PROVE  PairLength(t, k, y)
<1>1. /\ t = (k \o q) \o y /\ k \in Seq(Bytes256) /\ q \in Seq(Bytes256) /\ y \in Seq(Bytes256) /\ Len(q) = 1
    BY Zenon DEF IsPair
<1>2. PICK kq : kq = k \o q /\ kq \in Seq(Bytes256) /\ Len(kq) = Len(k) + 1
  <2>1. PICK kq : kq = k \o q
        OBVIOUS
  <2>2. IsConcat(kq, k, q)
        BY <1>1, <2>1, ConcatSize, Zenon
  <2> QED
      BY <1>1, <2>1, <2>2, Zenon DEF IsConcat
<1>3. t = kq \o y
    BY <1>1, <1>2, Zenon
<1>4. IsConcat(t, kq, y)
    BY <1>1, <1>2, <1>3, ConcatSize, Zenon
<1> QED
    BY <1>2, <1>4, Zenon DEF PairLength, IsConcat

(* A colon lies at a place, and the value after it.  *)
ColonAt(y, s, c) == Peek(s, c) = Colon /\ LiesAfter(y, s, c)

LEMMA PairLies ==
    ASSUME NEW s, s \in Seq(Bytes256), NEW t, NEW k, NEW q, NEW y, NEW x, IsPair(t, k, q, y, x),
           NEW b \in Nat, LiesAfter(t, s, b)
    PROVE  KeyAt(s, b + 1, x, (b + Len(k)) + 1) /\ ColonAt(y, s, (b + Len(k)) + 1)
<1>1. /\ t = (k \o q) \o y /\ k = DumpString(x) /\ x \in Seq(Bytes256) /\ k \in Seq(Bytes256) /\ q \in Seq(Bytes256)
      /\ y \in Seq(Bytes256) /\ Len(q) = 1 /\ q[1] = Colon /\ k # <<>> /\ k[1] = QuoteMark
    BY Zenon DEF IsPair
<1>2. PICK l \in Nat : l = Len(k) /\ 1 <= l /\ b + l \in Nat
    BY <1>1
<1>3. PICK kq : kq = k \o q /\ kq \in Seq(Bytes256) /\ Len(kq) = l + 1
  <2>1. PICK kq : kq = k \o q
        OBVIOUS
  <2>2. IsConcat(kq, k, q)
        BY <1>1, <2>1, ConcatSize, Zenon
  <2> QED
      BY <1>1, <1>2, <2>1, <2>2, Zenon DEF IsConcat
<1>4. LiesAfter(kq, s, b) /\ LiesAfter(y, s, b + Len(kq))
  <2>1. LiesAfter(kq \o y, s, b)
        BY <1>1, <1>3, Zenon
  <2> QED
      BY <1>1, <1>3, <2>1, LiesParts, Zenon
<1>5. LiesAfter(k, s, b) /\ LiesAfter(q, s, b + l)
  <2>1. LiesAfter(k \o q, s, b)
        BY <1>3, <1>4, Zenon
  <2>2. LiesAfter(k, s, b) /\ LiesAfter(q, s, b + Len(k))
        BY <1>1, <2>1, LiesParts, Zenon
  <2> QED
      BY <1>2, <2>2, Zenon
<1>6. b + (l + 1) = (b + l) + 1
    OBVIOUS
<1>7. Peek(s, (b + l) + 1) = Colon
  <2>1. SeenAfter(q, s, b + l)
        BY <1>1, <1>2, <1>5, PeekLies, Zenon
  <2>2. 1 \in 1..1
        OBVIOUS
  <2> QED
      BY <1>1, <2>1, <2>2, Zenon DEF SeenAfter
<1>8. Peek(s, b + 1) = QuoteMark
  <2>1. SeenAfter(k, s, b)
        BY <1>1, <1>5, PeekLies, Zenon
  <2>2. 1 \in 1..l
        BY <1>2
  <2> QED
      BY <1>1, <1>2, <2>1, <2>2, Zenon DEF SeenAfter
<1>9. ParseString(s, b + 1) = Is(StringValue(x), (b + l) + 1)
  <2>1. LiesAfter(DumpString(x), s, b)
        BY <1>1, <1>5, Zenon
  <2>2. ParseString(s, b + 1) = Is(StringValue(x), (b + Len(DumpString(x))) + 1)
        BY <1>1, <2>1, StringReads
  <2> QED
      BY <1>1, <1>2, <2>2, Zenon
<1>10. LiesAfter(y, s, (b + l) + 1)
    BY <1>3, <1>4, <1>6, Zenon
<1> QED
    BY <1>2, <1>7, <1>8, <1>9, <1>10, Zenon DEF KeyAt, ColonAt

(* The text of a pair that is cut.  *)
PairCutAt(s, b, t, k, y, x) ==
    \/ Peek(s, b + 1) \notin Blanks /\ ParseString(s, b + 1) = Fails /\ b <= Len(s)
    \/ KeyAt(s, b + 1, x, Len(s) + 1) /\ b <= Len(s)
    \/ /\ KeyAt(s, b + 1, x, (b + Len(k)) + 1) /\ Peek(s, (b + Len(k)) + 1) = Colon
       /\ CutAfter(y, s, (b + Len(k)) + 1)

LEMMA PairCut ==
    ASSUME NEW s, s \in Seq(Bytes256), NEW t, NEW k, NEW q, NEW y, NEW x, IsPair(t, k, q, y, x),
           NEW b \in Nat, CutAfter(t, s, b)
    PROVE  PairCutAt(s, b, t, k, y, x)
<1>1. /\ t = (k \o q) \o y /\ k = DumpString(x) /\ x \in Seq(Bytes256) /\ k \in Seq(Bytes256) /\ q \in Seq(Bytes256)
      /\ y \in Seq(Bytes256) /\ Len(q) = 1 /\ q[1] = Colon /\ k # <<>> /\ k[1] = QuoteMark
    BY Zenon DEF IsPair
<1>2. PICK l \in Nat : l = Len(k) /\ 1 <= l /\ b + l \in Nat
    BY <1>1
<1>3. PICK kq : kq = k \o q /\ kq \in Seq(Bytes256) /\ Len(kq) = l + 1
  <2>1. PICK kq : kq = k \o q
        OBVIOUS
  <2>2. IsConcat(kq, k, q)
        BY <1>1, <2>1, ConcatSize, Zenon
  <2> QED
      BY <1>1, <1>2, <2>1, <2>2, Zenon DEF IsConcat
<1>4. b <= Len(s)
    BY Zenon DEF CutAfter
<1>5. CutAfter(kq, s, b) \/ (LiesAfter(kq, s, b) /\ CutAfter(y, s, b + Len(kq)))
  <2>1. CutAfter(kq \o y, s, b)
        BY <1>1, <1>3, Zenon
  <2> QED
      BY <1>1, <1>3, <2>1, CutParts, Zenon
<1>6. ASSUME LiesAfter(k, s, b) PROVE KeyAt(s, b + 1, x, (b + l) + 1)
  <2>1. Peek(s, b + 1) = QuoteMark
    <3>1. SeenAfter(k, s, b)
          BY <1>1, <1>6, PeekLies, Zenon
    <3>2. 1 \in 1..l
          BY <1>2
    <3> QED
        BY <1>1, <1>2, <3>1, <3>2, Zenon DEF SeenAfter
  <2>2. LiesAfter(DumpString(x), s, b)
        BY <1>1, <1>6, Zenon
  <2>3. ParseString(s, b + 1) = Is(StringValue(x), (b + Len(DumpString(x))) + 1)
        BY <1>1, <2>2, StringReads
  <2> QED
      BY <1>1, <1>2, <2>1, <2>3, Zenon DEF KeyAt
<1>7. CASE CutAfter(kq, s, b)
  <2>1. CutAfter(k \o q, s, b)
        BY <1>3, <1>7, Zenon
  <2>2. CutAfter(k, s, b) \/ (LiesAfter(k, s, b) /\ CutAfter(q, s, b + Len(k)))
        BY <1>1, <2>1, CutParts, Zenon
  <2>3. CASE CutAfter(k, s, b)
    <3>1. CutAfter(DumpString(x), s, b)
          BY <1>1, <2>3, Zenon
    <3>2. ParseString(s, b + 1) = Fails
          BY <1>1, <3>1, StringCut
    <3>3. b = Len(s) \/ Peek(s, b + 1) = k[1]
          BY <1>1, <2>3, CutFirst, Zenon
    <3>4. b = Len(s) => Peek(s, b + 1) = 0
          BY PastEnd, Zenon
    <3>5. Peek(s, b + 1) \notin Blanks
          BY <1>1, <3>3, <3>4, SomeEnds, Zenon
    <3> QED
        BY <1>4, <3>2, <3>5, Zenon DEF PairCutAt
  <2>4. CASE LiesAfter(k, s, b) /\ CutAfter(q, s, b + Len(k))
    <3>1. PICK n \in Nat : n = Len(s)
          OBVIOUS
    <3>2. b + l <= n /\ n < (b + l) + 1
          BY <1>1, <1>2, <2>4, <3>1, Zenon DEF CutAfter
    <3>3. (b + l) + 1 = n + 1
          BY <3>2
    <3>4. KeyAt(s, b + 1, x, Len(s) + 1)
          BY <1>6, <2>4, <3>1, <3>3, Zenon
    <3> QED
        BY <1>4, <3>4, Zenon DEF PairCutAt
  <2> QED
      BY <2>2, <2>3, <2>4
<1>8. CASE LiesAfter(kq, s, b) /\ CutAfter(y, s, b + Len(kq))
  <2>1. LiesAfter(k \o q, s, b)
        BY <1>3, <1>8, Zenon
  <2>2. LiesAfter(k, s, b) /\ LiesAfter(q, s, b + l)
    <3>1. LiesAfter(k, s, b) /\ LiesAfter(q, s, b + Len(k))
          BY <1>1, <2>1, LiesParts, Zenon
    <3> QED
        BY <1>2, <3>1, Zenon
  <2>3. Peek(s, (b + l) + 1) = Colon
    <3>1. SeenAfter(q, s, b + l)
          BY <1>1, <1>2, <2>2, PeekLies, Zenon
    <3>2. 1 \in 1..1
          OBVIOUS
    <3> QED
        BY <1>1, <3>1, <3>2, Zenon DEF SeenAfter
  <2>4. b + (l + 1) = (b + l) + 1
        OBVIOUS
  <2>5. CutAfter(y, s, (b + l) + 1)
        BY <1>3, <1>8, <2>4, Zenon
  <2> QED
      BY <1>2, <1>6, <2>2, <2>3, <2>5, Zenon DEF PairCutAt
<1> QED
    BY <1>5, <1>7, <1>8

LEMMA PairReads ==
    ASSUME NEW s, s \in Seq(Bytes256), NEW f, IsParser(f, s), NEW x, x \in Seq(Bytes256),
           NEW y, y \in Seq(Bytes256), y # <<>>, NEW w, ReadsFull(y, w, s, f), ReadsCut(y, w, s, f),
           NEW t, t = DumpString(x) \o <<Colon>> \o y
    PROVE  ElementReads(t, <<x, w>>, 125, "pairs", s, f)
<1>1. PICK k, q : IsPair(t, k, q, y, x)
    BY PairIs, Zenon
<1>2. PICK l \in Nat, n \in Nat, m \in Nat :
          l = Len(k) /\ n = Len(y) /\ m = Len(t) /\ m = (l + 1) + n /\ 1 <= n /\ 1 <= l
  <2>1. k \in Seq(Bytes256) /\ k # <<>> /\ t \in Seq(Bytes256)
        BY <1>1, Zenon DEF IsPair
  <2>2. Len(t) = (Len(k) + 1) + Len(y)
    <3>1. PairLength(t, k, y)
          BY <1>1, PairSize, Zenon
    <3> QED
        BY <3>1, Zenon DEF PairLength
  <2> QED
      BY <2>1, <2>2
<1>3. ASSUME NEW b \in Nat, LiesAfter(t, s, b), Peek(s, (b + m) + 1) \in Enders
      PROVE  PairFound(f, b + 1, <<x, w>>, (b + m) + 1, s)
  <2>1. PICK c \in Nat : c = (b + l) + 1 /\ b + 1 < c /\ (c + n) = b + m /\ c + 1 < (c + n) + 1
    <3>1. m = (l + 1) + n /\ 1 <= n /\ 1 <= l
          BY <1>2, Zenon
    <3>2. (b + l) + 1 \in Nat /\ b + 1 < (b + l) + 1 /\ ((b + l) + 1) + n = b + m
          BY <3>1
    <3>3. ((b + l) + 1) + 1 < (((b + l) + 1) + n) + 1
          BY <3>1
    <3> QED
        BY <3>2, <3>3, Zenon
  <2>2. KeyAt(s, b + 1, x, c) /\ ColonAt(y, s, c)
        BY <1>1, <1>2, <1>3, <2>1, PairLies, Zenon
  <2>3. Peek(s, c) = Colon /\ LiesAfter(y, s, c)
        BY <2>2, Zenon DEF ColonAt
  <2>4. f[<<"value", c + 1>>] = Is(w, (c + n) + 1)
        BY <1>2, <1>3, <2>1, <2>3, Zenon DEF ReadsFull
  <2>5. PICK d \in Nat : d = (c + n) + 1 /\ d <= Len(s) + 1 /\ c + 1 < d /\ b + 1 \in Nat /\ 1 <= b + 1
    <3>1. b + m <= Len(s)
          BY <1>2, <1>3, Zenon DEF LiesAfter
    <3>2. (c + n) + 1 \in Nat /\ (c + n) + 1 <= Len(s) + 1 /\ b + 1 \in Nat /\ 1 <= b + 1
          BY <2>1, <3>1
    <3> QED
        BY <2>1, <3>2, Zenon
  <2>6. f[<<"value", c + 1>>] = Is(w, d)
        BY <2>4, <2>5, Zenon
  <2>7. PairFound(f, b + 1, <<x, w>>, d, s)
        BY <2>1, <2>2, <2>3, <2>5, <2>6, PairsFound, Zenon
  <2> QED
      BY <2>1, <2>5, <2>7, Zenon
<1>4. ASSUME NEW b \in Nat, CutAfter(t, s, b) PROVE f[<<"pairs", b + 1>>] = Fails
  <2>1. PairCutAt(s, b, t, k, y, x)
        BY <1>1, <1>4, PairCut, Zenon
  <2>2. b + 1 \in Nat /\ 1 <= b + 1 /\ (b <= Len(s) => b + 1 <= Len(s) + 1)
        OBVIOUS
  <2>3. CASE Peek(s, b + 1) \notin Blanks /\ ParseString(s, b + 1) = Fails /\ b <= Len(s)
        BY <2>2, <2>3, KeyMissing, Zenon
  <2>4. CASE KeyAt(s, b + 1, x, Len(s) + 1) /\ b <= Len(s)
        BY <2>2, <2>4, ColonMissing, Zenon
  <2>5. CASE /\ KeyAt(s, b + 1, x, (b + Len(k)) + 1) /\ Peek(s, (b + Len(k)) + 1) = Colon
             /\ CutAfter(y, s, (b + Len(k)) + 1)
    <3>1. PICK c \in Nat : c = (b + l) + 1 /\ b + 1 < c
      <4>1. (b + l) + 1 \in Nat /\ b + 1 < (b + l) + 1
            BY <1>2
      <4> QED
          BY <4>1, Zenon
    <3>2. KeyAt(s, b + 1, x, c) /\ Peek(s, c) = Colon /\ CutAfter(y, s, c)
          BY <1>2, <2>5, <3>1, Zenon
    <3>3. f[<<"value", c + 1>>] = Fails \/ f[<<"value", c + 1>>].at = Len(s) + 1
          BY <3>2, Zenon DEF ReadsCut
    <3> QED
        BY <2>2, <3>1, <3>2, <3>3, PairsMissing, Zenon
  <2> QED
      BY <2>1, <2>3, <2>4, <2>5, Zenon DEF PairCutAt
<1>5. \A b \in Nat : ((b + m) + 1) + 1 = (b + m) + 2
    OBVIOUS
<1>6. ASSUME NEW b \in Nat, LiesAfter(t, s, b), Peek(s, (b + m) + 1) = Comma
      PROVE  f[<<"pairs", b + 1>>] = Then(<<<<x, w>>>>, f[<<"pairs", (b + m) + 2>>])
  <2>1. PairFound(f, b + 1, <<x, w>>, (b + m) + 1, s)
        BY <1>3, <1>6, CommaEnds, Zenon
  <2>2. f[<<"pairs", b + 1>>] = Then(<<<<x, w>>>>, f[<<"pairs", ((b + m) + 1) + 1>>])
        BY <1>6, <2>1, Zenon DEF PairFound
  <2> QED
      BY <1>5, <2>2, Zenon
<1>7. ASSUME NEW b \in Nat, LiesAfter(t, s, b), Peek(s, (b + m) + 1) = 125
      PROVE  f[<<"pairs", b + 1>>] = Is(<<<<x, w>>>>, (b + m) + 2)
  <2>1. PairFound(f, b + 1, <<x, w>>, (b + m) + 1, s)
        BY <1>3, <1>7, CommaEnds, Zenon
  <2>2. f[<<"pairs", b + 1>>] = Is(<<<<x, w>>>>, ((b + m) + 1) + 1)
        BY <1>7, <2>1, Zenon DEF PairFound
  <2> QED
      BY <1>5, <2>2, Zenon
<1>8. ASSUME NEW b \in Nat, LiesAfter(t, s, b), b + m = Len(s)
      PROVE  f[<<"pairs", b + 1>>] = Fails
  <2>1. Peek(s, (b + m) + 1) = 0
        BY <1>8, PastEnd, Zenon
  <2>2. PairFound(f, b + 1, <<x, w>>, (b + m) + 1, s)
        BY <1>3, <1>8, <2>1, CommaEnds, Zenon
  <2> QED
      BY <2>1, <2>2, Zenon DEF PairFound
<1> QED
    BY <1>2, <1>4, <1>6, <1>7, <1>8, Zenon DEF ElementReads

(* An array and an object are read alike: opened by o, closed by c, their  *)
(* elements found by parser p.                                             *)
Opens(o, c, p) == (o = 91 /\ c = 93 /\ p = "items") \/ (o = 123 /\ c = 125 /\ p = "pairs")
WholeList(p, x) == IF p = "items" THEN ArrayValue(x) ELSE ObjectValue(x)
ListParse(s, p, c, first, r) ==
    IF Peek(s, first) = c THEN Is(WholeList(p, <<>>), first + 1)
    ELSE IF r.ok THEN Is(WholeList(p, r.v), r.at) ELSE Fails

LEMMA OpensArray ==
    ASSUME NEW s, NEW later, NEW at, NEW first, first = SkipWs(s, at + 1)
    PROVE  ParseArray(s, later, at) = ListParse(s, "items", 93, first, later[<<"items", first>>])
BY Zenon DEF ParseArray, ListParse, WholeList

LEMMA OpensObject ==
    ASSUME NEW s, NEW later, NEW at, NEW first, first = SkipWs(s, at + 1)
    PROVE  ParseObject(s, later, at) = ListParse(s, "pairs", 125, first, later[<<"pairs", first>>])
<1>1. "pairs" # "items"
    OBVIOUS
<1> QED
    BY <1>1, Zenon DEF ParseObject, ListParse, WholeList

LEMMA OpensAre ==
    ASSUME NEW o, NEW c, NEW p, Opens(o, c, p)
    PROVE  /\ o \in Bytes256 /\ o \notin Blanks /\ o # 0
           /\ c \in Bytes256 /\ c \notin Blanks /\ c # 0 /\ p \in Parsers
BY DEF Opens, Bytes256, Blanks, Parsers

ListHead(f, s, b, c, p) == f[<<"value", b>>] = ListParse(s, p, c, b + 1, f[<<p, b + 1>>])

LEMMA ListOpen ==
    ASSUME NEW s, s \in Seq(Bytes256), NEW f, NEW o, NEW c, NEW p, Opens(o, c, p), NEW b \in Nat, 1 <= b, b <= Len(s),
           f[<<"value", b>>] = ValueFrom(s, Later(s, f, b), b, o), Peek(s, b + 1) \notin Blanks
    PROVE  ListHead(f, s, b, c, p)
<1>1. b + 1 \in Nat /\ 1 <= b + 1 /\ b <= b
    OBVIOUS
<1>2. b + 1 = SkipWs(s, b + 1)
    BY <1>1, NoBlanks, Zenon
<1>3. p \in Parsers
    BY OpensAre, Zenon
<1>4. Later(s, f, b)[<<p, b + 1>>] = f[<<p, b + 1>>]
  <2>1. SameLater(s, f, b, b, p)
        BY <1>1, <1>3, LaterFound, Zenon
  <2> QED
      BY <2>1, Zenon DEF SameLater
<1>5. PICK later : later = Later(s, f, b)
    OBVIOUS
<1>6. CASE o = 91 /\ c = 93 /\ p = "items"
  <2>1. ValueFrom(s, later, b, 91) = ParseArray(s, later, b)
        BY ValueFromIs, Zenon
  <2>2. ParseArray(s, later, b) = ListParse(s, "items", 93, b + 1, later[<<"items", b + 1>>])
        BY <1>2, OpensArray, Zenon
  <2> QED
      BY <1>4, <1>5, <1>6, <2>1, <2>2, Zenon DEF ListHead
<1>7. CASE o = 123 /\ c = 125 /\ p = "pairs"
  <2>1. ValueFrom(s, later, b, 123) = ParseObject(s, later, b)
        BY ValueFromIs, Zenon
  <2>2. ParseObject(s, later, b) = ListParse(s, "pairs", 125, b + 1, later[<<"pairs", b + 1>>])
        BY <1>2, OpensObject, Zenon
  <2> QED
      BY <1>4, <1>5, <1>7, <2>1, <2>2, Zenon DEF ListHead
<1> QED
    BY <1>6, <1>7, Zenon DEF Opens

(* Where the text ends, no element is found.  *)
LEMMA NothingListed ==
    ASSUME NEW s, s \in Seq(Bytes256), NEW f, IsParser(f, s), NEW o, NEW c, NEW p, Opens(o, c, p)
    PROVE  f[<<p, Len(s) + 1>>] = Fails
<1>1. PICK q \in Nat : q = Len(s) + 1 /\ 1 <= q /\ q <= Len(s) + 1 /\ q \in 1..(Len(s) + 1)
  <2>1. Len(s) + 1 \in Nat /\ 1 <= Len(s) + 1 /\ Len(s) + 1 <= Len(s) + 1 /\ Len(s) + 1 \in 1..(Len(s) + 1)
        OBVIOUS
  <2> QED
      BY <2>1, Zenon
<1>2. CASE p = "items"
  <2>1. f[<<"value", q>>] = Fails
        BY <1>1, NothingReads, Zenon
  <2>2. f[<<"items", q>>] = Fails
        BY <1>1, <2>1, ItemsMissing, Zenon
  <2> QED
      BY <1>1, <1>2, <2>2, Zenon
<1>3. CASE p = "pairs"
  <2>1. q = SkipWs(s, q) /\ Peek(s, q) = 0
        BY <1>1, PastEnd, Zenon
  <2>2. PICK key, k, v, next : /\ key = ParseString(s, q) /\ k = SkipWs(s, key.at)
                               /\ v = Later(s, f, q)[<<"value", k + 1>>] /\ next = SkipWs(s, v.at)
        OBVIOUS
  <2>3. PairParts(s, Later(s, f, q), q, q, key, k, v, next)
        BY <2>1, <2>2, Zenon DEF PairParts
  <2>4. PairAt(s, f, q, q, key, k, v, next)
        BY <1>1, <2>3, PairsParser, Zenon
  <2>5. f[<<"pairs", q>>] = PairRead(s, Later(s, f, q), q, key, k, v, next)
        BY <2>4, Zenon DEF PairAt
  <2>6. 0 # QuoteMark
        BY DEF QuoteMark
  <2>7. f[<<"pairs", q>>] = Fails
        BY <2>1, <2>5, <2>6, Zenon DEF PairRead
  <2> QED
      BY <1>1, <1>3, <2>7, Zenon
<1> QED
    BY <1>2, <1>3, Zenon DEF Opens

(* How the elements are laid out.  *)
ListParts(t, n, part) == \A k \in 1..n : part[k] = IF k = 1 THEN t[k] ELSE <<Comma>> \o t[k]

LEMMA ListLayout ==
    ASSUME NEW n \in Nat, NEW t, t = [k \in 1..n |-> t[k]], \A k \in 1..n : t[k] \in Seq(Bytes256)
    PROVE  \E g, part : IsJoin(g, part, n) /\ ListParts(t, n, part) /\ Joined(t) = g[n]
<1>1. PICK part : part = [k \in 1..n |-> IF k = 1 THEN t[k] ELSE <<Comma>> \o t[k]]
    OBVIOUS
<1>2. DOMAIN t = 1..n
    BY Zenon
<1>3. Joined(t) = FlattenSeq(part)
    BY <1>1, <1>2, Zenon DEF Joined
<1>4. ListParts(t, n, part)
    BY <1>1, Zenon DEF ListParts
<1>5. ASSUME NEW k \in 1..n PROVE part[k] \in Seq(Bytes256)
  <2>1. PICK y : y = t[k] /\ y \in Seq(Bytes256)
        BY Zenon
  <2>2. <<Comma>> \o y \in Seq(Bytes256)
    <3>1. Comma \in Bytes256
          BY DEF Comma, Bytes256
    <3> QED
        BY <2>1, <3>1
  <2>3. part[k] = IF k = 1 THEN y ELSE <<Comma>> \o y
        BY <1>4, <2>1, Zenon DEF ListParts
  <2> QED
      BY <2>1, <2>2, <2>3, Zenon
<1>6. part = [k \in 1..n |-> part[k]]
    BY <1>1
<1>7. PICK g : IsJoin(g, part, n) /\ FlattenSeq(part) = g[n]
    BY <1>5, <1>6, JoinOf, Zenon
<1> QED
    BY <1>3, <1>4, <1>7, Zenon

FirstOf(x, c) == Len(x) \in Nat /\ 1 <= Len(x) /\ x[1] = c

LEMMA JoinFirst ==
    ASSUME NEW n \in Nat, n >= 1, NEW g, NEW part, IsJoin(g, part, n), part[1] # <<>>
    PROVE  FirstOf(g[n], part[1][1])
<1>1. n \in 0..n /\ 0 \in 0..(n - 1) /\ 0 + 1 = 1
    OBVIOUS
<1>2. PICK x, y : /\ x = g[n] /\ x \in Seq(Bytes256) /\ y = part[1] /\ y \in Seq(Bytes256) /\ g[0] = <<>>
                  /\ y # <<>>
  <2>1. g[n] \in Seq(Bytes256) /\ part[0 + 1] \in Seq(Bytes256) /\ g[0] = <<>>
        BY <1>1, Zenon DEF IsJoin
  <2> QED
      BY <1>1, <2>1, Zenon
<1>3. PICK l \in Nat, m \in Nat : l = Len(x) /\ m = Len(y) /\ 1 <= m /\ 1 \in 1..m
    BY <1>2
<1>4. LiesAfter(g[n], x, 0)
    BY <1>2, LiesWhole, Zenon
<1>5. \A j \in 0..(n - 1) : LiesAfter(part[j + 1], x, 0 + Len(g[j]))
    BY <1>1, <1>2, <1>4, PartsLie
<1>6. LiesAfter(y, x, 0)
  <2>1. LiesAfter(part[0 + 1], x, 0 + Len(g[0]))
        BY <1>1, <1>5, Zenon
  <2>2. 0 + Len(<<>>) = 0
        OBVIOUS
  <2> QED
      BY <1>1, <1>2, <2>1, <2>2, Zenon
<1>7. 0 + m <= l /\ x[0 + 1] = y[1]
    BY <1>3, <1>6, Zenon DEF LiesAfter
<1>8. 1 <= l
    BY <1>3, <1>7
<1> QED
    BY <1>1, <1>2, <1>3, <1>7, <1>8, Zenon DEF FirstOf

(* The elements of a list can be read, and none begins with what closes it.  *)
AreElements(t, x, n, c, p, s, f) ==
    /\ n \in Nat /\ n = Len(x)
    /\ \A k \in 1..n : /\ t[k] \in Seq(Bytes256) /\ t[k] # <<>> /\ t[k][1] \notin Blanks /\ t[k][1] # c
                       /\ ElementReads(t[k], x[k], c, p, s, f)

(* J, between o and c, is a list that is read as x.  *)
IsWhole(T, J, o, c, m) ==
    /\ J \in Seq(Bytes256) /\ m \in Nat /\ m = Len(J) /\ T \in Seq(Bytes256) /\ T = (<<o>> \o J) \o <<c>>
    /\ Len(T) = (1 + m) + 1 /\ T # <<>> /\ T[1] = o

LEMMA WholeIs ==
    ASSUME NEW o \in Bytes256, NEW c \in Bytes256, NEW J, J \in Seq(Bytes256), NEW m, m = Len(J),
           NEW T, T = <<o>> \o J \o <<c>>
    PROVE  IsWhole(T, J, o, c, m)
<1>1. m \in Nat /\ T \in Seq(Bytes256) /\ Len(T) = (1 + m) + 1 /\ T # <<>> /\ T[1] = o
    OBVIOUS
<1> QED
    BY <1>1, Zenon DEF IsWhole

LEMMA NothingIn ==
    ASSUME NEW S, NEW x, x \in Seq(S), Len(x) = 0
    PROVE  x = <<>>
OBVIOUS

(* What lies in a whole list.  *)
WholeLies(J, s, a, c, m) == LiesAfter(J, s, a + 1) /\ Peek(s, ((a + 1) + m) + 1) = c

LEMMA ByteAfter ==
    ASSUME NEW s, s \in Seq(Bytes256), NEW c \in Bytes256, NEW a \in Nat, LiesAfter(<<c>>, s, a)
    PROVE  Peek(s, a + 1) = c
<1>1. <<c>> \in Seq(Bytes256) /\ Len(<<c>>) = 1 /\ <<c>>[1] = c /\ 1 \in 1..1
    OBVIOUS
<1>2. SeenAfter(<<c>>, s, a)
    BY <1>1, PeekLies, Zenon
<1> QED
    BY <1>1, <1>2, Zenon DEF SeenAfter

LEMMA ByteCut ==
    ASSUME NEW s, s \in Seq(Bytes256), NEW c, NEW a \in Nat, CutAfter(<<c>>, s, a)
    PROVE  a = Len(s)
<1>1. PICK l \in Nat : l = Len(s)
    OBVIOUS
<1>2. Len(<<c>>) = 1
    OBVIOUS
<1>3. a <= l /\ l < a + 1
    BY <1>1, <1>2, Zenon DEF CutAfter
<1> QED
    BY <1>1, <1>3

WholeCut(J, s, a, m) == CutAfter(J, s, a + 1) \/ (LiesAfter(J, s, a + 1) /\ (a + 1) + m = Len(s))

LEMMA WholeParts ==
    ASSUME NEW s, s \in Seq(Bytes256), NEW o \in Bytes256, NEW c \in Bytes256, NEW T, NEW J, NEW m,
           IsWhole(T, J, o, c, m), NEW a \in Nat
    PROVE  /\ LiesAfter(T, s, a) => WholeLies(J, s, a, c, m)
           /\ CutAfter(T, s, a) /\ a # Len(s) => WholeCut(J, s, a, m)
<1>1. J \in Seq(Bytes256) /\ m \in Nat /\ m = Len(J) /\ T = (<<o>> \o J) \o <<c>>
    BY Zenon DEF IsWhole
<1>2. PICK h : h = <<o>> /\ h \in Seq(Bytes256) /\ Len(h) = 1
  <2>1. <<o>> \in Seq(Bytes256) /\ Len(<<o>>) = 1
        OBVIOUS
  <2> QED
      BY <2>1, Zenon
<1>3. PICK e : e = <<c>> /\ e \in Seq(Bytes256)
  <2>1. <<c>> \in Seq(Bytes256)
        OBVIOUS
  <2> QED
      BY <2>1, Zenon
<1>4. PICK hj : hj = h \o J /\ IsConcat(hj, h, J)
    BY <1>1, <1>2, ConcatSize, Zenon
<1>5. hj \in Seq(Bytes256) /\ Len(hj) = 1 + m /\ T = hj \o e
    BY <1>1, <1>2, <1>3, <1>4, Zenon DEF IsConcat
<1>6. a + (1 + m) = (a + 1) + m /\ a + 1 \in Nat /\ (a + 1) + m \in Nat
    BY <1>1
<1>7. ASSUME LiesAfter(hj, s, a) PROVE LiesAfter(J, s, a + 1)
  <2>1. LiesAfter(h \o J, s, a)
        BY <1>4, <1>7, Zenon
  <2>2. LiesAfter(h, s, a) /\ LiesAfter(J, s, a + Len(h))
        BY <1>1, <1>2, <2>1, LiesParts, Zenon
  <2> QED
      BY <1>2, <2>2, Zenon
<1>8. ASSUME LiesAfter(T, s, a) PROVE WholeLies(J, s, a, c, m)
  <2>1. LiesAfter(hj \o e, s, a)
        BY <1>5, <1>8, Zenon
  <2>2. LiesAfter(hj, s, a) /\ LiesAfter(e, s, a + Len(hj))
        BY <1>3, <1>5, <2>1, LiesParts, Zenon
  <2>3. LiesAfter(<<c>>, s, (a + 1) + m)
        BY <1>3, <1>5, <1>6, <2>2, Zenon
  <2>4. Peek(s, ((a + 1) + m) + 1) = c
        BY <1>6, <2>3, ByteAfter, Zenon
  <2> QED
      BY <1>7, <2>2, <2>4, Zenon DEF WholeLies
<1>9. ASSUME CutAfter(T, s, a), a # Len(s)
      PROVE  CutAfter(J, s, a + 1) \/ (LiesAfter(J, s, a + 1) /\ (a + 1) + m = Len(s))
  <2>1. CutAfter(hj \o e, s, a)
        BY <1>5, <1>9, Zenon
  <2>2. CutAfter(hj, s, a) \/ (LiesAfter(hj, s, a) /\ CutAfter(e, s, a + Len(hj)))
        BY <1>3, <1>5, <2>1, CutParts, Zenon
  <2>3. CASE CutAfter(hj, s, a)
    <3>1. CutAfter(h \o J, s, a)
          BY <1>4, <2>3, Zenon
    <3>2. CutAfter(h, s, a) \/ (LiesAfter(h, s, a) /\ CutAfter(J, s, a + Len(h)))
          BY <1>1, <1>2, <3>1, CutParts, Zenon
    <3>3. ~CutAfter(h, s, a)
      <4>1. CutAfter(<<o>>, s, a) => a = Len(s)
            BY ByteCut, Zenon
      <4> QED
          BY <1>2, <1>9, <4>1, Zenon
    <3> QED
        BY <1>2, <3>2, <3>3, Zenon
  <2>4. CASE LiesAfter(hj, s, a) /\ CutAfter(e, s, a + Len(hj))
    <3>1. CutAfter(<<c>>, s, (a + 1) + m)
          BY <1>3, <1>5, <1>6, <2>4, Zenon
    <3>2. (a + 1) + m = Len(s)
          BY <1>6, <3>1, ByteCut, Zenon
    <3> QED
        BY <1>7, <2>4, <3>2, Zenon
  <2> QED
      BY <2>2, <2>3, <2>4
<1> QED
    BY <1>8, <1>9, Zenon DEF WholeCut

(* A list is read whole, and cut it is not read.  *)
LEMMA ListValueReads ==
    ASSUME NEW s, s \in Seq(Bytes256), NEW f, IsParser(f, s), NEW o, NEW c, NEW p, Opens(o, c, p),
           NEW S, NEW x, x \in Seq(S), NEW n, NEW t, t = [k \in 1..n |-> t[k]], AreElements(t, x, n, c, p, s, f),
           NEW T, T = <<o>> \o Joined(t) \o <<c>>, NEW v, v = WholeList(p, x)
    PROVE  ReadsFull(T, v, s, f) /\ ReadsCut(T, v, s, f)
<1>1. n \in Nat /\ n = Len(x) /\ \A k \in 1..n : t[k] \in Seq(Bytes256)
    BY Zenon DEF AreElements
<1>2. PICK g, part : IsJoin(g, part, n) /\ ListParts(t, n, part) /\ Joined(t) = g[n]
    BY <1>1, ListLayout, Zenon
<1>3. PICK J, m : J = g[n] /\ J \in Seq(Bytes256) /\ m = Len(J) /\ m \in Nat
  <2>1. n \in 0..n
        BY <1>1
  <2>2. PICK J : J = g[n] /\ J \in Seq(Bytes256)
        BY <1>2, <2>1, Zenon DEF IsJoin
  <2>3. Len(J) \in Nat
        BY <2>2
  <2> QED
      BY <2>2, <2>3, Zenon
<1>4. IsWhole(T, J, o, c, m)
  <2>1. T = <<o>> \o J \o <<c>>
        BY <1>2, <1>3, Zenon
  <2> QED
      BY <1>3, <2>1, OpensAre, WholeIs, Zenon
<1>5. /\ T \in Seq(Bytes256) /\ Len(T) = (1 + m) + 1 /\ T # <<>> /\ T[1] = o
      /\ o \in Bytes256 /\ c \in Bytes256 /\ o \notin Blanks /\ c \notin Blanks /\ c # 0
    BY <1>4, OpensAre, Zenon DEF IsWhole
<1>6. T[1] \notin Blanks
    BY <1>5, Zenon
<1>7. CASE n = 0
  <2>1. J = <<>> /\ m = 0 /\ x = <<>>
    <3>1. g[0] = <<>>
          BY <1>2, Zenon DEF IsJoin
    <3>2. J = <<>>
          BY <1>3, <1>7, <3>1, Zenon
    <3>3. Len(<<>>) = 0
          OBVIOUS
    <3>4. Len(x) = 0
          BY <1>1, <1>7, Zenon
    <3>5. x = <<>>
          BY <3>4, NothingIn
    <3> QED
        BY <1>3, <3>2, <3>3, <3>5, Zenon
  <2>2. ASSUME NEW a \in Nat, LiesAfter(T, s, a) PROVE f[<<"value", a + 1>>] = Is(v, (a + Len(T)) + 1)
    <3>1. StartsAs(f, s, a, o) /\ a + 1 <= Len(s)
      <4>1. StartsAs(f, s, a, T[1]) /\ a + 1 <= Len(s)
            BY <1>5, <1>6, <2>2, TextStarts, Zenon
      <4> QED
          BY <1>5, <4>1, Zenon
    <3>2. PICK b \in Nat : b = a + 1 /\ 1 <= b /\ (b + 0) + 1 = b + 1 /\ (a + ((1 + 0) + 1)) + 1 = (b + 1) + 1
      <4>1. a + 1 \in Nat /\ 1 <= a + 1 /\ ((a + 1) + 0) + 1 = (a + 1) + 1
            /\ (a + ((1 + 0) + 1)) + 1 = ((a + 1) + 1) + 1
            OBVIOUS
      <4> QED
          BY <4>1, Zenon
    <3>3. Peek(s, b + 1) = c
      <4>1. WholeLies(J, s, a, c, m)
            BY <1>4, <1>5, <2>2, WholeParts, Zenon
      <4> QED
          BY <2>1, <3>2, <4>1, Zenon DEF WholeLies
    <3>4. f[<<"value", b>>] = ValueFrom(s, Later(s, f, b), b, o)
          BY <3>1, <3>2, Zenon DEF StartsAs
    <3>5. ListHead(f, s, b, c, p)
          BY <1>5, <3>1, <3>2, <3>3, <3>4, ListOpen, Zenon
    <3>6. f[<<"value", b>>] = Is(WholeList(p, <<>>), (b + 1) + 1)
          BY <3>3, <3>5, Zenon DEF ListHead, ListParse
    <3> QED
        BY <1>5, <2>1, <3>2, <3>6, Zenon
  <2>3. ASSUME NEW a \in Nat, CutAfter(T, s, a) PROVE f[<<"value", a + 1>>] = Fails
    <3>1. CASE a = Len(s)
          BY <3>1, NothingCutReads, Zenon
    <3>2. CASE a # Len(s)
      <4>1. StartsAs(f, s, a, o) /\ a + 1 <= Len(s)
        <5>1. StartsAs(f, s, a, T[1]) /\ a + 1 <= Len(s)
              BY <1>5, <1>6, <2>3, <3>2, TextStarts, Zenon
        <5> QED
            BY <1>5, <5>1, Zenon
      <4>2. PICK b \in Nat : b = a + 1 /\ 1 <= b /\ b + 0 = b
        <5>1. a + 1 \in Nat /\ 1 <= a + 1 /\ (a + 1) + 0 = a + 1
              OBVIOUS
        <5> QED
            BY <5>1, Zenon
      <4>3. b = Len(s)
        <5>1. WholeCut(J, s, a, m)
              BY <1>4, <1>5, <2>3, <3>2, WholeParts, Zenon
        <5>2. ~CutAfter(<<>>, s, b)
              BY NothingCut, Zenon
        <5> QED
            BY <2>1, <4>2, <5>1, <5>2, Zenon DEF WholeCut
      <4>4. Peek(s, b + 1) = 0 /\ Peek(s, b + 1) \notin Blanks
            BY <4>3, PastEnd, SomeEnds, Zenon
      <4>5. f[<<"value", b>>] = ValueFrom(s, Later(s, f, b), b, o)
            BY <4>1, <4>2, Zenon DEF StartsAs
      <4>6. ListHead(f, s, b, c, p)
            BY <4>1, <4>2, <4>4, <4>5, ListOpen, Zenon
      <4>7. f[<<p, b + 1>>] = Fails
            BY <4>3, NothingListed, Zenon
      <4>8. f[<<"value", b>>] = Fails
            BY <1>5, <4>4, <4>6, <4>7, FailsIs, Zenon DEF ListHead, ListParse
      <4> QED
          BY <4>2, <4>8, Zenon
    <3> QED
        BY <3>1, <3>2
  <2> QED
      BY <2>2, <2>3, Zenon DEF ReadsFull, ReadsCut
<1>8. CASE n # 0
  <2>1. n >= 1 /\ 1 \in 1..n
        BY <1>1, <1>8
  <2>2. IsList(t, x, n, part, g, c, p, s, f)
    <3>1. ASSUME NEW k \in 1..n
          PROVE  /\ t[k] \in Seq(Bytes256) /\ ElementReads(t[k], x[k], c, p, s, f)
                 /\ part[k] = IF k = 1 THEN t[k] ELSE <<Comma>> \o t[k]
          BY <1>2, Zenon DEF AreElements, ListParts
    <3> QED
        BY <1>1, <1>2, <2>1, <3>1, Zenon DEF IsList
  <2>3. J[1] \notin Blanks /\ J[1] # c /\ 1 <= m /\ 1 \in 1..m
    <3>1. part[1] = t[1] /\ t[1] # <<>> /\ t[1][1] \notin Blanks /\ t[1][1] # c
          BY <1>2, <2>1, Zenon DEF ListParts, AreElements
    <3>2. FirstOf(g[n], part[1][1])
          BY <1>1, <1>2, <2>1, <3>1, JoinFirst, Zenon
    <3>3. 1 <= m /\ J[1] = t[1][1]
          BY <1>3, <3>1, <3>2, Zenon DEF FirstOf
    <3>4. 1 \in 1..m
          BY <1>3, <3>3
    <3> QED
        BY <3>1, <3>3, <3>4, Zenon
  <2>4. ASSUME NEW a \in Nat, LiesAfter(T, s, a) PROVE f[<<"value", a + 1>>] = Is(v, (a + Len(T)) + 1)
    <3>1. StartsAs(f, s, a, o) /\ a + 1 <= Len(s)
      <4>1. StartsAs(f, s, a, T[1]) /\ a + 1 <= Len(s)
            BY <1>5, <1>6, <2>4, TextStarts, Zenon
      <4> QED
          BY <1>5, <4>1, Zenon
    <3>2. PICK b \in Nat : b = a + 1 /\ 1 <= b /\ (a + ((1 + m) + 1)) + 1 = (b + m) + 2
      <4>2. m \in Nat
            BY <1>3, Zenon
      <4>1. a + 1 \in Nat /\ 1 <= a + 1 /\ (a + ((1 + m) + 1)) + 1 = ((a + 1) + m) + 2
            BY <4>2
      <4> QED
          BY <4>1, Zenon
    <3>3. LiesAfter(J, s, b) /\ Peek(s, (b + m) + 1) = c
      <4>1. WholeLies(J, s, a, c, m)
            BY <1>4, <1>5, <2>4, WholeParts, Zenon
      <4> QED
          BY <3>2, <4>1, Zenon DEF WholeLies
    <3>4. Peek(s, b + 1) = J[1]
      <4>1. SeenAfter(J, s, b)
            BY <1>3, <3>3, PeekLies, Zenon
      <4> QED
          BY <1>3, <2>3, <4>1, Zenon DEF SeenAfter
    <3>5. f[<<"value", b>>] = ValueFrom(s, Later(s, f, b), b, o)
          BY <3>1, <3>2, Zenon DEF StartsAs
    <3>6. ListHead(f, s, b, c, p)
          BY <2>3, <3>1, <3>2, <3>4, <3>5, ListOpen, Zenon
    <3>7. f[<<p, b + 1>>] = Is(x, (b + m) + 2)
      <4>1. LiesAfter(g[n], s, b) /\ Peek(s, (b + Len(g[n])) + 1) = c
            BY <1>3, <3>3, Zenon
      <4>2. ListFound(f, p, b, x, Len(g[n]))
            BY <2>2, <4>1, ListReads, Zenon
      <4> QED
          BY <1>3, <4>2, Zenon DEF ListFound
    <3>8. PICK r : r = f[<<p, b + 1>>] /\ r.ok /\ r.v = x /\ r.at = (b + m) + 2
      <4>1. PICK r : r = f[<<p, b + 1>>]
            OBVIOUS
      <4>2. r = Is(x, (b + m) + 2)
            BY <3>7, <4>1, Zenon
      <4>3. r.ok /\ r.v = x /\ r.at = (b + m) + 2
            BY <4>2 DEF Is
      <4> QED
          BY <4>1, <4>3, Zenon
    <3>9. f[<<"value", b>>] = Is(WholeList(p, x), (b + m) + 2)
          BY <2>3, <3>4, <3>6, <3>8, Zenon DEF ListHead, ListParse
    <3> QED
        BY <1>5, <3>2, <3>9, Zenon
  <2>5. ASSUME NEW a \in Nat, CutAfter(T, s, a) PROVE f[<<"value", a + 1>>] = Fails
    <3>1. CASE a = Len(s)
          BY <3>1, NothingCutReads, Zenon
    <3>2. CASE a # Len(s)
      <4>1. StartsAs(f, s, a, o) /\ a + 1 <= Len(s)
        <5>1. StartsAs(f, s, a, T[1]) /\ a + 1 <= Len(s)
              BY <1>5, <1>6, <2>5, <3>2, TextStarts, Zenon
        <5> QED
            BY <1>5, <5>1, Zenon
      <4>2. PICK b \in Nat : b = a + 1 /\ 1 <= b
        <5>1. a + 1 \in Nat /\ 1 <= a + 1
              OBVIOUS
        <5> QED
            BY <5>1, Zenon
      <4>3. CutAfter(J, s, b) \/ (LiesAfter(J, s, b) /\ b + m = Len(s))
        <5>1. WholeCut(J, s, a, m)
              BY <1>4, <1>5, <2>5, <3>2, WholeParts, Zenon
        <5> QED
            BY <4>2, <5>1, Zenon DEF WholeCut
      <4>4. Peek(s, b + 1) \in {0, J[1]}
        <5>1. CASE CutAfter(J, s, b)
          <6>1. b = Len(s) \/ Peek(s, b + 1) = J[1]
                BY <1>3, <5>1, CutFirst, Zenon
          <6>2. b = Len(s) => Peek(s, b + 1) = 0
                BY PastEnd, Zenon
          <6> QED
              BY <6>1, <6>2, Zenon
        <5>2. CASE LiesAfter(J, s, b) /\ b + m = Len(s)
          <6>1. SeenAfter(J, s, b)
                BY <1>3, <5>2, PeekLies, Zenon
          <6>2. Peek(s, b + 1) = J[1]
                BY <1>3, <2>3, <6>1, Zenon DEF SeenAfter
          <6> QED
              BY <6>2, Zenon
        <5> QED
            BY <4>3, <5>1, <5>2
      <4>5. Peek(s, b + 1) \notin Blanks /\ Peek(s, b + 1) # c
            BY <1>5, <2>3, <4>4, SomeEnds, Zenon
      <4>6. f[<<"value", b>>] = ValueFrom(s, Later(s, f, b), b, o)
            BY <4>1, <4>2, Zenon DEF StartsAs
      <4>7. ListHead(f, s, b, c, p)
            BY <4>1, <4>2, <4>5, <4>6, ListOpen, Zenon
      <4>8. f[<<p, b + 1>>] = Fails
        <5>1. CutAfter(g[n], s, b) \/ (LiesAfter(g[n], s, b) /\ b + Len(g[n]) = Len(s))
              BY <1>3, <4>3, Zenon
        <5>2. ListFails(f, p, b)
              BY <2>2, <5>1, ListCut, Zenon
        <5> QED
            BY <5>2, Zenon DEF ListFails
      <4>9. f[<<"value", b>>] = Fails
            BY <4>5, <4>7, <4>8, FailsIs, Zenon DEF ListHead, ListParse
      <4> QED
          BY <4>2, <4>9, Zenon
    <3> QED
        BY <3>1, <3>2
  <2> QED
      BY <2>4, <2>5, Zenon DEF ReadsFull, ReadsCut
<1> QED
    BY <1>7, <1>8

(* What is written for a value is read as it, and cut it is not.  *)
BeginsAs(t) == t \in Seq(Bytes256) /\ t # <<>> /\ t[1] \notin Blanks /\ t[1] # 93 /\ t[1] # 125
Readable(t, v, s, f) == BeginsAs(t) /\ ReadsFull(t, v, s, f) /\ ReadsCut(t, v, s, f)

Literals(t, c) ==
    /\ t \in Seq(Bytes256) /\ t # <<>> /\ t[1] = c /\ c \notin Blanks /\ c # 93 /\ c # 125
    /\ \A k \in 1..Len(t) : t[k] # 0

LEMMA LiteralsAre == Literals(Null_, 110) /\ Literals(True_, 116) /\ Literals(False_, 102)
<1>1. Literals(Null_, 110)
    BY DEF Literals, Null_, Blanks, Bytes256
<1>2. Literals(True_, 116)
    BY DEF Literals, True_, Blanks, Bytes256
<1>3. Literals(False_, 102)
    BY DEF Literals, False_, Blanks, Bytes256
<1> QED
    BY <1>1, <1>2, <1>3

LEMMA LiteralIsReadable ==
    ASSUME NEW s, s \in Seq(Bytes256), NEW f, IsParser(f, s), NEW t, NEW c, Literals(t, c), NEW v,
           \A later, at : ValueFrom(s, later, at, c) = ParseLiteral(s, at, t, v)
    PROVE  Readable(t, v, s, f)
<1>1. /\ t \in Seq(Bytes256) /\ t # <<>> /\ t[1] = c /\ c \notin Blanks /\ c # 93 /\ c # 125
      /\ \A k \in 1..Len(t) : t[k] # 0
    BY Zenon DEF Literals
<1>2. t[1] \notin Blanks /\ BeginsAs(t)
    BY <1>1, Zenon DEF BeginsAs
<1>3. \A later, at : ValueFrom(s, later, at, t[1]) = ParseLiteral(s, at, t, v)
    BY <1>1, Zenon
<1>4. ReadsFull(t, v, s, f) /\ ReadsCut(t, v, s, f)
    BY <1>1, <1>2, <1>3, LiteralValue, Zenon
<1> QED
    BY <1>2, <1>4, Zenon DEF Readable

LEMMA NumberIsReadable ==
    ASSUME NEW s, s \in Seq(Bytes256), NEW f, IsParser(f, s),
           NEW d, NEW int, NEW dot, NEW e, NumberText(d, int, dot, e),
           NEW v, v = NumberValue(d, int, dot), v.t \in {"number", "double"}
    PROVE  Readable(d, v, s, f)
<1>1. ReadsFull(d, v, s, f) /\ ReadsCut(d, v, s, f)
    BY NumberValueReads, Zenon
<1>2. d \in Seq(Bytes256) /\ 1 <= Len(d) /\ (d[1] = Minus \/ d[1] \in Digits)
  <2>1. d \in Seq(Bytes256)
        BY Zenon DEF NumberText
  <2>2. PICK n \in Nat : n = Len(d)
        BY <2>1
  <2>3. /\ int \in {1, 2} /\ dot \in Nat /\ e \in Nat /\ int < dot /\ dot <= e /\ e <= n + 1
        /\ int = 2 => d[1] = Minus
        /\ \A k \in int..(dot - 1) : d[k] \in Digits
        BY <2>2, Zenon DEF NumberText
  <2>4. 1 <= n /\ (d[1] = Minus \/ d[1] \in Digits)
        BY <2>3
  <2> QED
      BY <2>1, <2>2, <2>4, Zenon
<1>3. \A b \in Digits \cup {Minus} : b \notin Blanks /\ b # 93 /\ b # 125
    BY DEF Minus, Blanks, Digits
<1>4. d # <<>>
    BY <1>2
<1>5. BeginsAs(d)
    BY <1>2, <1>3, <1>4, Zenon DEF BeginsAs
<1> QED
    BY <1>1, <1>5, Zenon DEF Readable

LEMMA StringIsReadable ==
    ASSUME NEW s, s \in Seq(Bytes256), NEW f, IsParser(f, s), NEW x, x \in Seq(Bytes256), NEW v, v = StringValue(x)
    PROVE  Readable(DumpString(x), v, s, f)
<1>1. ReadsFull(DumpString(x), v, s, f) /\ ReadsCut(DumpString(x), v, s, f)
    BY StringValueReads, Zenon
<1>2. PICK t : t = DumpString(x) /\ t \in Seq(Bytes256) /\ t # <<>> /\ t[1] = QuoteMark
    BY StringFirst, Zenon
<1>3. BeginsAs(t)
    BY <1>2, SomeEnds, Zenon DEF BeginsAs
<1> QED
    BY <1>1, <1>2, <1>3, Zenon DEF Readable

ListWritten(T, x, n, t, o, c, p, v) ==
    /\ t = [k \in 1..n |-> t[k]] /\ T = <<o>> \o Joined(t) \o <<c>> /\ T \in Seq(Bytes256)
    /\ v = WholeList(p, x)

LEMMA ListIsReadable ==
    ASSUME NEW s, s \in Seq(Bytes256), NEW f, IsParser(f, s), NEW o, NEW c, NEW p, Opens(o, c, p),
           NEW S, NEW x, x \in Seq(S), NEW n, NEW t, AreElements(t, x, n, c, p, s, f),
           NEW T, NEW v, ListWritten(T, x, n, t, o, c, p, v)
    PROVE  Readable(T, v, s, f)
<1>0. /\ t = [k \in 1..n |-> t[k]] /\ T = <<o>> \o Joined(t) \o <<c>> /\ T \in Seq(Bytes256)
      /\ v = WholeList(p, x)
    BY Zenon DEF ListWritten
<1>1. ReadsFull(T, v, s, f) /\ ReadsCut(T, v, s, f)
    BY <1>0, ListValueReads
<1>2. o # 93 /\ o # 125 /\ o \notin Blanks /\ o \in Bytes256
  <2>1. o # 93 /\ o # 125
        BY DEF Opens
  <2> QED
      BY <2>1, OpensAre, Zenon
<1>3. T # <<>> /\ T[1] = o
  <2>1. \A k \in 1..n : t[k] \in Seq(Bytes256)
        BY Zenon DEF AreElements
  <2>2. n \in Nat
        BY Zenon DEF AreElements
  <2>3. PICK g, part : IsJoin(g, part, n) /\ Joined(t) = g[n]
        BY <1>0, <2>1, <2>2, ListLayout, Zenon
  <2>4. n \in 0..n
        BY <2>2
  <2>5. PICK J : J = Joined(t) /\ J \in Seq(Bytes256)
        BY <2>3, <2>4, Zenon DEF IsJoin
  <2>6. c \in Bytes256
        BY OpensAre, Zenon
  <2>7. T = <<o>> \o J \o <<c>>
        BY <1>0, <2>5, Zenon
  <2> QED
      BY <1>2, <2>5, <2>6, <2>7
<1>4. BeginsAs(T)
    BY <1>0, <1>2, <1>3, Zenon DEF BeginsAs
<1> QED
    BY <1>1, <1>4, Zenon DEF Readable

LEMMA ConcatFirst ==
    ASSUME NEW x, x \in Seq(Bytes256), x # <<>>, NEW y, y \in Seq(Bytes256), NEW u, u = x \o y
    PROVE  u \in Seq(Bytes256) /\ u # <<>> /\ u[1] = x[1]
OBVIOUS

LEMMA PairBegins ==
    ASSUME NEW t, NEW k, NEW q, NEW y, NEW x, IsPair(t, k, q, y, x)
    PROVE  t \in Seq(Bytes256) /\ t # <<>> /\ t[1] = QuoteMark
<1>1. /\ t = (k \o q) \o y /\ k \in Seq(Bytes256) /\ q \in Seq(Bytes256) /\ y \in Seq(Bytes256)
      /\ k # <<>> /\ k[1] = QuoteMark /\ t \in Seq(Bytes256)
    BY Zenon DEF IsPair
<1>2. PICK kq : kq = k \o q
    OBVIOUS
<1>3. kq \in Seq(Bytes256) /\ kq # <<>> /\ kq[1] = k[1]
    BY <1>1, <1>2, ConcatFirst, Zenon
<1>4. t = kq \o y
    BY <1>1, <1>2, Zenon
<1>5. t # <<>> /\ t[1] = kq[1]
    BY <1>1, <1>3, <1>4, ConcatFirst, Zenon
<1> QED
    BY <1>1, <1>3, <1>5, Zenon

LEMMA ArrayIsReadable ==
    ASSUME NEW s, s \in Seq(Bytes256), NEW f, IsParser(f, s), NEW text, NEW v \in Values, v.t = "array",
           text[v] \in Seq(Bytes256), text[v] = TextOf(v, text),
           \A w \in Values : Depth[w] < Depth[v] => Readable(text[w], w, s, f)
    PROVE  Readable(text[v], v, s, f)
<1>1. TextOf(v, text) = <<91>> \o Joined(ItemTexts(v, text)) \o <<93>>
    BY DEF TextOf
<1>2. v.a \in Seq(Values) /\ v = ArrayValue(v.a)
    BY ValueKinds, Zenon
<1>3. PICK n \in Nat : DOMAIN v.a = 1..n /\ n = Len(v.a)
    BY <1>2
<1>4. PICK t : t = ItemTexts(v, text) /\ t = [k \in 1..n |-> text[v.a[k]]]
    BY <1>3, Zenon DEF ItemTexts
<1>5. t = [k \in 1..n |-> t[k]]
    BY <1>4
<1>6. Opens(91, 93, "items")
    BY DEF Opens
<1>7. ASSUME NEW k \in 1..n
      PROVE  /\ t[k] \in Seq(Bytes256) /\ t[k] # <<>> /\ t[k][1] \notin Blanks /\ t[k][1] # 93
             /\ ElementReads(t[k], v.a[k], 93, "items", s, f)
  <2>1. PICK w : w = v.a[k] /\ w \in Values /\ Depth[w] < Depth[v]
        BY <1>3, Deeper, Zenon
  <2>2. PICK y : y = text[w] /\ y = t[k] /\ Readable(y, w, s, f)
        BY <1>4, <2>1, Zenon
  <2>3. /\ y \in Seq(Bytes256) /\ y # <<>> /\ y[1] \notin Blanks /\ y[1] # 93
        /\ ReadsFull(y, w, s, f) /\ ReadsCut(y, w, s, f)
        BY <2>2, Zenon DEF Readable, BeginsAs
  <2>4. ElementReads(y, w, 93, "items", s, f)
        BY <2>3, ItemReads, Zenon
  <2> QED
      BY <2>1, <2>2, <2>3, <2>4, Zenon
<1>8. AreElements(t, v.a, n, 93, "items", s, f)
    BY <1>3, <1>7, Zenon DEF AreElements
<1>9. PICK T : T = text[v] /\ T \in Seq(Bytes256) /\ T = <<91>> \o Joined(t) \o <<93>>
    BY <1>1, <1>4, Zenon
<1>10. v = WholeList("items", v.a)
    BY <1>2, Zenon DEF WholeList
<1>11. ListWritten(T, v.a, n, t, 91, 93, "items", v)
    BY <1>5, <1>9, <1>10, Zenon DEF ListWritten
<1>12. Readable(T, v, s, f)
    BY <1>2, <1>6, <1>8, <1>11, ListIsReadable, Zenon
<1> QED
    BY <1>9, <1>12, Zenon

LEMMA ObjectIsReadable ==
    ASSUME NEW s, s \in Seq(Bytes256), NEW f, IsParser(f, s), NEW text, NEW v \in Values, v.t = "object",
           text[v] \in Seq(Bytes256), text[v] = TextOf(v, text),
           \A w \in Values : Depth[w] < Depth[v] => Readable(text[w], w, s, f)
    PROVE  Readable(text[v], v, s, f)
<1>1. TextOf(v, text) = <<123>> \o Joined(PairTexts(v, text)) \o <<125>>
    BY DEF TextOf
<1>2. v.o \in Seq(Seq(Bytes256) \X Values) /\ v = ObjectValue(v.o)
    BY ValueKinds, Zenon
<1>3. PICK n \in Nat : DOMAIN v.o = 1..n /\ n = Len(v.o)
  <2>1. v.o \in Seq(Seq(Bytes256) \X Values)
        BY <1>2, Zenon
  <2> QED
      BY <2>1
<1>4. PICK t : t = PairTexts(v, text)
               /\ t = [k \in 1..n |-> DumpString(v.o[k][1]) \o <<Colon>> \o text[v.o[k][2]]]
    BY <1>3, Zenon DEF PairTexts
<1>5. t = [k \in 1..n |-> t[k]]
    BY <1>4
<1>6. Opens(123, 125, "pairs")
    BY DEF Opens
<1>7. ASSUME NEW k \in 1..n
      PROVE  /\ t[k] \in Seq(Bytes256) /\ t[k] # <<>> /\ t[k][1] \notin Blanks /\ t[k][1] # 125
             /\ ElementReads(t[k], v.o[k], 125, "pairs", s, f)
  <2>1. PICK x, w : v.o[k] = <<x, w>> /\ x = v.o[k][1] /\ w = v.o[k][2] /\ x \in Seq(Bytes256)
    <3>1. v.o[k] \in Seq(Bytes256) \X Values
          BY <1>2, <1>3
    <3>2. v.o[k] = <<v.o[k][1], v.o[k][2]>> /\ v.o[k][1] \in Seq(Bytes256)
          BY <3>1
    <3> QED
        BY <3>2, Zenon
  <2>2. w \in Values /\ Depth[w] < Depth[v]
        BY <1>3, <2>1, Deeper, Zenon
  <2>3. PICK y : y = text[w] /\ t[k] = DumpString(x) \o <<Colon>> \o y /\ Readable(y, w, s, f)
        BY <1>4, <2>1, <2>2, Zenon
  <2>4. y \in Seq(Bytes256) /\ y # <<>> /\ ReadsFull(y, w, s, f) /\ ReadsCut(y, w, s, f)
        BY <2>3, Zenon DEF Readable, BeginsAs
  <2>5. PICK z : z = t[k] /\ z = DumpString(x) \o <<Colon>> \o y
        BY <2>3, Zenon
  <2>6. z \in Seq(Bytes256) /\ z # <<>> /\ z[1] = QuoteMark
    <3>1. PICK kk, q : IsPair(z, kk, q, y, x)
          BY <2>1, <2>4, <2>5, PairIs, Zenon
    <3> QED
        BY <3>1, PairBegins, Zenon
  <2>7. ElementReads(z, <<x, w>>, 125, "pairs", s, f)
        BY <2>1, <2>4, <2>5, PairReads, Zenon
  <2> QED
      BY <2>1, <2>5, <2>6, <2>7, SomeEnds, Zenon
<1>8. AreElements(t, v.o, n, 125, "pairs", s, f)
    BY <1>3, <1>7, Zenon DEF AreElements
<1>9. PICK T : T = text[v] /\ T \in Seq(Bytes256) /\ T = <<123>> \o Joined(t) \o <<125>>
    BY <1>1, <1>4, Zenon
<1>10. v = WholeList("pairs", v.o)
  <2>1. "pairs" # "items"
        OBVIOUS
  <2> QED
      BY <1>2, <2>1, Zenon DEF WholeList
<1>11. ListWritten(T, v.o, n, t, 123, 125, "pairs", v)
    BY <1>5, <1>9, <1>10, Zenon DEF ListWritten
<1>12. Readable(T, v, s, f)
    BY <1>2, <1>6, <1>8, <1>11, ListIsReadable, Zenon
<1> QED
    BY <1>9, <1>12, Zenon

LEMMA ScalarIsReadable ==
    ASSUME NEW s, s \in Seq(Bytes256), NEW f, IsParser(f, s), NEW text, NEW v \in Values,
           v.t \in {"null", "bool", "number", "double", "string"}, text[v] = TextOf(v, text)
    PROVE  Readable(text[v], v, s, f)
<1>1. CASE v.t = "null"
  <2>1. TextOf(v, text) = Null_
        BY <1>1 DEF TextOf
  <2>2. v = NullValue
        BY <1>1, ValueKinds, Zenon
  <2>3. PICK c : c = 110 /\ Begins(c, 110)
        BY DEF Begins
  <2>5. ASSUME NEW later, NEW at PROVE ValueFrom(s, later, at, c) = ParseLiteral(s, at, Null_, NullValue)
        BY <2>3, LiteralFrom, Zenon
  <2>6. Literals(Null_, c)
        BY <2>3, LiteralsAre, Zenon
  <2>4. Readable(Null_, v, s, f)
        BY <2>2, <2>5, <2>6, LiteralIsReadable, Zenon
  <2> QED
      BY <2>1, <2>4, Zenon
<1>2. CASE v.t = "bool"
  <2>1. TextOf(v, text) = IF v.b THEN True_ ELSE False_
        BY <1>2 DEF TextOf
  <2>2. v = BoolValue(v.b) /\ v.b \in BOOLEAN
        BY <1>2, ValueKinds, Zenon
  <2>3. (v.b = TRUE /\ v = BoolValue(TRUE)) \/ (v.b = FALSE /\ v = BoolValue(FALSE))
        BY <2>2, Zenon
  <2>4. CASE v.b = TRUE /\ v = BoolValue(TRUE)
    <3>1. PICK c : c = 116 /\ Begins(c, 116)
          BY DEF Begins
    <3>4. ASSUME NEW later, NEW at PROVE ValueFrom(s, later, at, c) = ParseLiteral(s, at, True_, BoolValue(TRUE))
          BY <3>1, LiteralFrom, Zenon
    <3>5. Literals(True_, c)
          BY <3>1, LiteralsAre, Zenon
    <3>2. Readable(True_, v, s, f)
          BY <2>4, <3>4, <3>5, LiteralIsReadable, Zenon
    <3>3. TextOf(v, text) = True_
          BY <2>1, <2>4, Zenon
    <3> QED
        BY <3>2, <3>3, Zenon
  <2>5. CASE v.b = FALSE /\ v = BoolValue(FALSE)
    <3>1. PICK c : c = 102 /\ Begins(c, 102)
          BY DEF Begins
    <3>4. ASSUME NEW later, NEW at PROVE ValueFrom(s, later, at, c) = ParseLiteral(s, at, False_, BoolValue(FALSE))
          BY <3>1, LiteralFrom, Zenon
    <3>5. Literals(False_, c)
          BY <3>1, LiteralsAre, Zenon
    <3>2. Readable(False_, v, s, f)
          BY <2>5, <3>4, <3>5, LiteralIsReadable, Zenon
    <3>3. TextOf(v, text) = False_
          BY <2>1, <2>5, Zenon
    <3> QED
        BY <3>2, <3>3, Zenon
  <2> QED
      BY <2>3, <2>4, <2>5, Zenon
<1>3. CASE v.t = "number"
  <2>1. TextOf(v, text) = DumpInt(v.n)
        BY <1>3 DEF TextOf
  <2>2. v = IntValue(v.n) /\ v.n \in Int
        BY <1>3, ValueKinds, Zenon
  <2>3. PICK int, dot, e : NumberText(DumpInt(v.n), int, dot, e) /\ NumberValue(DumpInt(v.n), int, dot) = IntValue(v.n)
        BY <2>2, IntText, Zenon
  <2>4. Readable(DumpInt(v.n), v, s, f)
        BY <1>3, <2>2, <2>3, NumberIsReadable, Zenon
  <2> QED
      BY <2>1, <2>4, Zenon
<1>4. CASE v.t = "double"
  <2>1. TextOf(v, text) = v.d
        BY <1>4 DEF TextOf
  <2>2. v = Double(v.d) /\ IsDouble(v.d)
        BY <1>4, ValueKinds, Zenon
  <2>3. PICK int, dot, e : NumberText(v.d, int, dot, e) /\ NumberValue(v.d, int, dot) = Double(v.d)
        BY <2>2, DoubleText, Zenon
  <2>4. Readable(v.d, v, s, f)
        BY <1>4, <2>2, <2>3, NumberIsReadable, Zenon
  <2> QED
      BY <2>1, <2>4, Zenon
<1>5. CASE v.t = "string"
  <2>1. TextOf(v, text) = DumpString(v.s)
        BY <1>5 DEF TextOf
  <2>2. v = StringValue(v.s) /\ v.s \in Seq(Bytes256)
        BY <1>5, ValueKinds, Zenon
  <2>3. Readable(DumpString(v.s), v, s, f)
        BY <2>2, StringIsReadable, Zenon
  <2> QED
      BY <2>1, <2>3, Zenon
<1> QED
    BY <1>1, <1>2, <1>3, <1>4, <1>5

LEMMA TextsAreReadable ==
    ASSUME NEW s, s \in Seq(Bytes256), NEW f, IsParser(f, s), NEW text, \A v \in Values : text[v] = TextOf(v, text)
    PROVE  \A v \in Values : Readable(text[v], v, s, f)
<1> DEFINE V == {v \in Values : Readable(text[v], v, s, f)}
<1>1. \A v \in Values : text[v] \in Seq(Bytes256)
    BY TextsAreLines, LinesAreBytes, Zenon
<1>2. ASSUME NEW v \in Values, \A w \in Values : Depth[w] < Depth[v] => w \in V PROVE v \in V
  <2>1. \A w \in Values : Depth[w] < Depth[v] => Readable(text[w], w, s, f)
        BY <1>2, Zenon
  <2>2. v.t \in {"null", "bool", "number", "double", "string"} \/ v.t = "array" \/ v.t = "object"
        BY ValueKinds, Zenon DEF Kinds
  <2>3. Readable(text[v], v, s, f)
        BY <1>1, <2>1, <2>2, ScalarIsReadable, ArrayIsReadable, ObjectIsReadable, Zenon
  <2> QED
      BY <2>3, Zenon
<1>3. \A v \in Values : v \in V
  <2> HIDE DEF V
  <2> QED
      BY <1>2, DepthInduction
<1> QED
    BY <1>3, Zenon

(* What is dumped is one line, is read as the value, and cut is not read.  *)
DumpIsRead(v, d) == Parse(d) = Is(v, Len(d) + 1)
DumpIsLine(d) == \A k \in DOMAIN d : d[k] \notin {LF, CR}
DumpCutFails(v, d) ==
    v.t \notin {"number", "double"} => \A k \in 0..(Len(d) - 1) : ~Parse(SubSeq(d, 1, k)).ok

LEMMA DumpsOneLine ==
    ASSUME NEW v \in Values
    PROVE  DumpIsLine(Dump(v))
<1>1. PICK text : \A w \in Values : Dump(w) = text[w] /\ text[w] = TextOf(w, text)
    BY Dumps, Zenon
<1>2. Dump(v) \in Seq(LineBytes)
    BY <1>1, TextsAreLines, Zenon
<1>3. PICK d : d = Dump(v) /\ d \in Seq(LineBytes)
    BY <1>2, Zenon
<1>4. \A k \in DOMAIN d : d[k] \in LineBytes
    BY <1>3
<1> QED
    BY <1>3, <1>4, Zenon DEF DumpIsLine, LineBytes

LEMMA DumpsReadBack ==
    ASSUME NEW v \in Values
    PROVE  DumpIsRead(v, Dump(v))
<1>1. PICK text : \A w \in Values : Dump(w) = text[w] /\ text[w] = TextOf(w, text)
    BY Dumps, Zenon
<1>2. PICK s : s = Dump(v) /\ s = text[v] /\ s \in Seq(Bytes256)
    BY <1>1, TextsAreLines, LinesAreBytes, Zenon
<1>3. PICK f : IsParser(f, s) /\ Parse(s) = TextRead(s, f[<<"value", 1>>])
    BY <1>2, ParserOf, Zenon
<1>4. Readable(s, v, s, f)
    BY <1>1, <1>2, <1>3, TextsAreReadable, Zenon
<1>5. LiesAfter(s, s, 0)
    BY <1>2, LiesWhole, Zenon
<1>6. 0 \in Nat /\ 0 + Len(s) = Len(s) /\ 0 + 1 = 1
    BY <1>2
<1>7. Peek(s, (0 + Len(s)) + 1) \in Enders
    BY <1>2, <1>6, PastEnd, CommaEnds, Zenon
<1>8. f[<<"value", 1>>] = Is(v, Len(s) + 1)
  <2>1. ReadsFull(s, v, s, f)
        BY <1>4, Zenon DEF Readable
  <2>2. f[<<"value", 0 + 1>>] = Is(v, (0 + Len(s)) + 1)
        BY <1>5, <1>6, <1>7, <2>1, Zenon DEF ReadsFull
  <2> QED
      BY <1>6, <2>2, Zenon
<1>9. PICK r : r = f[<<"value", 1>>] /\ r.ok /\ r.at = Len(s) + 1 /\ r = Is(v, Len(s) + 1)
  <2>1. PICK r : r = f[<<"value", 1>>] /\ r = Is(v, Len(s) + 1)
        BY <1>8, Zenon
  <2>2. r.ok /\ r.at = Len(s) + 1
        BY <2>1 DEF Is
  <2> QED
      BY <2>1, <2>2, Zenon
<1>10. SkipWs(s, r.at) = Len(s) + 1
    BY <1>2, <1>9, PastEnd, Zenon
<1>11. Parse(s) = r
    BY <1>3, <1>9, <1>10, Zenon DEF TextRead
<1> QED
    BY <1>2, <1>9, <1>11, Zenon DEF DumpIsRead

(* The first k bytes of a text are what is left when it is cut.  *)
LEMMA CutHolds ==
    ASSUME NEW d, d \in Seq(Bytes256), NEW k \in 0..(Len(d) - 1), NEW s, s = SubSeq(d, 1, k)
    PROVE  s \in Seq(Bytes256) /\ CutAfter(d, s, 0)
<1>1. k \in Nat /\ k <= Len(d) /\ k < Len(d)
    OBVIOUS
<1>2. s \in Seq(Bytes256) /\ Len(s) = k /\ \A i \in 1..k : s[i] = d[i]
    BY <1>1
<1>3. /\ 0 <= k /\ k < 0 + Len(d) /\ k - 0 = k /\ \A i \in 1..k : 0 + i = i
    BY <1>1
<1> QED
    BY <1>2, <1>3, Zenon DEF CutAfter

LEMMA CutDumpsFail ==
    ASSUME NEW v \in Values
    PROVE  DumpCutFails(v, Dump(v))
<1>1. PICK text : \A w \in Values : Dump(w) = text[w] /\ text[w] = TextOf(w, text)
    BY Dumps, Zenon
<1>2. PICK d : d = Dump(v) /\ d = text[v] /\ d \in Seq(Bytes256)
    BY <1>1, TextsAreLines, LinesAreBytes, Zenon
<1>3. ASSUME v.t \notin {"number", "double"}, NEW k \in 0..(Len(d) - 1) PROVE ~Parse(SubSeq(d, 1, k)).ok
  <2>1. PICK s : s = SubSeq(d, 1, k) /\ s \in Seq(Bytes256) /\ CutAfter(d, s, 0)
    <3>1. PICK s : s = SubSeq(d, 1, k)
          OBVIOUS
    <3>2. s \in Seq(Bytes256) /\ CutAfter(d, s, 0)
          BY <1>2, <3>1, CutHolds
    <3> QED
        BY <3>1, <3>2, Zenon
  <2>2. PICK f : IsParser(f, s) /\ Parse(s) = TextRead(s, f[<<"value", 1>>])
        BY <2>1, ParserOf, Zenon
  <2>3. Readable(d, v, s, f)
        BY <1>1, <1>2, <2>1, <2>2, TextsAreReadable, Zenon
  <2>4. f[<<"value", 1>>] = Fails
    <3>1. ReadsCut(d, v, s, f)
          BY <2>3, Zenon DEF Readable
    <3>2. 0 \in Nat /\ 0 + 1 = 1
          OBVIOUS
    <3>3. f[<<"value", 0 + 1>>] = Fails
          BY <1>3, <2>1, <3>1, <3>2, Zenon DEF ReadsCut
    <3> QED
        BY <3>2, <3>3, Zenon
  <2>5. Parse(s) = Fails
        BY <2>2, <2>4, FailsIs, Zenon DEF TextRead
  <2> QED
      BY <2>1, <2>5, FailsIs, Zenon
<1>4. DumpCutFails(v, d)
    BY <1>3, Zenon DEF DumpCutFails
<1> QED
    BY <1>2, <1>4, Zenon

LEMMA JsonAnswer ==
    ASSUME Computed, done, job.kind = "json"
    PROVE  DumpIsRead(job.v, out) /\ DumpIsLine(out) /\ DumpCutFails(job.v, out)
<1>1. out = Dump(job.v)
    BY DEF Computed, Result
<1>2. job.v \in Values
    BY DEF Computed, JobsAssumed
<1> QED
    BY <1>1, <1>2, DumpsReadBack, DumpsOneLine, CutDumpsFail, Zenon

(* A sequence made piece by piece: from p on, piece[p] and what is made    *)
(* step[p] further on; -1 if that is beyond the end.                       *)
ChainStep(f, n, piece, step, p) ==
    IF p > n THEN <<>>
    ELSE IF p + step[p] > n + 1 THEN <<-1>>
    ELSE piece[p] \o f[p + step[p]]
Chained(f, n, piece, step) == \A p \in 1..(n + 1) : f[p] = ChainStep(f, n, piece, step, p)
Steps(n, step) == \A p \in 1..n : step[p] \in Nat /\ step[p] >= 1

LEMMA ChainDepends ==
    ASSUME NEW n \in Nat, NEW piece, NEW step, Steps(n, step), NEW p \in 1..(n + 1), NEW f, NEW g,
           \A q \in 1..(n + 1) : q > p => f[q] = g[q]
    PROVE  ChainStep(f, n, piece, step, p) = ChainStep(g, n, piece, step, p)
<1>1. CASE p > n
    BY <1>1, Zenon DEF ChainStep
<1>2. CASE ~(p > n) /\ p + step[p] > n + 1
    BY <1>2, Zenon DEF ChainStep
<1>3. CASE ~(p > n) /\ ~(p + step[p] > n + 1)
  <2>1. p \in 1..n
        BY <1>3
  <2>2. PICK d \in Nat : d = step[p] /\ d >= 1
        BY <2>1, Zenon DEF Steps
  <2>3. p + d \in 1..(n + 1) /\ p + d > p
    <3>1. ~(p + d > n + 1)
          BY <1>3, <2>2, Zenon
    <3> QED
        BY <2>1, <2>2, <3>1
  <2>4. f[p + d] = g[p + d]
        BY <2>3, Zenon
  <2> QED
      BY <1>3, <2>2, <2>4, Zenon DEF ChainStep
<1> QED
    BY <1>1, <1>2, <1>3

LEMMA ChainExists ==
    ASSUME NEW n \in Nat, NEW piece, NEW step, Steps(n, step)
    PROVE  \E f : Chained(f, n, piece, step)
<1> DEFINE S == {k \in 0..(n + 1) : \E f : \A p \in 1..(n + 1) : p >= (n + 2) - k => f[p] = ChainStep(f, n, piece, step, p)}
<1>1. 0 \in S
  <2>1. ASSUME NEW p \in 1..(n + 1) PROVE ~(p >= (n + 2) - 0)
        OBVIOUS
  <2>2. 0 \in 0..(n + 1)
        OBVIOUS
  <2> QED
      BY <2>1, <2>2, Zenon
<1>2. ASSUME NEW k \in 0..((n + 1) - 1), k \in S PROVE k + 1 \in S
  <2>1. PICK f : \A p \in 1..(n + 1) : p >= (n + 2) - k => f[p] = ChainStep(f, n, piece, step, p)
        BY <1>2
  <2>2. PICK c \in 1..(n + 1) : c = (n + 2) - (k + 1) /\ c + 1 = (n + 2) - k
    <3>1. (n + 2) - (k + 1) \in 1..(n + 1) /\ ((n + 2) - (k + 1)) + 1 = (n + 2) - k
          OBVIOUS
    <3> QED
        BY <3>1, Zenon
  <2>3. PICK g : g = [p \in 1..(n + 1) |-> IF p = c THEN ChainStep(f, n, piece, step, c) ELSE f[p]]
        OBVIOUS
  <2>4. ASSUME NEW p \in 1..(n + 1), p >= c PROVE g[p] = ChainStep(g, n, piece, step, p)
    <3>1. ASSUME NEW q \in 1..(n + 1), q > p PROVE f[q] = g[q]
      <4>1. q # c
            BY <2>4, <3>1
      <4> QED
          BY <2>3, <4>1, Zenon
    <3>2. ChainStep(f, n, piece, step, p) = ChainStep(g, n, piece, step, p)
          BY <3>1, ChainDepends
    <3>3. CASE p = c
          BY <2>3, <3>2, <3>3, Zenon
    <3>4. CASE p # c
      <4>1. p >= (n + 2) - k
            BY <2>2, <2>4, <3>4
      <4> QED
          BY <2>1, <2>3, <3>2, <3>4, <4>1, Zenon
    <3> QED
        BY <3>3, <3>4
  <2>5. k + 1 \in 0..(n + 1)
        OBVIOUS
  <2> QED
      BY <2>2, <2>4, <2>5, Zenon
<1>3. \A k \in 0..(n + 1) : k \in S
  <2>1. n + 1 \in Nat
        OBVIOUS
  <2> HIDE DEF S
  <2> QED
      BY <1>1, <1>2, <2>1, UpTo, Zenon
<1>4. n + 1 \in 0..(n + 1) /\ \A p \in 1..(n + 1) : p >= (n + 2) - (n + 1)
    OBVIOUS
<1>5. PICK f : \A p \in 1..(n + 1) : p >= (n + 2) - (n + 1) => f[p] = ChainStep(f, n, piece, step, p)
    BY <1>3, <1>4, Zenon
<1> QED
    BY <1>4, <1>5, Zenon DEF Chained

(* What is made from m + 1 on is what is made of the rest alone.  *)
SameChain(m, n, piece, step, piece2, step2) ==
    \A q \in 1..n : /\ step[m + q] = step2[q]
                    /\ ~(q + step2[q] > n + 1) => piece[m + q] = piece2[q]
ShiftedTo(f, g, m, q) == f[m + q] = g[q]

LEMMA ChainShifts ==
    ASSUME NEW m \in Nat, NEW n \in Nat, NEW l, l = m + n, NEW piece, NEW step, NEW piece2, NEW step2,
           Steps(n, step2), SameChain(m, n, piece, step, piece2, step2),
           NEW f, Chained(f, l, piece, step), NEW g, Chained(g, n, piece2, step2)
    PROVE  ShiftedTo(f, g, m, 1)
<1> DEFINE S == {k \in 0..(n + 1) : \A q \in 1..(n + 1) : q >= (n + 2) - k => ShiftedTo(f, g, m, q)}
<1>1. 0 \in S
  <2>1. ASSUME NEW q \in 1..(n + 1) PROVE ~(q >= (n + 2) - 0)
        OBVIOUS
  <2>2. 0 \in 0..(n + 1)
        OBVIOUS
  <2> QED
      BY <2>1, <2>2, Zenon
<1>2. ASSUME NEW k \in 0..((n + 1) - 1), k \in S PROVE k + 1 \in S
  <2>1. \A q \in 1..(n + 1) : q >= (n + 2) - k => ShiftedTo(f, g, m, q)
        BY <1>2
  <2>2. PICK c \in 1..(n + 1) : c = (n + 2) - (k + 1) /\ c + 1 = (n + 2) - k
    <3>1. (n + 2) - (k + 1) \in 1..(n + 1) /\ ((n + 2) - (k + 1)) + 1 = (n + 2) - k
          OBVIOUS
    <3> QED
        BY <3>1, Zenon
  <2>3. f[m + c] = ChainStep(f, l, piece, step, m + c)
    <3>1. m + c \in 1..(l + 1)
          OBVIOUS
    <3> QED
        BY <3>1, Zenon DEF Chained
  <2>4. g[c] = ChainStep(g, n, piece2, step2, c)
        BY Zenon DEF Chained
  <2>5. (m + c > l) <=> (c > n)
        OBVIOUS
  <2>6. ASSUME c > n PROVE ShiftedTo(f, g, m, c)
    <3>1. f[m + c] = <<>>
          BY <2>3, <2>5, <2>6, Zenon DEF ChainStep
    <3>2. g[c] = <<>>
          BY <2>4, <2>6, Zenon DEF ChainStep
    <3> QED
        BY <3>1, <3>2, Zenon DEF ShiftedTo
  <2>7. ASSUME ~(c > n) PROVE ShiftedTo(f, g, m, c)
    <3>1. c \in 1..n
          BY <2>7
    <3>2. PICK d \in Nat : /\ d = step2[c] /\ d >= 1 /\ d = step[m + c]
                           /\ ~(c + d > n + 1) => piece[m + c] = piece2[c]
          BY <3>1, Zenon DEF Steps, SameChain
    <3>3. ((m + c) + d > l + 1) <=> (c + d > n + 1)
          OBVIOUS
    <3>4. CASE c + d > n + 1
      <4>1. f[m + c] = <<-1>>
            BY <2>3, <2>5, <2>7, <3>2, <3>3, <3>4, Zenon DEF ChainStep
      <4>2. g[c] = <<-1>>
            BY <2>4, <2>7, <3>2, <3>4, Zenon DEF ChainStep
      <4> QED
          BY <4>1, <4>2, Zenon DEF ShiftedTo
    <3>5. CASE ~(c + d > n + 1)
      <4>1. c + d \in 1..(n + 1) /\ c + d >= (n + 2) - k /\ (m + c) + d = m + (c + d)
            BY <2>2, <3>2, <3>5
      <4>2. f[m + (c + d)] = g[c + d]
            BY <2>1, <4>1, Zenon DEF ShiftedTo
      <4>3. f[m + c] = piece2[c] \o f[m + (c + d)]
            BY <2>3, <2>5, <2>7, <3>2, <3>3, <3>5, <4>1, Zenon DEF ChainStep
      <4>4. g[c] = piece2[c] \o g[c + d]
            BY <2>4, <2>7, <3>2, <3>5, Zenon DEF ChainStep
      <4> QED
          BY <4>2, <4>3, <4>4, Zenon DEF ShiftedTo
    <3> QED
        BY <3>4, <3>5
  <2>8. ASSUME NEW q \in 1..(n + 1), q >= (n + 2) - (k + 1) PROVE ShiftedTo(f, g, m, q)
    <3>1. q = c \/ q >= (n + 2) - k
          BY <2>2, <2>8
    <3>2. ShiftedTo(f, g, m, c)
          BY <2>6, <2>7
    <3> QED
        BY <2>1, <3>1, <3>2, Zenon
  <2>9. k + 1 \in 0..(n + 1)
        OBVIOUS
  <2> QED
      BY <2>8, <2>9, Zenon
<1>3. \A k \in 0..(n + 1) : k \in S
  <2>1. n + 1 \in Nat
        OBVIOUS
  <2> HIDE DEF S
  <2> QED
      BY <1>1, <1>2, <2>1, UpTo, Zenon
<1>4. n + 1 \in 0..(n + 1) /\ 1 \in 1..(n + 1) /\ 1 >= (n + 2) - (n + 1)
    OBVIOUS
<1> QED
    BY <1>3, <1>4, Zenon

(* The characters a text of bytes stands for, as such a sequence.  *)
Utf8Chain(b, n, piece, step) ==
    /\ n \in Nat /\ n = Len(b)
    /\ \A p \in 1..n : piece[p] = <<CodeAt(b, p)>> /\ step[p] = More(b[p]) + 1
    /\ Steps(n, step)

LEMMA MoreIs ==
    ASSUME NEW c
    PROVE  More(c) \in 0..3
BY DEF More

LEMMA Utf8Steps ==
    ASSUME NEW b, b \in Seq(Bytes256)
    PROVE  \E n, piece, step : Utf8Chain(b, n, piece, step)
<1>1. PICK n \in Nat : n = Len(b)
    OBVIOUS
<1>2. PICK piece : piece = [p \in 1..n |-> <<CodeAt(b, p)>>]
    OBVIOUS
<1>3. PICK step : step = [p \in 1..n |-> More(b[p]) + 1]
    OBVIOUS
<1>4. Steps(n, step)
  <2>1. ASSUME NEW p \in 1..n PROVE step[p] \in Nat /\ step[p] >= 1
    <3>1. PICK d \in 0..3 : d = More(b[p])
          BY MoreIs, Zenon
    <3>2. d + 1 \in Nat /\ d + 1 >= 1
          OBVIOUS
    <3> QED
        BY <1>3, <3>1, <3>2, Zenon
  <2> QED
      BY <2>1, Zenon DEF Steps
<1>5. Utf8Chain(b, n, piece, step)
    BY <1>1, <1>2, <1>3, <1>4, Zenon DEF Utf8Chain
<1> QED
    BY <1>5, Zenon

Utf8Is(b, f) == Utf8(b) = f[1]

LEMMA Utf8From ==
    ASSUME NEW b, b \in Seq(Bytes256), NEW n, NEW piece, NEW step, Utf8Chain(b, n, piece, step)
    PROVE  \E f : Chained(f, n, piece, step) /\ Utf8Is(b, f)
<1> DEFINE Body(f, p) == IF p > Len(b) THEN <<>>
                         ELSE IF p + More(b[p]) > Len(b) THEN <<-1>>
                         ELSE <<CodeAt(b, p)>> \o f[p + More(b[p]) + 1]
           Eq(f) == f = [p \in 1..(Len(b) + 1) |-> Body(f, p)]
           chars == CHOOSE f : Eq(f)
<1>1. Utf8(b) = chars[1]
    BY DEF Utf8
<1>2. n \in Nat /\ n = Len(b) /\ Steps(n, step)
    BY Zenon DEF Utf8Chain
<1>3. ASSUME NEW f, NEW p \in 1..(n + 1) PROVE Body(f, p) = ChainStep(f, n, piece, step, p)
  <2>1. CASE p > n
        BY <1>2, <2>1, Zenon DEF ChainStep
  <2>2. CASE ~(p > n)
    <3>1. p \in 1..n
          BY <1>2, <2>2
    <3>2. piece[p] = <<CodeAt(b, p)>> /\ step[p] = More(b[p]) + 1
          BY <3>1, Zenon DEF Utf8Chain
    <3>3. PICK d \in 0..3 : d = More(b[p])
          BY MoreIs, Zenon
    <3>4. (p + d > n <=> p + (d + 1) > n + 1) /\ p + d + 1 = p + (d + 1)
          BY <1>2
    <3> QED
        BY <1>2, <2>2, <3>2, <3>3, <3>4, Zenon DEF ChainStep
  <2> QED
      BY <2>1, <2>2
<1>4. PICK h : Chained(h, n, piece, step)
    BY <1>2, ChainExists, Zenon
<1>5. PICK f : f = [p \in 1..(n + 1) |-> h[p]]
    OBVIOUS
<1> HIDE DEF Body
<1>6. Eq(f)
  <2>1. ASSUME NEW p \in 1..(n + 1) PROVE h[p] = Body(f, p)
    <3>1. \A q \in 1..(n + 1) : q > p => h[q] = f[q]
          BY <1>5, Zenon
    <3>2. ChainStep(h, n, piece, step, p) = ChainStep(f, n, piece, step, p)
          BY <1>2, <3>1, ChainDepends
    <3> QED
        BY <1>3, <1>4, <3>2, Zenon DEF Chained
  <2> QED
      BY <1>2, <1>5, <2>1, Zenon
<1>7. Eq(chars)
    BY <1>6, Zenon
<1> HIDE DEF chars
<1>8. Chained(chars, n, piece, step)
  <2>1. \A p \in 1..(n + 1) : chars[p] = Body(chars, p)
        BY <1>2, <1>7, Zenon
  <2> QED
      BY <1>3, <2>1, Zenon DEF Chained
<1> QED
    BY <1>1, <1>8, Zenon DEF Utf8Is

(* A character's bytes are read as the character.  *)
Characters == {n \in Nat : n < 17 * 65536}
BeginsWith(b, x) == \A i \in 1..Len(x) : b[i] = x[i]
CodeRead(b, x, cp) ==
    /\ x \in Seq(Bytes256) /\ Len(x) >= 1
    /\ BeginsWith(b, x) => More(b[1]) + 1 = Len(x) /\ CodeAt(b, 1) = cp

LEMMA CodeOfOne ==
    ASSUME NEW cp \in Nat, cp < 128, NEW b
    PROVE  CodeRead(b, <<cp>>, cp)
<1>1. <<cp>> \in Seq(Bytes256) /\ Len(<<cp>>) = 1
    BY DEF Bytes256
<1>2. ASSUME BeginsWith(b, <<cp>>) PROVE More(b[1]) + 1 = 1 /\ CodeAt(b, 1) = cp
  <2>1. b[1] = cp
        BY <1>2 DEF BeginsWith
  <2> QED
      BY <2>1 DEF More, CodeAt
<1> QED
    BY <1>1, <1>2 DEF CodeRead

LEMMA CodeOfTwo ==
    ASSUME NEW q \in 2..31, NEW r \in 0..63, NEW b
    PROVE  CodeRead(b, <<192 + q, 128 + r>>, q * 64 + r)
<1> DEFINE x == <<192 + q, 128 + r>>
<1>1. x \in Seq(Bytes256) /\ Len(x) = 2
  <2>1. 192 + q \in Bytes256 /\ 128 + r \in Bytes256
        BY DEF Bytes256
  <2> QED
      BY <2>1
<1>2. ASSUME BeginsWith(b, x) PROVE More(b[1]) + 1 = 2 /\ CodeAt(b, 1) = q * 64 + r
  <2>1. b[1] = 192 + q /\ b[1 + 1] = 128 + r
        BY <1>2 DEF BeginsWith
  <2>2. (192 + q) % 32 = q /\ (128 + r) % 64 = r /\ ~(192 + q < 128) /\ 192 + q < 224
        OBVIOUS
  <2> QED
      BY <2>1, <2>2 DEF More, CodeAt
<1> HIDE DEF x
<1>3. CodeRead(b, x, q * 64 + r)
    BY <1>1, <1>2 DEF CodeRead
<1> QED
    BY <1>3 DEF x

LEMMA CodeOfThree ==
    ASSUME NEW q \in 0..15, NEW r \in 0..63, NEW z \in 0..63, NEW b
    PROVE  CodeRead(b, <<224 + q, 128 + r, 128 + z>>, (q * 64 + r) * 64 + z)
<1> DEFINE x == <<224 + q, 128 + r, 128 + z>>
<1>1. x \in Seq(Bytes256) /\ Len(x) = 3
  <2>1. 224 + q \in Bytes256 /\ 128 + r \in Bytes256 /\ 128 + z \in Bytes256
        BY DEF Bytes256
  <2> QED
      BY <2>1
<1>2. ASSUME BeginsWith(b, x) PROVE More(b[1]) + 1 = 3 /\ CodeAt(b, 1) = (q * 64 + r) * 64 + z
  <2>1. b[1] = 224 + q /\ b[1 + 1] = 128 + r /\ b[1 + 2] = 128 + z
        BY <1>2 DEF BeginsWith
  <2>2. /\ (224 + q) % 16 = q /\ (128 + r) % 64 = r /\ (128 + z) % 64 = z
        /\ ~(224 + q < 128) /\ ~(224 + q < 224) /\ 224 + q < 240
        OBVIOUS
  <2> QED
      BY <2>1, <2>2 DEF More, CodeAt
<1> HIDE DEF x
<1>3. CodeRead(b, x, (q * 64 + r) * 64 + z)
    BY <1>1, <1>2 DEF CodeRead
<1> QED
    BY <1>3 DEF x

LEMMA CodeOfFour ==
    ASSUME NEW q \in 0..7, NEW r \in 0..63, NEW z \in 0..63, NEW w \in 0..63, NEW b
    PROVE  CodeRead(b, <<240 + q, 128 + r, 128 + z, 128 + w>>, ((q * 64 + r) * 64 + z) * 64 + w)
<1> DEFINE x == <<240 + q, 128 + r, 128 + z, 128 + w>>
<1>1. x \in Seq(Bytes256) /\ Len(x) = 4
  <2>1. 240 + q \in Bytes256 /\ 128 + r \in Bytes256 /\ 128 + z \in Bytes256 /\ 128 + w \in Bytes256
        BY DEF Bytes256
  <2> QED
      BY <2>1
<1>2. ASSUME BeginsWith(b, x) PROVE More(b[1]) + 1 = 4 /\ CodeAt(b, 1) = ((q * 64 + r) * 64 + z) * 64 + w
  <2>1. b[1] = 240 + q /\ b[1 + 1] = 128 + r /\ b[1 + 2] = 128 + z /\ b[1 + 3] = 128 + w
        BY <1>2 DEF BeginsWith
  <2>2. /\ (240 + q) % 8 = q /\ (128 + r) % 64 = r /\ (128 + z) % 64 = z /\ (128 + w) % 64 = w
        /\ ~(240 + q < 128) /\ ~(240 + q < 224) /\ ~(240 + q < 240)
        OBVIOUS
  <2> QED
      BY <2>1, <2>2 DEF More, CodeAt
<1> HIDE DEF x
<1>3. CodeRead(b, x, ((q * 64 + r) * 64 + z) * 64 + w)
    BY <1>1, <1>2 DEF CodeRead
<1> QED
    BY <1>3 DEF x

LEMMA LastSix ==
    ASSUME NEW n \in Nat
    PROVE  \E q \in Nat, r \in 0..63 : q = n \div 64 /\ r = n % 64 /\ q * 64 + r = n
<1>1. n \div 64 \in Nat
    OBVIOUS
<1>2. n % 64 \in 0..63
    OBVIOUS
<1>3. PICK q \in Nat, r \in 0..63 : q = n \div 64 /\ r = n % 64
    BY <1>1, <1>2, Zenon
<1>4. q * 64 + r = n
    BY <1>3
<1> QED
    BY <1>3, <1>4, Zenon

LEMMA CodesRead ==
    ASSUME NEW cp \in Characters, NEW b
    PROVE  CodeRead(b, AppendUtf8(cp), cp)
<1>0. cp \in Nat
    BY DEF Characters
<1>1. PICK q1 \in Nat, r1 \in 0..63 : q1 = cp \div 64 /\ r1 = cp % 64 /\ q1 * 64 + r1 = cp
    BY <1>0, LastSix, Zenon
<1>2. PICK q2 \in Nat, r2 \in 0..63 : q2 = q1 \div 64 /\ r2 = q1 % 64 /\ q2 * 64 + r2 = q1
    BY <1>1, LastSix, Zenon
<1>3. PICK q3 \in Nat, r3 \in 0..63 : q3 = q2 \div 64 /\ r3 = q2 % 64 /\ q3 * 64 + r3 = q2
    BY <1>2, LastSix, Zenon
<1>4. CASE cp < 128
  <2>1. AppendUtf8(cp) = <<cp>>
        BY <1>4, SMT DEF AppendUtf8
  <2> QED
      BY <1>0, <1>4, <2>1, CodeOfOne, Zenon
<1>5. CASE ~(cp < 128) /\ cp < 2048
  <2>1. q1 \in 2..31
        BY <1>1, <1>5, SMT
  <2>2. AppendUtf8(cp) = <<192 + q1, 128 + r1>>
        BY <1>1, <1>5, SMT DEF AppendUtf8
  <2> QED
      BY <1>1, <2>1, <2>2, CodeOfTwo, Zenon
<1>6. CASE ~(cp < 2048) /\ cp < 65536
  <2>1. q2 \in 0..15
    <3>1. (q2 * 64 + r2) * 64 + r1 < 65536
          BY <1>1, <1>2, <1>6, SMT
    <3> QED
      <4>1. q2 \in Nat /\ r2 \in 0..63 /\ r1 \in 0..63
            BY <1>1, <1>2, Zenon
      <4> QED
          BY <3>1, <4>1, SMT
  <2>2. cp \div 4096 = q2
    <3>1. cp \div 4096 = (cp \div 64) \div 64
          BY <1>0, SMT
    <3> QED
        BY <1>1, <1>2, <3>1, SMT
  <2>3. AppendUtf8(cp) = <<224 + (cp \div 4096), 128 + ((cp \div 64) % 64), 128 + (cp % 64)>>
        BY <1>0, <1>6, SMT DEF AppendUtf8
  <2>4. AppendUtf8(cp) = <<224 + q2, 128 + r2, 128 + r1>>
        BY <1>1, <1>2, <2>2, <2>3, SMT
  <2>5. CodeRead(b, <<224 + q2, 128 + r2, 128 + r1>>, (q2 * 64 + r2) * 64 + r1)
        BY <2>1, CodeOfThree, Zenon
  <2>6. (q2 * 64 + r2) * 64 + r1 = cp
        BY <1>1, <1>2, SMT
  <2> QED
      BY <2>4, <2>5, <2>6, SMT
<1>7. CASE ~(cp < 65536)
  <2>1. q3 \in 0..7
    <3>1. cp < 17 * 65536
          BY SMT DEF Characters
    <3>2. ((q3 * 64 + r3) * 64 + r2) * 64 + r1 < 17 * 65536
          BY <1>1, <1>2, <1>3, <3>1, SMT
    <3> QED
      <4>1. q3 \in Nat /\ r3 \in 0..63 /\ r2 \in 0..63 /\ r1 \in 0..63
            BY <1>1, <1>2, <1>3, Zenon
      <4> QED
          BY <3>2, <4>1, SMT
  <2>2. cp \div 262144 = q3 /\ cp \div 4096 = q2
    <3>1. cp \div 4096 = (cp \div 64) \div 64 /\ cp \div 262144 = ((cp \div 64) \div 64) \div 64
          BY <1>0, SMT
    <3> QED
        BY <1>1, <1>2, <1>3, <3>1, SMT
  <2>3. AppendUtf8(cp) = <<240 + (cp \div 262144), 128 + ((cp \div 4096) % 64), 128 + ((cp \div 64) % 64), 128 + (cp % 64)>>
        BY <1>0, <1>7, SMT DEF AppendUtf8
  <2>4. AppendUtf8(cp) = <<240 + q3, 128 + r3, 128 + r2, 128 + r1>>
        BY <1>1, <1>2, <1>3, <2>2, <2>3, SMT
  <2>5. CodeRead(b, <<240 + q3, 128 + r3, 128 + r2, 128 + r1>>, ((q3 * 64 + r3) * 64 + r2) * 64 + r1)
        BY <2>1, CodeOfFour, Zenon
  <2>6. ((q3 * 64 + r3) * 64 + r2) * 64 + r1 = cp
        BY <1>1, <1>2, <1>3, SMT
  <2> QED
      BY <2>4, <2>5, <2>6, SMT
<1> QED
    BY <1>0, <1>4, <1>5, <1>6, <1>7, SMT

(* Characters are read one after the other.  *)
Utf8Joins(cp, y) == Utf8(AppendUtf8(cp) \o y) = <<cp>> \o Utf8(y)

SameCodeAt(b, p, y, q) == CodeAt(b, p) = CodeAt(y, q)

LEMMA SameCode ==
    ASSUME NEW b, NEW y, NEW m \in Nat, NEW n \in Nat, NEW q \in 1..n, \A i \in 1..n : b[m + i] = y[i],
           q + More(y[q]) <= n
    PROVE  SameCodeAt(b, m + q, y, q)
<1> USE DEF SameCodeAt
<1>1. b[m + q] = y[q]
    OBVIOUS
<1>2. ASSUME NEW k \in 1..3, k <= More(y[q]) PROVE b[(m + q) + k] % 64 = y[q + k] % 64
  <2>1. PICK d \in 0..3 : d = More(y[q])
        BY MoreIs, Zenon
  <2>2. q + k \in 1..n /\ (m + q) + k = m + (q + k)
        BY <1>2, <2>1
  <2>3. b[m + (q + k)] = y[q + k]
        BY <2>2
  <2> QED
      BY <2>2, <2>3
<1>3. CASE y[q] < 128
    BY <1>1, <1>3 DEF CodeAt
<1>4. CASE ~(y[q] < 128) /\ y[q] < 224
  <2>1. More(y[q]) = 1
        BY <1>4 DEF More
  <2>2. b[(m + q) + 1] % 64 = y[q + 1] % 64
        BY <1>2, <2>1
  <2> QED
      BY <1>1, <1>4, <2>2 DEF CodeAt
<1>5. CASE ~(y[q] < 128) /\ ~(y[q] < 224) /\ y[q] < 240
  <2>1. More(y[q]) = 2
        BY <1>5 DEF More
  <2>2. b[(m + q) + 1] % 64 = y[q + 1] % 64 /\ b[(m + q) + 2] % 64 = y[q + 2] % 64
        BY <1>2, <2>1
  <2> QED
      BY <1>1, <1>5, <2>2 DEF CodeAt
<1>6. CASE ~(y[q] < 128) /\ ~(y[q] < 224) /\ ~(y[q] < 240)
  <2>1. More(y[q]) = 3
        BY <1>6 DEF More
  <2>2. /\ b[(m + q) + 1] % 64 = y[q + 1] % 64 /\ b[(m + q) + 2] % 64 = y[q + 2] % 64
        /\ b[(m + q) + 3] % 64 = y[q + 3] % 64
        BY <1>2, <2>1
  <2> QED
      BY <1>1, <1>6, <2>2 DEF CodeAt
<1> QED
    BY <1>3, <1>4, <1>5, <1>6

LEMMA Utf8Append ==
    ASSUME NEW cp \in Characters, NEW y, y \in Seq(Bytes256)
    PROVE  Utf8Joins(cp, y)
<1>1. PICK x : x = AppendUtf8(cp)
    OBVIOUS
<1>2. PICK b : b = x \o y
    OBVIOUS
<1>3. CodeRead(b, x, cp)
    BY <1>1, CodesRead, Zenon
<1>4. x \in Seq(Bytes256) /\ Len(x) >= 1
    BY <1>3, Zenon DEF CodeRead
<1>5. PICK m \in Nat, n \in Nat, l \in Nat : m = Len(x) /\ n = Len(y) /\ l = m + n /\ m >= 1
    BY <1>4
<1>6. /\ b \in Seq(Bytes256) /\ Len(b) = l
      /\ \A i \in 1..m : b[i] = x[i]
      /\ \A i \in 1..n : b[m + i] = y[i]
    BY <1>2, <1>4, <1>5, ConcatPlaces
<1>7. More(b[1]) + 1 = m /\ CodeAt(b, 1) = cp
    BY <1>3, <1>5, <1>6, Zenon DEF CodeRead, BeginsWith
<1>8. PICK N, piece, step : Utf8Chain(b, N, piece, step)
    BY <1>6, Utf8Steps, Zenon
<1>9. PICK M, piece2, step2 : Utf8Chain(y, M, piece2, step2)
    BY Utf8Steps, Zenon
<1>10. N = l /\ M = n
    BY <1>5, <1>6, <1>8, <1>9, Zenon DEF Utf8Chain
<1>11. PICK f : Chained(f, l, piece, step) /\ Utf8Is(b, f)
    BY <1>6, <1>8, <1>10, Utf8From, Zenon
<1>12. PICK g : Chained(g, n, piece2, step2) /\ Utf8Is(y, g)
    BY <1>9, <1>10, Utf8From, Zenon
<1>13. SameChain(m, n, piece, step, piece2, step2)
  <2>1. ASSUME NEW q \in 1..n PROVE /\ step[m + q] = step2[q]
                                    /\ ~(q + step2[q] > n + 1) => piece[m + q] = piece2[q]
    <3>1. m + q \in 1..l
          BY <1>5
    <3>2. step[m + q] = More(b[m + q]) + 1 /\ piece[m + q] = <<CodeAt(b, m + q)>>
          BY <1>8, <1>10, <3>1, Zenon DEF Utf8Chain
    <3>3. step2[q] = More(y[q]) + 1 /\ piece2[q] = <<CodeAt(y, q)>>
          BY <1>9, <1>10, Zenon DEF Utf8Chain
    <3>4. b[m + q] = y[q]
          BY <1>6
    <3>5. ASSUME ~(q + step2[q] > n + 1) PROVE CodeAt(b, m + q) = CodeAt(y, q)
      <4>1. PICK d \in 0..3 : d = More(y[q])
            BY MoreIs, Zenon
      <4>2. ~(q + (d + 1) > n + 1)
            BY <3>3, <3>5, <4>1, Zenon
      <4>3. q + d <= n
            BY <4>2
      <4> QED
        <5>1. q + More(y[q]) <= n
              BY <4>1, <4>3, Zenon
        <5>2. \A i \in 1..n : b[m + i] = y[i]
              BY <1>6, Zenon
        <5>3. SameCodeAt(b, m + q, y, q)
              BY <5>1, <5>2, SameCode, Zenon
        <5> QED
            BY <5>3, Zenon DEF SameCodeAt
    <3> QED
        BY <3>2, <3>3, <3>4, <3>5, Zenon
  <2> QED
      BY <2>1, Zenon DEF SameChain
<1>14. Steps(n, step2)
    BY <1>9, <1>10, Zenon DEF Utf8Chain
<1>15. f[m + 1] = g[1]
  <2>1. ShiftedTo(f, g, m, 1)
        BY <1>5, <1>11, <1>12, <1>13, <1>14, ChainShifts, Zenon
  <2> QED
      BY <2>1, Zenon DEF ShiftedTo
<1>16. f[1] = <<cp>> \o f[m + 1]
  <2>1. 1 \in 1..l /\ 1 \in 1..(l + 1) /\ ~(1 > l) /\ 1 + m = m + 1 /\ ~(1 + m > l + 1)
        BY <1>5
  <2>2. step[1] = m /\ piece[1] = <<cp>>
        BY <1>7, <1>8, <1>10, <2>1, Zenon DEF Utf8Chain
  <2>3. f[1] = ChainStep(f, l, piece, step, 1)
        BY <1>11, <2>1, Zenon DEF Chained
  <2> QED
      BY <2>1, <2>2, <2>3, Zenon DEF ChainStep
<1>17. Utf8(b) = f[1] /\ Utf8(y) = g[1]
    BY <1>11, <1>12, Zenon DEF Utf8Is
<1>18. Utf8(b) = <<cp>> \o Utf8(y)
    BY <1>15, <1>16, <1>17, Zenon
<1> QED
    BY <1>1, <1>2, <1>18, Zenon DEF Utf8Joins

LEMMA Utf8Nothing == Utf8(<<>>) = <<>>
<1>1. PICK b : b = <<>>
    OBVIOUS
<1>2. b \in Seq(Bytes256) /\ Len(b) = 0
    BY <1>1
<1>3. PICK n, piece, step : Utf8Chain(b, n, piece, step)
    BY <1>2, Utf8Steps, Zenon
<1>4. n = 0
    BY <1>2, <1>3, Zenon DEF Utf8Chain
<1>5. PICK f : Chained(f, 0, piece, step) /\ Utf8Is(b, f)
    BY <1>2, <1>3, <1>4, Utf8From, Zenon
<1>6. 1 \in 1..(0 + 1) /\ 1 > 0
    OBVIOUS
<1>7. f[1] = <<>>
    BY <1>5, <1>6, Zenon DEF Chained, ChainStep
<1> QED
    BY <1>1, <1>5, <1>7, Zenon DEF Utf8Is

(* The characters a text of units stands for, from each unit on.  *)
UnitRange == 0..65535
IsUnits(u, n) == u \in Seq(UnitRange) /\ n \in Nat /\ n = Len(u)
IsPairAt(u, n, p) == p < n /\ IsHigh(u[p]) /\ IsLow(u[p + 1])
PairCode(hi, lo) == 65536 + (hi - 55296) * 1024 + lo - 56320
Utf16Step(u, n, g, p) ==
    IF p > n THEN <<>>
    ELSE IF IsPairAt(u, n, p) THEN <<PairCode(u[p], u[p + 1])>> \o g[p + 2]
    ELSE <<u[p]>> \o g[p + 1]
Units16(u, n, g) == \A p \in 1..(n + 1) : g[p] = Utf16Step(u, n, g, p)
Utf16Is(u, g) == Utf16(u) = g[1]

LEMMA Utf16From ==
    ASSUME NEW u, NEW n, IsUnits(u, n)
    PROVE  \E g : Units16(u, n, g) /\ Utf16Is(u, g)
<1> DEFINE Code(hi, lo) == 65536 + (hi - 55296) * 1024 + lo - 56320
<1> DEFINE Eq(f) == f = [p \in 1..(Len(u) + 1) |->
                IF p > Len(u) THEN <<>>
                ELSE IF p < Len(u) /\ IsHigh(u[p]) /\ IsLow(u[p + 1])
                THEN <<Code(u[p], u[p + 1])>> \o f[p + 2]
                ELSE <<u[p]>> \o f[p + 1]]
           chars == CHOOSE f : Eq(f)
<1>1. Utf16(u) = chars[1]
    BY DEF Utf16
<1>a. \A hi, lo : Code(hi, lo) = PairCode(hi, lo)
    BY DEF PairCode
<1> HIDE DEF Code
<1>2. n \in Nat /\ n = Len(u)
    BY Zenon DEF IsUnits
<1>3. PICK piece : piece = [p \in 1..n |-> IF IsPairAt(u, n, p) THEN <<PairCode(u[p], u[p + 1])>> ELSE <<u[p]>>]
    OBVIOUS
<1>4. PICK step : step = [p \in 1..n |-> IF IsPairAt(u, n, p) THEN 2 ELSE 1]
    OBVIOUS
<1>5. Steps(n, step)
  <2>1. ASSUME NEW p \in 1..n PROVE step[p] \in Nat /\ step[p] >= 1
        BY <1>4
  <2> QED
      BY <2>1, Zenon DEF Steps
<1>6. ASSUME NEW f, NEW p \in 1..(n + 1) PROVE Utf16Step(u, n, f, p) = ChainStep(f, n, piece, step, p)
  <2>1. CASE p > n
        BY <2>1, Zenon DEF ChainStep, Utf16Step
  <2>2. CASE ~(p > n) /\ IsPairAt(u, n, p)
    <3>1. p \in 1..n
          BY <1>2, <2>2
    <3>2. piece[p] = <<PairCode(u[p], u[p + 1])>> /\ step[p] = 2
          BY <1>3, <1>4, <2>2, <3>1, Zenon
    <3>3. p < n
          BY <2>2, Zenon DEF IsPairAt
    <3>4. ~(p + 2 > n + 1)
          BY <1>2, <3>3
    <3> QED
        BY <2>2, <3>2, <3>4, Zenon DEF ChainStep, Utf16Step
  <2>3. CASE ~(p > n) /\ ~IsPairAt(u, n, p)
    <3>1. p \in 1..n /\ ~(p + 1 > n + 1)
          BY <1>2, <2>3
    <3>2. piece[p] = <<u[p]>> /\ step[p] = 1
          BY <1>3, <1>4, <2>3, <3>1, Zenon
    <3> QED
        BY <2>3, <3>1, <3>2, Zenon DEF ChainStep, Utf16Step
  <2> QED
      BY <2>1, <2>2, <2>3
<1>7. ASSUME NEW f, Eq(f) PROVE f = [p \in 1..(n + 1) |-> Utf16Step(u, n, f, p)]
    BY <1>a, <1>2, <1>7, Zenon DEF Utf16Step, IsPairAt
<1>8. ASSUME NEW f, f = [p \in 1..(n + 1) |-> Utf16Step(u, n, f, p)] PROVE Eq(f)
    BY <1>a, <1>2, <1>8, Zenon DEF Utf16Step, IsPairAt
<1>9. PICK h : Chained(h, n, piece, step)
    BY <1>2, <1>5, ChainExists, Zenon
<1>10. PICK f : f = [p \in 1..(n + 1) |-> h[p]]
    OBVIOUS
<1>11. f = [p \in 1..(n + 1) |-> Utf16Step(u, n, f, p)]
  <2>1. ASSUME NEW p \in 1..(n + 1) PROVE h[p] = Utf16Step(u, n, f, p)
    <3>1. \A q \in 1..(n + 1) : q > p => h[q] = f[q]
          BY <1>10, Zenon
    <3>2. ChainStep(h, n, piece, step, p) = ChainStep(f, n, piece, step, p)
          BY <1>2, <1>5, <3>1, ChainDepends
    <3> QED
        BY <1>6, <1>9, <3>2, Zenon DEF Chained
  <2> QED
      BY <1>10, <2>1, Zenon
<1>12. Eq(f)
    BY <1>8, <1>11, Zenon
<1>13. Eq(chars)
    BY <1>12, Zenon
<1>14. chars = [p \in 1..(n + 1) |-> Utf16Step(u, n, chars, p)]
    BY <1>7, <1>13, Zenon
<1> HIDE DEF chars
<1>15. Units16(u, n, chars)
    BY <1>14, Zenon DEF Units16
<1> QED
    BY <1>1, <1>15, Zenon DEF Utf16Is

(* A text of escapes: six bytes for a unit.  *)
UnitText(c) == <<ReverseSolidus, 117>> \o Hex4(c)
UnitParts(part, u, n) == \A k \in 1..n : part[k] = UnitText(u[k])

UnitDigits(c) == [k \in 0..3 |-> IF k = 0 THEN c \div 4096 ELSE IF k = 1 THEN (c \div 256) % 16
                                 ELSE IF k = 2 THEN (c \div 16) % 16 ELSE c % 16]

LEMMA LastFour ==
    ASSUME NEW n \in Nat
    PROVE  \E q \in Nat, r \in 0..15 : q = n \div 16 /\ r = n % 16 /\ q * 16 + r = n
<1>1. n \div 16 \in Nat
    OBVIOUS
<1>2. n % 16 \in 0..15
    OBVIOUS
<1>3. PICK q \in Nat, r \in 0..15 : q = n \div 16 /\ r = n % 16
    BY <1>1, <1>2, Zenon
<1>4. q * 16 + r = n
    BY <1>3
<1> QED
    BY <1>3, <1>4, Zenon

LEMMA DigitsOfUnit ==
    ASSUME NEW c \in UnitRange
    PROVE  UnitDigits(c) \in [0..3 -> 0..15] /\ Hex4Of(UnitDigits(c)) = c
<1>1. c \in Nat /\ c < 65536
    BY DEF UnitRange
<1>0. c \in Nat
    BY <1>1
<1>2. PICK q1 \in Nat, r1 \in 0..15 : q1 = c \div 16 /\ r1 = c % 16 /\ q1 * 16 + r1 = c
    BY <1>0, LastFour, Zenon
<1>3. PICK q2 \in Nat, r2 \in 0..15 : q2 = q1 \div 16 /\ r2 = q1 % 16 /\ q2 * 16 + r2 = q1
    BY LastFour, Zenon
<1>4. PICK q3 \in Nat, r3 \in 0..15 : q3 = q2 \div 16 /\ r3 = q2 % 16 /\ q3 * 16 + r3 = q2
    BY LastFour, Zenon
<1>5. c \div 256 = q2 /\ c \div 4096 = q3
  <2>1. c \div 256 = (c \div 16) \div 16 /\ c \div 4096 = ((c \div 16) \div 16) \div 16
        BY <1>1, SMT
  <2> QED
      BY <1>2, <1>3, <1>4, <2>1, SMT
<1>6. q3 \in 0..15
  <2>1. ((q3 * 16 + r3) * 16 + r2) * 16 + r1 < 65536
        BY <1>1, <1>2, <1>3, <1>4, SMT
  <2>2. q3 \in Nat /\ r3 \in 0..15 /\ r2 \in 0..15 /\ r1 \in 0..15
        BY <1>2, <1>3, <1>4, Zenon
  <2> QED
      BY <2>1, <2>2, SMT
<1>7. PICK h : h = UnitDigits(c)
    OBVIOUS
<1>8. h = [k \in 0..3 |-> IF k = 0 THEN q3 ELSE IF k = 1 THEN r3 ELSE IF k = 2 THEN r2 ELSE r1]
    BY <1>2, <1>3, <1>4, <1>5, <1>7, SMT DEF UnitDigits
<1>9. h \in [0..3 -> 0..15] /\ h[0] = q3 /\ h[1] = r3 /\ h[2] = r2 /\ h[3] = r1
    BY <1>6, <1>8
<1>10. Hex4Of(h) = q3 * 4096 + r3 * 256 + r2 * 16 + r1
    BY <1>9 DEF Hex4Of
<1>11. q3 * 4096 + r3 * 256 + r2 * 16 + r1 = ((q3 * 16 + r3) * 16 + r2) * 16 + r1
  <2>1. q3 \in Nat /\ r3 \in 0..15 /\ r2 \in 0..15 /\ r1 \in 0..15
        BY <1>2, <1>3, <1>4, Zenon
  <2> QED
      BY <2>1, SMT
<1>12. ((q3 * 16 + r3) * 16 + r2) * 16 + r1 = c
    BY <1>2, <1>3, <1>4, Zenon
<1> QED
    BY <1>7, <1>9, <1>10, <1>11, <1>12, SMT

(* Where a unit lies, its escape is read.  *)
IsBackslash(c) == c = ReverseSolidus
UnitSeen(s, a, c) ==
    /\ a + 6 <= Len(s) /\ IsBackslash(s[a + 1]) /\ IsU(Peek(s, a + 2))
    /\ IsBackslash(Peek(s, a + 1)) /\ ParseHex4(s, a + 3) = c

LEMMA UnitTextIs ==
    ASSUME NEW c \in UnitRange, NEW x, x = UnitText(c)
    PROVE  /\ x \in Seq(Bytes256) /\ Len(x) = 6
           /\ x[1] = ReverseSolidus /\ IsU(x[2])
           /\ \A k \in 0..3 : x[3 + k] = HexDigit(UnitDigits(c)[k])
<1>1. PICK h : h = UnitDigits(c) /\ h \in [0..3 -> 0..15]
    BY DigitsOfUnit, Zenon
<1>2. PICK d : d = [k \in 0..3 |-> HexDigit(h[k])]
    OBVIOUS
<1>3. /\ \A k \in 0..3 : d[k] \in Bytes256
  <2>1. ASSUME NEW k \in 0..3 PROVE d[k] \in Bytes256
    <3>1. h[k] \in 0..15
          BY <1>1
    <3>2. HexDigit(h[k]) \in Bytes256
          BY <3>1, HexLine, Zenon DEF LineBytes
    <3> QED
        BY <1>2, <3>2, Zenon
  <2> QED
      BY <2>1
<1>4. 0 \in 0..3 /\ 1 \in 0..3 /\ 2 \in 0..3 /\ 3 \in 0..3
    OBVIOUS
<1>5. Hex4(c) = <<d[0], d[1], d[2], d[3]>>
  <2>1. h[0] = c \div 4096 /\ h[1] = (c \div 256) % 16 /\ h[2] = (c \div 16) % 16 /\ h[3] = c % 16
        BY <1>1, <1>4 DEF UnitDigits
  <2>2. d[0] = HexDigit(h[0]) /\ d[1] = HexDigit(h[1]) /\ d[2] = HexDigit(h[2]) /\ d[3] = HexDigit(h[3])
        BY <1>2, <1>4, Zenon
  <2> QED
      BY <2>1, <2>2, SMT DEF Hex4
<1>6. PICK y, b : y = <<d[0], d[1], d[2], d[3]>> /\ b = <<ReverseSolidus, 117>> /\ x = b \o y
    BY <1>5, Zenon DEF UnitText
<1>7. y \in Seq(Bytes256) /\ Len(y) = 4 /\ \A k \in 0..3 : y[1 + k] = d[k]
  <2>1. d[0] \in Bytes256 /\ d[1] \in Bytes256 /\ d[2] \in Bytes256 /\ d[3] \in Bytes256
        BY <1>3, <1>4, Zenon
  <2>2. y \in Seq(Bytes256) /\ Len(y) = 4
        BY <1>6, <2>1
  <2>3. y[1 + 0] = d[0] /\ y[1 + 1] = d[1] /\ y[1 + 2] = d[2] /\ y[1 + 3] = d[3]
        BY <1>6
  <2> QED
      BY <2>2, <2>3
<1>8. b \in Seq(Bytes256) /\ Len(b) = 2 /\ b[1] = ReverseSolidus /\ IsU(b[2])
    BY <1>6 DEF ReverseSolidus, Bytes256, IsU
<1>9. /\ x \in Seq(Bytes256) /\ Len(x) = Len(b) + Len(y)
      /\ (\A p \in 1..Len(b) : x[p] = b[p]) /\ \A p \in 1..Len(y) : x[Len(b) + p] = y[p]
    BY <1>6, <1>7, <1>8, ConcatPlaces
<1>10. Len(x) = 6 /\ x[1] = b[1] /\ x[2] = b[2]
    BY <1>7, <1>8, <1>9
<1>11. ASSUME NEW k \in 0..3 PROVE x[3 + k] = HexDigit(h[k])
  <2>1. 1 + k \in 1..4 /\ 2 + (1 + k) = 3 + k
        OBVIOUS
  <2>2. x[2 + (1 + k)] = y[1 + k]
        BY <1>7, <1>8, <1>9, <2>1, Zenon
  <2> QED
      BY <1>2, <1>7, <2>1, <2>2, Zenon
<1> QED
    BY <1>1, <1>8, <1>9, <1>10, <1>11, Zenon

LEMMA UnitLies ==
    ASSUME NEW s, s \in Seq(Bytes256), NEW a \in Nat, NEW c \in UnitRange, LiesAfter(UnitText(c), s, a)
    PROVE  UnitSeen(s, a, c)
<1>1. PICK x : x = UnitText(c)
    OBVIOUS
<1>2. /\ x \in Seq(Bytes256) /\ Len(x) = 6
      /\ x[1] = ReverseSolidus /\ IsU(x[2])
      /\ \A k \in 0..3 : x[3 + k] = HexDigit(UnitDigits(c)[k])
    BY <1>1, UnitTextIs, Zenon
<1>3. \A i \in 1..6 : a + i \in 1..Len(s) /\ s[a + i] = x[i] /\ Peek(s, a + i) = x[i]
  <2>1. SeenAfter(x, s, a)
        BY <1>1, <1>2, PeekLies, Zenon
  <2> QED
      BY <1>2, <2>1, Zenon DEF SeenAfter
<1>4. 1 \in 1..6 /\ 2 \in 1..6 /\ 6 \in 1..6 /\ a + 3 \in Nat
    OBVIOUS
<1>5. a + 6 <= Len(s)
  <2>1. a + 6 \in 1..Len(s)
        BY <1>3, <1>4, Zenon
  <2> QED
      BY <2>1
<1>6. PICK h : h = UnitDigits(c) /\ h \in [0..3 -> 0..15] /\ Hex4Of(h) = c
    BY DigitsOfUnit, Zenon
<1>7. HexAt(s, a + 3, h)
  <2>1. ASSUME NEW k \in 0..3 PROVE HexVal(Peek(s, (a + 3) + k)) = h[k]
    <3>1. 3 + k \in 1..6 /\ a + (3 + k) = (a + 3) + k
          OBVIOUS
    <3>2. Peek(s, (a + 3) + k) = HexDigit(h[k])
          BY <1>2, <1>3, <1>6, <3>1, Zenon
    <3>3. h[k] \in 0..15
          BY <1>6
    <3> QED
        BY <3>2, <3>3, HexDigitRead, Zenon
  <2> QED
      BY <1>6, <2>1, Zenon DEF HexAt
<1>8. ParseHex4(s, a + 3) = c
    BY <1>4, <1>6, <1>7, Hex4Read, Zenon
<1> QED
    BY <1>2, <1>3, <1>4, <1>5, <1>8, Zenon DEF UnitSeen, IsBackslash

(* An escape that is one character with the next one, or one alone.  *)
CodeFound(s, at, cp, next) == ParseUnicode(s, at) = [ok |-> TRUE, cp |-> cp, at |-> next]

UnicodeOf(h, l, c, d, at) ==
    IF h = -1 \/ (IsHigh(h) /\ (c = ReverseSolidus /\ d = 117) /\ l = -1) THEN [ok |-> FALSE, cp |-> 0, at |-> 0]
    ELSE IF IsHigh(h) /\ (c = ReverseSolidus /\ d = 117) /\ IsLow(l)
    THEN [ok |-> TRUE, cp |-> 65536 + (h - 55296) * 1024 + (l - 56320), at |-> at + 10]
    ELSE [ok |-> TRUE, cp |-> h, at |-> at + 4]

LEMMA UnicodeIs ==
    ASSUME NEW s, NEW at
    PROVE  ParseUnicode(s, at)
              = UnicodeOf(ParseHex4(s, at), ParseHex4(s, at + 6), Peek(s, at + 4), Peek(s, at + 5), at)
BY SMT DEF ParseUnicode, UnicodeOf

LEMMA UnicodePair ==
    ASSUME NEW s, NEW at \in Nat, NEW hi \in Nat, NEW lo \in Nat, ParseHex4(s, at) = hi, ParseHex4(s, at + 6) = lo,
           IsBackslash(Peek(s, at + 4)), IsU(Peek(s, at + 5)), IsHigh(hi), IsLow(lo)
    PROVE  CodeFound(s, at, PairCode(hi, lo), at + 10)
<1>1. hi # -1 /\ lo # -1
    OBVIOUS
<1>2. PairCode(hi, lo) = 65536 + (hi - 55296) * 1024 + (lo - 56320)
    BY DEF PairCode
<1>3. ParseUnicode(s, at) = UnicodeOf(hi, lo, Peek(s, at + 4), Peek(s, at + 5), at)
    BY UnicodeIs, Zenon
<1>4. ASSUME NEW c, NEW d, IsBackslash(c), IsU(d)
      PROVE  UnicodeOf(hi, lo, c, d, at) = [ok |-> TRUE, cp |-> PairCode(hi, lo), at |-> at + 10]
  <2>1. UnicodeOf(hi, lo, c, d, at)
           = [ok |-> TRUE, cp |-> 65536 + (hi - 55296) * 1024 + (lo - 56320), at |-> at + 10]
        BY <1>1, <1>4 DEF UnicodeOf, IsU, IsBackslash
  <2> QED
      BY <1>2, <2>1, SMT
<1> QED
    BY <1>3, <1>4, Zenon DEF CodeFound

LEMMA UnicodeAlone ==
    ASSUME NEW s, NEW at \in Nat, NEW hi \in Nat, ParseHex4(s, at) = hi,
           ~IsHigh(hi) \/ ~IsBackslash(Peek(s, at + 4))
              \/ (ParseHex4(s, at + 6) # -1 /\ ~IsLow(ParseHex4(s, at + 6)))
    PROVE  CodeFound(s, at, hi, at + 4)
<1>1. hi # -1
    OBVIOUS
<1> QED
    BY <1>1, SMT DEF ParseUnicode, IsBackslash, CodeFound

LEMMA UnitsAreCharacters ==
    /\ UnitRange \subseteq Characters /\ UnitRange \subseteq Nat
    /\ \A hi, lo \in UnitRange : IsHigh(hi) /\ IsLow(lo) => PairCode(hi, lo) \in Characters
<1>1. UnitRange \subseteq Characters /\ UnitRange \subseteq Nat
    BY DEF UnitRange, Characters
<1>2. ASSUME NEW hi \in UnitRange, NEW lo \in UnitRange, IsHigh(hi), IsLow(lo) PROVE PairCode(hi, lo) \in Characters
  <2>1. hi \in Int /\ lo \in Int /\ hi >= 55296 /\ hi <= 56319 /\ lo >= 56320 /\ lo <= 57343
        BY <1>2 DEF IsHigh, IsLow
  <2> QED
      BY <2>1 DEF PairCode, Characters
<1> QED
    BY <1>1, <1>2, Zenon

(* The units of a text of escapes, each where it lies.  *)
UnitPlace(k) == 6 * k - 4
UnitsLie(t, u, n) ==
    /\ t \in Seq(Bytes256) /\ Len(t) = UnitPlace(n + 1)
    /\ t[1] = QuoteMark /\ t[UnitPlace(n + 1)] = QuoteMark
    /\ \A k \in 1..n : UnitSeen(t, UnitPlace(k) - 1, u[k])

LEMMA PartsOfSix ==
    ASSUME NEW n \in Nat, NEW g, NEW part, IsJoin(g, part, n), \A k \in 1..n : Len(part[k]) = 6
    PROVE  \A k \in 0..n : Len(g[k]) = 6 * k
<1> DEFINE S == {k \in 0..n : Len(g[k]) = 6 * k}
<1>1. 0 \in S
  <2>1. g[0] = <<>> /\ 0 \in 0..n
        BY DEF IsJoin
  <2>2. Len(<<>>) = 6 * 0
        OBVIOUS
  <2> QED
      BY <2>1, <2>2, Zenon
<1>2. ASSUME NEW k \in 0..(n - 1), k \in S PROVE k + 1 \in S
  <2>1. k \in 0..n /\ k + 1 \in 0..n /\ k + 1 \in 1..n
        OBVIOUS
  <2>2. PICK x, y : x = g[k] /\ y = part[k + 1] /\ x \in Seq(Bytes256) /\ y \in Seq(Bytes256) /\ g[k + 1] = x \o y
        BY <2>1, Zenon DEF IsJoin
  <2>3. Len(x \o y) = Len(x) + Len(y)
        BY <2>2
  <2>4. Len(x) = 6 * k /\ Len(y) = 6
        BY <1>2, <2>1, <2>2, Zenon
  <2>5. 6 * k + 6 = 6 * (k + 1)
        BY <2>1
  <2> QED
      BY <2>1, <2>2, <2>3, <2>4, <2>5, Zenon
<1> HIDE DEF S
<1>3. \A k \in 0..n : k \in S
    BY <1>1, <1>2, UpTo, Zenon
<1> QED
    BY <1>3, Zenon DEF S

LEMMA EscapedLies ==
    ASSUME NEW u, NEW n, IsUnits(u, n)
    PROVE  UnitsLie(EscapedText(u), u, n)
<1>1. n \in Nat /\ n = Len(u) /\ DOMAIN u = 1..n /\ \A k \in 1..n : u[k] \in UnitRange
  <2>1. n \in Nat /\ n = Len(u) /\ u \in Seq(UnitRange)
        BY Zenon DEF IsUnits
  <2> QED
      BY <2>1
<1>2. PICK part : part = [k \in DOMAIN u |-> UnitText(u[k])]
    OBVIOUS
<1>3. part = [k \in 1..n |-> part[k]] /\ \A k \in 1..n : part[k] = UnitText(u[k])
    BY <1>1, <1>2
<1>4. \A k \in 1..n : part[k] \in Seq(Bytes256) /\ Len(part[k]) = 6
    BY <1>1, <1>3, UnitTextIs, Zenon
<1>5. PICK g : IsJoin(g, part, n) /\ FlattenSeq(part) = g[n]
    BY <1>1, <1>3, <1>4, JoinOf, Zenon
<1>6. \A k \in 0..n : Len(g[k]) = 6 * k
    BY <1>1, <1>4, <1>5, PartsOfSix, Zenon
<1>7. PICK q : q = <<QuoteMark>> /\ q \in Seq(Bytes256) /\ Len(q) = 1 /\ q[1] = QuoteMark
  <2>1. QuoteMark \in Bytes256
        BY DEF QuoteMark, Bytes256
  <2>2. <<QuoteMark>> \in Seq(Bytes256) /\ Len(<<QuoteMark>>) = 1 /\ <<QuoteMark>>[1] = QuoteMark
        BY <2>1
  <2> QED
      BY <2>2, Zenon
<1>8. PICK y : y = g[n] /\ y \in Seq(Bytes256) /\ Len(y) = 6 * n
  <2>1. n \in 0..n
        BY <1>1
  <2> QED
      BY <1>5, <1>6, <2>1, Zenon DEF IsJoin
<1>9. PICK t, w : w = q \o y /\ t = w \o q /\ EscapedText(u) = t
    BY <1>2, <1>5, <1>7, <1>8, Zenon DEF EscapedText, UnitText
<1>10. /\ w \in Seq(Bytes256) /\ Len(w) = Len(q) + Len(y)
       /\ (\A p \in 1..Len(q) : w[p] = q[p]) /\ \A p \in 1..Len(y) : w[Len(q) + p] = y[p]
    BY <1>7, <1>8, <1>9, ConcatPlaces
<1>11. /\ t \in Seq(Bytes256) /\ Len(t) = Len(w) + Len(q)
       /\ (\A p \in 1..Len(w) : t[p] = w[p]) /\ \A p \in 1..Len(q) : t[Len(w) + p] = q[p]
    BY <1>7, <1>9, <1>10, ConcatPlaces
<1>12. PICK m \in Nat : m = 6 * n /\ Len(w) = 1 + m /\ Len(t) = (1 + m) + 1 /\ UnitPlace(n + 1) = (1 + m) + 1
  <2>1. 6 * n \in Nat /\ 6 * (n + 1) - 4 = (1 + 6 * n) + 1
        BY <1>1
  <2> QED
      BY <1>7, <1>8, <1>10, <1>11, <2>1, Zenon DEF UnitPlace
<1>13. LiesAfter(y, t, 1)
  <2>1. 1 + m <= (1 + m) + 1
        OBVIOUS
  <2>2. ASSUME NEW i \in 1..m PROVE t[1 + i] = y[i]
    <3>1. 1 + i \in 1..(1 + m)
          OBVIOUS
    <3>2. t[1 + i] = w[1 + i]
          BY <1>11, <1>12, <3>1, Zenon
    <3>3. w[1 + i] = y[i]
          BY <1>7, <1>8, <1>10, <1>12, Zenon
    <3> QED
        BY <3>2, <3>3, Zenon
  <2> QED
      BY <1>8, <1>12, <2>1, <2>2, Zenon DEF LiesAfter
<1>14. t[1] = QuoteMark /\ t[(1 + m) + 1] = QuoteMark
  <2>1. 1 \in 1..1 /\ 1 \in 1..(1 + m)
        OBVIOUS
  <2>2. t[1] = w[1] /\ w[1] = q[1] /\ t[(1 + m) + 1] = q[1]
        BY <1>7, <1>10, <1>11, <1>12, <2>1, Zenon
  <2> QED
      BY <1>7, <2>2, Zenon
<1>15. ASSUME NEW k \in 1..n PROVE UnitSeen(t, UnitPlace(k) - 1, u[k])
  <2>1. PICK j \in Nat : j \in 0..(n - 1) /\ j + 1 = k /\ j \in 0..n /\ UnitPlace(k) - 1 = 1 + 6 * j /\ 1 + 6 * j \in Nat
    <3>1. /\ k - 1 \in Nat /\ k - 1 \in 0..(n - 1) /\ (k - 1) + 1 = k /\ k - 1 \in 0..n
          /\ (6 * k - 4) - 1 = 1 + 6 * (k - 1) /\ 1 + 6 * (k - 1) \in Nat
          BY <1>1
    <3> QED
        BY <3>1, Zenon DEF UnitPlace
  <2>2. LiesAfter(part[j + 1], t, 1 + Len(g[j]))
    <3>1. 1 \in Nat /\ n \in 0..n /\ n \in Nat
          BY <1>1
    <3>2. LiesAfter(g[n], t, 1)
          BY <1>8, <1>13, Zenon
    <3> QED
        BY <1>5, <1>11, <2>1, <3>1, <3>2, PartsLie, Zenon
  <2>3. LiesAfter(UnitText(u[k]), t, 1 + 6 * j)
        BY <1>3, <1>6, <2>1, <2>2, Zenon
  <2> QED
      BY <1>1, <1>11, <2>1, <2>3, UnitLies, Zenon
<1>16. UnitsLie(t, u, n)
    BY <1>11, <1>12, <1>14, <1>15, Zenon DEF UnitsLie
<1> QED
    BY <1>9, <1>16, Zenon

(* What a text of escapes is read as, from the unit at p on.  *)
ReadAs(f, i, end, chars) ==
    \E w \in Seq(Bytes256) : f[i] = Is(w, end) /\ Utf8(w) = chars

LEMMA CharacterMore ==
    ASSUME NEW f, NEW i, NEW j, NEW end, NEW chars, NEW cp \in Characters,
           f[i] = Then(AppendUtf8(cp), f[j]), ReadAs(f, j, end, chars)
    PROVE  ReadAs(f, i, end, <<cp>> \o chars)
<1>1. PICK w \in Seq(Bytes256) : f[j] = Is(w, end) /\ Utf8(w) = chars
    BY Zenon DEF ReadAs
<1>2. PICK x : x = AppendUtf8(cp) /\ x \in Seq(Bytes256)
    BY CodesRead, Zenon DEF CodeRead
<1>3. PICK y : y = x \o w /\ y \in Seq(Bytes256)
  <2>1. x \in Seq(Bytes256)
        BY <1>2, Zenon
  <2>2. x \o w \in Seq(Bytes256)
        BY <2>1
  <2> QED
      BY <2>2, Zenon
<1>4. Utf8(y) = <<cp>> \o chars
    BY <1>1, <1>2, <1>3, Utf8Append, Zenon DEF Utf8Joins
<1>5. f[i] = Is(y, end)
  <2>1. Is(w, end).ok /\ Is(w, end).v = w /\ Is(w, end).at = end
        BY DEF Is
  <2> QED
      BY <1>1, <1>2, <1>3, <2>1, Zenon DEF Then
<1> QED
    BY <1>3, <1>4, <1>5, Zenon DEF ReadAs

CodeThen(f, s, at, cp, next) == UnicodeFrom(f, ParseUnicode(s, at)) = Then(AppendUtf8(cp), f[next])

LEMMA UnicodeFound ==
    ASSUME NEW s, NEW f, NEW at, NEW cp, NEW next, CodeFound(s, at, cp, next)
    PROVE  CodeThen(f, s, at, cp, next)
<1>1. PICK r : r = ParseUnicode(s, at) /\ r = [ok |-> TRUE, cp |-> cp, at |-> next]
    BY Zenon DEF CodeFound
<1>2. r.ok /\ r.cp = cp /\ r.at = next
    BY <1>1
<1> QED
    BY <1>1, <1>2, Zenon DEF UnicodeFrom, CodeThen

UnitRead(f, u, n, g, p) == ReadAs(f, UnitPlace(p), UnitPlace(n + 1) + 1, g[p])

LEMMA UnitReads ==
    ASSUME NEW u, NEW n, IsUnits(u, n), NEW g, Units16(u, n, g),
           NEW t, UnitsLie(t, u, n), NEW f, IsChars(f, t),
           NEW p \in 1..n, UnitRead(f, u, n, g, p + 1), p < n => UnitRead(f, u, n, g, p + 2)
    PROVE  UnitRead(f, u, n, g, p)
<1>1. /\ n \in Nat /\ \A k \in 1..n : u[k] \in UnitRange
      /\ t \in Seq(Bytes256)
  <2>1. n \in Nat /\ n = Len(u) /\ u \in Seq(UnitRange)
        BY Zenon DEF IsUnits
  <2>2. \A k \in 1..n : u[k] \in UnitRange
        BY <2>1
  <2> QED
      BY <2>1, <2>2, Zenon DEF UnitsLie
<1>2. PICK a \in Nat : a = UnitPlace(p) - 1 /\ a + 1 = UnitPlace(p) /\ UnitPlace(p + 1) = a + 7 /\ UnitPlace(p + 2) = a + 13
    BY <1>1 DEF UnitPlace
<1>3. PICK hi : hi = u[p] /\ hi \in UnitRange /\ hi \in Nat /\ hi \in Characters /\ UnitSeen(t, a, hi)
    BY <1>1, <1>2, UnitsAreCharacters, Zenon DEF UnitsLie
<1>4. /\ a + 6 <= Len(t) /\ t[a + 1] = ReverseSolidus /\ IsU(Peek(t, a + 2)) /\ ParseHex4(t, a + 3) = hi
    BY <1>3, Zenon DEF UnitSeen, IsBackslash
<1>5. f[a + 1] = UnicodeFrom(f, ParseUnicode(t, a + 3))
  <2>1. a + 1 \in Nat /\ a + 1 <= Len(t) /\ (a + 1) + 1 = a + 2 /\ (a + 1) + 2 = a + 3
        BY <1>1, <1>4
  <2>2. f[a + 1] = UnicodeFrom(f, ParseUnicode(t, (a + 1) + 2))
        BY <1>1, <1>4, <2>1, UnicodeStep, Zenon
  <2> QED
      BY <2>1, <2>2, Zenon
<1>6. /\ a + 3 \in Nat /\ (a + 3) + 4 = a + 7 /\ (a + 3) + 5 = a + 8 /\ (a + 3) + 6 = a + 9 /\ (a + 3) + 10 = a + 13
    OBVIOUS
<1>7. g[p] = Utf16Step(u, n, g, p) /\ ~(p > n)
  <2>1. p \in 1..(n + 1) /\ ~(p > n)
        BY <1>1
  <2> QED
      BY <2>1, Zenon DEF Units16
<1>8. ASSUME p < n
      PROVE  \E lo \in UnitRange : /\ lo = u[p + 1] /\ lo \in Nat /\ ParseHex4(t, a + 9) = lo
                                   /\ IsBackslash(Peek(t, a + 7)) /\ IsU(Peek(t, a + 8))
  <2>1. p + 1 \in 1..n /\ (a + 7) - 1 = a + 6 /\ (a + 6) + 1 = a + 7 /\ (a + 6) + 2 = a + 8 /\ (a + 6) + 3 = a + 9
        BY <1>1, <1>8
  <2>2. PICK lo : lo = u[p + 1] /\ lo \in UnitRange /\ lo \in Nat
        BY <1>1, <2>1, UnitsAreCharacters, Zenon
  <2>3. UnitSeen(t, a + 6, lo)
        BY <1>2, <2>1, <2>2, Zenon DEF UnitsLie
  <2>4. ParseHex4(t, a + 9) = lo /\ IsBackslash(Peek(t, a + 7)) /\ IsU(Peek(t, a + 8))
        BY <2>1, <2>3, Zenon DEF UnitSeen
  <2> QED
      BY <2>2, <2>4, Zenon
<1>9. CASE IsPairAt(u, n, p)
  <2>1. p < n /\ IsHigh(hi) /\ IsLow(u[p + 1])
        BY <1>3, <1>9, Zenon DEF IsPairAt
  <2>2. PICK lo \in UnitRange : /\ lo = u[p + 1] /\ lo \in Nat /\ ParseHex4(t, a + 9) = lo
                                /\ IsBackslash(Peek(t, a + 7)) /\ IsU(Peek(t, a + 8))
        BY <1>8, <2>1, Zenon
  <2>3. CodeFound(t, a + 3, PairCode(hi, lo), (a + 3) + 10)
        BY <1>3, <1>4, <1>6, <2>1, <2>2, UnicodePair, Zenon
  <2>4. f[a + 1] = Then(AppendUtf8(PairCode(hi, lo)), f[a + 13])
    <3>1. CodeThen(f, t, a + 3, PairCode(hi, lo), (a + 3) + 10)
          BY <2>3, UnicodeFound, Zenon
    <3> QED
        BY <1>5, <1>6, <3>1, Zenon DEF CodeThen
  <2>5. ReadAs(f, a + 1, UnitPlace(n + 1) + 1, <<PairCode(hi, lo)>> \o g[p + 2])
    <3>1. PairCode(hi, lo) \in Characters
          BY <1>3, <2>1, <2>2, UnitsAreCharacters, Zenon
    <3>2. ReadAs(f, a + 13, UnitPlace(n + 1) + 1, g[p + 2])
          BY <1>2, <2>1, Zenon DEF UnitRead
    <3> QED
        BY <2>4, <3>1, <3>2, CharacterMore, Zenon
  <2>6. g[p] = <<PairCode(hi, lo)>> \o g[p + 2]
        BY <1>3, <1>7, <1>9, <2>2, Zenon DEF Utf16Step
  <2> QED
      BY <1>2, <2>5, <2>6, Zenon DEF UnitRead
<1>10. CASE ~IsPairAt(u, n, p)
  <2>1. CodeFound(t, a + 3, hi, (a + 3) + 4)
    <3>1. CASE p < n
      <4>1. PICK lo \in UnitRange : /\ lo = u[p + 1] /\ lo \in Nat /\ ParseHex4(t, a + 9) = lo
                                    /\ IsBackslash(Peek(t, a + 7)) /\ IsU(Peek(t, a + 8))
            BY <1>8, <3>1, Zenon
      <4>2. lo # -1
            BY <4>1
      <4>3. ~IsHigh(hi) \/ ~IsLow(lo)
            BY <1>3, <1>10, <3>1, <4>1, Zenon DEF IsPairAt
      <4> QED
          BY <1>3, <1>4, <1>6, <4>1, <4>2, <4>3, UnicodeAlone, Zenon
    <3>2. CASE ~(p < n)
      <4>1. p = n
            BY <1>1, <3>2
      <4>2. a + 7 = Len(t) /\ a + 7 \in 1..Len(t) /\ a + 7 \in Nat
        <5>1. a + 7 = Len(t)
              BY <1>2, <4>1, Zenon DEF UnitsLie
        <5> QED
            BY <5>1
      <4>3. Peek(t, a + 7) = QuoteMark
        <5>1. t[a + 7] = QuoteMark
              BY <1>2, <4>1, Zenon DEF UnitsLie
        <5> QED
            BY <1>1, <4>2, <5>1, PeekIn, Zenon
      <4>4. ~IsBackslash(Peek(t, a + 7))
        <5>1. QuoteMark # ReverseSolidus
              BY DEF QuoteMark, ReverseSolidus
        <5> QED
            BY <4>3, <5>1, Zenon DEF IsBackslash
      <4> QED
          BY <1>3, <1>4, <1>6, <4>4, UnicodeAlone, Zenon
    <3> QED
        BY <3>1, <3>2
  <2>2. f[a + 1] = Then(AppendUtf8(hi), f[a + 7])
    <3>1. CodeThen(f, t, a + 3, hi, (a + 3) + 4)
          BY <2>1, UnicodeFound, Zenon
    <3> QED
        BY <1>5, <1>6, <3>1, Zenon DEF CodeThen
  <2>3. ReadAs(f, a + 1, UnitPlace(n + 1) + 1, <<hi>> \o g[p + 1])
    <3>1. ReadAs(f, a + 7, UnitPlace(n + 1) + 1, g[p + 1])
          BY <1>2, Zenon DEF UnitRead
    <3> QED
        BY <1>3, <2>2, <3>1, CharacterMore, Zenon
  <2>4. g[p] = <<hi>> \o g[p + 1]
        BY <1>3, <1>7, <1>10, Zenon DEF Utf16Step
  <2> QED
      BY <1>2, <2>3, <2>4, Zenon DEF UnitRead
<1> QED
    BY <1>9, <1>10

LEMMA UnitsRead ==
    ASSUME NEW u, NEW n, IsUnits(u, n), NEW g, Units16(u, n, g),
           NEW t, UnitsLie(t, u, n), NEW f, IsChars(f, t)
    PROVE  UnitRead(f, u, n, g, 1)
<1>1. n \in Nat /\ t \in Seq(Bytes256)
    BY Zenon DEF IsUnits, UnitsLie
<1> DEFINE S == {k \in 0..n : \A p \in 1..(n + 1) : p >= (n + 1) - k => UnitRead(f, u, n, g, p)}
<1>2. 0 \in S
  <2>1. UnitRead(f, u, n, g, n + 1)
    <3>1. PICK q \in Nat : q = UnitPlace(n + 1) /\ q = Len(t) /\ q <= Len(t) /\ t[q] = QuoteMark
      <4>1. UnitPlace(n + 1) \in Nat /\ UnitPlace(n + 1) <= UnitPlace(n + 1)
            BY <1>1 DEF UnitPlace
      <4> QED
          BY <4>1, Zenon DEF UnitsLie
    <3>2. f[q] = Is(<<>>, q + 1)
          BY <1>1, <3>1, CharSteps, Zenon
    <3>3. g[n + 1] = <<>>
      <4>1. n + 1 \in 1..(n + 1) /\ n + 1 > n
            BY <1>1
      <4> QED
          BY <4>1, Zenon DEF Units16, Utf16Step
    <3>4. <<>> \in Seq(Bytes256)
          OBVIOUS
    <3>5. ReadAs(f, q, q + 1, g[n + 1])
          BY <3>2, <3>3, <3>4, Utf8Nothing, Zenon DEF ReadAs
    <3> QED
        BY <3>1, <3>5, Zenon DEF UnitRead
  <2>2. ASSUME NEW p \in 1..(n + 1), p >= (n + 1) - 0 PROVE p = n + 1
        BY <1>1, <2>2
  <2>3. 0 \in 0..n
        BY <1>1
  <2> QED
      BY <2>1, <2>2, <2>3, Zenon
<1>3. ASSUME NEW k \in 0..(n - 1), k \in S PROVE k + 1 \in S
  <2>1. \A p \in 1..(n + 1) : p >= (n + 1) - k => UnitRead(f, u, n, g, p)
        BY <1>3
  <2>2. PICK c \in 1..n : c = (n + 1) - (k + 1) /\ c + 1 = (n + 1) - k /\ c + 1 \in 1..(n + 1)
    <3>1. (n + 1) - (k + 1) \in 1..n /\ ((n + 1) - (k + 1)) + 1 = (n + 1) - k /\ ((n + 1) - (k + 1)) + 1 \in 1..(n + 1)
          BY <1>1
    <3> QED
        BY <3>1, Zenon
  <2>3. UnitRead(f, u, n, g, c + 1)
    <3>1. c + 1 >= (n + 1) - k
          BY <1>1, <2>2
    <3> QED
        BY <2>1, <2>2, <3>1, Zenon
  <2>4. ASSUME c < n PROVE UnitRead(f, u, n, g, c + 2)
    <3>1. c + 2 \in 1..(n + 1) /\ c + 2 >= (n + 1) - k
          BY <1>1, <2>2, <2>4
    <3> QED
        BY <2>1, <3>1, Zenon
  <2>5. UnitRead(f, u, n, g, c)
        BY <2>3, <2>4, UnitReads, Zenon
  <2>6. ASSUME NEW p \in 1..(n + 1), p >= (n + 1) - (k + 1) PROVE UnitRead(f, u, n, g, p)
    <3>1. p = c \/ p >= (n + 1) - k
          BY <1>1, <2>2, <2>6
    <3> QED
        BY <2>1, <2>5, <3>1, Zenon
  <2>7. k + 1 \in 0..n
        BY <1>1
  <2> QED
      BY <2>6, <2>7, Zenon
<1>4. \A k \in 0..n : k \in S
  <2> HIDE DEF S
  <2> QED
      BY <1>1, <1>2, <1>3, UpTo, Zenon
<1>5. n \in 0..n /\ 1 \in 1..(n + 1) /\ 1 >= (n + 1) - n
    BY <1>1
<1> QED
    BY <1>4, <1>5, Zenon

(* A text of escapes is read as the characters meant.  *)
EscapesAreRead(u, r) == r.ok /\ Utf8(r.v.s) = Utf16(u)

LEMMA EscapesRead ==
    ASSUME NEW u, NEW n, IsUnits(u, n)
    PROVE  EscapesAreRead(u, Parse(EscapedText(u)))
<1>1. PICK t : t = EscapedText(u) /\ UnitsLie(t, u, n)
    BY EscapedLies, Zenon
<1>2. n \in Nat /\ t \in Seq(Bytes256) /\ Len(t) = UnitPlace(n + 1) /\ t[1] = QuoteMark
    BY <1>1, Zenon DEF IsUnits, UnitsLie
<1>3. PICK g : Units16(u, n, g) /\ Utf16(u) = g[1]
    BY Utf16From, Zenon DEF Utf16Is
<1>4. PICK f : IsChars(f, t) /\ \A at : ParseString(t, at) = StringRead(f[at + 1])
    BY <1>2, Strings, Zenon
<1>5. PICK w \in Seq(Bytes256) : f[2] = Is(w, Len(t) + 1) /\ Utf8(w) = Utf16(u)
  <2>1. UnitRead(f, u, n, g, 1)
        BY <1>1, <1>3, <1>4, UnitsRead, Zenon
  <2>2. UnitPlace(1) = 2
        BY DEF UnitPlace
  <2> QED
      BY <1>2, <1>3, <2>1, <2>2, Zenon DEF UnitRead, ReadAs
<1>6. ParseString(t, 1) = Is(StringValue(w), Len(t) + 1)
  <2>1. ParseString(t, 1) = StringRead(Is(w, Len(t) + 1))
    <3>1. 1 + 1 = 2
          OBVIOUS
    <3> QED
        BY <1>4, <1>5, <3>1, Zenon
  <2>2. Is(w, Len(t) + 1).ok /\ Is(w, Len(t) + 1).v = w /\ Is(w, Len(t) + 1).at = Len(t) + 1
        BY DEF Is
  <2> QED
      BY <2>1, <2>2, Zenon DEF StringRead
<1>7. PICK h : IsParser(h, t) /\ Parse(t) = TextRead(t, h[<<"value", 1>>])
    BY <1>2, ParserOf, Zenon
<1>8. h[<<"value", 1>>] = ParseString(t, 1)
  <2>1. 1 \in 1..Len(t) /\ 1 \in Nat /\ 1 <= 1 /\ 1 <= Len(t) + 1
        BY <1>2 DEF UnitPlace
  <2>2. Peek(t, 1) = QuoteMark
        BY <1>2, <2>1, PeekIn, Zenon
  <2>3. QuoteMark \notin Blanks
        BY DEF QuoteMark, Blanks
  <2>4. ValueAt(h, t, 1)
        BY <1>2, <1>7, <2>1, <2>2, <2>3, ValueStarts, Zenon
  <2>5. \A later : ValueFrom(t, later, 1, QuoteMark) = ParseString(t, 1)
        BY ValueFromIs, Zenon
  <2> QED
      BY <2>2, <2>4, <2>5, Zenon DEF ValueAt
<1>9. PICK r : r = h[<<"value", 1>>] /\ r.ok /\ r.at = Len(t) + 1 /\ r.v = StringValue(w)
  <2>1. PICK r : r = h[<<"value", 1>>] /\ r = Is(StringValue(w), Len(t) + 1)
        BY <1>6, <1>8, Zenon
  <2>2. r.ok /\ r.at = Len(t) + 1 /\ r.v = StringValue(w)
        BY <2>1 DEF Is
  <2> QED
      BY <2>1, <2>2, Zenon
<1>10. Parse(t) = r
  <2>1. SkipWs(t, r.at) = Len(t) + 1
        BY <1>2, <1>9, PastEnd, Zenon
  <2> QED
      BY <1>7, <1>9, <2>1, Zenon DEF TextRead
<1>11. r.v.s = w
  <2>1. StringValue(w).s = w
        BY DEF StringValue
  <2> QED
      BY <1>9, <2>1, Zenon
<1> QED
    BY <1>1, <1>5, <1>9, <1>10, <1>11, Zenon DEF EscapesAreRead

(* What is dumped parses to the same value and is one line, cut it does    *)
(* not parse, and text of escapes is read as the characters meant.         *)
THEOREM JsonTextsRoundTrip == Spec => []JsonRoundTrips
<1>1. Computed => JsonRoundTrips
  <2> SUFFICES ASSUME Computed PROVE JsonRoundTrips
      OBVIOUS
  <2>1. ASSUME Answered("json")
        PROVE  DumpIsRead(job.v, out) /\ DumpIsLine(out) /\ DumpCutFails(job.v, out)
        BY <2>1, JsonAnswer, Zenon DEF Answered
  <2>2. ASSUME Answered("escapes")
        PROVE  out.ok /\ Utf8(out.v.s) = Utf16(job.units)
    <3>1. done /\ job.kind = "escapes"
          BY <2>2, Zenon DEF Answered
    <3>2. out = Parse(EscapedText(job.units))
          BY <3>1 DEF Computed, Result
    <3>3. job.units \in Seq(UnitRange)
          BY <3>1 DEF Computed, JobsAssumed, UnitRange
    <3>4. IsUnits(job.units, Len(job.units))
      <4>1. Len(job.units) \in Nat
            BY <3>3
      <4> QED
          BY <3>3, <4>1, Zenon DEF IsUnits
    <3>5. EscapesAreRead(job.units, out)
          BY <3>2, <3>4, EscapesRead, Zenon
    <3> QED
        BY <3>5, Zenon DEF EscapesAreRead
  <2> QED
      BY <2>1, <2>2, Zenon DEF JsonRoundTrips, DumpIsRead, DumpIsLine, DumpCutFails, Is
<1> QED
    BY <1>1, ComputedHolds, PTL
=============================================================================
