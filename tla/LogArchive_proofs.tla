-------------------------- MODULE LogArchive_proofs --------------------------
(***************************************************************************)
(* For any options, records and exports: the files on disk are the end of  *)
(* what was written, neither one of them nor all together outgrow their    *)
(* limits, an export that ends has sent the bytes of its snapshot, the     *)
(* archive is a log that loses only its beginning, nobody waits for its    *)
(* lock but for exports that may end, and every cleanup has an outcome.    *)
(***************************************************************************)
EXTENDS LogArchive, FiniteSetTheorems, WellFoundedInduction, SequenceTheorems, TLAPS

\* The files d of an archive that has created n files and written a bytes by day
\* t: names and days grow together, what one file ends with is what the next
\* begins with, and the last one ends with the last byte.
FilesOK(d, n, a, t) ==
  /\ d \subseteq File
  /\ \A f \in d : /\ f.name <= n /\ f.lo <= f.hi /\ f.hi <= a /\ f.mod <= t
                  /\ Size(f) <= MaxFileBytes
  /\ \A f, g \in d : f.name = g.name => f = g
  /\ \A f, g \in d : f.name < g.name => f.mod <= g.mod /\ f.hi <= g.lo
  /\ \A f \in d : IF f.name = n THEN f.hi = a
                  ELSE \E g \in d : g.name = f.name + 1 /\ g.lo = f.hi

\* While the process is up the newest file is the one cleanup keeps, and is open
\* until writing ends.
CurrentOK ==
  /\ worker # "idle" => up
  /\ up => /\ currentPath = names
           /\ \E f \in disk : f.name = names
           /\ ~closed /\ ~writeDisabled => file = names
           /\ file # None => /\ file = names
                             /\ \A f \in disk : f.name = names => Size(f) = currentSize

\* The files an export has left reach from the last byte it has sent to the end
\* of its snapshot.
LeftOK(l, u) ==
  /\ \A f \in l : f.lo <= f.hi
  /\ \A f, g \in l : f.name = g.name => f = g
  /\ \A f \in l : \/ f.hi = u /\ \A g \in l : g.name <= f.name
                  \/ \E g \in l : g.name = f.name + 1 /\ g.lo = f.hi

\* The export has sent the bytes of the snapshot up to the first file it has left.
SentOK(l, o, a, u) ==
  /\ l = {} => o = Span(a, u)
  /\ \A f \in l : (\A g \in l : f.name <= g.name) => a <= f.lo /\ o = Span(a, f.lo)

OnDisk(l, d) == \A f \in l : \E g \in d : g.name = f.name /\ g.lo = f.lo /\ g.hi >= f.hi

ReadingOK ==
  \A e \in Exports :
    /\ export[e] = "reading" => /\ up /\ e \in readers
                                /\ LeftOK(left[e], upto[e])
                                /\ SentOK(left[e], out[e], from[e], upto[e])
                                /\ OnDisk(left[e], disk)
    /\ export[e] = "done" => out[e] = Span(from[e], upto[e])

DiskOK == FilesOK(disk, names, archived, today)

Inv == TypeOK /\ DiskOK /\ CurrentOK /\ ReadingOK

-----------------------------------------------------------------------------
(* Files *)

\* The listing is in the order of the days: what a cleanup removes from an
\* archive whose newest file it keeps, if it keeps one, is its beginning.
LEMMA RemovalOK ==
  ASSUME NEW active, DiskOK, TypeOK, active \in {None, names},
         NEW gone \in Removals(active)
  PROVE  /\ FilesOK(disk \ gone, names, archived, today)
         /\ \A f \in disk : f.name = active => f \notin gone
<1>1. /\ gone \subseteq disk
      /\ \A f \in gone : f.name # active
      /\ \A f \in gone, g \in disk : g.name # active /\ Precedes(g, f) => g \in gone
  BY DEF Removals, Others
<1>2. \A f \in disk : f.name \in Nat /\ f.lo \in Nat /\ f.hi \in Nat /\ f.mod \in Nat
  BY DEF TypeOK, File
<1>3. today \in Nat /\ MaxAge \in Nat /\ PreferredMinAge \in Nat /\ names \in Nat /\ None \notin Nat
  BY OptionsAssumption, BoundsAssumption DEF TypeOK, ValidOptions
<1>4. ASSUME NEW f \in disk, NEW g \in disk, f.name < g.name, g \in gone
      PROVE  f \in gone
  <2>1. f.mod <= g.mod /\ g.name <= names
    BY <1>4 DEF DiskOK, FilesOK
  <2>2. f.name # active
    BY <1>2, <1>3, <1>4, <2>1
  <2>3. (Expired(g) => Expired(f)) /\ (Recent(f) => Recent(g))
    BY <1>2, <1>3, <2>1 DEF Expired, Recent
  <2>4. Precedes(f, g)
    BY <2>3, <1>4 DEF Precedes
  <2> QED
    BY <1>1, <1>4, <2>2, <2>4
<1>5. ASSUME NEW f \in disk \ gone, f.name # names
      PROVE  \E g \in disk \ gone : g.name = f.name + 1 /\ g.lo = f.hi
  <2>1. PICK g \in disk : g.name = f.name + 1 /\ g.lo = f.hi
    BY <1>5 DEF DiskOK, FilesOK
  <2>2. g \notin gone
    BY <1>2, <1>4, <2>1
  <2> QED
    BY <2>1, <2>2
<1>6. \A f \in disk \ gone : IF f.name = names THEN f.hi = archived
                             ELSE \E g \in disk \ gone : g.name = f.name + 1 /\ g.lo = f.hi
  BY <1>5 DEF DiskOK, FilesOK
<1>7. FilesOK(disk \ gone, names, archived, today)
  BY <1>6 DEF DiskOK, FilesOK
<1> QED
  BY <1>1, <1>7

\* A new file.
LEMMA CreationOK ==
  ASSUME NEW d, NEW n \in Nat, NEW a \in Nat, NEW t \in Nat, FilesOK(d, n, a, t),
         NEW f \in File, f.name = n + 1, f.lo = a, f.hi = a, f.mod = t
  PROVE  FilesOK(d \cup {f}, n + 1, a, t)
<1>1. \A g \in d : /\ g.name \in Nat /\ g.lo \in Nat /\ g.hi \in Nat /\ g.mod \in Nat
                   /\ g.name <= n /\ g.hi <= a /\ g.mod <= t
  BY DEF FilesOK, File
<1>2. Size(f) <= MaxFileBytes
  BY OptionsAssumption DEF Size, ValidOptions
<1>3. \A g, h \in d \cup {f} : g.name = h.name => g = h
  BY <1>1 DEF FilesOK
<1>4. \A g, h \in d \cup {f} : g.name < h.name => g.mod <= h.mod /\ g.hi <= h.lo
  BY <1>1 DEF FilesOK
<1>5. ASSUME NEW g \in d
      PROVE  \E h \in d \cup {f} : h.name = g.name + 1 /\ h.lo = g.hi
  <2>1. CASE g.name = n
    BY <2>1 DEF FilesOK
  <2>2. CASE g.name # n
    BY <2>2 DEF FilesOK
  <2> QED
    BY <2>1, <2>2
<1>6. \A g \in d \cup {f} : IF g.name = n + 1 THEN g.hi = a
                            ELSE \E h \in d \cup {f} : h.name = g.name + 1 /\ h.lo = g.hi
  BY <1>1, <1>5
<1>7. \A g \in d \cup {f} : /\ g.name <= n + 1 /\ g.lo <= g.hi /\ g.hi <= a /\ g.mod <= t
                            /\ Size(g) <= MaxFileBytes
  BY <1>1, <1>2 DEF FilesOK
<1>8. d \cup {f} \subseteq File
  BY DEF FilesOK
<1> QED
  BY <1>3, <1>4, <1>6, <1>7, <1>8 DEF FilesOK

\* The newest file grows by k bytes.
LEMMA GrowthOK ==
  ASSUME NEW d, NEW n \in Nat, NEW a \in Nat, NEW t \in Nat, FilesOK(d, n, a, t),
         NEW f \in d, f.name = n, NEW k \in Nat, Size(f) + k <= MaxFileBytes,
         NEW g \in File, g.name = n, g.lo = f.lo, g.hi = f.hi + k, f.mod <= g.mod, g.mod <= t
  PROVE  FilesOK((d \ {f}) \cup {g}, n, a + k, t)
<1> DEFINE e == (d \ {f}) \cup {g}
<1>1. \A h \in d : /\ h.name \in Nat /\ h.lo \in Nat /\ h.hi \in Nat /\ h.mod \in Nat
                   /\ h.name <= n /\ h.lo <= h.hi /\ h.hi <= a /\ h.mod <= t
                   /\ Size(h) <= MaxFileBytes
  BY DEF FilesOK, File
<1>2. \A h \in d \ {f} : h.name < n
  BY <1>1 DEF FilesOK
<1>3. f.hi = a
  BY DEF FilesOK
<1>4. Size(g) <= MaxFileBytes
  BY <1>1, OptionsAssumption DEF Size, ValidOptions
<1>5. \A h, i \in e : h.name = i.name => h = i
  BY <1>1, <1>2 DEF FilesOK
<1>6. \A h, i \in e : h.name < i.name => h.mod <= i.mod /\ h.hi <= i.lo
  <2>1. \A h \in d \ {f} : h.mod <= f.mod /\ h.hi <= f.lo
    BY <1>2 DEF FilesOK
  <2>2. \A h, i \in d \ {f} : h.name < i.name => h.mod <= i.mod /\ h.hi <= i.lo
    BY DEF FilesOK
  <2>3. \A h \in d \ {f} : h.mod <= g.mod /\ h.hi <= g.lo
    BY <2>1, <1>1 DEF File
  <2>4. \A h \in d \ {f} : ~(g.name < h.name)
    BY <1>1
  <2>5. ~(g.name < g.name)
    BY DEF File
  <2> QED
    BY <2>2, <2>3, <2>4, <2>5
<1>7. ASSUME NEW h \in d \ {f}
      PROVE  \E i \in e : i.name = h.name + 1 /\ i.lo = h.hi
  <2>1. PICK i \in d : i.name = h.name + 1 /\ i.lo = h.hi
    BY <1>1, <1>2 DEF FilesOK
  <2>2. CASE i = f
    BY <2>1, <2>2
  <2>3. CASE i # f
    BY <2>1, <2>3
  <2> QED
    BY <2>2, <2>3
<1>8. \A h \in e : IF h.name = n THEN h.hi = a + k
                   ELSE \E i \in e : i.name = h.name + 1 /\ i.lo = h.hi
  BY <1>1, <1>2, <1>3, <1>7
<1>9. \A h \in e : /\ h.name <= n /\ h.lo <= h.hi /\ h.hi <= a + k /\ h.mod <= t
                   /\ Size(h) <= MaxFileBytes
  BY <1>1, <1>3, <1>4
<1>10. e \subseteq File
  BY DEF FilesOK
<1> QED
  BY <1>5, <1>6, <1>8, <1>9, <1>10 DEF FilesOK

-----------------------------------------------------------------------------
(* The bytes on disk *)

\* An archive holds finitely many bytes.
LEMMA HeldFinite ==
  ASSUME NEW d, NEW n \in Nat, NEW a \in Nat, NEW t, FilesOK(d, n, a, t)
  PROVE  IsFiniteSet(Held(d)) /\ Bytes(d) \in Nat
<1>1. \A f \in d : /\ f.name \in Nat /\ f.lo \in Nat /\ f.hi \in Nat
                   /\ f.name <= n /\ f.hi <= a
  BY DEF FilesOK, File
<1>2. Held(d) \in SUBSET ((0..n) \X (1..a))
  <2>1. ASSUME NEW f \in d
        PROVE  {f.name} \X ((f.lo + 1)..f.hi) \subseteq (0..n) \X (1..a)
    <3>1. f.name \in 0..n /\ (f.lo + 1)..f.hi \subseteq 1..a
      BY <1>1
    <3> QED BY <3>1
  <2> QED BY <2>1 DEF Held
<1>3. IsFiniteSet((0..n) \X (1..a))
  <2>1. IsFiniteSet(0..n) /\ IsFiniteSet(1..a)
    BY FS_Interval
  <2> QED BY <2>1, FS_Product
<1>4. IsFiniteSet(Held(d))
  BY <1>2, <1>3, FS_Subset
<1> QED BY <1>4, FS_CardinalityType DEF Bytes

\* Fewer files hold no more.
LEMMA FewerBytes ==
  ASSUME NEW d, NEW n \in Nat, NEW a \in Nat, NEW t, FilesOK(d, n, a, t),
         NEW e, e \subseteq d
  PROVE  Bytes(e) \in Nat /\ Bytes(e) <= Bytes(d)
<1>1. Held(e) \in SUBSET Held(d)
  BY DEF Held
<1>2. IsFiniteSet(Held(d))
  BY HeldFinite
<1>3. IsFiniteSet(Held(e)) /\ Cardinality(Held(e)) <= Cardinality(Held(d))
  BY <1>1, <1>2, FS_Subset
<1> QED BY <1>3, FS_CardinalityType DEF Bytes

\* A file that was just created holds nothing.
LEMMA EmptyBytes ==
  ASSUME NEW d, NEW f \in File, f.lo = f.hi
  PROVE  Bytes(d \cup {f}) = Bytes(d)
<1>1. (f.lo + 1)..f.hi = {}
  BY DEF File
<1>2. Held(d \cup {f}) = Held(d)
  BY <1>1 DEF Held
<1> QED BY <1>2 DEF Bytes

\* A file that grows by k bytes.
LEMMA MoreBytes ==
  ASSUME NEW d, NEW n \in Nat, NEW a \in Nat, NEW t, FilesOK(d, n, a, t),
         NEW f \in d, NEW k \in Nat,
         NEW g \in File, g.name = f.name, g.lo = f.lo, g.hi = f.hi + k
  PROVE  Bytes((d \ {f}) \cup {g}) = Bytes(d) + k
<1> DEFINE more == {f.name} \X ((f.hi + 1)..(f.hi + k))
<1>1. \A h \in d : /\ h.name \in Nat /\ h.lo \in Nat /\ h.hi \in Nat /\ h.lo <= h.hi
                   /\ h.name = f.name => h = f
  BY DEF FilesOK, File
<1>2. (g.lo + 1)..g.hi = ((f.lo + 1)..f.hi) \cup ((f.hi + 1)..(f.hi + k))
  BY <1>1
<1>3. {g.name} \X ((g.lo + 1)..g.hi) = ({f.name} \X ((f.lo + 1)..f.hi)) \cup more
  BY <1>2
<1>4. Held((d \ {f}) \cup {g}) = Held(d) \cup more
  <2> HIDE DEF more
  <2> QED BY <1>3 DEF Held
<1>5. Held(d) \cap more = {}
  <2>1. ASSUME NEW h \in d, NEW p \in {h.name} \X ((h.lo + 1)..h.hi), p \in more
        PROVE  FALSE
    <3>1. h = f
      BY <1>1, <2>1
    <3> QED BY <1>1, <2>1, <3>1
  <2> HIDE DEF more
  <2> QED BY <2>1 DEF Held
<1>6. IsFiniteSet(more) /\ Cardinality(more) = k
  <2>1. IsFiniteSet({f.name}) /\ Cardinality({f.name}) = 1
    BY FS_Singleton
  <2>2. /\ IsFiniteSet((f.hi + 1)..(f.hi + k))
        /\ Cardinality((f.hi + 1)..(f.hi + k)) = k
    <3>1. f.hi + 1 \in Int /\ f.hi + k \in Int /\ f.hi \in Nat
      BY <1>1
    <3>2. /\ IsFiniteSet((f.hi + 1)..(f.hi + k))
          /\ Cardinality((f.hi + 1)..(f.hi + k))
               = (IF f.hi + 1 > f.hi + k THEN 0 ELSE (f.hi + k) - (f.hi + 1) + 1)
      BY <3>1, FS_Interval
    <3> QED BY <3>1, <3>2
  <2>3. /\ IsFiniteSet(more)
        /\ Cardinality(more) = Cardinality({f.name}) * Cardinality((f.hi + 1)..(f.hi + k))
    BY <2>1, <2>2, FS_Product
  <2> QED BY <2>1, <2>2, <2>3
<1> HIDE DEF more
<1>7. IsFiniteSet(Held(d)) /\ Bytes(d) \in Nat
  BY HeldFinite
<1>8. Cardinality(Held(d) \cap more) = 0
  BY <1>5, FS_EmptySet
<1>9. Cardinality(Held(d) \cup more) = Cardinality(Held(d)) + Cardinality(more) - 0
  BY <1>6, <1>7, <1>8, FS_Union
<1>10. Bytes((d \ {f}) \cup {g}) = Cardinality(Held(d) \cup more)
  BY <1>4 DEF Bytes
<1>11. Cardinality(Held(d)) = Bytes(d)
  BY DEF Bytes
<1> QED BY <1>6, <1>7, <1>9, <1>10, <1>11

-----------------------------------------------------------------------------
(* The bytes of an export *)

\* Span(a, b) has the bytes after a up to b.
LEMMA SpanTyped ==
  \A a, b \in Nat : a <= b =>
    /\ Span(a, b) \in Seq(Nat)
    /\ Len(Span(a, b)) = b - a
    /\ \A i \in 1..(b - a) : Span(a, b)[i] = a + i
<1> SUFFICES ASSUME NEW a \in Nat, NEW b \in Nat, a <= b
             PROVE  /\ Span(a, b) \in Seq(Nat)
                    /\ Len(Span(a, b)) = b - a
                    /\ \A i \in 1..(b - a) : Span(a, b)[i] = a + i
  OBVIOUS
<1>1. b - a \in Nat
  OBVIOUS
<1> QED
  BY <1>1 DEF Span

\* No byte is after a and up to a.
LEMMA SpanEmpty ==
  ASSUME NEW a \in Nat
  PROVE  Span(a, a) = <<>>
BY SpanTyped

\* Adjoining spans make one.
LEMMA SpansConcatenate ==
  ASSUME NEW a \in Nat, NEW b \in Nat, NEW c \in Nat, a <= b, b <= c
  PROVE  Span(a, b) \o Span(b, c) = Span(a, c)
<1>1. a <= c
  OBVIOUS
<1>2. /\ Span(a, b) \in Seq(Nat) /\ Len(Span(a, b)) = b - a
      /\ \A i \in 1..(b - a) : Span(a, b)[i] = a + i
  BY SpanTyped, Zenon
<1>3. /\ Span(b, c) \in Seq(Nat) /\ Len(Span(b, c)) = c - b
      /\ \A i \in 1..(c - b) : Span(b, c)[i] = b + i
  BY SpanTyped, Zenon
<1>4. /\ Span(a, c) \in Seq(Nat) /\ Len(Span(a, c)) = c - a
      /\ \A i \in 1..(c - a) : Span(a, c)[i] = a + i
  BY SpanTyped, <1>1, Zenon
<1> DEFINE s == Span(a, b)
           t == Span(b, c)
           u == Span(a, c)
<1>5. /\ s \o t \in Seq(Nat)
      /\ Len(s \o t) = Len(s) + Len(t)
      /\ \A i \in 1..(Len(s) + Len(t)) : (s \o t)[i] = IF i <= Len(s) THEN s[i] ELSE t[i - Len(s)]
  BY <1>2, <1>3, ConcatProperties
<1>6. Len(s \o t) = Len(u)
  BY <1>2, <1>3, <1>4, <1>5
<1>7. ASSUME NEW i \in 1..Len(s \o t)
      PROVE  (s \o t)[i] = u[i]
  <2>1. CASE i <= Len(s)
    BY <1>2, <1>3, <1>4, <1>5, <2>1
  <2>2. CASE ~(i <= Len(s))
    <3>1. i - Len(s) \in 1..(c - b)
      BY <1>2, <1>3, <1>4, <1>5, <2>2
    <3>2. t[i - Len(s)] = b + (i - Len(s))
      BY <1>3, <3>1
    <3>3. (s \o t)[i] = t[i - Len(s)]
      BY <1>2, <1>3, <1>5, <1>7, <2>2
    <3>4. i \in 1..(c - a) /\ u[i] = a + i
      BY <1>2, <1>3, <1>4, <1>5, <1>7
    <3>5. Len(s) = b - a /\ i \in Nat
      BY <1>2, <3>4
    <3> HIDE DEF s, t, u
    <3> QED
      BY <3>2, <3>3, <3>4, <3>5
  <2> QED
    BY <2>1, <2>2
<1> HIDE DEF s, t, u
<1>8. s \o t = u
  BY <1>2, <1>4, <1>5, <1>6, <1>7, SeqEqual DEF s, t, u
<1> QED
  BY <1>8 DEF s, t, u

\* A set of naturals has a least element.
LEMMA LeastExists ==
  ASSUME NEW S \in SUBSET Nat, S # {}
  PROVE  \E m \in S : \A n \in S : m <= n
<1>1. PICK m \in S : \A n \in S : ~ (<<n, m>> \in OpToRel(<, Nat))
  BY NatLessThanWellFounded, WFMin
<1>2. ASSUME NEW n \in Nat, NEW k \in Nat, n < k
      PROVE  <<n, k>> \in OpToRel(<, Nat)
  BY <1>2 DEF OpToRel
<1>3. \A n \in S : ~ (n < m)
  <2> SUFFICES ASSUME NEW n \in S, n < m PROVE FALSE
    OBVIOUS
  <2>1. n \in Nat /\ m \in Nat
    OBVIOUS
  <2> QED
    BY <1>1, <1>2, <2>1, Zenon
<1> QED
  BY <1>3

\* It is Min.
LEMMA MinIsLeast ==
  ASSUME NEW S \in SUBSET Nat, NEW m \in S, \A n \in S : m <= n
  PROVE  Min(S) = m
<1>1. \A x \in S : (\A y \in S : x <= y) => x = m
  OBVIOUS
<1> QED
  BY <1>1 DEF Min

\* The snapshot of an export.
LEMMA SnapshotOK ==
  ASSUME NEW d, NEW n \in Nat, NEW a \in Nat, NEW t \in Nat, FilesOK(d, n, a, t)
  PROVE  LET b == Min({a} \cup {f.lo : f \in d})
         IN  b \in Nat /\ LeftOK(d, a) /\ SentOK(d, <<>>, b, a) /\ OnDisk(d, d)
<1> DEFINE los == {a} \cup {f.lo : f \in d}
           b == Min(los)
<1>1. \A f \in d : /\ f.name \in Nat /\ f.lo \in Nat /\ f.hi \in Nat
                   /\ f.lo <= f.hi /\ f.hi <= a /\ f.name <= n
  BY DEF FilesOK, File
<1>2. los \in SUBSET Nat
  BY <1>1
<1>3. ASSUME NEW f \in d, \A g \in d : f.name <= g.name
      PROVE  b = f.lo
  <2>1. \A g \in d : f.lo <= g.lo
    <3> SUFFICES ASSUME NEW g \in d PROVE f.lo <= g.lo
      OBVIOUS
    <3>1. f = g \/ f.name < g.name
      BY <1>1, <1>3 DEF FilesOK
    <3>2. f.name < g.name => f.hi <= g.lo
      BY DEF FilesOK
    <3> QED
      BY <1>1, <3>1, <3>2
  <2>2. f.lo \in los /\ \A m \in los : f.lo <= m
    BY <1>1, <2>1
  <2> HIDE DEF los
  <2> QED
    BY <1>2, <2>2, MinIsLeast DEF b
<1>4. d = {} => b = a
  <2> SUFFICES ASSUME d = {} PROVE b = a
    OBVIOUS
  <2>1. los = {a}
    OBVIOUS
  <2> QED
    BY <2>1, MinIsLeast
<1>5. b \in Nat
  <2>1. \E m \in los : \A x \in los : m <= x
    BY <1>2, LeastExists
  <2> HIDE DEF los
  <2> QED
    BY <1>2, <2>1, MinIsLeast DEF b
<1>6. SentOK(d, <<>>, b, a)
  <2>1. d = {} => <<>> = Span(b, a)
    BY <1>4, SpanEmpty
  <2>2. ASSUME NEW f \in d, \A g \in d : f.name <= g.name
        PROVE  b <= f.lo /\ <<>> = Span(b, f.lo)
    <3> HIDE DEF b
    <3> QED
      BY <1>1, <1>3, <2>2, SpanEmpty
  <2> QED
    BY <2>1, <2>2 DEF SentOK
<1>7. LeftOK(d, a)
  BY <1>1 DEF LeftOK, FilesOK
<1>8. OnDisk(d, d)
  BY <1>1 DEF OnDisk
<1> HIDE DEF b
<1> QED
  BY <1>5, <1>6, <1>7, <1>8 DEF b

\* The lesser of two.
LEMMA MinOfTwo ==
  ASSUME NEW a \in Nat, NEW b \in Nat
  PROVE  /\ Min({a, b}) \in Nat /\ Min({a, b}) <= a /\ Min({a, b}) <= b
         /\ a <= b => Min({a, b}) = a
         /\ b <= a => Min({a, b}) = b
<1>1. a <= b => Min({a, b}) = a
  BY MinIsLeast
<1>2. b <= a => Min({a, b}) = b
  BY MinIsLeast
<1> QED
  BY <1>1, <1>2

-----------------------------------------------------------------------------
(* The steps *)

\* The files after a step that adds bytes to the newest or creates the next.
DiskGrows ==
  /\ DiskOK' /\ names' \in Nat /\ archived' \in Nat
  /\ currentPath' = names' /\ currentDay' \in Nat /\ currentSize' \in Nat
  /\ \E f \in disk' : f.name = names'
  /\ \A l \in SUBSET File : OnDisk(l, disk) => OnDisk(l, disk')

\* The newest file has grown by n bytes or is new with them; the others are as they
\* were.
GrownBy(n) ==
  \E g \in disk' :
    /\ g.name = names' /\ g.lo <= archived /\ g.hi = archived + n
    /\ g.lo = archived \/ \E f \in disk : f.lo = g.lo /\ f.hi = archived
    /\ disk' \ {g} \subseteq disk

\* A record, or a part of it, reaches the file that is open or a new one.
LEMMA PutOK ==
  ASSUME Inv, NEW data \in Nat, NEW n \in Nat, n <= data, data <= MaxRecordBytes,
         MayWrite, Put(data, n), today' = today
  PROVE  /\ DiskGrows
         /\ \A f \in disk' : f.name = names' => Size(f) = currentSize'
         /\ Bytes(disk') = Bytes(disk) + n
         /\ GrownBy(n)
<1> DEFINE f == Target(data)
           g == [name |-> f.name, lo |-> f.lo, hi |-> f.hi + n,
                 mod |-> IF n > 0 THEN today ELSE f.mod]
           d == IF NeedsRotation(data) THEN disk \cup {f} ELSE disk
           size == IF NeedsRotation(data) THEN 0 ELSE currentSize
<1>1. /\ names \in Nat /\ archived \in Nat /\ today \in Nat /\ currentSize \in Nat
      /\ MaxRecordBytes \in Nat /\ MaxFileBytes \in Nat /\ MaxRecordBytes <= MaxFileBytes
      /\ None \notin Nat
  BY OptionsAssumption, BoundsAssumption DEF Inv, TypeOK, ValidOptions
<1>2. FilesOK(disk, names, archived, today)
  BY DEF Inv, DiskOK
<1>3. /\ disk' = (disk \ {f}) \cup {g}
      /\ names' = IF NeedsRotation(data) THEN names + 1 ELSE names
      /\ archived' = archived + n
      /\ currentPath' = f.name /\ currentDay' = today /\ currentSize' = size + n
  BY DEF Put
<1>4. file = names /\ up
  BY DEF Inv, CurrentOK, MayWrite
<1>5. /\ f \in d /\ f \in File /\ f.name = names' /\ f.mod <= today
      /\ Size(f) = size /\ size + n <= MaxFileBytes
      /\ FilesOK(d, names', archived, today)
  <2>1. CASE NeedsRotation(data)
    <3>1. f = [name |-> names + 1, lo |-> archived, hi |-> archived, mod |-> today]
      BY <2>1 DEF Target, EmptyFile
    <3>2. /\ f \in File /\ f.name = names + 1 /\ f.lo = archived /\ f.hi = archived
          /\ f.mod = today
      BY <1>1, <3>1 DEF File
    <3>3. FilesOK(disk \cup {f}, names + 1, archived, today)
      <4> HIDE DEF f
      <4> QED
        BY <1>1, <1>2, <3>2, CreationOK
    <3>4. Size(f) = 0
      BY <1>1, <3>2 DEF Size
    <3> HIDE DEF f
    <3> QED
      BY <1>1, <1>3, <2>1, <3>2, <3>3, <3>4
  <2>2. CASE ~NeedsRotation(data)
    <3>1. f = CHOOSE h \in disk : h.name = file
      BY <2>2 DEF Target
    <3>2. \E h \in disk : h.name = file
      BY <1>4 DEF Inv, CurrentOK
    <3>3. f \in disk /\ f.name = names
      <4> HIDE DEF f
      <4> QED
        BY <1>4, <3>1, <3>2
    <3>4. Size(f) = currentSize
      <4> HIDE DEF f
      <4> QED
        BY <1>1, <1>4, <3>3 DEF Inv, CurrentOK
    <3>5. ~(currentSize > 0 /\ currentSize + data > MaxFileBytes)
      BY <2>2 DEF NeedsRotation
    <3>6. currentSize + n <= MaxFileBytes
      BY <1>1, <3>5
    <3>7. f \in File /\ f.mod <= today
      <4> HIDE DEF f
      <4> QED
        BY <1>2, <3>3 DEF FilesOK
    <3> HIDE DEF f
    <3> QED
      BY <1>2, <1>3, <2>2, <3>3, <3>4, <3>6, <3>7
  <2> QED
    BY <2>1, <2>2
<1>6. /\ g \in File /\ g.name = f.name /\ g.lo = f.lo /\ g.hi = f.hi + n
      /\ f.mod <= g.mod /\ g.mod <= today
  <2> HIDE DEF f
  <2>1. /\ f.name \in Nat /\ f.lo \in Nat /\ f.hi \in Nat
        /\ f.mod \in Nat /\ f.mod <= today
    BY <1>5 DEF File
  <2> QED
    BY <1>1, <2>1 DEF File
<1>7. disk' = (d \ {f}) \cup {g}
  <2> HIDE DEF f, g
  <2> QED
    BY <1>3
<1> HIDE DEF f, g, d, size
<1>8. names' \in Nat /\ archived' \in Nat
  BY <1>1, <1>3
<1>9. FilesOK(disk', names', archived', today)
  <2>1. FilesOK((d \ {f}) \cup {g}, names', archived + n, today)
    BY <1>1, <1>5, <1>6, <1>8, GrowthOK
  <2> QED
    BY <1>3, <1>7, <2>1
<1>10. DiskOK'
  BY <1>9 DEF DiskOK
<1>11. size \in Nat
  BY <1>1 DEF size
<1>12. g \in disk' /\ g.name = names' /\ Size(g) = size + n
  BY <1>5, <1>6, <1>7, <1>11 DEF Size, File
<1>13. \A h \in disk' : h.name = names' => Size(h) = currentSize'
  BY <1>3, <1>9, <1>12 DEF FilesOK
<1>14. \A l \in SUBSET File : OnDisk(l, disk) => OnDisk(l, disk')
  <2> SUFFICES ASSUME NEW h \in disk PROVE \E i \in disk' : i.name = h.name /\ i.lo = h.lo /\ i.hi >= h.hi
    <3>1. \A j, i, k \in File : i.hi >= j.hi /\ j.hi >= k.hi => i.hi >= k.hi
      BY DEF File
    <3>2. disk \subseteq File /\ disk' \subseteq File
      BY <1>2, <1>9 DEF FilesOK
    <3> QED
      BY <3>1, <3>2 DEF OnDisk
  <2>1. CASE h = f
    BY <1>5, <1>6, <1>7, <2>1 DEF File
  <2>2. CASE h # f
    <3>1. h \in disk'
      BY <1>3, <2>2
    <3> QED
      BY <1>2, <3>1 DEF FilesOK, File
  <2> QED
    BY <2>1, <2>2
<1>15. currentPath' = names' /\ currentDay' \in Nat /\ currentSize' \in Nat
  BY <1>1, <1>3, <1>5, <1>11
<1>16. DiskGrows
  BY <1>8, <1>10, <1>12, <1>14, <1>15 DEF DiskGrows
<1>17. Bytes(d) = Bytes(disk)
  <2>1. CASE NeedsRotation(data)
    <3>1. f.lo = f.hi /\ d = disk \cup {f}
      BY <2>1 DEF f, d, Target, EmptyFile
    <3> QED BY <1>5, <3>1, EmptyBytes
  <2>2. CASE ~NeedsRotation(data)
    BY <2>2 DEF d
  <2> QED BY <2>1, <2>2
<1>18. Bytes((d \ {f}) \cup {g}) = Bytes(d) + n
  BY <1>1, <1>5, <1>6, <1>8, MoreBytes
<1>19. GrownBy(n)
  <2>1. f.hi = archived /\ f.lo <= archived
    BY <1>5 DEF FilesOK
  <2>2. f.lo = archived \/ f \in disk
    <3>1. CASE NeedsRotation(data)
      BY <3>1 DEF f, Target, EmptyFile
    <3>2. CASE ~NeedsRotation(data)
      BY <1>5, <3>2 DEF d
    <3> QED BY <3>1, <3>2
  <2>3. disk' \ {g} \subseteq disk
    BY <1>3 DEF f, g
  <2> QED BY <1>6, <1>12, <2>1, <2>2, <2>3 DEF GrownBy
<1> QED
  BY <1>7, <1>13, <1>16, <1>17, <1>18, <1>19

\* What the files are to the rest of the invariant when they only get more bytes,
\* and nothing else of an export changes.
LEMMA ReadingGoesOn ==
  ASSUME Inv, up' = up, UNCHANGED <<readers, exportVars>>,
         \A l \in SUBSET File : OnDisk(l, disk) => OnDisk(l, disk')
  PROVE  ReadingOK'
<1>1. \A e \in Exports : left[e] \in SUBSET File
  BY DEF Inv, TypeOK
<1>2. ASSUME NEW e \in Exports, export[e] = "reading"
      PROVE  OnDisk(left[e], disk')
  BY <1>1, <1>2 DEF Inv, ReadingOK
<1> QED
  BY <1>2 DEF Inv, ReadingOK, exportVars

\* Where no export reads, the files may go.
LEMMA NoReading ==
  ASSUME Inv, readers = {} \/ ~up
  PROVE  \A e \in Exports : export[e] # "reading"
BY DEF Inv, ReadingOK

\* No file and no archive at first.
LEMMA InitInv == Init => Inv
<1> SUFFICES ASSUME Init PROVE Inv
  OBVIOUS
<1>1. TypeOK
  <2>1. <<>> \in Seq(Nat) /\ {} \in SUBSET File
    OBVIOUS
  <2>2. left \in [Exports -> SUBSET File] /\ out \in [Exports -> Seq(Nat)]
    BY <2>1, Zenon DEF Init
  <2>3. /\ export \in [Exports -> {"idle", "reading", "done"}]
        /\ from \in [Exports -> Nat] /\ upto \in [Exports -> Nat]
    BY DEF Init
  <2> QED
    BY <2>2, <2>3 DEF Init, TypeOK
<1>2. DiskOK
  BY DEF Init, DiskOK, FilesOK
<1>3. CurrentOK
  BY DEF Init, CurrentOK
<1>4. ReadingOK
  BY DEF Init, ReadingOK
<1> QED
  BY <1>1, <1>2, <1>3, <1>4 DEF Inv

\* What is written of a record.
LEMMA DataFits ==
  ASSUME NEW length \in Lengths
  PROVE  Data(length) \in Nat /\ Data(length) <= MaxRecordBytes
<1>1. length \in Nat /\ MaxRecordBytes \in Nat
  BY OptionsAssumption, BoundsAssumption DEF ValidOptions
<1> QED
  BY <1>1, MinOfTwo DEF Data

\* A record that is written.
LEMMA WriteInv ==
  ASSUME Inv, NEW length \in Lengths, Write(length)
  PROVE  Inv'
<1> DEFINE data == Data(length)
<1>1. /\ data \in Nat /\ data <= MaxRecordBytes /\ data <= data
      /\ MayWrite /\ Put(data, data) /\ today' = today
  BY DataFits DEF Write, worldVars
<1>2. /\ DiskGrows
      /\ \A f \in disk' : f.name = names' => Size(f) = currentSize'
  <2> HIDE DEF data
  <2> QED
    BY <1>1, PutOK
<1>3. /\ file' = currentPath' /\ bytesSinceGC' \in Nat /\ worker' \in {"idle", "cleanup"}
      /\ UNCHANGED <<closed, writeDisabled, worldVars, readers, writer, closer, exportVars>>
  <2> HIDE DEF data
  <2>1. bytesSinceGC \in Nat
    BY DEF Inv, TypeOK
  <2> QED
    BY <1>1, <2>1 DEF Write, data
<1> HIDE DEF data
<1>4. TypeOK'
  BY <1>2, <1>3 DEF DiskGrows, Inv, TypeOK, DiskOK, FilesOK, worldVars, exportVars
<1>5. CurrentOK'
  BY <1>1, <1>2, <1>3 DEF DiskGrows, MayWrite, CurrentOK, worldVars
<1>6. ReadingOK'
  BY <1>2, <1>3, ReadingGoesOn DEF DiskGrows, worldVars
<1> QED
  BY <1>2, <1>4, <1>5, <1>6 DEF DiskGrows, Inv

\* A write that fails, as far as it went.
LEMMA WriteFailsInv ==
  ASSUME Inv, NEW length \in Lengths, WriteFails(length) \/ RotateFails(length)
  PROVE  Inv'
<1> DEFINE data == Data(length)
<1>1. /\ data \in Nat /\ data <= MaxRecordBytes
      /\ MayWrite /\ today' = today /\ Fault
      /\ file' = None /\ writeDisabled' = TRUE
      /\ UNCHANGED <<bytesSinceGC, closed, today, opens, up, readers, writer, worker, closer,
                     exportVars>>
  BY DataFits DEF WriteFails, RotateFails
<1>2. DiskGrows
  <2>1. ASSUME UNCHANGED <<diskVars, currentPath, currentDay, currentSize>>
        PROVE  DiskGrows
    BY <1>1, <2>1 DEF DiskGrows, Inv, TypeOK, DiskOK, CurrentOK, MayWrite, diskVars
  <2>2. ASSUME NEW n \in Nat, n <= data, Put(data, n)
        PROVE  DiskGrows
    <3> HIDE DEF data
    <3> QED
      BY <1>1, <2>2, PutOK
  <2>3. 0 \in Nat /\ 0 <= data
    BY <1>1
  <2>4. \A n \in 0..(data - 1) : n \in Nat /\ n <= data
    BY <1>1
  <2>5. \/ UNCHANGED <<diskVars, currentPath, currentDay, currentSize>>
        \/ \E n \in Nat : n <= data /\ Put(data, n)
    <3>1. CASE WriteFails(length)
      <4>1. PICK n \in 0..(data - 1) : Put(data, n)
        BY <3>1, Zenon DEF WriteFails
      <4> HIDE DEF data
      <4> QED
        BY <2>4, <4>1
    <3>2. CASE RotateFails(length)
      <4>1. UNCHANGED <<diskVars, currentPath, currentDay, currentSize>> \/ Put(data, 0)
        BY <3>2, Zenon DEF RotateFails
      <4> HIDE DEF data
      <4> QED
        BY <2>3, <4>1
    <3> QED
      BY <3>1, <3>2
  <2> HIDE DEF data
  <2> QED
    BY <2>1, <2>2, <2>5
<1> HIDE DEF data
<1>3. faults' \in Nat
  BY <1>1 DEF Fault, Inv, TypeOK
<1>4. TypeOK'
  BY <1>1, <1>2, <1>3 DEF DiskGrows, Inv, TypeOK, DiskOK, FilesOK, exportVars
<1>5. CurrentOK'
  BY <1>1, <1>2 DEF DiskGrows, Inv, MayWrite, CurrentOK
<1>6. ReadingOK'
  BY <1>1, <1>2, ReadingGoesOn DEF DiskGrows
<1> QED
  BY <1>2, <1>4, <1>5, <1>6 DEF DiskGrows, Inv

\* Files go only where no export reads.
LEMMA CleanupInv ==
  ASSUME Inv, Cleanup
  PROVE  Inv'
<1>1. /\ readers = {} /\ up /\ currentPath = names
      /\ UNCHANGED <<names, archived, storeVars, today, opens, up, readers, closer, exportVars>>
      /\ writer' = None
  BY DEF Cleanup, Holds, Inv, CurrentOK
<1>2. \E gone \in Removals(currentPath) : disk' = disk \ gone
  BY DEF Cleanup, CleanedUp, CleanupFailed, Removed
<1>3. /\ FilesOK(disk', names, archived, today)
      /\ \A f \in disk : f.name = names => f \in disk'
  BY <1>1, <1>2, RemovalOK DEF Inv
<1>4. worker' \in {"idle", "disabling"}
  BY DEF Cleanup
<1>5. faults' \in Nat
  <2>1. faults' = faults \/ faults' = faults + 1
    BY Zenon DEF Cleanup, CleanupFailed, Fault
  <2> QED
    BY <2>1 DEF Inv, TypeOK
<1>6. TypeOK'
  BY <1>1, <1>3, <1>4, <1>5 DEF Inv, TypeOK, FilesOK, storeVars, fileVars, exportVars
<1>7. DiskOK'
  BY <1>1, <1>3 DEF DiskOK
<1>8. disk' \subseteq disk
  BY <1>2
<1>9. CurrentOK'
  BY <1>1, <1>3, <1>8 DEF Inv, CurrentOK, storeVars, fileVars
<1>10. ReadingOK'
  BY <1>1, NoReading DEF Inv, ReadingOK, exportVars
<1> QED
  BY <1>6, <1>7, <1>9, <1>10 DEF Inv

\* A new archive goes on with a new file.
LEMMA OpenInv ==
  ASSUME Inv, Open
  PROVE  Inv'
<1>1. /\ ~up /\ up' = TRUE /\ opens' = opens + 1 /\ names' = names + 1
      /\ file' = names + 1 /\ currentPath' = names + 1 /\ currentDay' = today
      /\ currentSize' = 0 /\ bytesSinceGC' = 0 /\ closed' = FALSE /\ writeDisabled' = FALSE
      /\ UNCHANGED <<archived, today, faults, readers, writer, worker, closer, exportVars>>
  BY DEF Open, Opened
<1> DEFINE new == EmptyFile(names + 1)
<1>2. PICK gone \in Removals(None) : disk' = (disk \ gone) \cup {new}
  BY DEF Open
<1>3. names \in Nat /\ archived \in Nat /\ today \in Nat /\ opens \in Nat
  BY DEF Inv, TypeOK
<1>4. /\ new \in File /\ new.name = names + 1 /\ new.lo = archived /\ new.hi = archived
      /\ new.mod = today /\ Size(new) = 0
  BY <1>3 DEF EmptyFile, File, Size
<1> HIDE DEF new
<1>5. FilesOK(disk \ gone, names, archived, today)
  BY RemovalOK DEF Inv
<1>6. FilesOK(disk', names', archived', today')
  BY <1>1, <1>2, <1>3, <1>4, <1>5, CreationOK
<1>7. TypeOK'
  <2>1. disk' \subseteq File
    BY <1>6 DEF FilesOK
  <2>2. names' \in Nat /\ opens' \in Nat /\ file' \in Nat /\ currentPath' \in Nat
    BY <1>1, <1>3
  <2> QED
    BY <1>1, <1>3, <2>1, <2>2 DEF Inv, TypeOK, exportVars
<1>8. CurrentOK'
  <2>1. new \in disk' /\ new.name = names'
    BY <1>1, <1>2, <1>4
  <2>2. \A f \in disk' : f.name = names' => Size(f) = currentSize'
    BY <1>1, <1>4, <1>6, <2>1 DEF FilesOK
  <2> QED
    BY <1>1, <2>1, <2>2 DEF CurrentOK
<1>9. ReadingOK'
  BY <1>1, NoReading DEF Inv, ReadingOK, exportVars
<1> QED
  BY <1>6, <1>7, <1>8, <1>9 DEF Inv, DiskOK

\* A start without an archive has removed files at most.
LEMMA OpenFailsInv ==
  ASSUME Inv, OpenFails
  PROVE  Inv'
<1>1. /\ ~up /\ opens' = opens + 1
      /\ UNCHANGED <<names, archived, storeVars, today, up, readers, writer, worker, closer,
                     exportVars>>
  BY DEF OpenFails
<1>2. PICK gone \in Removals(None) : disk' = disk \ gone
  BY DEF OpenFails, CleanupFailed, Removed
<1>3. FilesOK(disk', names', archived', today')
  BY <1>1, <1>2, RemovalOK DEF Inv
<1>4. faults' \in Nat
  <2>1. faults' = faults \/ faults' = faults + 1
    BY Zenon DEF OpenFails, CleanupFailed, Fault
  <2> QED
    BY <2>1 DEF Inv, TypeOK
<1>5. TypeOK'
  BY <1>1, <1>3, <1>4 DEF Inv, TypeOK, FilesOK, storeVars, fileVars, exportVars
<1>6. CurrentOK'
  BY <1>1 DEF Inv, CurrentOK, storeVars
<1>7. ReadingOK'
  BY <1>1, NoReading DEF Inv, ReadingOK, exportVars
<1> QED
  BY <1>3, <1>5, <1>6, <1>7 DEF Inv, DiskOK

\* A process that stops leaves the files as they are.
LEMMA ProcessEndsInv ==
  ASSUME Inv, ProcessEnds
  PROVE  Inv'
<1>1. DiskOK'
  BY DEF ProcessEnds, diskVars, Inv, DiskOK
<1>2. left' \in [Exports -> SUBSET File] /\ out' \in [Exports -> Seq(Nat)]
  <2>1. <<>> \in Seq(Nat) /\ {} \in SUBSET File
    OBVIOUS
  <2> QED
    BY <2>1, Zenon DEF ProcessEnds
<1>3. /\ export' \in [Exports -> {"idle", "reading", "done"}]
      /\ from' \in [Exports -> Nat] /\ upto' \in [Exports -> Nat]
  BY DEF ProcessEnds
<1>4. TypeOK'
  BY <1>2, <1>3 DEF ProcessEnds, diskVars, Inv, TypeOK
<1>5. CurrentOK'
  BY DEF ProcessEnds, CurrentOK
<1>6. ReadingOK'
  BY DEF ProcessEnds, ReadingOK
<1> QED
  BY <1>1, <1>4, <1>5, <1>6 DEF Inv

\* The clock, and the steps of the lock and of Close that move no file.
LEMMA QuietInv ==
  ASSUME Inv, \/ Tick \/ AskForLock("worker") \/ AskForLock("closer")
              \/ DisableWrites \/ BeginClose \/ Close
  PROVE  Inv'
<1>1. UNCHANGED <<diskVars, up, currentPath, currentDay, currentSize, bytesSinceGC, opens,
                  faults, readers, exportVars>>
  BY DEF Tick, AskForLock, DisableWrites, BeginClose, Close, storeVars, fileVars, worldVars
<1>2. today' \in Nat /\ today <= today'
  BY DEF Inv, TypeOK, Tick, AskForLock, DisableWrites, BeginClose, Close, worldVars
<1>3. DiskOK'
  <2>1. disk' = disk /\ names' = names /\ archived' = archived
    BY <1>1 DEF diskVars
  <2>2. today \in Nat /\ \A f \in disk : f.mod \in Nat
    BY DEF Inv, TypeOK, File
  <2>3. \A f \in disk : f.mod <= today'
    BY <1>2, <2>2 DEF Inv, DiskOK, FilesOK
  <2> QED
    BY <2>1, <2>3 DEF Inv, DiskOK, FilesOK
<1>4. /\ file' \in {file, None} /\ worker' \in {worker, "idle"}
      /\ closed \/ writeDisabled => closed' \/ writeDisabled'
      /\ file' = file \/ closed' \/ writeDisabled'
      /\ closer' \in {closer, "closing", "closed"}
      /\ writer' \in {None, "worker", "closer"}
      /\ closed' \in {closed, TRUE} /\ writeDisabled' \in {writeDisabled, TRUE}
  BY DEF Inv, TypeOK, Tick, AskForLock, DisableWrites, BeginClose, Close, storeVars, fileVars
<1>5. TypeOK'
  <2>1. TypeOK
    BY DEF Inv
  <2>2. /\ UNCHANGED <<disk, names, archived, opens, faults, up, currentPath, currentDay,
                       currentSize, bytesSinceGC, readers>>
        /\ UNCHANGED <<export, left, out, from, upto>>
    BY <1>1 DEF diskVars, exportVars
  <2>3. /\ file' \in Nat \cup {None} /\ worker' \in {"idle", "cleanup", "disabling"}
        /\ closer' \in {"idle", "closing", "closed"}
        /\ writer' \in {None, "worker", "closer"}
        /\ closed' \in BOOLEAN /\ writeDisabled' \in BOOLEAN
    BY <1>4, <2>1 DEF TypeOK
  <2> HIDE DEF Inv
  <2> QED
    BY <1>2, <2>1, <2>2, <2>3 DEF TypeOK
<1>6. CurrentOK'
  BY <1>1, <1>4 DEF Inv, CurrentOK, diskVars
<1>7. ReadingOK'
  BY <1>1, ReadingGoesOn DEF diskVars
<1> QED
  BY <1>3, <1>5, <1>6, <1>7 DEF Inv

\* An export starts with every file of the archive.
LEMMA BeginExportInv ==
  ASSUME Inv, NEW e \in Exports, BeginExport(e)
  PROVE  Inv'
<1> DEFINE b == Min({archived} \cup {f.lo : f \in disk})
<1>1. /\ up
      /\ readers' = readers \cup {e}
      /\ export' = [export EXCEPT ![e] = "reading"]
      /\ left' = [left EXCEPT ![e] = disk]
      /\ out' = [out EXCEPT ![e] = <<>>]
      /\ from' = [from EXCEPT ![e] = b]
      /\ upto' = [upto EXCEPT ![e] = archived]
      /\ UNCHANGED <<diskVars, storeVars, worldVars, writer, worker, closer>>
  BY DEF BeginExport
<1>2. b \in Nat /\ LeftOK(disk, archived) /\ SentOK(disk, <<>>, b, archived) /\ OnDisk(disk, disk)
  BY SnapshotOK DEF Inv, TypeOK, DiskOK
<1> HIDE DEF b
<1>3. <<>> \in Seq(Nat) /\ disk \in SUBSET File /\ archived \in Nat
  BY DEF Inv, TypeOK
<1>4. /\ export \in [Exports -> {"idle", "reading", "done"}]
      /\ left \in [Exports -> SUBSET File] /\ out \in [Exports -> Seq(Nat)]
      /\ from \in [Exports -> Nat] /\ upto \in [Exports -> Nat]
  BY DEF Inv, TypeOK
<1>5. /\ export' \in [Exports -> {"idle", "reading", "done"}]
      /\ left' \in [Exports -> SUBSET File] /\ out' \in [Exports -> Seq(Nat)]
      /\ from' \in [Exports -> Nat] /\ upto' \in [Exports -> Nat]
  <2>1. left' \in [Exports -> SUBSET File] /\ out' \in [Exports -> Seq(Nat)]
    BY <1>1, <1>3, <1>4, Zenon
  <2> QED
    BY <1>1, <1>2, <1>3, <1>4, <2>1
<1>6. TypeOK'
  BY <1>1, <1>5 DEF Inv, TypeOK, diskVars, storeVars, fileVars, worldVars
<1>7. DiskOK' /\ CurrentOK'
  BY <1>1 DEF Inv, DiskOK, CurrentOK, diskVars, storeVars, fileVars, worldVars
<1>8. ReadingOK'
  <2>1. up' = up /\ disk' = disk
    BY <1>1 DEF worldVars, diskVars
  <2>2. /\ export'[e] = "reading" /\ left'[e] = disk /\ out'[e] = <<>>
        /\ from'[e] = b /\ upto'[e] = archived
    BY <1>1, <1>4, Zenon
  <2>3. \A i \in Exports \ {e} :
          /\ export'[i] = export[i] /\ left'[i] = left[i] /\ out'[i] = out[i]
          /\ from'[i] = from[i] /\ upto'[i] = upto[i]
    BY <1>1, <1>4, Zenon
  <2>4. ASSUME NEW i \in Exports
        PROVE  /\ export'[i] = "reading" => /\ up' /\ i \in readers'
                                            /\ LeftOK(left'[i], upto'[i])
                                            /\ SentOK(left'[i], out'[i], from'[i], upto'[i])
                                            /\ OnDisk(left'[i], disk')
               /\ export'[i] = "done" => out'[i] = Span(from'[i], upto'[i])
    <3>1. CASE i = e
      BY <1>1, <1>2, <2>1, <2>2, <3>1
    <3>2. CASE i # e
      BY <1>1, <2>1, <2>3, <3>2 DEF Inv, ReadingOK
    <3> QED
      BY <3>1, <3>2
  <2> QED
    BY <2>4 DEF ReadingOK
<1> QED
  BY <1>6, <1>7, <1>8 DEF Inv

\* The next file: what it has on disk begins where the export is and reaches at
\* least as far as in the snapshot.
LEMMA ExportFileInv ==
  ASSUME Inv, NEW e \in Exports, ExportFile(e)
  PROVE  Inv'
<1>1. PICK f \in left[e] :
        /\ \A g \in left[e] : f.name <= g.name
        /\ \E g \in disk :
             /\ g.name = f.name
             /\ out' = [out EXCEPT ![e] = @ \o Span(g.lo, Min({g.hi, g.lo + Size(f)}))]
        /\ left' = [left EXCEPT ![e] = @ \ {f}]
  BY DEF ExportFile
<1>2. PICK g \in disk :
        /\ g.name = f.name
        /\ out' = [out EXCEPT ![e] = @ \o Span(g.lo, Min({g.hi, g.lo + Size(f)}))]
  BY <1>1
<1> DEFINE a == from[e]
           u == upto[e]
           l == left[e]
<1>3. /\ up /\ e \in readers /\ LeftOK(l, u) /\ SentOK(l, out[e], a, u) /\ OnDisk(l, disk)
      /\ export[e] = "reading"
  BY DEF ExportFile, Inv, ReadingOK
<1>4. /\ a \in Nat /\ u \in Nat /\ l \in SUBSET File /\ disk \subseteq File
      /\ left \in [Exports -> SUBSET File] /\ out \in [Exports -> Seq(Nat)]
  BY DEF Inv, TypeOK
<1>5. \A h \in l \cup disk : h.name \in Nat /\ h.lo \in Nat /\ h.hi \in Nat
  BY <1>4 DEF File
<1> HIDE DEF a, u, l
<1>6. a <= f.lo /\ out[e] = Span(a, f.lo) /\ f.lo <= f.hi
  BY <1>1, <1>3 DEF SentOK, LeftOK, l
<1>7. g.lo = f.lo /\ g.hi >= f.hi
  <2>1. PICK h \in disk : h.name = f.name /\ h.lo = f.lo /\ h.hi >= f.hi
    BY <1>1, <1>3 DEF OnDisk, l
  <2>2. h = g
    BY <1>2, <2>1 DEF Inv, DiskOK, FilesOK
  <2> QED
    BY <2>1, <2>2
<1>8. Min({g.hi, g.lo + Size(f)}) = f.hi
  <2>1. f \in l
    BY <1>1 DEF l
  <2>2. g.lo + Size(f) = f.hi /\ f.hi \in Nat /\ g.hi \in Nat
    BY <1>5, <1>7, <2>1 DEF Size
  <2> QED
    BY <1>7, <2>2, MinOfTwo
<1>9. out'[e] = Span(a, f.hi) /\ out'[e] \in Seq(Nat)
  <2>1. f.lo \in Nat /\ f.hi \in Nat
    BY <1>1, <1>5 DEF l
  <2>2. out'[e] = out[e] \o Span(f.lo, f.hi)
    BY <1>2, <1>4, <1>7, <1>8
  <2>3. out'[e] = Span(a, f.hi)
    <3>1. Span(a, f.lo) \o Span(f.lo, f.hi) = Span(a, f.hi)
      BY <1>4, <1>6, <2>1, SpansConcatenate
    <3> QED
      BY <1>6, <2>2, <3>1, Zenon
  <2>4. a <= f.hi
    BY <1>4, <1>6, <2>1
  <2> QED
    BY <1>4, <2>1, <2>3, <2>4, SpanTyped
<1>10. left'[e] = l \ {f}
  BY <1>1, <1>4 DEF l
<1>11. LeftOK(l \ {f}, u)
  <2>1. \A h \in l \ {f} : f.name < h.name
    BY <1>1, <1>3, <1>5 DEF LeftOK, l
  <2>2. ASSUME NEW h \in l \ {f}, NEW i \in l, i.name = h.name + 1
        PROVE  i \in l \ {f}
    BY <1>5, <2>1, <2>2
  <2>3. \A h \in l \ {f} : \/ h.hi = u /\ \A i \in l : i.name <= h.name
                           \/ \E i \in l : i.name = h.name + 1 /\ i.lo = h.hi
    BY <1>3 DEF LeftOK
  <2>4. \A h \in l \ {f} : \/ h.hi = u /\ \A i \in l \ {f} : i.name <= h.name
                           \/ \E i \in l \ {f} : i.name = h.name + 1 /\ i.lo = h.hi
    BY <2>2, <2>3
  <2> QED
    BY <1>3, <2>4 DEF LeftOK
<1>12. SentOK(l \ {f}, out'[e], a, u)
  <2>1. f \in l
    BY <1>1 DEF l
  <2>2. \/ f.hi = u /\ \A h \in l : h.name <= f.name
        \/ \E h \in l : h.name = f.name + 1 /\ h.lo = f.hi
    BY <1>3, <2>1 DEF LeftOK
  <2>3. ASSUME l \ {f} = {}
        PROVE  out'[e] = Span(a, u)
    BY <1>5, <1>9, <2>1, <2>2, <2>3
  <2>4. ASSUME NEW h \in l \ {f}, \A i \in l \ {f} : h.name <= i.name
        PROVE  a <= h.lo /\ out'[e] = Span(a, h.lo)
    <3>1. f.name < h.name
      BY <1>1, <1>3, <1>5 DEF LeftOK, l
    <3>2. PICK i \in l : i.name = f.name + 1 /\ i.lo = f.hi
      BY <1>5, <2>1, <2>2, <3>1
    <3>3. i \in l \ {f}
      BY <1>5, <2>1, <3>2
    <3>4. h.name <= i.name
      BY <2>4, <3>3
    <3>5. h.name = i.name
      BY <1>5, <2>1, <3>1, <3>2, <3>3, <3>4
    <3>6. h = i
      BY <1>3, <3>5 DEF LeftOK
    <3> QED
      BY <1>4, <1>5, <1>6, <1>9, <2>1, <3>2, <3>6
  <2> QED
    BY <2>3, <2>4 DEF SentOK
<1>13. OnDisk(l \ {f}, disk)
  BY <1>3 DEF OnDisk
<1>14. UNCHANGED <<diskVars, storeVars, worldVars, readers, writer, worker, closer, export,
                   from, upto>>
  BY DEF ExportFile
<1>15. left' \in [Exports -> SUBSET File] /\ out' \in [Exports -> Seq(Nat)]
  <2>1. out' = [out EXCEPT ![e] = out'[e]] /\ left' = [left EXCEPT ![e] = l \ {f}]
    BY <1>1, <1>2, <1>4, Zenon DEF l
  <2>2. l \ {f} \in SUBSET File
    BY <1>4
  <2> QED
    BY <1>4, <1>9, <2>1, <2>2
<1>16. TypeOK'
  BY <1>14, <1>15 DEF Inv, TypeOK, diskVars, storeVars, fileVars, worldVars
<1>17. DiskOK' /\ CurrentOK'
  BY <1>14 DEF Inv, DiskOK, CurrentOK, diskVars, storeVars, fileVars, worldVars
<1>18. ReadingOK'
  <2>1. up' = up /\ disk' = disk /\ readers' = readers /\ export' = export /\ from' = from
        /\ upto' = upto
    BY <1>14 DEF worldVars, diskVars
  <2>2. \A i \in Exports \ {e} : left'[i] = left[i] /\ out'[i] = out[i]
    BY <1>1, <1>2, <1>4, Zenon
  <2>3. ASSUME NEW i \in Exports
        PROVE  /\ export'[i] = "reading" => /\ up' /\ i \in readers'
                                            /\ LeftOK(left'[i], upto'[i])
                                            /\ SentOK(left'[i], out'[i], from'[i], upto'[i])
                                            /\ OnDisk(left'[i], disk')
               /\ export'[i] = "done" => out'[i] = Span(from'[i], upto'[i])
    <3>1. CASE i = e
      BY <1>3, <1>10, <1>11, <1>12, <1>13, <2>1, <3>1 DEF a, u
    <3>2. CASE i # e
      BY <2>1, <2>2, <3>2 DEF Inv, ReadingOK
    <3> QED
      BY <3>1, <3>2
  <2> QED
    BY <2>3 DEF ReadingOK
<1> QED
  BY <1>16, <1>17, <1>18 DEF Inv

\* An export that ends has no file left; one that fails is forgotten.
LEMMA ExportOverInv ==
  ASSUME Inv, NEW e \in Exports, EndExport(e) \/ ExportFails(e)
  PROVE  Inv'
<1>1. /\ UNCHANGED <<diskVars, storeVars, worldVars, writer, worker, closer>>
      /\ readers' = readers \ {e}
      /\ export[e] = "reading"
  BY DEF EndExport, ExportFails
<1>2. /\ export \in [Exports -> {"idle", "reading", "done"}]
      /\ left \in [Exports -> SUBSET File] /\ out \in [Exports -> Seq(Nat)]
      /\ from \in [Exports -> Nat] /\ upto \in [Exports -> Nat]
  BY DEF Inv, TypeOK
<1>3. left' \in [Exports -> SUBSET File] /\ out' \in [Exports -> Seq(Nat)]
  <2>1. <<>> \in Seq(Nat) /\ {} \in SUBSET File
    OBVIOUS
  <2>2. CASE EndExport(e)
    BY <1>2, <2>2 DEF EndExport
  <2>3. CASE ExportFails(e)
    <3>1. left' = [left EXCEPT ![e] = {}] /\ out' = [out EXCEPT ![e] = <<>>]
      BY <2>3 DEF ExportFails
    <3> QED
      BY <1>2, <2>1, <3>1
  <2> QED
    BY <2>2, <2>3
<1>4. /\ export' \in [Exports -> {"idle", "reading", "done"}]
      /\ from' \in [Exports -> Nat] /\ upto' \in [Exports -> Nat]
  <2>1. CASE EndExport(e)
    BY <1>2, <2>1 DEF EndExport
  <2>2. CASE ExportFails(e)
    <3>1. /\ export' = [export EXCEPT ![e] = "idle"]
          /\ from' = [from EXCEPT ![e] = 0] /\ upto' = [upto EXCEPT ![e] = 0]
      BY <2>2 DEF ExportFails
    <3> QED
      BY <1>2, <3>1
  <2> QED
    BY <2>1, <2>2
<1>5. TypeOK'
  BY <1>1, <1>3, <1>4 DEF Inv, TypeOK, diskVars, storeVars, fileVars, worldVars
<1>6. DiskOK' /\ CurrentOK'
  BY <1>1 DEF Inv, DiskOK, CurrentOK, diskVars, storeVars, fileVars, worldVars
<1>7. ReadingOK'
  <2>1. up' = up /\ disk' = disk
    BY <1>1 DEF worldVars, diskVars
  <2>2. export'[e] \in {"idle", "done"}
    BY <1>2 DEF EndExport, ExportFails
  <2>3. \A i \in Exports \ {e} :
          /\ export'[i] = export[i] /\ left'[i] = left[i] /\ out'[i] = out[i]
          /\ from'[i] = from[i] /\ upto'[i] = upto[i]
    BY <1>2, Zenon DEF EndExport, ExportFails
  <2>4. ASSUME export'[e] = "done"
        PROVE  out'[e] = Span(from'[e], upto'[e])
    <3>1. EndExport(e)
      BY <1>2, <2>4 DEF ExportFails
    <3>2. left[e] = {} /\ UNCHANGED <<out, from, upto>>
      BY <3>1 DEF EndExport
    <3>3. SentOK(left[e], out[e], from[e], upto[e])
      BY <1>1 DEF Inv, ReadingOK
    <3> QED
      BY <3>2, <3>3 DEF SentOK
  <2>5. ASSUME NEW i \in Exports
        PROVE  /\ export'[i] = "reading" => /\ up' /\ i \in readers'
                                            /\ LeftOK(left'[i], upto'[i])
                                            /\ SentOK(left'[i], out'[i], from'[i], upto'[i])
                                            /\ OnDisk(left'[i], disk')
               /\ export'[i] = "done" => out'[i] = Span(from'[i], upto'[i])
    <3>1. CASE i = e
      BY <2>2, <2>4, <3>1
    <3>2. CASE i # e
      BY <1>1, <2>1, <2>3, <3>2 DEF Inv, ReadingOK
    <3> QED
      BY <3>1, <3>2
  <2> QED
    BY <2>5 DEF ReadingOK
<1> QED
  BY <1>5, <1>6, <1>7 DEF Inv

\* One case per group of actions.
LEMMA InvNext ==
  ASSUME Inv, [Next]_vars
  PROVE  Inv'
<1>1. CASE Next
  <2>1. ASSUME NEW length \in Lengths, Write(length) \/ WriteFails(length) \/ RotateFails(length)
        PROVE  Inv'
    BY <2>1, WriteInv, WriteFailsInv
  <2>2. ASSUME NEW e \in Exports, BeginExport(e) \/ ExportStep(e)
        PROVE  Inv'
    BY <2>2, BeginExportInv, ExportFileInv, ExportOverInv DEF ExportStep
  <2>3. CASE Tick \/ BeginClose \/ LockStep
    BY <2>3, QuietInv, CleanupInv DEF LockStep
  <2>4. CASE Open \/ OpenFails \/ ProcessEnds
    BY <2>4, OpenInv, OpenFailsInv, ProcessEndsInv
  <2> QED
    BY <1>1, <2>1, <2>2, <2>3, <2>4 DEF Next
<1>2. CASE UNCHANGED vars
  BY <1>2 DEF vars, diskVars, storeVars, fileVars, worldVars, exportVars, Inv, TypeOK,
     DiskOK, CurrentOK, ReadingOK
<1> QED
  BY <1>1, <1>2

\* The types, the files, the open one and the exports, in every reachable state.
THEOREM InvHolds == Spec => []Inv
BY InitInv, InvNext, PTL DEF Spec

-----------------------------------------------------------------------------
(* The size of the archive *)

\* A cleanup is due before CleanupEveryBytes are written.
SizeInv == bytesSinceGC < CleanupEveryBytes /\ DiskIsBounded

\* What is a limit, and what every step may use of the invariant.
LEMMA SizesTyped ==
  ASSUME Inv
  PROVE  /\ MaxTotalBytes \in Nat /\ CleanupEveryBytes \in Nat \ {0}
         /\ MaxRecordBytes \in Nat \ {0}
         /\ bytesSinceGC \in Nat /\ Bytes(disk) \in Nat
<1>1. names \in Nat /\ archived \in Nat /\ bytesSinceGC \in Nat
  BY DEF Inv, TypeOK
<1>2. Bytes(disk) \in Nat
  BY <1>1, HeldFinite DEF Inv, DiskOK
<1> QED
  BY <1>1, <1>2, OptionsAssumption DEF ValidOptions

\* A record counts towards the next cleanup, or is followed by it.
LEMMA WriteSize ==
  ASSUME Inv, SizeInv, NEW length \in Lengths, Write(length)
  PROVE  SizeInv'
<1> DEFINE data == Data(length)
<1>1. /\ data \in Nat /\ data <= MaxRecordBytes /\ MayWrite /\ Put(data, data)
      /\ UNCHANGED <<worldVars, writeDisabled>>
  BY DataFits DEF Write
<1>2. \/ /\ bytesSinceGC + data < CleanupEveryBytes
         /\ bytesSinceGC' = bytesSinceGC + data
      \/ bytesSinceGC' = 0 /\ worker' = "cleanup"
  <2>1. bytesSinceGC + data \in Nat /\ CleanupEveryBytes \in Nat
    BY <1>1, SizesTyped
  <2> QED BY <2>1 DEF Write
<1> HIDE DEF data
<1>3. Bytes(disk') = Bytes(disk) + data
  BY <1>1, PutOK DEF worldVars
<1>4. Bytes(disk) <= MaxTotalBytes + bytesSinceGC /\ bytesSinceGC < CleanupEveryBytes
  BY <1>1 DEF SizeInv, DiskIsBounded, MayWrite
<1> QED
  BY <1>1, <1>2, <1>3, <1>4, SizesTyped DEF SizeInv, DiskIsBounded

\* What is left of a write that fails is the last one of this run.
LEMMA WriteFailsSize ==
  ASSUME Inv, SizeInv, NEW length \in Lengths, WriteFails(length) \/ RotateFails(length)
  PROVE  SizeInv'
<1> DEFINE data == Data(length)
<1>1. /\ data \in Nat /\ data <= MaxRecordBytes
      /\ MayWrite /\ today' = today /\ writeDisabled' = TRUE /\ UNCHANGED bytesSinceGC
  BY DataFits DEF WriteFails, RotateFails
<1>2. disk' = disk \/ \E n \in Nat : n <= data /\ Put(data, n)
  <2>1. CASE WriteFails(length)
    <3>1. PICK n \in 0..(data - 1) : Put(data, n)
      BY <2>1, Zenon DEF WriteFails
    <3>2. n \in Nat /\ n <= data
      <4> HIDE DEF data
      <4> QED BY <1>1
    <3> QED BY <3>1, <3>2
  <2>2. CASE RotateFails(length)
    <3>1. disk' = disk \/ Put(data, 0)
      BY <2>2, Zenon DEF RotateFails, diskVars
    <3>2. 0 <= data
      <4> HIDE DEF data
      <4> QED BY <1>1
    <3> QED BY <3>1, <3>2
  <2> QED BY <2>1, <2>2
<1> HIDE DEF data
<1>3. Bytes(disk') \in Nat /\ Bytes(disk') <= Bytes(disk) + data
  <2>1. ASSUME NEW n \in Nat, n <= data, Put(data, n)
        PROVE  Bytes(disk') = Bytes(disk) + n
    BY <1>1, <2>1, PutOK
  <2> QED BY <1>1, <1>2, <2>1, SizesTyped
<1>4. Bytes(disk) <= MaxTotalBytes + bytesSinceGC /\ bytesSinceGC < CleanupEveryBytes
  BY <1>1 DEF SizeInv, DiskIsBounded, MayWrite
<1> QED
  BY <1>1, <1>3, <1>4, SizesTyped DEF SizeInv, DiskIsBounded

\* A cleanup that failed leaves the worker at work, and the writing ends.
LEMMA CleanupSize ==
  ASSUME Inv, SizeInv, Cleanup
  PROVE  SizeInv'
<1>1. disk' \subseteq disk /\ UNCHANGED <<bytesSinceGC, writeDisabled, up>>
  BY DEF Cleanup, CleanedUp, CleanupFailed, Removed, storeVars
<1>2. Bytes(disk') \in Nat /\ Bytes(disk') <= Bytes(disk)
  BY <1>1, FewerBytes DEF Inv, TypeOK, DiskOK
<1>3. Bytes(disk') <= MaxTotalBytes \/ worker' = "disabling"
  BY DEF Cleanup, CleanedUp, Removed, WithinLimit
<1> QED
  BY <1>1, <1>2, <1>3, SizesTyped DEF SizeInv, DiskIsBounded

\* A new archive starts within the limit.
LEMMA OpenSize ==
  ASSUME Inv, SizeInv, Open
  PROVE  SizeInv'
<1> DEFINE new == EmptyFile(names + 1)
<1>1. PICK gone \in Removals(None) :
        WithinLimit(disk \ gone) /\ disk' = (disk \ gone) \cup {new}
  BY DEF Open
<1>2. new \in File /\ new.lo = new.hi
  BY DEF Inv, TypeOK, EmptyFile, File
<1> HIDE DEF new
<1>3. Bytes(disk') = Bytes(disk \ gone)
  BY <1>1, <1>2, EmptyBytes
<1>4. Bytes(disk \ gone) \in Nat
  BY FewerBytes DEF Inv, TypeOK, DiskOK
<1>5. bytesSinceGC' = 0
  BY DEF Open, Opened
<1> QED
  BY <1>1, <1>3, <1>4, <1>5, SizesTyped DEF SizeInv, DiskIsBounded, WithinLimit

\* Without an archive, or with the writing ended, only the first bound is left.
LEMMA OtherSize ==
  ASSUME Inv, SizeInv, disk' \subseteq disk,
         bytesSinceGC' = bytesSinceGC \/ bytesSinceGC' = 0,
         \/ ~up' \/ writeDisabled'
         \/ UNCHANGED <<disk, bytesSinceGC, up, worker, writeDisabled>>
  PROVE  SizeInv'
<1>1. Bytes(disk') \in Nat /\ Bytes(disk') <= Bytes(disk)
  BY FewerBytes DEF Inv, TypeOK, DiskOK
<1> QED
  BY <1>1, SizesTyped DEF SizeInv, DiskIsBounded

\* One case per group of actions.
LEMMA SizeNext ==
  ASSUME Inv, SizeInv, [Next]_vars
  PROVE  SizeInv'
<1>1. ASSUME NEW length \in Lengths, Write(length) \/ WriteFails(length) \/ RotateFails(length)
      PROVE  SizeInv'
  BY <1>1, WriteSize, WriteFailsSize
<1>2. CASE OpenFails
  BY <1>2, OtherSize DEF OpenFails, CleanupFailed, Removed, storeVars
<1>3. CASE ProcessEnds \/ DisableWrites
  BY <1>3, OtherSize DEF ProcessEnds, DisableWrites, diskVars
<1>4. CASE Tick \/ AskForLock("worker") \/ AskForLock("closer") \/ BeginClose \/ Close
  BY <1>4, OtherSize DEF Tick, AskForLock, BeginClose, Close, diskVars, storeVars, worldVars
<1>5. ASSUME NEW e \in Exports, BeginExport(e) \/ ExportStep(e)
      PROVE  SizeInv'
  BY <1>5, OtherSize DEF BeginExport, ExportStep, ExportFile, EndExport, ExportFails,
     diskVars, storeVars, worldVars
<1>6. CASE UNCHANGED vars
  BY <1>6, OtherSize DEF vars, diskVars, storeVars, worldVars
<1> QED
  BY <1>1, <1>2, <1>3, <1>4, <1>5, <1>6, OpenSize, CleanupSize DEF Next, LockStep

\* The bounds, in every reachable state.
LEMMA SizeInvHolds == Spec => []SizeInv
<1>1. Init => SizeInv
  <2> SUFFICES ASSUME Init PROVE SizeInv
    OBVIOUS
  <2>1. Bytes(disk) = 0
    BY FS_EmptySet DEF Init, Bytes, Held
  <2> QED BY <2>1, InitInv, SizesTyped DEF Init, SizeInv, DiskIsBounded
<1>2. Inv /\ SizeInv /\ [Next]_vars => SizeInv'
  BY SizeNext
<1> QED
  BY <1>1, <1>2, InvHolds, PTL DEF Spec

-----------------------------------------------------------------------------
\* The variables of the archive keep their types, for any options, any records
\* and any number of exports.
THEOREM TypeCorrect == Spec => []TypeOK
<1>1. Inv => TypeOK
  BY DEF Inv
<1> QED
  BY <1>1, InvHolds, PTL

\* The files on disk are the end of what was written, without a gap, whatever
\* cleanups, failures and restarts came between.
THEOREM TailIsKept == Spec => []KeptIsTail
<1>1. Inv => KeptIsTail
  BY DEF Inv, DiskOK, FilesOK, KeptIsTail
<1> QED
  BY <1>1, InvHolds, PTL

\* No file outgrows MaxFileBytes.
THEOREM NoFileOutgrows == Spec => []FilesFit
<1>1. Inv => FilesFit
  BY DEF Inv, DiskOK, FilesOK, FilesFit
<1> QED
  BY <1>1, InvHolds, PTL

\* The archive exceeds MaxTotalBytes by less than what is written between two
\* cleanups and one record, whatever fails, stops and starts again.
THEOREM ArchiveIsBounded == Spec => []DiskIsBounded
<1>1. SizeInv => DiskIsBounded
  BY DEF SizeInv
<1> QED
  BY <1>1, SizeInvHolds, PTL

\* An export finds the files of its snapshot, and one that ends has sent exactly
\* their bytes.
THEOREM ExportsAreExact == Spec => []ExportIsExact
<1>1. Inv => ExportIsExact
  BY DEF Inv, ReadingOK, OnDisk, ExportIsExact
<1> QED
  BY <1>1, InvHolds, PTL

-----------------------------------------------------------------------------
(* The archive is a log that only grows at its end and loses its beginning. *)

\* The bytes in files, and those on disk: all there is to know of the archive.
BytesOf(files) == {b \in Nat : \E f \in files : f.lo < b /\ b <= f.hi}
kept == BytesOf(disk)

Extend == /\ archived' \in Nat /\ archived' >= archived
          /\ kept' = kept \cup ((archived + 1)..archived')
Forget == /\ archived' = archived
          /\ \E first \in Nat : kept' = {b \in kept : b > first}

LogSpec ==
  /\ kept = {} /\ archived = 0
  /\ [][Extend \/ Forget]_<<kept, archived>>

\* A byte on disk is followed by all that were written since: otherwise the newest
\* of the files that begin before the missing one would have no next.
LEMMA FilesAreAnEnd ==
  ASSUME NEW d, NEW n \in Nat, NEW a \in Nat, NEW t \in Nat, FilesOK(d, n, a, t)
  PROVE  /\ BytesOf(d) \subseteq 1..a
         /\ \A b \in BytesOf(d) : b..a \subseteq BytesOf(d)
<1>1. \A f \in d : /\ f.name \in Nat /\ f.lo \in Nat /\ f.hi \in Nat
                   /\ f.name <= n /\ f.hi <= a
  BY DEF FilesOK, File
<1>2. BytesOf(d) \subseteq 1..a
  BY <1>1 DEF BytesOf
<1>3. ASSUME NEW b \in BytesOf(d), NEW c \in b..a PROVE c \in BytesOf(d)
  <2>1. PICK f \in d : f.lo < b
    BY <1>3 DEF BytesOf
  <2>2. b \in Nat /\ c \in Nat /\ b <= c /\ c <= a
    BY <1>1, <1>3 DEF BytesOf
  <2> DEFINE before == {g \in d : g.lo < c}
             ranks == {n - g.name : g \in before}
  <2>3. f \in before
    BY <1>1, <2>1, <2>2
  <2>4. ranks \in SUBSET Nat /\ ranks # {}
    BY <1>1, <2>3
  <2>5. PICK least \in ranks : \A rank \in ranks : least <= rank
    <3> HIDE DEF ranks
    <3> QED BY <2>4, LeastExists
  <2>6. PICK g \in before : least = n - g.name
    BY <2>5
  <2>7. \A h \in before : h.name <= g.name
    <3>1. TAKE h \in before
    <3>2. n - g.name <= n - h.name
      BY <2>5, <2>6, <3>1
    <3> QED BY <1>1, <3>1, <3>2
  <2>8. c <= g.hi
    <3>1. SUFFICES ASSUME g.hi < c PROVE FALSE
      BY <1>1, <2>2
    <3>2. g.name # n
      BY <1>1, <2>2, <3>1 DEF FilesOK
    <3>3. PICK h \in d : h.name = g.name + 1 /\ h.lo = g.hi
      BY <3>2 DEF FilesOK
    <3>4. h \in before
      BY <3>1, <3>3
    <3>5. h.name <= g.name /\ g.name \in Nat
      BY <1>1, <2>7, <3>4
    <3> QED BY <3>3, <3>5
  <2> QED BY <2>2, <2>8 DEF BytesOf
<1> QED BY <1>2, <1>3

\* What is on disk before and after a step.
LEMMA KeptIsAnEnd ==
  ASSUME Inv, Inv'
  PROVE  /\ archived \in Nat /\ archived' \in Nat
         /\ kept \subseteq 1..archived /\ kept' \subseteq 1..archived'
         /\ \A b \in kept' : b..archived' \subseteq kept'
<1>1. /\ names \in Nat /\ archived \in Nat /\ today \in Nat
      /\ FilesOK(disk, names, archived, today)
  BY DEF Inv, TypeOK, DiskOK
<1>2. /\ names' \in Nat /\ archived' \in Nat /\ today' \in Nat
      /\ FilesOK(disk', names', archived', today')
  BY DEF Inv, TypeOK, DiskOK
<1> QED BY <1>1, <1>2, FilesAreAnEnd DEF kept

\* What a step leaves of the bytes on disk, when it adds none, is their end.
LEMMA ForgetsTheBeginning ==
  ASSUME Inv, Inv', archived' = archived, kept' \subseteq kept
  PROVE  Forget
<1>1. /\ archived \in Nat /\ kept \subseteq 1..archived
      /\ \A b \in kept' : b..archived \subseteq kept'
  <2>1. /\ archived \in Nat /\ kept \subseteq 1..archived
        /\ \A b \in kept' : b..archived' \subseteq kept'
    BY KeptIsAnEnd
  <2> QED BY <2>1
<1>3. CASE kept' = {}
  <2>1. \A b \in kept : ~ (b > archived)
    BY <1>1
  <2>2. {b \in kept : b > archived} = {}
    BY <2>1
  <2> QED BY <1>1, <1>3, <2>2 DEF Forget
<1>4. CASE kept' # {}
  <2>1. kept' \in SUBSET Nat
    BY <1>1
  <2>2. PICK least \in kept' : \A b \in kept' : least <= b
    BY <1>4, <2>1, LeastExists
  <2>3. least \in Nat /\ least - 1 \in Nat
    BY <1>1, <2>2
  <2>4. ASSUME NEW b \in kept, b > least - 1 PROVE b \in kept'
    <3>1. b \in least..archived
      BY <1>1, <2>3, <2>4
    <3> QED BY <1>1, <2>2, <3>1
  <2>5. \A b \in kept' : b > least - 1
    BY <2>1, <2>2, <2>3
  <2>6. kept' = {b \in kept : b > least - 1}
    BY <2>4, <2>5
  <2> QED BY <2>3, <2>6 DEF Forget
<1> QED BY <1>3, <1>4

\* What is written follows the bytes on disk, however much of it got there.
LEMMA ExtendsTheEnd ==
  ASSUME Inv, Inv', NEW n \in Nat, GrownBy(n), archived' = archived + n, DiskGrows
  PROVE  Extend
<1>1. /\ archived \in Nat /\ archived' \in Nat
      /\ \A f \in disk : f.lo \in Nat /\ f.hi \in Nat
      /\ \A f \in disk' : f.lo \in Nat /\ f.hi \in Nat
  BY DEF Inv, TypeOK, File
<1>2. PICK g \in disk' :
        /\ g.lo <= archived /\ g.hi = archived + n
        /\ g.lo = archived \/ \E f \in disk : f.lo = g.lo /\ f.hi = archived
        /\ disk' \ {g} \subseteq disk
  BY DEF GrownBy
<1>3. kept \subseteq kept'
  <2>1. disk \in SUBSET File /\ OnDisk(disk, disk)
    <3>1. disk \subseteq File
      BY DEF Inv, TypeOK
    <3>2. \A f \in disk : f.hi >= f.hi
      BY <1>1
    <3> QED BY <3>1, <3>2 DEF OnDisk
  <2>2. OnDisk(disk, disk')
    BY <2>1 DEF DiskGrows
  <2>3. ASSUME NEW b \in Nat, NEW f \in disk, f.lo < b, b <= f.hi PROVE b \in kept'
    <3>1. PICK h \in disk' : h.lo = f.lo /\ h.hi >= f.hi
      BY <2>2 DEF OnDisk
    <3>2. h.lo < b /\ b <= h.hi
      BY <1>1, <2>3, <3>1
    <3> QED BY <3>2 DEF kept, BytesOf
  <2> QED BY <2>3 DEF kept, BytesOf
<1>4. (archived + 1)..archived' \subseteq kept'
  BY <1>1, <1>2 DEF kept, BytesOf
<1>5. ASSUME NEW b \in kept', b <= archived PROVE b \in kept
  <2>1. PICK f \in disk' : b \in Nat /\ f.lo < b /\ b <= f.hi
    BY DEF kept, BytesOf
  <2>2. CASE f \in disk
    BY <2>1, <2>2 DEF kept, BytesOf
  <2>3. CASE f = g
    <3>1. g.lo # archived
      BY <1>1, <1>5, <2>1, <2>3
    <3> QED BY <1>2, <1>5, <2>1, <2>3, <3>1 DEF kept, BytesOf
  <2> QED BY <1>2, <2>2, <2>3
<1>6. kept' \subseteq 1..archived'
  BY KeptIsAnEnd
<1>7. \A b \in kept' : b \in kept \/ b \in (archived + 1)..archived'
  BY <1>1, <1>5, <1>6
<1>8. kept' = kept \cup ((archived + 1)..archived')
  BY <1>3, <1>4, <1>7
<1> QED BY <1>1, <1>8 DEF Extend

\* To whoever looks for what was logged, the archive is a log: the files, their
\* rotation, the cleanups cut off or refused, failing writes and restarts only
\* append what was written and forget the oldest of it; nothing that was forgotten
\* comes back, and nothing is missing in between.
THEOREM ArchiveIsALog == Spec => LogSpec
<1>1. Init => kept = {} /\ archived = 0
  BY DEF Init, kept, BytesOf
<1>2. ASSUME Inv, Inv', [Next]_vars
      PROVE  Extend \/ Forget \/ UNCHANGED <<kept, archived>>
  <2>1. ASSUME NEW length \in Lengths, Write(length) PROVE Extend
    <3> DEFINE data == Data(length)
    <3>1. /\ data \in Nat /\ data <= MaxRecordBytes /\ data <= data
          /\ MayWrite /\ Put(data, data) /\ today' = today /\ archived' = archived + data
      BY <2>1, DataFits DEF Write, worldVars, Put
    <3> HIDE DEF data
    <3>2. DiskGrows /\ GrownBy(data)
      BY <1>2, <3>1, PutOK
    <3> QED BY <1>2, <3>1, <3>2, ExtendsTheEnd
  <2>2. ASSUME NEW length \in Lengths, WriteFails(length) \/ RotateFails(length)
        PROVE  Extend \/ UNCHANGED <<kept, archived>>
    <3> DEFINE data == Data(length)
    <3>1. data \in Nat /\ data <= MaxRecordBytes /\ MayWrite /\ today' = today
      BY <2>2, DataFits DEF WriteFails, RotateFails
    <3>2. UNCHANGED diskVars \/ \E n \in Nat : n <= data /\ Put(data, n)
      <4>1. CASE WriteFails(length)
        <5>1. PICK n \in 0..(data - 1) : Put(data, n)
          BY <4>1, Zenon DEF WriteFails
        <5>2. n \in Nat /\ n <= data
          <6> HIDE DEF data
          <6> QED BY <3>1
        <5> QED BY <5>1, <5>2
      <4>2. CASE RotateFails(length)
        <5>1. UNCHANGED diskVars \/ Put(data, 0)
          BY <4>2, Zenon DEF RotateFails
        <5>2. 0 <= data
          <6> HIDE DEF data
          <6> QED BY <3>1
        <5> QED BY <5>1, <5>2
      <4> QED BY <2>2, <4>1, <4>2
    <3> HIDE DEF data
    <3>3. ASSUME NEW n \in Nat, n <= data, Put(data, n) PROVE Extend
      <4>1. DiskGrows /\ GrownBy(n)
        BY <1>2, <3>1, <3>3, PutOK
      <4>2. archived' = archived + n
        BY <3>3 DEF Put
      <4> QED BY <1>2, <4>1, <4>2, ExtendsTheEnd
    <3>4. ASSUME UNCHANGED diskVars PROVE UNCHANGED <<kept, archived>>
      BY <3>4 DEF diskVars, kept
    <3> QED BY <3>2, <3>3, <3>4
  <2>3. ASSUME disk' \subseteq disk, archived' = archived PROVE Forget
    <3>1. kept' \subseteq kept
      BY <2>3 DEF kept, BytesOf
    <3> QED BY <1>2, <2>3, <3>1, ForgetsTheBeginning
  <2>4. CASE OpenFails \/ Cleanup
    <3>1. disk' \subseteq disk /\ archived' = archived
      BY <2>4 DEF OpenFails, Cleanup, CleanedUp, CleanupFailed, Removed
    <3> QED BY <2>3, <3>1
  <2>5. CASE Open
    <3>1. PICK gone \in Removals(None) : disk' = (disk \ gone) \cup {EmptyFile(names + 1)}
      BY <2>5 DEF Open
    <3>2. archived' = archived /\ archived \in Nat
      BY <1>2, <2>5 DEF Open, Inv, TypeOK
    <3>3. EmptyFile(names + 1).lo = archived /\ EmptyFile(names + 1).hi = archived
      BY DEF EmptyFile
    <3>4. ASSUME NEW b \in Nat, NEW f \in disk', f.lo < b, b <= f.hi PROVE f \in disk
      <4>1. f # EmptyFile(names + 1)
        BY <3>2, <3>3, <3>4
      <4> QED BY <3>1, <3>4, <4>1
    <3>5. kept' \subseteq kept
      BY <3>4 DEF kept, BytesOf
    <3> QED BY <1>2, <3>2, <3>5, ForgetsTheBeginning
  <2>6. ASSUME UNCHANGED <<disk, archived>> PROVE UNCHANGED <<kept, archived>>
    BY <2>6 DEF kept, BytesOf
  <2>7. ASSUME NEW e \in Exports, BeginExport(e) \/ ExportStep(e)
        PROVE  UNCHANGED <<disk, archived>>
    BY <2>7 DEF BeginExport, ExportStep, ExportFile, EndExport, ExportFails, diskVars
  <2>8. CASE \/ Tick \/ AskForLock("worker") \/ AskForLock("closer") \/ ProcessEnds
             \/ BeginClose \/ Close \/ DisableWrites \/ UNCHANGED vars
    BY <2>6, <2>8 DEF Tick, AskForLock, ProcessEnds, BeginClose, Close, DisableWrites, vars,
       diskVars
  <2> QED
    BY <1>2, <2>1, <2>2, <2>4, <2>5, <2>6, <2>7, <2>8 DEF Next, LockStep
<1> QED
  BY <1>1, <1>2, InvHolds, PTL DEF Spec, LogSpec

-----------------------------------------------------------------------------
(* A cleanup has an outcome.                                               *)

\* What a cleanup that no file operation fails may end with: every expired file
\* removed and the limit kept, or nothing left that may go.
Outcome(active) ==
  \E gone \in Removals(active) :
    \/ WithinLimit(disk \ gone) /\ \A f \in Others(active) \ gone : ~Expired(f)
    \/ ~WithinLimit(disk \ gone) /\ gone = Others(active)

\* The two passes of the loop are one order, because an expired file is an old one.
LEMMA PrecedesOrders ==
  ASSUME TypeOK, NEW f \in disk, NEW g \in disk, NEW h \in disk, Precedes(f, g), Precedes(g, h)
  PROVE  Precedes(f, h)
<1>1. f.name \in Nat /\ g.name \in Nat /\ h.name \in Nat
  BY DEF TypeOK, File
<1>2. /\ f.mod \in Nat /\ g.mod \in Nat /\ h.mod \in Nat
      /\ today \in Nat /\ MaxAge \in Nat /\ PreferredMinAge \in 0..MaxAge
  BY OptionsAssumption DEF TypeOK, File, ValidOptions
<1>3. \A i \in {f, g, h} : Expired(i) => ~Recent(i)
  BY <1>2 DEF Expired, Recent
<1> QED
  BY <1>1, <1>3 DEF Precedes

\* Where the removal stops: no file that goes before f0 would have been kept.
LEMMA FirstKept ==
  ASSUME TypeOK, NEW s \in SUBSET disk, s # {}, \A f \in s : ~Expired(f)
  PROVE  \E f0 \in s : \A f \in s : ~Precedes(f, f0)
<1> DEFINE oldest == {f \in s : ~Recent(f)}
           next   == IF oldest = {} THEN s ELSE oldest
           ranks  == {f.name : f \in next}
<1>1. \A f \in s : f.name \in Nat
  BY DEF TypeOK, File
<1>2. next \subseteq s /\ next # {}
  OBVIOUS
<1>3. ranks \in SUBSET Nat /\ ranks # {}
  BY <1>1, <1>2
<1>4. PICK least \in ranks : \A rank \in ranks : least <= rank
  <2> HIDE DEF ranks
  <2> QED BY <1>3, LeastExists
<1>5. PICK f0 \in next : f0.name = least
  BY <1>4
<1>6. \A f \in next : f0.name <= f.name
  BY <1>4, <1>5
<1>7. ASSUME NEW f \in s, Precedes(f, f0) PROVE FALSE
  <2>1. ~Expired(f) /\ ~Expired(f0) /\ f0 \in s
    BY <1>2, <1>5
  <2>2. Recent(f0) => oldest = {} /\ Recent(f)
    BY <1>5
  <2>3. f \in next /\ f.name < f0.name
    BY <1>7, <2>1, <2>2, <1>5 DEF Precedes
  <2> QED
    BY <1>1, <1>6, <2>1, <2>3
<1> QED
  BY <1>2, <1>5, <1>7

\* cleanup never ends undecided: whatever is on disk, when the process starts and
\* when the worker has the lock, removing files in the order of the loop reaches
\* the limit with no expired file left, or has removed all that may go.
THEOREM CleanupHasAnOutcome ==
  Spec => [](\A active \in {None, currentPath} : Outcome(active))
<1>1. ASSUME TypeOK, DiskOK, NEW active PROVE Outcome(active)
  <2> DEFINE before(f) == {g \in Others(active) : Precedes(g, f)}
             enough    == {f \in Others(active) : ~Expired(f) /\ WithinLimit(disk \ before(f))}
  <2>1. Others(active) \subseteq disk
    BY DEF Others
  <2>2. \A f \in Others(active) \ enough :
          Expired(f) \/ Bytes(disk \ before(f)) > MaxTotalBytes
    <3>1. \A f \in Others(active) \ enough : Expired(f) \/ ~WithinLimit(disk \ before(f))
      OBVIOUS
    <3>2. \A d \in SUBSET disk : ~WithinLimit(d) => Bytes(d) > MaxTotalBytes
      <4>1. ASSUME NEW d \in SUBSET disk PROVE Bytes(d) \in Nat
        <5>1. names \in Nat /\ archived \in Nat /\ FilesOK(disk, names, archived, today)
          BY <1>1 DEF TypeOK, DiskOK
        <5> QED BY <4>1, <5>1, FewerBytes
      <4> QED BY <4>1, OptionsAssumption DEF WithinLimit, ValidOptions
    <3>3. \A f \in Others(active) : disk \ before(f) \in SUBSET disk
      OBVIOUS
    <3> QED BY <3>1, <3>2, <3>3
  <2>3. CASE enough = {}
    <3>1. Others(active) \in Removals(active)
      BY <2>2, <2>3 DEF Removals
    <3> QED BY <3>1 DEF Outcome
  <2>4. CASE enough # {}
    <3>1. PICK f0 \in enough : \A f \in enough : ~Precedes(f, f0)
      <4>1. enough \in SUBSET disk /\ \A f \in enough : ~Expired(f)
        BY <2>1
      <4> HIDE DEF enough
      <4> QED BY <1>1, <2>4, <4>1, FirstKept
    <3>2. ASSUME NEW f \in before(f0)
          PROVE  /\ before(f) \subseteq before(f0)
                 /\ Expired(f) \/ Bytes(disk \ before(f)) > MaxTotalBytes
      <4>1. f \in Others(active) \ enough
        BY <3>1, <3>2
      <4>2. ASSUME NEW g \in before(f) PROVE g \in before(f0)
        BY <1>1, <2>1, <3>1, <3>2, <4>2, PrecedesOrders
      <4> QED BY <2>2, <4>1, <4>2
    <3>3. before(f0) \in Removals(active)
      BY <3>2 DEF Removals
    <3>4. \A f \in Others(active) \ before(f0) : ~Expired(f)
      BY <3>1 DEF Precedes
    <3>5. WithinLimit(disk \ before(f0))
      BY <3>1
    <3> HIDE DEF before
    <3> QED BY <3>3, <3>4, <3>5 DEF Outcome
  <2> QED BY <2>3, <2>4
<1>2. Inv => \A active \in {None, currentPath} : Outcome(active)
  BY <1>1 DEF Inv
<1> QED
  BY <1>2, InvHolds, PTL

-----------------------------------------------------------------------------
(* What MaintenanceEnds rests on.                                          *)

\* archiveMu is shared by the exports that read and by nobody else, whoever asked
\* for it alone still needs it, and the worker and Close never ask together.
LockKept ==
  /\ readers = {e \in Exports : export[e] = "reading"}
  /\ writer = "worker" => worker # "idle"
  /\ writer = "closer" => closer = "closing"
  /\ worker # "idle" => closer = "idle"

\* Whoever waits for archiveMu may ask for it, or has asked and nobody is left but
\* exports that read, each of which may end at any time.
MaintenanceGoesOn ==
  worker # "idle" \/ closer = "closing" =>
    \/ writer = None
    \/ /\ writer = (IF worker # "idle" THEN "worker" ELSE "closer")
       /\ \A e \in readers : export[e] = "reading"

\* No return keeps the lock, and none gives up what another holds.
LEMMA LockKeptNext ==
  ASSUME Inv, LockKept, [Next]_vars
  PROVE  LockKept'
<1>1. /\ export \in [Exports -> {"idle", "reading", "done"}]
      /\ worker \in {"idle", "cleanup", "disabling"} /\ closer \in {"idle", "closing", "closed"}
      /\ None \notin {"worker", "closer"}
  BY BoundsAssumption DEF Inv, TypeOK
<1>2. ASSUME NEW e \in Exports, NEW next \in {"idle", "reading", "done"},
             export' = [export EXCEPT ![e] = next],
             readers' = (IF next = "reading" THEN readers \cup {e} ELSE readers \ {e}),
             UNCHANGED <<writer, worker, closer>>
      PROVE  LockKept'
  <2>1. readers' = {i \in Exports : export'[i] = "reading"}
    BY <1>1, <1>2 DEF LockKept
  <2> QED BY <1>2, <2>1 DEF LockKept
<1>3. ASSUME NEW e \in Exports, BeginExport(e) \/ ExportStep(e)
      PROVE  LockKept'
  <2>1. CASE BeginExport(e)
    BY <1>2, <2>1 DEF BeginExport
  <2>2. CASE EndExport(e)
    BY <1>2, <2>2 DEF EndExport
  <2>3. CASE ExportFails(e)
    BY <1>2, <2>3 DEF ExportFails
  <2>4. CASE ExportFile(e)
    BY <2>4 DEF ExportFile, LockKept
  <2> QED BY <1>3, <2>1, <2>2, <2>3, <2>4 DEF ExportStep
<1>4. ASSUME UNCHANGED <<readers, export>>,
             \/ writer' = None \/ UNCHANGED <<writer, worker, closer>>
             \/ writer' = "worker" /\ worker' # "idle"
             \/ writer' = "closer" /\ closer' = "closing",
             worker' # "idle" => closer' = "idle"
      PROVE  LockKept'
  BY <1>1, <1>4 DEF LockKept
<1>5. CASE AskForLock("worker") \/ AskForLock("closer")
  BY <1>4, <1>5 DEF AskForLock, exportVars, LockKept
<1>6. CASE Cleanup \/ DisableWrites \/ Close
  BY <1>4, <1>6 DEF Cleanup, DisableWrites, Close, Holds, exportVars, LockKept
<1>7. CASE BeginClose
  <2>1. /\ UNCHANGED <<readers, export, writer, worker>>
        /\ worker = "idle" /\ closer = "idle"
    BY <1>7 DEF BeginClose, exportVars
  <2> QED BY <2>1 DEF LockKept
<1>8. ASSUME NEW length \in Lengths, Write(length) \/ WriteFails(length) \/ RotateFails(length)
      PROVE  LockKept'
  <2>1. /\ UNCHANGED <<readers, export, writer, closer>>
        /\ worker = "idle" /\ closer = "idle"
    BY <1>8 DEF Write, WriteFails, RotateFails, MayWrite, exportVars
  <2>2. writer # "worker" /\ writer # "closer"
    BY <2>1 DEF LockKept
  <2> QED BY <2>1, <2>2 DEF LockKept
<1>9. CASE ProcessEnds
  <2>1. /\ readers' = {} /\ writer' = None /\ worker' = "idle"
        /\ export' = [e \in Exports |-> "idle"]
    BY <1>9 DEF ProcessEnds
  <2> QED BY <1>1, <2>1 DEF LockKept
<1>10. ASSUME UNCHANGED <<readers, export, writer, worker, closer>> PROVE LockKept'
  BY <1>10 DEF LockKept
<1>11. CASE Tick \/ Open \/ OpenFails \/ UNCHANGED vars
  BY <1>10, <1>11 DEF Tick, Open, OpenFails, vars, exportVars
<1> QED
  BY <1>3, <1>5, <1>6, <1>7, <1>8, <1>9, <1>11 DEF Next, LockStep

\* Neither a cleanup nor Close waits for anything but exports that began before it
\* asked, each of which may end: a lock kept by a return, or a request for it left
\* behind, would stop the archive, and the process at its end.
THEOREM LockIsServed ==
  Spec => /\ []MaintenanceGoesOn
          /\ [][writer # None /\ writer' = writer => readers' \subseteq readers]_vars
<1>1. Init => LockKept
  BY BoundsAssumption DEF Init, LockKept
<1>2. ASSUME Inv, LockKept PROVE MaintenanceGoesOn
  <2>1. writer \in {None, "worker", "closer"}
    BY <1>2 DEF Inv, TypeOK
  <2> QED BY <1>2, <2>1 DEF LockKept, MaintenanceGoesOn
<1>3. ASSUME [Next]_vars, writer # None, writer' = writer
      PROVE  readers' \subseteq readers
  BY <1>3 DEF Next, LockStep, Tick, Open, OpenFails, ProcessEnds, Write, WriteFails, RotateFails,
     AskForLock, Cleanup, DisableWrites, BeginClose, Close, BeginExport, ExportStep,
     ExportFile, EndExport, ExportFails, vars
<1> QED
  BY <1>1, <1>2, <1>3, LockKeptNext, InvHolds, PTL DEF Spec
=============================================================================
