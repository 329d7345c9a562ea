------------------------- MODULE MigrationFilesProofs -------------------------
(***************************************************************************)
(* Lemmas about histories and packages of files, for any packages.         *)
(*                                                                         *)
(* pending_migrations compares NAMES: a history it does not refuse has     *)
(* only known, unmodified files and no gap.  What the migrators promise is *)
(* about PREFIXES.  The two agree because histories come from migrators:   *)
(* Honest is the invariant that says so, and appending a package's next    *)
(* file keeps it (AppendHonest).                                           *)
(***************************************************************************)
EXTENDS MigrationFiles, SequenceTheorems, TLAPS

Ascending(files) == \A i, j \in DOMAIN files : i < j => files[i].name < files[j].name

\* The history holds the first files of a package, unmodified.
HoldsFirst(files, rows) ==
  /\ Len(rows) <= Len(files)
  /\ \A i \in 1 .. Len(rows) : rows[i] = Row(files[i])

Honest(rows) ==
  \A m \in Migrator : ~HistoryRefused(Shipped[m], rows) => HoldsFirst(Shipped[m], rows)

\* What ShippedAssumption says of one package.
LEMMA ShippedFiles ==
  ASSUME NEW m \in Migrator
  PROVE  /\ Shipped[m] \in Seq(File) /\ Ascending(Shipped[m])
BY ShippedAssumption DEF Ascending

\* The types of a file's fields and of the row it leaves.
LEMMA FileFields ==
  ASSUME NEW files \in Seq(File), NEW i \in DOMAIN files
  PROVE  /\ files[i] \in File /\ i \in 1 .. Len(files) /\ Len(files) \in Nat
         /\ files[i].name \in Nat /\ files[i].sum \in Nat
         /\ files[i].fk \in BOOLEAN /\ files[i].stmts \in Seq(Kind)
         /\ Row(files[i]) \in Rows
         /\ Row(files[i]).name = files[i].name /\ Row(files[i]).sum = files[i].sum
<1>1. files[i] \in File /\ i \in 1 .. Len(files) /\ Len(files) \in Nat
  OBVIOUS
<1>2. \A f \in File : /\ f.name \in Nat /\ f.sum \in Nat /\ f.fk \in BOOLEAN
                      /\ f.stmts \in Seq(Kind)
  BY DEF File
<1> QED BY <1>1, <1>2 DEF Row, Rows

\* Of a package whose first files are the history, those are the applied ones.
LEMMA FirstApplied ==
  ASSUME NEW files \in Seq(File), Ascending(files), NEW rows \in Seq(Rows),
         HoldsFirst(files, rows), NEW i \in DOMAIN files
  PROVE  IsApplied(files[i], rows) <=> i <= Len(rows)
<1>1. /\ Len(rows) \in Nat /\ DOMAIN rows = 1 .. Len(rows)
      /\ Len(files) \in Nat /\ DOMAIN files = 1 .. Len(files) /\ i \in 1 .. Len(files)
  OBVIOUS
<1>2. \A j \in DOMAIN rows : j \in DOMAIN files /\ rows[j].name = files[j].name
  BY <1>1, FileFields DEF HoldsFirst
<1>3. ASSUME NEW j \in DOMAIN rows, rows[j].name = files[i].name
      PROVE  i = j
  <2>1. files[j].name = files[i].name /\ j \in DOMAIN files
    BY <1>2, <1>3
  <2>2. files[i].name \in Nat /\ files[j].name \in Nat
    BY <2>1, FileFields
  <2>3. ~(i < j) /\ ~(j < i)
    BY <2>1, <2>2 DEF Ascending
  <2> QED BY <1>1, <2>1, <2>3
<1>4. i <= Len(rows) => i \in DOMAIN rows /\ rows[i].name = files[i].name
  BY <1>1, <1>2
<1> QED BY <1>1, <1>3, <1>4 DEF IsApplied

\* The next file of such a package is the first pending one.
LEMMA FirstOfPrefix ==
  ASSUME NEW files \in Seq(File), Ascending(files), NEW rows \in Seq(Rows),
         HoldsFirst(files, rows)
  PROVE  FirstPending(files, rows) = Len(rows) + 1
<1> DEFINE Is(i) == /\ i <= Len(files) => ~IsApplied(files[i], rows)
                    /\ \A j \in 1 .. i - 1 : IsApplied(files[j], rows)
<1>1. /\ Len(rows) \in Nat /\ Len(files) \in Nat /\ DOMAIN files = 1 .. Len(files)
      /\ Len(rows) <= Len(files)
  BY DEF HoldsFirst
<1>2. \A i \in 1 .. Len(files) : IsApplied(files[i], rows) <=> i <= Len(rows)
  BY <1>1, FirstApplied
<1> HIDE DEF IsApplied
<1>3. Len(rows) + 1 \in 1 .. Len(files) + 1 /\ Is(Len(rows) + 1)
  <2>1. Len(rows) + 1 \in 1 .. Len(files) + 1
    BY <1>1
  <2>2. Len(rows) + 1 <= Len(files) => ~IsApplied(files[Len(rows) + 1], rows)
    BY <1>1, <1>2
  <2>3. \A j \in 1 .. (Len(rows) + 1) - 1 : IsApplied(files[j], rows)
    BY <1>1, <1>2
  <2> QED BY <2>1, <2>2, <2>3
<1>4. ASSUME NEW i \in 1 .. Len(files) + 1, Is(i)
      PROVE  i = Len(rows) + 1
  <2>1. CASE i <= Len(rows)
    BY <1>1, <1>2, <1>4, <2>1
  <2>2. CASE i > Len(rows) + 1
    <3>1. Len(rows) + 1 \in 1 .. i - 1 /\ Len(rows) + 1 \in 1 .. Len(files)
      BY <1>1, <2>2
    <3> QED BY <1>1, <1>2, <1>4, <3>1
  <2> QED BY <1>1, <2>1, <2>2
<1> QED BY <1>3, <1>4 DEF FirstPending

\* A row stays applied when another one is added.
LEMMA StillApplied ==
  ASSUME NEW rows \in Seq(Rows), NEW r \in Rows
  PROVE  /\ Append(rows, r) \in Seq(Rows) /\ Len(Append(rows, r)) = Len(rows) + 1
         /\ Append(rows, r)[Len(rows) + 1] = r
         /\ \A i \in 1 .. Len(rows) : Append(rows, r)[i] = rows[i]
         /\ \A f : IsApplied(f, Append(rows, r)) <=> IsApplied(f, rows) \/ r.name = f.name
<1>1. /\ Append(rows, r) \in Seq(Rows) /\ Len(Append(rows, r)) = Len(rows) + 1
      /\ Append(rows, r)[Len(rows) + 1] = r
      /\ \A i \in 1 .. Len(rows) : Append(rows, r)[i] = rows[i]
      /\ Len(rows) \in Nat
  OBVIOUS
<1>2. DOMAIN rows = 1 .. Len(rows) /\ DOMAIN Append(rows, r) = 1 .. Len(rows) + 1
  BY <1>1
<1> DEFINE s == Append(rows, r)
<1> HIDE DEF s
<1>3. \A f : IsApplied(f, s) <=> IsApplied(f, rows) \/ r.name = f.name
  <2>1. /\ DOMAIN s = 1 .. Len(rows) + 1 /\ s[Len(rows) + 1] = r
        /\ \A i \in 1 .. Len(rows) : s[i] = rows[i]
    BY <1>1, <1>2 DEF s
  <2> TAKE f
  <2>2. ASSUME IsApplied(f, rows) PROVE IsApplied(f, s)
    <3>1. PICK i \in DOMAIN rows : rows[i].name = f.name
      BY <2>2 DEF IsApplied
    <3>2. i \in DOMAIN s /\ s[i].name = f.name
      BY <1>1, <1>2, <2>1, <3>1
    <3> QED BY <3>2 DEF IsApplied
  <2>3. ASSUME r.name = f.name PROVE IsApplied(f, s)
    BY <1>1, <2>1, <2>3 DEF IsApplied
  <2>4. ASSUME IsApplied(f, s) PROVE IsApplied(f, rows) \/ r.name = f.name
    <3>1. PICK i \in DOMAIN s : s[i].name = f.name
      BY <2>4 DEF IsApplied
    <3>2. i \in DOMAIN rows \/ i = Len(rows) + 1
      BY <1>1, <1>2, <2>1
    <3> QED BY <1>2, <2>1, <3>1, <3>2 DEF IsApplied
  <2> QED BY <2>2, <2>3, <2>4
<1> QED BY <1>1, <1>3 DEF s

\* The next file of a package that does not refuse the history may be applied:
\* whoever does not refuse the new history ships it as its first files, too.
LEMMA AppendHonest ==
  ASSUME NEW rows \in Seq(Rows), Honest(rows), NEW p \in Migrator,
         HoldsFirst(Shipped[p], rows), NEW n \in DOMAIN Shipped[p], n = Len(rows) + 1
  PROVE  Honest(Append(rows, Row(Shipped[p][n])))
<1> DEFINE r == Row(Shipped[p][n])
           new == Append(rows, r)
<1> SUFFICES ASSUME NEW m \in Migrator, ~HistoryRefused(Shipped[m], new)
             PROVE  HoldsFirst(Shipped[m], new)
  BY DEF Honest
<1> DEFINE files == Shipped[m]
<1>1. /\ files \in Seq(File) /\ Ascending(files)
      /\ Shipped[p] \in Seq(File) /\ Ascending(Shipped[p])
  BY ShippedFiles
<1>2. /\ r \in Rows /\ r.name = Shipped[p][n].name /\ r.sum = Shipped[p][n].sum
      /\ r.name \in Nat /\ n \in Nat /\ Len(rows) \in Nat
  BY <1>1, FileFields
<1>3. /\ new \in Seq(Rows) /\ Len(new) = n /\ new[n] = r
      /\ \A i \in 1 .. n - 1 : new[i] = rows[i]
      /\ \A f : IsApplied(f, new) <=> IsApplied(f, rows) \/ r.name = f.name
  BY <1>2, StillApplied
<1>4. /\ DOMAIN rows = 1 .. n - 1 /\ DOMAIN new = 1 .. n
      /\ DOMAIN files = 1 .. Len(files) /\ Len(files) \in Nat
  BY <1>1, <1>2, <1>3
<1> HIDE DEF files, new, r
<1>5. \A i \in DOMAIN rows : rows[i].name < r.name /\ rows[i].name \in Nat
  <2> TAKE i \in DOMAIN rows
  <2>1. i \in 1 .. Len(rows) /\ i \in DOMAIN Shipped[p] /\ i < n
    BY <1>1, <1>2, <1>4 DEF HoldsFirst
  <2>2. rows[i] = Row(Shipped[p][i])
    BY <2>1 DEF HoldsFirst
  <2>3. rows[i].name = Shipped[p][i].name /\ rows[i].name \in Nat
    BY <1>1, <2>1, <2>2, FileFields
  <2>4. Shipped[p][i].name < Shipped[p][n].name
    BY <1>1, <2>1 DEF Ascending
  <2> QED BY <1>2, <2>3, <2>4
<1>6. ~Unknown(files, new) /\ ~Modified(files, new) /\ ~OutOfOrder(files, new)
  BY DEF HistoryRefused, files
<1>7. ~HistoryRefused(files, rows)
  <2>1. ~Unknown(files, rows)
    BY <1>3, <1>4, <1>6, <1>2 DEF Unknown
  <2>2. ~Modified(files, rows)
    BY <1>3, <1>4, <1>6, <1>2 DEF Modified
  <2>3. ASSUME NEW i \in DOMAIN files, NEW j \in DOMAIN files, i < j,
               ~IsApplied(files[i], rows), IsApplied(files[j], rows)
        PROVE  FALSE
    <3>1. PICK k \in DOMAIN rows : rows[k].name = files[j].name
      BY <2>3 DEF IsApplied
    <3>2. files[i].name < files[j].name /\ files[i].name \in Nat /\ files[j].name \in Nat
      BY <1>1, <2>3, FileFields DEF Ascending
    <3>3. files[j].name < r.name
      BY <1>5, <3>1
    <3>4. r.name # files[i].name
      BY <1>2, <3>2, <3>3
    <3>5. ~IsApplied(files[i], new) /\ IsApplied(files[j], new)
      BY <1>3, <2>3, <3>4
    <3> QED BY <1>6, <2>3, <3>5 DEF OutOfOrder
  <2> QED BY <2>1, <2>2, <2>3 DEF HistoryRefused, OutOfOrder
<1>8. HoldsFirst(files, rows)
  BY <1>7 DEF Honest, files
<1>9. PICK j \in DOMAIN files : files[j].name = r.name
  <2>1. n \in DOMAIN new
    BY <1>2, <1>4
  <2> QED BY <1>3, <1>6, <2>1 DEF Unknown
<1>10. files[j].sum = r.sum
  <2>1. n \in DOMAIN new
    BY <1>2, <1>4
  <2> QED BY <1>3, <1>6, <1>9, <2>1 DEF Modified
<1>11. ~(j < n)
  <2> SUFFICES ASSUME j < n PROVE FALSE
    OBVIOUS
  <2>1. j \in DOMAIN rows
    BY <1>2, <1>4
  <2>2. rows[j] = Row(files[j])
    BY <1>2, <1>4, <1>8, <2>1 DEF HoldsFirst
  <2>3. rows[j].name = r.name
    BY <1>1, <1>9, <2>2, FileFields
  <2> QED BY <1>2, <1>5, <2>1, <2>3
<1>12. ~(n < j)
  <2> SUFFICES ASSUME n < j PROVE FALSE
    OBVIOUS
  <2>1. n \in DOMAIN files
    BY <1>2, <1>4
  <2>2. ~IsApplied(files[n], rows)
    BY <1>1, <1>2, <1>8, <2>1, FirstApplied
  <2>3. files[n].name < files[j].name /\ files[n].name \in Nat /\ files[j].name \in Nat
    BY <1>1, <2>1, FileFields DEF Ascending
  <2>4. ~IsApplied(files[n], new) /\ IsApplied(files[j], new)
    BY <1>3, <1>9, <2>2, <2>3
  <2> QED BY <1>6, <2>1, <2>4 DEF OutOfOrder
<1>13. j = n /\ n <= Len(files)
  BY <1>2, <1>4, <1>11, <1>12
<1>14. new[n] = Row(files[n])
  BY <1>2, <1>3, <1>9, <1>10, <1>13 DEF r, Row
<1>15. \A i \in 1 .. n - 1 : new[i] = Row(files[i])
  BY <1>2, <1>3, <1>8 DEF HoldsFirst
<1>16. \A i \in 1 .. n : i \in 1 .. n - 1 \/ i = n
  BY <1>2
<1>17. HoldsFirst(files, new)
  BY <1>3, <1>13, <1>14, <1>15, <1>16 DEF HoldsFirst
<1> QED BY <1>17 DEF files

\* The statements of a file, one after the other.
LEMMA WholeFile ==
  ASSUME NEW f \in File
  PROVE  /\ Whole(f) \in Seq(Nat \X Nat \X Nat) /\ Len(Whole(f)) = Len(f.stmts)
         /\ Len(f.stmts) \in Nat
         /\ \A i \in 1 .. Len(f.stmts) : Whole(f)[i] = Ran(f, i)
<1>1. f.stmts \in Seq(Kind) /\ f.name \in Nat /\ f.sum \in Nat
  BY DEF File
<1>2. DOMAIN f.stmts = 1 .. Len(f.stmts) /\ Len(f.stmts) \in Nat
  BY <1>1
<1>3. \A i \in 1 .. Len(f.stmts) : Ran(f, i) \in Nat \X Nat \X Nat
  BY <1>1, <1>2 DEF Ran
<1> QED BY <1>2, <1>3 DEF Whole

\* One more statement run is one more element of the file's schema part.
LEMMA OneMore ==
  ASSUME NEW S, NEW s \in Seq(S), NEW w \in Seq(S), NEW k \in 1 .. Len(w)
  PROVE  Append(s \o SubSeq(w, 1, k - 1), w[k]) = s \o SubSeq(w, 1, k)
<1>1. /\ SubSeq(w, 1, k - 1) \in Seq(S) /\ Len(SubSeq(w, 1, k - 1)) = k - 1
      /\ SubSeq(w, 1, k) \in Seq(S) /\ Len(SubSeq(w, 1, k)) = k
  OBVIOUS
<1>2. SubSeq(w, 1, k) = Append(SubSeq(w, 1, k - 1), w[k])
  BY <1>1
<1> DEFINE a == SubSeq(w, 1, k - 1)
<1> HIDE DEF a
<1>3. Append(s \o a, w[k]) = s \o Append(a, w[k])
  <2>1. w[k] \in S /\ a \in Seq(S)
    BY <1>1 DEF a
  <2>2. /\ s \o a \in Seq(S) /\ Len(s \o a) = Len(s) + Len(a)
        /\ \A i \in 1 .. Len(s) + Len(a) :
             (s \o a)[i] = IF i <= Len(s) THEN s[i] ELSE a[i - Len(s)]
    BY <2>1, ConcatProperties
  <2> DEFINE b == Append(a, w[k])
             l == Append(s \o a, w[k])
             r == s \o b
  <2>3. /\ b \in Seq(S) /\ Len(b) = Len(a) + 1 /\ b[Len(a) + 1] = w[k]
        /\ \A i \in 1 .. Len(a) : b[i] = a[i]
    BY <2>1
  <2>5. Len(s) \in Nat /\ Len(a) \in Nat
    BY <2>1
  <2> HIDE DEF b
  <2>4. /\ r \in Seq(S) /\ Len(r) = Len(s) + Len(b)
        /\ \A i \in 1 .. Len(s) + Len(b) :
             r[i] = IF i <= Len(s) THEN s[i] ELSE b[i - Len(s)]
    BY <2>3, ConcatProperties
  <2>6. /\ Append(s \o a, w[k]) \in Seq(S)
        /\ Len(Append(s \o a, w[k])) = Len(s) + Len(a) + 1
        /\ Append(s \o a, w[k])[Len(s) + Len(a) + 1] = w[k]
        /\ \A i \in 1 .. Len(s) + Len(a) : Append(s \o a, w[k])[i] = (s \o a)[i]
    BY <2>1, <2>2, <2>5
  <2>7. \A i \in 1 .. Len(s) + Len(a) + 1 : l[i] = r[i]
    <3> TAKE i \in 1 .. Len(s) + Len(a) + 1
    <3>1. CASE i = Len(s) + Len(a) + 1
      <4>1. ~(i <= Len(s)) /\ i - Len(s) = Len(a) + 1
        BY <2>5, <3>1
      <4>2. r[i] = b[i - Len(s)]
        BY <2>3, <2>4, <2>5, <4>1
      <4> QED BY <2>3, <2>6, <3>1, <4>1, <4>2
    <3>2. CASE i <= Len(s)
      <4>1. i \in 1 .. Len(s) + Len(a)
        BY <2>5, <3>2
      <4> QED BY <2>2, <2>3, <2>4, <2>5, <2>6, <3>2, <4>1
    <3>3. CASE i > Len(s) /\ i # Len(s) + Len(a) + 1
      <4>1. i \in 1 .. Len(s) + Len(a) /\ i - Len(s) \in 1 .. Len(a) /\ ~(i <= Len(s))
        BY <2>5, <3>3
      <4>2. l[i] = a[i - Len(s)] /\ r[i] = b[i - Len(s)]
        BY <2>2, <2>3, <2>4, <2>5, <2>6, <4>1
      <4> QED BY <2>3, <4>1, <4>2
    <3>4. i = Len(s) + Len(a) + 1 \/ i <= Len(s) \/ (i > Len(s) /\ i # Len(s) + Len(a) + 1)
      BY <2>5
    <3> HIDE DEF l, r
    <3> QED BY <3>1, <3>2, <3>3, <3>4
  <2> HIDE DEF l, r
  <2>8. l \in Seq(S) /\ r \in Seq(S) /\ Len(l) = Len(r) /\ Len(l) = Len(s) + Len(a) + 1
    BY <2>3, <2>4, <2>5, <2>6 DEF l, r
  <2>9. l = r
    BY <2>7, <2>8, SeqEqual
  <2> QED BY <2>9 DEF l, r, b
<1> QED BY <1>1, <1>2, <1>3 DEF a

\* A file that has run up to a statement runs the next one.
LEMMA NextStatement ==
  ASSUME NEW S, NEW w \in Seq(S), NEW k \in Nat, k + 1 \in 1 .. Len(w)
  PROVE  /\ Append(SubSeq(w, 1, k), w[k + 1]) = SubSeq(w, 1, k + 1)
         /\ SubSeq(w, 1, k + 1) \in Seq(S) /\ Len(SubSeq(w, 1, k + 1)) = k + 1
<1> DEFINE j == k + 1
<1>1. j \in 1 .. Len(w) /\ j - 1 = k
  OBVIOUS
<1> HIDE DEF j
<1>2. /\ SubSeq(w, 1, j - 1) \in Seq(S)
      /\ SubSeq(w, 1, j) \in Seq(S) /\ Len(SubSeq(w, 1, j)) = j
  BY <1>1
<1>3. SubSeq(w, 1, j) = Append(SubSeq(w, 1, j - 1), w[j])
  BY <1>1, <1>2
<1> QED BY <1>1, <1>2, <1>3 DEF j
=============================================================================
