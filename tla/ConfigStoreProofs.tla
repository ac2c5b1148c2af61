------------------------- MODULE ConfigStoreProofs -------------------------
(* Theorems about the configuration file: types for any number of writers,  *)
(* and, with one writer that may die at any step, that the file behaves as  *)
(* Settings promises and that programs listen on a port that was set.       *)
EXTENDS ConfigStore, SequenceTheorems, FiniteSetTheorems, TLAPS

-----------------------------------------------------------------------------
(* Contents of files.                                                       *)

Cells == (Keys \X Values \X Nat) \union {Hole}

\* A set of numbers has a least one.
LEMMA Least ==
  ASSUME NEW S \in SUBSET Nat, S # {}
  PROVE  \E i \in S : \A j \in S : i <= j
<1> DEFINE Below == {ss \in Nat \X Nat : ss[1] < ss[2]}
<1>1. IsWellFoundedOn(Below, Nat)
  BY NatLessThanWellFounded DEF OpToRel
<1>2. PICK i \in S : \A j \in S : ~(<<j, i>> \in Below)
  <2> HIDE DEF Below
  <2> QED
    BY <1>1, WFMin
<1>3. ASSUME NEW j \in S PROVE ~(j < i)
  BY <1>2
<1> QED
  BY <1>3

\* A line is a sequence of cells.
LEMMA LineIsSeq ==
  ASSUME NEW k \in Keys, NEW v \in Values
  PROVE  /\ LineOf(k, v) \in Seq(Cells) /\ Len(LineOf(k, v)) = Width[v]
         /\ Width[v] \in Nat \ {0}
         /\ \A n \in 1 .. Width[v] : LineOf(k, v)[n] = <<k, v, n>>
<1>1. Width[v] \in Nat \ {0}
  BY WidthAssumption
<1>2. \A n \in 1 .. Width[v] : <<k, v, n>> \in Cells
  BY <1>1 DEF Cells
<1>3. LineOf(k, v) \in [1 .. Width[v] -> Cells]
  BY <1>2 DEF LineOf
<1>4. LineOf(k, v) \in Seq(Cells) /\ Len(LineOf(k, v)) = Width[v]
  <2>1. DOMAIN LineOf(k, v) = 1 .. Width[v]
    BY <1>3
  <2>2. LineOf(k, v) \in Seq(Cells)
    BY <1>1, <1>3
  <2> QED
    BY <1>1, <2>1, <2>2, LenProperties
<1> QED
  BY <1>1, <1>4 DEF LineOf

\* The first line with a key, if there is one, lies within the file.
LEMMA FirstIsLine ==
  ASSUME NEW f \in Seq(Cells), NEW k \in Keys, Found(f, k)
  PROVE  /\ First(f, k) \in Positions(f, k)
         /\ First(f, k) \in 1 .. Len(f)
         /\ Lookup(f, k) = f[First(f, k)][2]
         /\ Lookup(f, k) \in Values
         /\ First(f, k) + Width[Lookup(f, k)] - 1 <= Len(f)
<1>1. Positions(f, k) \in SUBSET Nat /\ Positions(f, k) # {}
  BY LenProperties DEF Positions, Found
<1>2. \E i \in Positions(f, k) : \A j \in Positions(f, k) : i <= j
  BY <1>1, Least
<1>3. First(f, k) \in Positions(f, k)
  BY <1>2 DEF First
<1>4. First(f, k) \in 1 .. Len(f) /\ HasLine(f, First(f, k), k)
  BY <1>3 DEF Positions
<1>5. Lookup(f, k) = f[First(f, k)][2]
  BY DEF Lookup
<1>6. f[First(f, k)] \in Cells /\ f[First(f, k)] # Hole
  BY <1>4, ElementOfSeq DEF HasLine
<1>7. f[First(f, k)][2] \in Values
  BY <1>6 DEF Cells
<1> QED
  BY <1>3, <1>4, <1>5, <1>7 DEF HasLine

\* What is looked up is a value or nothing.
LEMMA LookupType ==
  ASSUME NEW f \in Seq(Cells), NEW k \in Keys
  PROVE  /\ Lookup(f, k) \in Values \union {Absent}
         /\ Found(f, k) <=> Lookup(f, k) # Absent
<1>1. CASE Found(f, k)
  BY <1>1, FirstIsLine, AbsentAssumption
<1>2. CASE ~Found(f, k)
  BY <1>2 DEF Lookup
<1> QED
  BY <1>1, <1>2

\* Writing a sequence into a file: what it becomes, cell by cell.
LEMMA Overwritten ==
  ASSUME NEW f \in Seq(Cells), NEW g \in Seq(Cells), Len(g) > 0,
         NEW at \in Nat \ {0}
  PROVE  LET end == at + Len(g) - 1
             n   == IF end > Len(f) THEN end ELSE Len(f) IN
         /\ Overwrite(f, at, g) \in Seq(Cells)
         /\ Len(Overwrite(f, at, g)) = n
         /\ \A i \in 1 .. n : Overwrite(f, at, g)[i] =
              IF i \in at .. end THEN g[i - at + 1]
              ELSE IF i <= Len(f) THEN f[i] ELSE Hole
<1> DEFINE end == at + Len(g) - 1
           n   == IF end > Len(f) THEN end ELSE Len(f)
           e(i) == IF i \in at .. end THEN g[i - at + 1]
                   ELSE IF i <= Len(f) THEN f[i] ELSE Hole
<1>1. Len(f) \in Nat /\ Len(g) \in Nat /\ end \in Nat /\ n \in Nat
  BY LenProperties
<1>2. ASSUME NEW i \in 1 .. n PROVE e(i) \in Cells
  <2>1. CASE i \in at .. end
    <3>1. i - at + 1 \in 1 .. Len(g)
      BY <1>1, <2>1
    <3> QED
      BY <2>1, <3>1, ElementOfSeq
  <2>2. CASE i \notin at .. end /\ i <= Len(f)
    <3>1. i \in 1 .. Len(f)
      BY <1>1, <2>2
    <3> QED
      BY <2>2, <3>1, ElementOfSeq
  <2>3. CASE i \notin at .. end /\ ~(i <= Len(f))
    BY <2>3 DEF Cells
  <2> QED
    BY <2>1, <2>2, <2>3
<1>3. Overwrite(f, at, g) = [i \in 1 .. n |-> e(i)]
  BY DEF Overwrite
<1>4. [i \in 1 .. n |-> e(i)] \in [1 .. n -> Cells]
  BY <1>2
<1> HIDE DEF e, n
<1>5. [i \in 1 .. n |-> e(i)] \in Seq(Cells)
      /\ Len([i \in 1 .. n |-> e(i)]) = n
  BY <1>1, <1>4
<1>6. \A i \in 1 .. n : Overwrite(f, at, g)[i] = e(i)
  BY <1>3
<1> QED
  BY <1>3, <1>5, <1>6 DEF e, n

\* The changed copy, cell by cell.
LEMMA Replaced ==
  ASSUME NEW f \in Seq(Cells), NEW k \in Keys, NEW v \in Values
  PROVE  LET i   == First(f, k)
             old == Width[Lookup(f, k)]
             new == Width[v]
             g   == Replace(f, k, v) IN
         /\ g \in Seq(Cells)
         /\ ~Found(f, k) =>
              /\ Len(g) = Len(f) + new
              /\ \A j \in 1 .. Len(f) : g[j] = f[j]
              /\ \A n \in 1 .. new : g[Len(f) + n] = <<k, v, n>>
         /\ Found(f, k) =>
              /\ Len(g) = Len(f) - old + new
              /\ \A j \in 1 .. i - 1 : g[j] = f[j]
              /\ \A n \in 1 .. new : g[i - 1 + n] = <<k, v, n>>
              /\ \A j \in i + old .. Len(f) : g[j - old + new] = f[j]
<1> DEFINE line == LineOf(k, v)
           i    == First(f, k)
           old  == Width[Lookup(f, k)]
           new  == Width[v]
<1>1. /\ line \in Seq(Cells) /\ Len(line) = new /\ new \in Nat \ {0}
      /\ \A n \in 1 .. new : line[n] = <<k, v, n>>
  BY LineIsSeq
<1>2. Len(f) \in Nat
  BY LenProperties
<1>3. CASE ~Found(f, k)
  <2>1. Replace(f, k, v) = f \o line
    BY <1>3 DEF Replace
  <2> HIDE DEF line
  <2>2. /\ f \o line \in Seq(Cells) /\ Len(f \o line) = Len(f) + new
        /\ \A j \in 1 .. Len(f) + new :
             (f \o line)[j] = IF j <= Len(f) THEN f[j] ELSE line[j - Len(f)]
    BY <1>1, ConcatProperties
  <2>3. \A j \in 1 .. Len(f) : (f \o line)[j] = f[j]
    BY <1>1, <1>2, <2>2
  <2>4. ASSUME NEW n \in 1 .. new PROVE (f \o line)[Len(f) + n] = <<k, v, n>>
    <3>1. /\ Len(f) + n \in 1 .. Len(f) + new /\ ~(Len(f) + n <= Len(f))
          /\ Len(f) + n - Len(f) = n
      BY <1>1, <1>2
    <3>2. (f \o line)[Len(f) + n] = line[n]
      BY <2>2, <3>1
    <3> QED
      BY <1>1, <3>2
  <2> QED
    BY <1>3, <2>1, <2>2, <2>3, <2>4
<1>4. CASE Found(f, k)
  <2> DEFINE before == SubSeq(f, 1, i - 1)
             after  == SubSeq(f, i + old, Len(f))
  <2>1. /\ i \in 1 .. Len(f) /\ i + old - 1 <= Len(f)
        /\ Lookup(f, k) \in Values
    BY <1>4, FirstIsLine
  <2>2. old \in Nat \ {0}
    BY <2>1, WidthAssumption
  <2>3. Replace(f, k, v) = (before \o line) \o after
    BY <1>4 DEF Replace
  <2> HIDE DEF line, i, old
  <2>4. \A j \in 1 .. Len(f) : f[j] \in Cells
    BY ElementOfSeq
  <2>5. /\ before \in Seq(Cells) /\ Len(before) = i - 1
        /\ \A j \in 1 .. i - 1 : before[j] = f[j]
    <3>1. \A j \in 1 .. i - 1 : f[j] \in Cells
      BY <1>2, <2>1, <2>4
    <3> QED
      BY <1>2, <2>1, <3>1, SubSeqProperties
  <2>6. /\ after \in Seq(Cells) /\ Len(after) = Len(f) - (i + old) + 1
        /\ \A j \in 1 .. Len(f) - (i + old) + 1 : after[j] = f[i + old + j - 1]
    <3>1. \A j \in i + old .. Len(f) : f[j] \in Cells
      BY <1>2, <2>1, <2>2, <2>4
    <3> QED
      BY <1>2, <2>1, <2>2, <3>1, SubSeqProperties
  <2> HIDE DEF before, after
  <2>7. /\ before \o line \in Seq(Cells)
        /\ Len(before \o line) = i - 1 + new
        /\ \A j \in 1 .. i - 1 + new : (before \o line)[j]
             = IF j <= i - 1 THEN before[j] ELSE line[j - (i - 1)]
    <3>1. /\ before \o line \in Seq(Cells)
          /\ Len(before \o line) = Len(before) + Len(line)
          /\ \A j \in 1 .. Len(before) + Len(line) : (before \o line)[j]
               = IF j <= Len(before) THEN before[j] ELSE line[j - Len(before)]
      BY <1>1, <2>5, ConcatProperties, Zenon
    <3> QED
      BY <1>1, <2>5, <3>1
  <2> DEFINE g == (before \o line) \o after
  <2>8. /\ g \in Seq(Cells) /\ Len(g) = Len(f) - old + new
        /\ \A j \in 1 .. Len(f) - old + new : g[j]
             = IF j <= i - 1 + new THEN (before \o line)[j]
                                   ELSE after[j - (i - 1 + new)]
    <3>1. (i - 1 + new) + (Len(f) - (i + old) + 1) = Len(f) - old + new
      BY <1>1, <1>2, <2>1, <2>2
    <3>2. /\ g \in Seq(Cells)
          /\ Len(g) = Len(before \o line) + Len(after)
          /\ \A j \in 1 .. Len(before \o line) + Len(after) : g[j]
               = IF j <= Len(before \o line) THEN (before \o line)[j]
                 ELSE after[j - Len(before \o line)]
      <4> DEFINE head == before \o line
      <4>1. head \in Seq(Cells) /\ g = head \o after
        BY <2>7
      <4> HIDE DEF head, g
      <4>2. /\ g \in Seq(Cells) /\ Len(g) = Len(head) + Len(after)
            /\ \A j \in 1 .. Len(head) + Len(after) :
                 g[j] = IF j <= Len(head) THEN head[j] ELSE after[j - Len(head)]
        BY <2>6, <4>1, ConcatProperties
      <4> QED
        BY <4>2 DEF head
    <3> HIDE DEF g
    <3> QED
      BY <2>6, <2>7, <3>1, <3>2
  <2> HIDE DEF g
  <2>9. ASSUME NEW j \in 1 .. i - 1 PROVE g[j] = f[j]
    <3>1. /\ j \in 1 .. Len(f) - old + new /\ j <= i - 1 + new
          /\ j \in 1 .. i - 1 + new /\ j <= i - 1
      BY <1>1, <1>2, <2>1, <2>2
    <3> QED
      BY <2>5, <2>7, <2>8, <3>1
  <2>10. ASSUME NEW n \in 1 .. new PROVE g[i - 1 + n] = <<k, v, n>>
    <3>1. /\ i - 1 + n \in 1 .. Len(f) - old + new /\ i - 1 + n <= i - 1 + new
          /\ i - 1 + n \in 1 .. i - 1 + new /\ ~(i - 1 + n <= i - 1)
          /\ i - 1 + n - (i - 1) = n
      BY <1>1, <1>2, <2>1, <2>2
    <3> DEFINE a == i - 1 + n
    <3>2. g[a] = (before \o line)[a]
      BY <2>8, <3>1
    <3>3. (before \o line)[a] = line[n]
      <4>1. a \in 1 .. i - 1 + new /\ ~(a <= i - 1) /\ a - (i - 1) = n
        BY <1>1, <2>1
      <4> HIDE DEF a
      <4>2. (before \o line)[a] = line[a - (i - 1)]
        BY <2>7, <4>1
      <4> QED
        BY <4>1, <4>2
    <3> QED
      BY <1>1, <3>2, <3>3
  <2>11. ASSUME NEW j \in i + old .. Len(f) PROVE g[j - old + new] = f[j]
    <3> DEFINE a == j - (i + old) + 1
    <3>1. /\ j - old + new \in 1 .. Len(f) - old + new
          /\ ~(j - old + new <= i - 1 + new)
          /\ j - old + new - (i - 1 + new) = a
          /\ a \in 1 .. Len(f) - (i + old) + 1
          /\ i + old + a - 1 = j
      BY <1>1, <1>2, <2>1, <2>2
    <3>2. g[j - old + new] = after[j - old + new - (i - 1 + new)]
      <4> DEFINE b == j - old + new
      <4>1. b \in 1 .. Len(f) - old + new /\ ~(b <= i - 1 + new)
        BY <3>1
      <4> HIDE DEF b
      <4>2. g[b] = after[b - (i - 1 + new)]
        BY <2>8, <4>1
      <4> QED
        BY <1>1, <1>2, <2>1, <2>2, <4>2 DEF b
    <3> QED
      BY <2>6, <3>1, <3>2
  <2> QED
    BY <1>4, <2>3, <2>8, <2>9, <2>10, <2>11 DEF g, i, old
<1> QED
  BY <1>3, <1>4

-----------------------------------------------------------------------------
(* There is always a file that is not in use.                               *)

\* What a function yields is no more than what it is given.
LEMMA ImageBound ==
  ASSUME NEW S, IsFiniteSet(S), NEW T, NEW f \in [S -> T]
  PROVE  /\ IsFiniteSet({f[x] : x \in S})
         /\ Cardinality({f[x] : x \in S}) \in Nat
         /\ Cardinality({f[x] : x \in S}) <= Cardinality(S)
<1> DEFINE R == {f[x] : x \in S}
<1>1. f \in Surjection(S, R)
  BY DEF Surjection
<1> HIDE DEF R
<1>2. IsFiniteSet(R) /\ Cardinality(R) <= Cardinality(S)
  BY <1>1, FS_Surjection
<1>3. Cardinality(R) \in Nat
  BY <1>2, FS_CardinalityType
<1> QED
  BY <1>2, <1>3 DEF R

\* The union of two is at most as large as both together.
LEMMA UnionBound ==
  ASSUME NEW S, IsFiniteSet(S), NEW T, IsFiniteSet(T)
  PROVE  /\ IsFiniteSet(S \union T)
         /\ Cardinality(S \union T) \in Nat
         /\ Cardinality(S \union T) <= Cardinality(S) + Cardinality(T)
<1>1. /\ IsFiniteSet(S \union T)
      /\ Cardinality(S \union T)
           = Cardinality(S) + Cardinality(T) - Cardinality(S \intersect T)
  BY FS_Union
<1>2. IsFiniteSet(S \intersect T)
  BY FS_Intersection
<1>3. /\ Cardinality(S) \in Nat /\ Cardinality(T) \in Nat
      /\ Cardinality(S \intersect T) \in Nat
      /\ Cardinality(S \union T) \in Nat
  BY <1>1, <1>2, FS_CardinalityType
<1> QED
  BY <1>1, <1>3

\* The numbers that stand for files, and how many there are.
LEMMA FilesAre ==
  /\ Files \subseteq Nat /\ NoFile \notin Files /\ 1 \in Files
  /\ IsFiniteSet(Files)
  /\ Cardinality(Writers) \in Nat /\ Cardinality(Programs) \in Nat
  /\ Cardinality(Files) = 2 + 2 * Cardinality(Writers) + Cardinality(Programs)
<1>1. Cardinality(Writers) \in Nat /\ Cardinality(Programs) \in Nat
  BY FileAssumption, FS_CardinalityType
<1> DEFINE n == 2 + 2 * Cardinality(Writers) + Cardinality(Programs)
<1>2. n \in Nat /\ n >= 2
  BY <1>1
<1>3. Files = 1 .. n
  BY DEF Files
<1> HIDE DEF n
<1>4. IsFiniteSet(1 .. n) /\ Cardinality(1 .. n) = n
  BY <1>2, FS_Interval
<1>5. 1 .. n \subseteq Nat /\ 1 \in 1 .. n
  BY <1>2
<1> QED
  BY <1>1, <1>3, <1>4, <1>5, FileAssumption DEF n

Streams ==
  /\ dir \in [Names -> Files \union {NoFile}]
  /\ rfp \in [Writers -> Files \union {NoFile}]
  /\ wfp \in [Writers -> Files \union {NoFile}]
  /\ pfp \in [Programs -> Files \union {NoFile}]

\* What writers and programs have open is no more than one file each.
LEMMA ImageWriters ==
  ASSUME NEW f \in [Writers -> Files \union {NoFile}]
  PROVE  /\ IsFiniteSet({f[w] : w \in Writers})
         /\ Cardinality({f[w] : w \in Writers}) \in Nat
         /\ Cardinality({f[w] : w \in Writers}) <= Cardinality(Writers)
BY FileAssumption, ImageBound

LEMMA ImagePrograms ==
  ASSUME NEW f \in [Programs -> Files \union {NoFile}]
  PROVE  /\ IsFiniteSet({f[p] : p \in Programs})
         /\ Cardinality({f[p] : p \in Programs}) \in Nat
         /\ Cardinality({f[p] : p \in Programs}) <= Cardinality(Programs)
BY FileAssumption, ImageBound

\* A name without a file can be given one that nobody has.
LEMMA FileIsFree ==
  ASSUME Streams, NEW name \in Names, dir[name] = NoFile
  PROVE  \E g \in Files : g \notin InUse
<1> DEFINE other == IF name = "config" THEN "temp" ELSE "config"
           D == {dir[other]}
           R == {rfp[w] : w \in Writers}
           W == {wfp[w] : w \in Writers}
           P == {pfp[p] : p \in Programs}
<1>1. InUse \subseteq {NoFile} \union (D \union ((R \union W) \union P))
  <2>1. Names = {name, other}
    BY DEF Names
  <2> QED
    BY <2>1 DEF InUse, Written
<1>2. /\ IsFiniteSet(R) /\ Cardinality(R) \in Nat
      /\ Cardinality(R) <= Cardinality(Writers)
  <2>1. rfp \in [Writers -> Files \union {NoFile}]
    BY DEF Streams
  <2> QED
    BY <2>1, ImageWriters
<1>3. /\ IsFiniteSet(W) /\ Cardinality(W) \in Nat
      /\ Cardinality(W) <= Cardinality(Writers)
  <2>1. wfp \in [Writers -> Files \union {NoFile}]
    BY DEF Streams
  <2> QED
    BY <2>1, ImageWriters
<1>4. /\ IsFiniteSet(P) /\ Cardinality(P) \in Nat
      /\ Cardinality(P) <= Cardinality(Programs)
  <2>1. pfp \in [Programs -> Files \union {NoFile}]
    BY DEF Streams
  <2> QED
    BY <2>1, ImagePrograms
<1>5. IsFiniteSet(D) /\ Cardinality(D) = 1
  BY FS_Singleton
<1> HIDE DEF D, R, W, P
<1>6. /\ IsFiniteSet(R \union W) /\ Cardinality(R \union W) \in Nat
      /\ Cardinality(R \union W) <= Cardinality(R) + Cardinality(W)
  BY <1>2, <1>3, UnionBound
<1>7. /\ IsFiniteSet((R \union W) \union P)
      /\ Cardinality((R \union W) \union P) \in Nat
      /\ Cardinality((R \union W) \union P)
           <= Cardinality(R \union W) + Cardinality(P)
  BY <1>4, <1>6, UnionBound
<1> DEFINE U == D \union ((R \union W) \union P)
<1>8. /\ IsFiniteSet(U) /\ Cardinality(U) \in Nat
      /\ Cardinality(U) <= Cardinality(D) + Cardinality((R \union W) \union P)
  BY <1>5, <1>7, UnionBound
<1>9. Cardinality(U) < Cardinality(Files)
  BY <1>2, <1>3, <1>4, <1>5, <1>6, <1>7, <1>8, FilesAre
<1>10. ~(Files \subseteq U)
  <2> HIDE DEF U
  <2>1. ASSUME Files \subseteq U PROVE Cardinality(Files) <= Cardinality(U)
    BY <1>8, <2>1, FS_Subset
  <2> QED
    BY <1>8, <1>9, <2>1, FilesAre
<1>11. PICK g \in Files : g \notin U
  BY <1>10
<1>12. g \notin InUse
  BY <1>1, <1>11, FilesAre
<1> QED
  BY <1>12

-----------------------------------------------------------------------------
(* Types, for any number of writers.                                        *)

\* Where a writer has to have something in hand.
Stage(w) ==
  /\ wreq[w] = <<>> <=> wpc[w] = "idle"
  /\ wpc[w] = "read" => rfp[w] # NoFile
  /\ wpc[w] \in {"fill", "patch", "copy"} => wfp[w] # NoFile
  /\ wpc[w] \in {"reopen", "patch"} => Found(snap[w], Key(w))

WritersOK ==
  /\ wpc \in [Writers -> WPcs]
  /\ wreq \in [Writers -> (Keys \X Values) \union {<<>>}]
  /\ snap \in [Writers -> Seq(Cells)]
  /\ \A w \in Writers : Stage(w)

ServersOK ==
  /\ ppc \in [Programs -> {"down", "read", "up"}]
  /\ port \in [Programs -> 0 .. PortNumbers - 1]
  /\ fresh \in [Programs -> BOOLEAN]

DataOK == data \in [Files -> Seq(Cells)]

Types == Streams /\ DataOK /\ WritersOK /\ ServersOK

\* A step of one writer leaves what the others have alone.
Touches(w) ==
  /\ wpc' = [wpc EXCEPT ![w] = wpc'[w]] /\ wreq' = [wreq EXCEPT ![w] = wreq'[w]]
  /\ snap' = [snap EXCEPT ![w] = snap'[w]]
  /\ rfp' = [rfp EXCEPT ![w] = rfp'[w]] /\ wfp' = [wfp EXCEPT ![w] = wfp'[w]]

\* What an action of one writer has to show of itself.
LEMMA OneWriter ==
  ASSUME Types, NEW w \in Writers, Touches(w),
         wpc'[w] \in WPcs, wreq'[w] \in (Keys \X Values) \union {<<>>},
         snap'[w] \in Seq(Cells), rfp'[w] \in Files \union {NoFile},
         wfp'[w] \in Files \union {NoFile}, Stage(w)'
  PROVE  /\ WritersOK'
         /\ rfp' \in [Writers -> Files \union {NoFile}]
         /\ wfp' \in [Writers -> Files \union {NoFile}]
<1>1. /\ wpc' \in [Writers -> WPcs]
      /\ wreq' \in [Writers -> (Keys \X Values) \union {<<>>}]
      /\ snap' \in [Writers -> Seq(Cells)]
      /\ rfp' \in [Writers -> Files \union {NoFile}]
      /\ wfp' \in [Writers -> Files \union {NoFile}]
  BY DEF Types, WritersOK, Streams, Touches
<1>2. ASSUME NEW v \in Writers, v # w PROVE Stage(v)'
  <2>1. /\ wpc'[v] = wpc[v] /\ wreq'[v] = wreq[v] /\ snap'[v] = snap[v]
        /\ rfp'[v] = rfp[v] /\ wfp'[v] = wfp[v]
    BY <1>2 DEF Types, WritersOK, Streams, Touches
  <2> QED
    BY <2>1 DEF Types, WritersOK, Stage, Key
<1> QED
  BY <1>1, <1>2 DEF WritersOK

\* Reducing files to a line leaves them files.
LEMMA KeptType ==
  ASSUME NEW d \in [Files -> Seq(Cells)]
  PROVE  Kept(d) \in [Files -> Seq(Cells)]
<1> DEFINE e(f) ==
      IF f \in Written' THEN d[f]
      ELSE IF Sought(f)' = {} THEN <<>>
      ELSE IF \E k \in Keys : Sought(f)' = {k}
           THEN Gist(d[f], CHOOSE k \in Keys : Sought(f)' = {k})
      ELSE d[f]
<1>1. ASSUME NEW g \in Seq(Cells), NEW k \in Keys PROVE Gist(g, k) \in Seq(Cells)
  <2>1. CASE Found(g, k)
    BY <2>1, FirstIsLine, LineIsSeq DEF Gist
  <2>2. CASE ~Found(g, k)
    BY <2>2 DEF Gist
  <2> QED
    BY <2>1, <2>2
<1>2. ASSUME NEW f \in Files PROVE e(f) \in Seq(Cells)
  <2>1. d[f] \in Seq(Cells) /\ <<>> \in Seq(Cells)
    OBVIOUS
  <2>2. ASSUME \E k \in Keys : Sought(f)' = {k}
        PROVE  Gist(d[f], CHOOSE k \in Keys : Sought(f)' = {k}) \in Seq(Cells)
    BY <1>1, <2>1, <2>2
  <2> QED
    BY <2>1, <2>2, Zenon
<1>3. Kept(d) = [f \in Files |-> e(f)]
  BY DEF Kept
<1> HIDE DEF e
<1> QED
  BY <1>2, <1>3

\* fopen for writing opens a file that was the name's or nobody's.
LEMMA OpenedEmpty ==
  ASSUME Types, NEW w \in Writers, NEW name \in Names, OpenEmpty(w, name)
  PROVE  \E f \in Files :
           /\ dir[name] # NoFile => f = dir[name]
           /\ dir[name] = NoFile => f \notin InUse
           /\ wfp' = [wfp EXCEPT ![w] = f]
           /\ dir' = [dir EXCEPT ![name] = f]
           /\ data' = [data EXCEPT ![f] = <<>>]
<1>1. dir[name] \in Files \union {NoFile}
  BY DEF Types, Streams
<1>2. CASE dir[name] # NoFile
  BY <1>1, <1>2 DEF OpenEmpty
<1>3. CASE dir[name] = NoFile
  <2>1. \E g \in Files : g \notin InUse
    BY <1>3, FileIsFree DEF Types
  <2> DEFINE f == CHOOSE g \in Files : g \notin InUse
  <2>2. f \in Files /\ f \notin InUse
    BY <2>1
  <2>3. /\ wfp' = [wfp EXCEPT ![w] = f] /\ dir' = [dir EXCEPT ![name] = f]
        /\ data' = [data EXCEPT ![f] = <<>>]
    BY <1>3 DEF OpenEmpty
  <2> QED
    BY <1>3, <2>2, <2>3
<1> QED
  BY <1>2, <1>3

\* Writing something to the file a writer has open.
LEMMA WriteTypes ==
  ASSUME Types, NEW w \in Writers, wfp[w] # NoFile,
         NEW at \in Nat \ {0}, NEW h \in Seq(Cells), Len(h) > 0,
         data' = [data EXCEPT ![wfp[w]] = Overwrite(@, at, h)]
  PROVE  DataOK'
<1>1. data \in [Files -> Seq(Cells)] /\ wfp[w] \in Files
  BY DEF Types, DataOK, Streams
<1>2. data[wfp[w]] \in Seq(Cells)
  BY <1>1
<1>3. Overwrite(data[wfp[w]], at, h) \in Seq(Cells)
  BY <1>2, Overwritten
<1> QED
  BY <1>1, <1>3 DEF DataOK

\* Each step of ini_puts keeps the types.
LEMMA PutTypes ==
  ASSUME Types, NEW w \in Writers, Put(w), UNCHANGED servers
  PROVE  Streams' /\ DataOK' /\ WritersOK'
<1> DEFINE Kind == (Keys \X Values) \union {<<>>}
           Place == Files \union {NoFile}
           Mine == /\ Touches(w) /\ wpc'[w] \in WPcs /\ wreq'[w] \in Kind
                   /\ snap'[w] \in Seq(Cells) /\ rfp'[w] \in Place
                   /\ wfp'[w] \in Place /\ Stage(w)'
<1>1. /\ wpc \in [Writers -> WPcs] /\ wreq \in [Writers -> Kind]
      /\ snap \in [Writers -> Seq(Cells)]
      /\ rfp \in [Writers -> Place] /\ wfp \in [Writers -> Place]
      /\ dir \in [Names -> Place] /\ pfp' = pfp /\ pfp \in [Programs -> Place]
      /\ data \in [Files -> Seq(Cells)]
  BY DEF Types, Streams, WritersOK, DataOK, servers
<1>2. /\ NoFile \in Place /\ <<>> \in Seq(Cells) /\ <<>> \in Kind
      /\ dir["config"] \in Place /\ dir["temp"] \in Place
      /\ "config" \in Names /\ "temp" \in Names
  BY <1>1 DEF Names
<1>3. Stage(w)
  BY DEF Types, WritersOK
<1>4. wpc[w] # "idle" =>
        wreq[w] \in Keys \X Values /\ Key(w) \in Keys /\ Val(w) \in Values
  BY <1>1, <1>3 DEF Stage, Key, Val
<1>5. ASSUME Mine, dir' \in [Names -> Place], DataOK'
      PROVE  Streams' /\ DataOK' /\ WritersOK'
  <2>1. WritersOK' /\ rfp' \in [Writers -> Place] /\ wfp' \in [Writers -> Place]
    BY <1>5, OneWriter
  <2> QED
    BY <1>1, <1>5, <2>1 DEF Streams
<1>6. ASSUME wpc[w] # "idle"
      PROVE  /\ LineOf(Key(w), Val(w)) \in Seq(Cells)
             /\ Len(LineOf(Key(w), Val(w))) > 0
             /\ \A s \in Seq(Cells) : /\ Replace(s, Key(w), Val(w)) \in Seq(Cells)
                                      /\ Len(Replace(s, Key(w), Val(w))) > 0
  <2>1. Key(w) \in Keys /\ Val(w) \in Values
    BY <1>4, <1>6
  <2>2. /\ LineOf(Key(w), Val(w)) \in Seq(Cells) /\ Width[Val(w)] \in Nat \ {0}
        /\ Len(LineOf(Key(w), Val(w))) = Width[Val(w)]
    BY <2>1, LineIsSeq
  <2>3. ASSUME NEW s \in Seq(Cells)
        PROVE  /\ Replace(s, Key(w), Val(w)) \in Seq(Cells)
               /\ Len(Replace(s, Key(w), Val(w))) > 0
    <3>1. Len(s) \in Nat
      BY LenProperties
    <3>2. CASE ~Found(s, Key(w))
      BY <2>1, <2>2, <3>1, <3>2, Replaced
    <3>3. CASE Found(s, Key(w))
      <4>1. /\ First(s, Key(w)) \in 1 .. Len(s)
            /\ Lookup(s, Key(w)) \in Values
            /\ First(s, Key(w)) + Width[Lookup(s, Key(w))] - 1 <= Len(s)
        BY <2>1, <3>3, FirstIsLine
      <4>2. Width[Lookup(s, Key(w))] \in Nat
        BY <4>1, WidthAssumption
      <4>3. /\ Replace(s, Key(w), Val(w)) \in Seq(Cells)
            /\ Len(Replace(s, Key(w), Val(w)))
                 = Len(s) - Width[Lookup(s, Key(w))] + Width[Val(w)]
        BY <2>1, <3>3, Replaced
      <4> QED
        BY <2>2, <3>1, <4>1, <4>2, <4>3
    <3> QED
      BY <3>2, <3>3
  <2> QED
    BY <2>2, <2>3
<1>7. ASSUME NEW k \in Keys, NEW v \in Values, PAsk(w, k, v) PROVE Mine
  BY <1>1, <1>7 DEF PAsk, WMove, WPcs, files, Touches, Stage
<1>8. ASSUME POpen(w) PROVE Mine
  BY <1>1, <1>2, <1>3, <1>8 DEF POpen, WMove, WPcs, files, Touches, Stage
<1>9. ASSUME PCreate(w) PROVE Mine /\ dir' \in [Names -> Place] /\ DataOK'
  <2>1. PICK f \in Files : /\ wfp' = [wfp EXCEPT ![w] = f]
                           /\ dir' = [dir EXCEPT !["config"] = f]
                           /\ data' = [data EXCEPT ![f] = <<>>]
    BY <1>2, <1>9, OpenedEmpty DEF PCreate
  <2>2. Mine
    BY <1>1, <1>3, <1>9, <2>1, FilesAre DEF PCreate, WMove, WPcs, Touches, Stage
  <2> QED
    BY <1>1, <1>2, <2>1, <2>2 DEF DataOK
<1>10. ASSUME PFill(w) PROVE Mine /\ dir' = dir /\ DataOK'
  <2>1. wpc[w] = "fill" /\ wfp[w] # NoFile
    BY <1>3, <1>10 DEF PFill, WMove, Stage
  <2> DEFINE h == LineOf(Key(w), Val(w))
  <2>4. h \in Seq(Cells) /\ Len(h) > 0 /\ 1 \in Nat \ {0}
    BY <1>6, <2>1
  <2>5. data' = [data EXCEPT ![wfp[w]] = Overwrite(@, 1, h)]
    BY <1>10 DEF PFill
  <2> HIDE DEF h
  <2>2. DataOK'
    BY <2>1, <2>4, <2>5, WriteTypes
  <2>3. Mine
    BY <1>1, <1>2, <1>3, <1>10 DEF PFill, WMove, WPcs, Touches, Stage
  <2> QED
    BY <1>10, <2>2, <2>3 DEF PFill
<1>11. ASSUME PRead(w) PROVE Mine
  <2> DEFINE file == data[rfp[w]]
             old  == Lookup(file, Key(w))
  <2>1. wpc[w] = "read" /\ rfp[w] # NoFile
    BY <1>3, <1>11 DEF PRead, WMove, Stage
  <2>2. file \in Seq(Cells) /\ Key(w) \in Keys
    <3>1. rfp[w] \in Files
      BY <1>1, <2>1
    <3> QED
      BY <1>1, <1>4, <2>1, <3>1
  <2>3. old # Absent <=> Found(file, Key(w))
    BY <2>2, LookupType
  <2>4. /\ wpc' = [wpc EXCEPT ![w] =
             IF old = Val(w) THEN "stored"
             ELSE IF old # Absent /\ Width[old] = Width[Val(w)] THEN "reopen"
             ELSE "temp"]
        /\ snap' = [snap EXCEPT ![w] = IF wpc'[w] = "stored" THEN <<>> ELSE file]
        /\ rfp' = [rfp EXCEPT ![w] = NoFile]
        /\ wreq' = wreq /\ wfp' = wfp
    BY <1>11 DEF PRead, WMove
  <2> HIDE DEF file, old
  <2>5. /\ wpc'[w] \in {"stored", "reopen", "temp"}
        /\ wpc'[w] = "reopen" => old # Absent /\ snap'[w] = file
        /\ wpc' = [wpc EXCEPT ![w] = wpc'[w]]
        /\ snap'[w] \in Seq(Cells) /\ snap' = [snap EXCEPT ![w] = snap'[w]]
    BY <1>1, <1>2, <2>2, <2>4
  <2>6. /\ rfp'[w] = NoFile /\ rfp' = [rfp EXCEPT ![w] = rfp'[w]]
        /\ wreq' = [wreq EXCEPT ![w] = wreq'[w]]
        /\ wfp' = [wfp EXCEPT ![w] = wfp'[w]]
    BY <1>1, <2>4
  <2>7. Stage(w)'
    <3>1. wreq'[w] = wreq[w] /\ wreq[w] # <<>>
      BY <1>3, <2>1, <2>4 DEF Stage
    <3>2. wpc'[w] = "reopen" => Found(snap'[w], Key(w))
      BY <2>3, <2>5
    <3> QED
      BY <2>5, <3>1, <3>2 DEF Stage, Key
  <2> QED
    BY <1>1, <1>2, <2>4, <2>5, <2>6, <2>7 DEF Touches, WPcs
<1>12. ASSUME PReopen(w) PROVE Mine
  BY <1>1, <1>2, <1>3, <1>12
  DEF PReopen, WMove, WPcs, Touches, Stage, Key
<1>13. ASSUME PPatch(w) PROVE Mine /\ dir' = dir /\ DataOK'
  <2>1. wpc[w] = "patch" /\ wfp[w] # NoFile /\ Found(snap[w], Key(w))
    BY <1>3, <1>13 DEF PPatch, WMove, Stage
  <2>2. First(snap[w], Key(w)) \in Nat \ {0}
    <3>1. snap[w] \in Seq(Cells) /\ Key(w) \in Keys
      BY <1>1, <1>4, <2>1
    <3>2. First(snap[w], Key(w)) \in 1 .. Len(snap[w]) /\ Len(snap[w]) \in Nat
      BY <2>1, <3>1, FirstIsLine, LenProperties
    <3> QED
      BY <3>2
  <2>3. DataOK'
    BY <1>6, <1>13, <2>1, <2>2, WriteTypes DEF PPatch
  <2>4. Mine
    BY <1>1, <1>2, <1>3, <1>13 DEF PPatch, WMove, WPcs, Touches, Stage
  <2> QED
    BY <1>13, <2>3, <2>4 DEF PPatch
<1>14. ASSUME PTemp(w) PROVE Mine /\ dir' \in [Names -> Place] /\ DataOK'
  <2>1. PICK f \in Files : /\ wfp' = [wfp EXCEPT ![w] = f]
                           /\ dir' = [dir EXCEPT !["temp"] = f]
                           /\ data' = [data EXCEPT ![f] = <<>>]
    BY <1>2, <1>14, OpenedEmpty DEF PTemp
  <2>2. Mine
    BY <1>1, <1>3, <1>14, <2>1, FilesAre DEF PTemp, WMove, WPcs, Touches, Stage
  <2> QED
    BY <1>1, <1>2, <2>1, <2>2 DEF DataOK
<1>15. ASSUME PCopy(w) PROVE Mine /\ dir' = dir /\ DataOK'
  <2>1. wpc[w] = "copy" /\ wfp[w] # NoFile /\ snap[w] \in Seq(Cells)
    BY <1>1, <1>3, <1>15 DEF PCopy, WMove, Stage
  <2> DEFINE h == Replace(snap[w], Key(w), Val(w))
  <2>4. h \in Seq(Cells) /\ Len(h) > 0 /\ 1 \in Nat \ {0}
    BY <1>6, <2>1
  <2>5. data' = [data EXCEPT ![wfp[w]] = Overwrite(@, 1, h)]
    BY <1>15 DEF PCopy
  <2> HIDE DEF h
  <2>2. DataOK'
    BY <2>1, <2>4, <2>5, WriteTypes
  <2>3. Mine
    BY <1>1, <1>2, <1>3, <1>15 DEF PCopy, WMove, WPcs, Touches, Stage
  <2> QED
    BY <1>15, <2>2, <2>3 DEF PCopy
<1>16. Kept(data) \in [Files -> Seq(Cells)]
  BY <1>1, KeptType
<1>17. ASSUME PRemove(w) PROVE Mine /\ dir' \in [Names -> Place] /\ DataOK'
  <2>1. Mine
    BY <1>1, <1>3, <1>17 DEF PRemove, WMove, WPcs, Touches, Stage
  <2> QED
    BY <1>1, <1>2, <1>16, <1>17, <2>1 DEF PRemove, DataOK
<1>18. ASSUME PRename(w) PROVE Mine /\ dir' \in [Names -> Place] /\ DataOK'
  <2>1. Mine
    BY <1>1, <1>3, <1>18 DEF PRename, WMove, WPcs, Touches, Stage
  <2>2. dir' \in [Names -> Place]
    BY <1>1, <1>2, <1>18 DEF PRename
  <2> QED
    BY <1>16, <1>18, <2>1, <2>2 DEF PRename, DataOK
<1>19. ASSUME PFails(w) PROVE Mine
  BY <1>1, <1>2, <1>3, <1>19 DEF PFails, WPcs, Touches, Stage
<1>20. ASSUME PReturn(w) PROVE Mine
  BY <1>1, <1>2, <1>3, <1>20 DEF PReturn, WPcs, Touches, Stage
<1>21. ASSUME dir' = dir PROVE dir' \in [Names -> Place]
  BY <1>1, <1>21
<1>22. ASSUME data' = data PROVE DataOK'
  BY <1>1, <1>22 DEF DataOK
<1> HIDE DEF Mine, Place
<1>23. ASSUME NEW k \in Keys, NEW v \in Values, PAsk(w, k, v)
       PROVE  Streams' /\ DataOK' /\ WritersOK'
  BY <1>5, <1>7, <1>21, <1>22, <1>23 DEF PAsk, files
<1>24. CASE POpen(w)
  BY <1>5, <1>8, <1>21, <1>22, <1>24 DEF POpen, files
<1>25. CASE PRead(w)
  BY <1>5, <1>11, <1>21, <1>22, <1>25 DEF PRead, files
<1>26. CASE PReopen(w)
  BY <1>5, <1>12, <1>21, <1>22, <1>26 DEF PReopen, files
<1>27. CASE PFails(w)
  BY <1>5, <1>19, <1>21, <1>22, <1>27 DEF PFails, files
<1>28. CASE PReturn(w)
  BY <1>5, <1>20, <1>21, <1>22, <1>28 DEF PReturn, files
<1> QED
  BY <1>5, <1>9, <1>10, <1>13, <1>14, <1>15, <1>17, <1>18, <1>21, <1>23,
     <1>24, <1>25, <1>26, <1>27, <1>28 DEF Put

\* A port has 16 bits.
LEMMA ListensType ==
  ASSUME NEW v \in Values \union {Absent}
  PROVE  Listens(Number[v]) \in 0 .. PortNumbers - 1
<1>1. Number[v] \in Int
  BY NumberAssumption
<1>2. PortNumbers \in Nat \ {0}
  BY DEF PortNumbers
<1> QED
  BY <1>1, <1>2 DEF Listens

\* The file begins empty, with one line, or with two.
LEMMA BeginsAsSeq ==
  ASSUME NEW c \in InitialContents
  PROVE  c \in Seq(Cells)
<1>1. CASE c = <<>>
  BY <1>1
<1>2. ASSUME NEW k \in Keys, NEW v \in Values, c = LineOf(k, v)
      PROVE  c \in Seq(Cells)
  BY <1>2, LineIsSeq
<1>3. ASSUME NEW k \in Keys, NEW v \in Values, NEW l \in Keys \ {k},
             NEW u \in Values, c = LineOf(k, v) \o LineOf(l, u)
      PROVE  c \in Seq(Cells)
  <2>1. LineOf(k, v) \in Seq(Cells) /\ LineOf(l, u) \in Seq(Cells)
    BY LineIsSeq
  <2> QED
    BY <1>3, <2>1, ConcatProperties
<1> QED
  BY <1>1, <1>2, <1>3 DEF InitialContents

LEMMA TypesInit == Init => Types
<1> SUFFICES ASSUME Init PROVE Types
  OBVIOUS
<1> USE DEF Init
<1>1. Streams
  BY FilesAre DEF Streams
<1>2. DataOK
  <2>1. PICK contents \in InitialContents :
          data = [f \in Files |-> IF f = dir["config"] THEN contents ELSE <<>>]
    OBVIOUS
  <2>2. contents \in Seq(Cells) /\ <<>> \in Seq(Cells)
    BY BeginsAsSeq
  <2> QED
    BY <2>1, <2>2 DEF DataOK
<1>3. WritersOK
  <2>1. \A w \in Writers : Stage(w)
    BY DEF Stage
  <2>2. "idle" \in WPcs /\ <<>> \in Seq(Cells)
    BY DEF WPcs
  <2> QED
    BY <2>1, <2>2 DEF WritersOK
<1>4. ServersOK
  <2>1. 0 \in 0 .. PortNumbers - 1
    BY DEF PortNumbers
  <2> QED
    BY <2>1 DEF ServersOK
<1> QED
  BY <1>1, <1>2, <1>3, <1>4 DEF Types

\* The other steps keep the types as well.
LEMMA TypesNext == Types /\ [Next]_vars => Types'
<1> SUFFICES ASSUME Types, [Next]_vars PROVE Types'
  OBVIOUS
<1>1. /\ data \in [Files -> Seq(Cells)]
      /\ dir \in [Names -> Files \union {NoFile}]
      /\ pfp \in [Programs -> Files \union {NoFile}]
      /\ ppc \in [Programs -> {"down", "read", "up"}]
      /\ port \in [Programs -> 0 .. PortNumbers - 1]
  BY DEF Types, DataOK, Streams, ServersOK
<1>2. Kept(data) \in [Files -> Seq(Cells)]
  BY <1>1, KeptType
<1>3. CASE UNCHANGED vars
  <2> USE <1>3 DEF vars, files, writers, servers
  <2>1. Streams' /\ DataOK' /\ ServersOK'
    BY DEF Types, Streams, DataOK, ServersOK
  <2>2. WritersOK'
    BY DEF Types, WritersOK, Stage, Key
  <2> QED
    BY <2>1, <2>2 DEF Types
<1>4. ASSUME Watch PROVE fresh' \in [Programs -> BOOLEAN]
  <2> DEFINE now(p) == /\ ppc'[p] = "read"
                       /\ \/ Got(p)' = Current'[KeyOf[p]]
                          \/ fresh[p] /\ Got(p)' = Got(p)
  <2>1. fresh' = [p \in Programs |-> now(p)]
    BY <1>4 DEF Watch
  <2>2. \A p \in Programs : now(p) \in BOOLEAN
    OBVIOUS
  <2> HIDE DEF now
  <2> QED
    BY <2>1, <2>2
<1>5. CASE Stores /\ Watch
  <2>1. /\ ppc' = ppc /\ port' = port /\ pfp' = pfp
        /\ ppc' \in [Programs -> {"down", "read", "up"}]
        /\ port' \in [Programs -> 0 .. PortNumbers - 1]
    BY <1>1, <1>5 DEF Stores, servers
  <2>2. ServersOK'
    BY <1>4, <1>5, <2>1 DEF ServersOK
  <2>3. ASSUME NEW w \in Writers, Put(w) PROVE Streams' /\ DataOK' /\ WritersOK'
    BY <1>5, <2>3, PutTypes DEF Stores
  <2>4. CASE Crash
    <3>1. DataOK'
      BY <1>2, <2>4 DEF Crash, DataOK
    <3>2. Streams'
      BY <1>1, <2>1, <2>4 DEF Crash, Streams
    <3>3. WritersOK'
      <4>1. (\A w \in Writers : Stage(w))'
        BY <2>4 DEF Crash, Stage
      <4>2. "idle" \in WPcs /\ <<>> \in Seq(Cells)
        BY DEF WPcs
      <4>3. /\ wpc' = [w \in Writers |-> "idle"] /\ wreq' = [w \in Writers |-> <<>>]
            /\ snap' = [w \in Writers |-> <<>>]
        BY <2>4 DEF Crash
      <4> QED
        BY <4>1, <4>2, <4>3 DEF WritersOK
    <3> QED
      BY <2>2, <3>1, <3>2, <3>3 DEF Types
  <2> QED
    BY <1>5, <2>2, <2>3, <2>4 DEF Stores, Types
<1>6. CASE Serves /\ Watch
  <2>1. dir' = dir /\ wpc' = wpc /\ wreq' = wreq /\ rfp' = rfp /\ wfp' = wfp
        /\ snap' = snap
    BY <1>6 DEF Serves, writers
  <2>2. WritersOK'
    BY <2>1 DEF Types, WritersOK, Stage, Key
  <2>3. PICK p \in Programs : SOpen(p) \/ SRead(p) \/ SStop(p)
    BY <1>6 DEF Serves
  <2>4. DataOK' /\ pfp' \in [Programs -> Files \union {NoFile}]
    <3>1. dir["config"] \in Files \union {NoFile}
      BY <1>1 DEF Names
    <3> QED
      BY <1>1, <1>2, <2>3, <3>1 DEF DataOK, SOpen, SRead, SStop
  <2>5. Got(p) \in Values \union {Absent}
    <3>1. CASE pfp[p] = NoFile
      BY <3>1 DEF Got
    <3>2. CASE pfp[p] # NoFile
      <4>1. pfp[p] \in Files /\ data[pfp[p]] \in Seq(Cells) /\ KeyOf[p] \in Keys
        BY <1>1, <3>2, ProgramAssumption
      <4> QED
        BY <3>2, <4>1, LookupType DEF Got
    <3> QED
      BY <3>1, <3>2
  <2>6. Listens(Number[Got(p)]) \in 0 .. PortNumbers - 1
    BY <2>5, ListensType
  <2>7. /\ ppc' \in [Programs -> {"down", "read", "up"}]
        /\ port' \in [Programs -> 0 .. PortNumbers - 1]
    <3>1. CASE SOpen(p)
      BY <1>1, <3>1 DEF SOpen
    <3>2. CASE SRead(p)
      <4>1. /\ ppc' = [ppc EXCEPT ![p] = "up"]
            /\ port' = [port EXCEPT ![p] = Listens(Number[Got(p)])]
        BY <3>2 DEF SRead
      <4> QED
        BY <1>1, <2>6, <4>1
    <3>3. CASE SStop(p)
      <4>1. 0 \in 0 .. PortNumbers - 1
        BY DEF PortNumbers
      <4>2. ppc' = [ppc EXCEPT ![p] = "down"] /\ port' = [port EXCEPT ![p] = 0]
        BY <3>3 DEF SStop
      <4> QED
        BY <1>1, <4>1, <4>2
    <3> QED
      BY <2>3, <3>1, <3>2, <3>3
  <2>8. Streams' /\ ServersOK'
    <3>1. dir \in [Names -> Files \union {NoFile}]
          /\ rfp \in [Writers -> Files \union {NoFile}]
          /\ wfp \in [Writers -> Files \union {NoFile}]
      BY DEF Types, Streams
    <3> QED
      BY <1>4, <1>6, <2>1, <2>4, <2>7, <3>1 DEF Streams, ServersOK
  <2> QED
    BY <2>2, <2>4, <2>8 DEF Types
<1> QED
  BY <1>3, <1>5, <1>6 DEF Next

LEMMA TypesSayTypeOK == Types => TypeOK
<1> SUFFICES ASSUME Types PROVE TypeOK
  OBVIOUS
<1>1. \A f \in Files : \A n \in 1 .. Len(data[f]) :
        data[f][n] # Hole => data[f][n] \in Keys \X Values \X Nat
  <2>1. ASSUME NEW f \in Files, NEW n \in 1 .. Len(data[f])
        PROVE  data[f][n] \in Cells
    <3>1. data[f] \in Seq(Cells)
      BY DEF Types, DataOK
    <3> QED
      BY <3>1, ElementOfSeq
  <2> QED
    BY <2>1 DEF Cells
<1>2. \A w \in Writers : wreq[w] = <<>> \/ wreq[w] \in Keys \X Values
  BY DEF Types, WritersOK
<1>3. StreamsAreOpen
  BY DEF Types, WritersOK, Stage, StreamsAreOpen
<1> QED
  BY <1>1, <1>2, <1>3 DEF Types, Streams, WritersOK, ServersOK, TypeOK

\* Whatever several writers do to each other's files and a crash leaves
\* behind, a file holds nothing but cells of lines and holes, a stream is
\* open wherever minIni.c uses one, and what a program listens on has 16 bits.
THEOREM StoreTypeCorrect == Spec => []TypeOK
<1>1. Spec => []Types
  BY TypesInit, TypesNext, PTL DEF Spec
<1> QED
  BY <1>1, TypesSayTypeOK, PTL

-----------------------------------------------------------------------------
(* One writer: where its streams and the two names stand.                   *)

SingleWriter == \A v, w \in Writers : v = w

config == dir["config"]
temp   == dir["temp"]

Place(w) ==
  /\ wpc[w] = "read" => config # NoFile /\ rfp[w] = config
  /\ wpc[w] = "create" => config = NoFile
  /\ wpc[w] = "fill" =>
       config # NoFile /\ wfp[w] = config /\ data[config] = <<>>
  /\ wpc[w] \in {"reopen", "patch", "temp", "copy"} =>
       config # NoFile /\ snap[w] = data[config]
  /\ wpc[w] \in {"reopen", "patch"} =>
       Width[Lookup(snap[w], Key(w))] = Width[Val(w)]
  /\ wpc[w] = "patch" => wfp[w] = config
  /\ wpc[w] = "copy" => temp # NoFile /\ wfp[w] = temp /\ data[temp] = <<>>
  /\ wpc[w] = "remove" => config # NoFile /\ temp # NoFile
  /\ wpc[w] = "rename" => config = NoFile /\ temp # NoFile
  /\ wpc[w] = "stored" => config # NoFile

\* A copy is nobody's but the writer's until it has the name of the file.
Private ==
  /\ config # NoFile => config # temp
  /\ \A p \in Programs : pfp[p] # NoFile => pfp[p] # temp

Placed == Private /\ \A w \in Writers : Place(w)

\* A file somebody may still write is left as it is.
LEMMA KeptFile ==
  ASSUME NEW d \in [Files -> Seq(Cells)], NEW f \in Files, f \in Written'
  PROVE  Kept(d)[f] = d[f]
BY DEF Kept

LEMMA KeptNamed ==
  ASSUME Types, NEW n \in Names, dir'[n] \in Files, data' = Kept(data)
  PROVE  data'[dir'[n]] = data[dir'[n]]
<1>1. dir'[n] \in Written'
  BY DEF Written
<1> QED
  BY <1>1, KeptFile DEF Types, DataOK

LEMMA PlacedInit == Init => Placed
<1> SUFFICES ASSUME Init PROVE Placed
  OBVIOUS
<1>1. Private
  BY DEF Init, Private, config, temp
<1>2. \A w \in Writers : Place(w)
  BY DEF Init, Place
<1> QED
  BY <1>1, <1>2 DEF Placed

LEMMA PutPlaced ==
  ASSUME SingleWriter, Types, Placed, NEW w \in Writers, Put(w),
         UNCHANGED servers
  PROVE  Placed'
<1>1. /\ dir \in [Names -> Files \union {NoFile}]
      /\ data \in [Files -> Seq(Cells)]
      /\ wpc \in [Writers -> WPcs]
      /\ wreq \in [Writers -> (Keys \X Values) \union {<<>>}]
      /\ snap \in [Writers -> Seq(Cells)]
      /\ rfp \in [Writers -> Files \union {NoFile}]
      /\ wfp \in [Writers -> Files \union {NoFile}]
      /\ pfp \in [Programs -> Files \union {NoFile}]
      /\ pfp' = pfp
  BY DEF Types, DataOK, WritersOK, Streams, servers
<1>2. /\ Place(w) /\ Stage(w) /\ Private
      /\ config \in Files \union {NoFile} /\ temp \in Files \union {NoFile}
  BY <1>1 DEF Types, WritersOK, Placed, config, temp, Names
<1>3. \A v \in Writers : v = w
  BY DEF SingleWriter
<1>4. ASSUME Place(w)', Private' PROVE Placed'
  BY <1>3, <1>4 DEF Placed
<1>5. ASSUME dir' = dir PROVE Private'
  BY <1>1, <1>2, <1>5 DEF Private, config, temp
<1>6. ASSUME NEW k \in Keys, NEW v \in Values, PAsk(w, k, v) PROVE Placed'
  <2>1. wpc'[w] = "open" /\ dir' = dir
    BY <1>1, <1>6 DEF PAsk, WMove, files
  <2> QED
    BY <1>4, <1>5, <2>1 DEF Place
<1>7. CASE POpen(w)
  <2>1. /\ wpc'[w] = IF config = NoFile THEN "create" ELSE "read"
        /\ rfp'[w] = config /\ dir' = dir
    BY <1>1, <1>7 DEF POpen, WMove, files, config
  <2>2. config' = config
    BY <2>1 DEF config
  <2>3. Place(w)'
    BY <2>1, <2>2 DEF Place
  <2> QED
    BY <1>4, <1>5, <2>1, <2>3
<1>8. CASE PCreate(w)
  <2>1. PICK f \in Files : /\ dir["config"] = NoFile => f \notin InUse
                           /\ wfp' = [wfp EXCEPT ![w] = f]
                           /\ dir' = [dir EXCEPT !["config"] = f]
                           /\ data' = [data EXCEPT ![f] = <<>>]
    BY <1>8, OpenedEmpty DEF PCreate, Names
  <2>2. wpc[w] = "create" /\ wpc'[w] = "fill" /\ wfp'[w] = f
    BY <1>1, <1>8, <2>1 DEF PCreate, WMove
  <2>3. f \notin InUse /\ f # NoFile
    BY <1>2, <2>1, <2>2, FilesAre DEF Place, config
  <2>4. config' = f /\ temp' = temp /\ data'[f] = <<>>
    BY <1>1, <2>1 DEF config, temp, Names
  <2>5. Place(w)'
    BY <2>2, <2>3, <2>4 DEF Place
  <2>6. temp # f
    BY <2>3 DEF InUse, Written, temp, Names
  <2>7. Private'
    BY <1>1, <1>2, <2>3, <2>4, <2>6 DEF Private
  <2> QED
    BY <1>4, <2>5, <2>7
<1>9. CASE PFill(w)
  <2>1. wpc[w] = "fill" /\ wpc'[w] = "stored" /\ dir' = dir
    BY <1>1, <1>9 DEF PFill, WMove
  <2>2. config' # NoFile
    BY <1>2, <2>1 DEF Place, config
  <2> QED
    BY <1>4, <1>5, <2>1, <2>2 DEF Place
<1>10. CASE PRead(w)
  <2> DEFINE file == data[rfp[w]]
             old  == Lookup(file, Key(w))
  <2>1. /\ wpc[w] = "read" /\ dir' = dir /\ data' = data /\ wreq' = wreq
        /\ wpc'[w] = IF old = Val(w) THEN "stored"
                     ELSE IF old # Absent /\ Width[old] = Width[Val(w)]
                     THEN "reopen" ELSE "temp"
        /\ snap'[w] = IF wpc'[w] = "stored" THEN <<>> ELSE file
    BY <1>1, <1>10 DEF PRead, WMove, files
  <2>2. config # NoFile /\ file = data[config]
    BY <1>2, <2>1 DEF Place
  <2>3. config' = config /\ temp' = temp /\ Key(w)' = Key(w) /\ Val(w)' = Val(w)
    BY <2>1 DEF config, temp, Key, Val
  <2>4. wpc'[w] \in {"reopen", "temp", "stored"}
        /\ (wpc'[w] # "stored" => snap'[w] = file)
        /\ (wpc'[w] = "reopen" => Width[old] = Width[Val(w)])
    BY <2>1
  <2>5. Place(w)'
    BY <2>1, <2>2, <2>3, <2>4 DEF Place
  <2> QED
    BY <1>4, <1>5, <2>1, <2>5
<1>11. CASE PReopen(w)
  <2>1. /\ wpc[w] = "reopen" /\ wpc'[w] = "patch" /\ wfp'[w] = config
        /\ dir' = dir /\ data' = data /\ wreq' = wreq /\ snap' = snap
    BY <1>1, <1>11 DEF PReopen, WMove, files, config
  <2>2. config' = config /\ Key(w)' = Key(w) /\ Val(w)' = Val(w)
    BY <2>1 DEF config, Key, Val
  <2>3. Place(w)'
    BY <1>2, <2>1, <2>2 DEF Place
  <2> QED
    BY <1>4, <1>5, <2>1, <2>3
<1>12. CASE PPatch(w)
  <2>1. wpc[w] = "patch" /\ wpc'[w] = "stored" /\ dir' = dir
    BY <1>1, <1>12 DEF PPatch, WMove
  <2>2. config' # NoFile
    BY <1>2, <2>1 DEF Place, config
  <2> QED
    BY <1>4, <1>5, <2>1, <2>2 DEF Place
<1>13. CASE PTemp(w)
  <2>1. PICK f \in Files : /\ temp # NoFile => f = temp
                           /\ temp = NoFile => f \notin InUse
                           /\ wfp' = [wfp EXCEPT ![w] = f]
                           /\ dir' = [dir EXCEPT !["temp"] = f]
                           /\ data' = [data EXCEPT ![f] = <<>>]
    BY <1>13, OpenedEmpty DEF PTemp, Names, temp
  <2>2. /\ wpc[w] = "temp" /\ wpc'[w] = "copy" /\ wfp'[w] = f /\ snap' = snap
        /\ wreq' = wreq
    BY <1>1, <1>13, <2>1 DEF PTemp, WMove
  <2>3. config # NoFile /\ snap[w] = data[config]
    BY <1>2, <2>2 DEF Place
  <2>4. /\ f # NoFile /\ f # config
        /\ \A p \in Programs : pfp[p] # NoFile => pfp[p] # f
    <3>1. CASE temp = NoFile
      <4>1. f \notin InUse
        BY <2>1, <3>1
      <4> QED
        BY <4>1, FilesAre DEF InUse, Written, config, Names
    <3>2. CASE temp # NoFile
      BY <1>2, <2>1, <2>3, <3>2 DEF Private
    <3> QED
      BY <3>1, <3>2
  <2>5. config' = config /\ temp' = f /\ data'[f] = <<>>
    BY <1>1, <2>1 DEF config, temp, Names
  <2>6. data'[config] = data[config]
    BY <1>1, <1>2, <2>1, <2>3, <2>4
  <2>7. Place(w)'
    BY <2>2, <2>3, <2>4, <2>5, <2>6 DEF Place
  <2>8. Private'
    BY <1>1, <2>4, <2>5 DEF Private
  <2> QED
    BY <1>4, <2>7, <2>8
<1>14. CASE PCopy(w)
  <2>1. wpc[w] = "copy" /\ wpc'[w] = "remove" /\ dir' = dir
    BY <1>1, <1>14 DEF PCopy, WMove
  <2>2. config' = config /\ temp' = temp
    BY <2>1 DEF config, temp
  <2>3. Place(w)'
    BY <1>2, <2>1, <2>2 DEF Place
  <2> QED
    BY <1>4, <1>5, <2>1, <2>3
<1>15. CASE PRemove(w)
  <2>1. /\ wpc[w] = "remove" /\ wpc'[w] = "rename"
        /\ dir' = [dir EXCEPT !["config"] = NoFile]
    BY <1>1, <1>15 DEF PRemove, WMove
  <2>2. config' = NoFile /\ temp' = temp
    BY <1>1, <2>1 DEF config, temp, Names
  <2>3. Place(w)' /\ Private'
    BY <1>1, <1>2, <2>1, <2>2 DEF Place, Private
  <2> QED
    BY <1>4, <2>3
<1>16. CASE PRename(w)
  <2>1. /\ wpc[w] = "rename" /\ wpc'[w] = "stored"
        /\ temp # NoFile =>
             dir' = [dir EXCEPT !["config"] = temp, !["temp"] = NoFile]
    BY <1>1, <1>16 DEF PRename, WMove, temp
  <2>2. temp # NoFile
    BY <1>2, <2>1 DEF Place
  <2>3. config' = temp /\ temp' = NoFile
    BY <1>1, <2>1, <2>2 DEF config, temp, Names
  <2>4. Place(w)' /\ Private'
    BY <1>1, <1>2, <2>1, <2>2, <2>3 DEF Place, Private
  <2> QED
    BY <1>4, <2>4
<1>17. CASE PFails(w) \/ PReturn(w)
  <2>1. wpc'[w] \in {"refused", "idle"} /\ dir' = dir
    BY <1>1, <1>17 DEF PFails, PReturn, files
  <2> QED
    BY <1>4, <1>5, <2>1 DEF Place
<1> QED
  BY <1>6, <1>7, <1>8, <1>9, <1>10, <1>11, <1>12, <1>13, <1>14, <1>15, <1>16,
     <1>17 DEF Put

LEMMA PlacedNext == SingleWriter /\ Types /\ Placed /\ [Next]_vars => Placed'
<1> SUFFICES ASSUME SingleWriter, Types, Placed, [Next]_vars PROVE Placed'
  OBVIOUS
<1>1. /\ dir \in [Names -> Files \union {NoFile}]
      /\ data \in [Files -> Seq(Cells)]
      /\ pfp \in [Programs -> Files \union {NoFile}]
      /\ config \in Files \union {NoFile} /\ temp \in Files \union {NoFile}
  BY DEF Types, DataOK, Streams, config, temp, Names
<1>2. CASE UNCHANGED vars
  BY <1>2 DEF vars, files, writers, servers, Placed, Private, Place, config,
     temp, Key, Val
<1>3. CASE Stores /\ Watch
  <2>1. ASSUME NEW w \in Writers, Put(w) PROVE Placed'
    BY <1>3, <2>1, PutPlaced DEF Stores
  <2>2. CASE Crash
    <3>1. dir' = dir /\ pfp' = pfp /\ wpc' = [w \in Writers |-> "idle"]
      BY <1>3, <2>2 DEF Crash, Stores, servers
    <3>2. (\A w \in Writers : Place(w))'
      BY <3>1 DEF Place
    <3>3. Private'
      BY <1>1, <3>1 DEF Placed, Private, config, temp
    <3> QED
      BY <3>2, <3>3 DEF Placed
  <2> QED
    BY <1>3, <2>1, <2>2 DEF Stores
<1>4. CASE Serves /\ Watch
  <2>1. /\ dir' = dir /\ wpc' = wpc /\ wreq' = wreq /\ rfp' = rfp
        /\ wfp' = wfp /\ snap' = snap
    BY <1>4 DEF Serves, writers
  <2>2. PICK p \in Programs : SOpen(p) \/ SRead(p) \/ SStop(p)
    BY <1>4 DEF Serves
  <2>3. config' = config /\ temp' = temp
    BY <2>1 DEF config, temp
  <2>4. \/ data' = data
        \/ data' = Kept(data)
    BY <2>2 DEF SOpen, SRead, SStop
  <2>5. /\ config # NoFile => data'[config] = data[config]
        /\ temp # NoFile => data'[temp] = data[temp]
    BY <1>1, <2>1, <2>4, KeptNamed DEF config, temp, Names
  <2>6. ASSUME NEW w \in Writers PROVE Place(w)'
    <3>1. Place(w)
      BY DEF Placed
    <3> QED
      BY <2>1, <2>3, <2>5, <3>1 DEF Place, Key, Val
  <2>7. Private
    BY DEF Placed
  <2>8. Private'
    <3>1. pfp' = pfp \/ (\E f \in {config, NoFile} : pfp' = [pfp EXCEPT ![p] = f])
      BY <2>2 DEF SOpen, SRead, SStop, config
    <3> QED
      BY <1>1, <2>3, <2>7, <3>1 DEF Private
  <2> QED
    BY <2>6, <2>8 DEF Placed
<1> QED
  BY <1>2, <1>3, <1>4 DEF Next

-----------------------------------------------------------------------------
(* One writer: programs listen on a port that was set.                      *)

\* One line says what it was made to say.
LEMMA LineLookup ==
  ASSUME NEW k \in Keys, NEW v \in Values
  PROVE  Lookup(LineOf(k, v), k) = v
<1> DEFINE f == LineOf(k, v)
<1>1. /\ Len(f) = Width[v] /\ Width[v] \in Nat \ {0}
      /\ \A n \in 1 .. Width[v] : f[n] = <<k, v, n>>
  BY LineIsSeq
<1> HIDE DEF f
<1>2. 1 \in 1 .. Len(f) /\ f[1] = <<k, v, 1>>
  BY <1>1
<1>3. HasLine(f, 1, k)
  <2>1. \A n \in 2 .. Width[v] : 1 + n - 1 \in 1 .. Width[v] /\ 1 + n - 1 = n
    BY <1>1
  <2>2. \A n \in 2 .. Width[v] : f[1 + n - 1] = <<k, v, n>>
    BY <1>1, <2>1
  <2>3. 1 + Width[v] - 1 <= Len(f)
    BY <1>1
  <2>4. f[1] # Hole /\ f[1][1] = k /\ f[1][2] = v /\ f[1][3] = 1
    BY <1>2 DEF Hole
  <2> QED
    BY <2>2, <2>3, <2>4 DEF HasLine
<1>4. ASSUME NEW i \in 1 .. Len(f), HasLine(f, i, k) PROVE i = 1
  <2>1. f[i][3] = 1 /\ f[i] = <<k, v, i>>
    BY <1>1, <1>4 DEF HasLine
  <2> QED
    BY <2>1
<1>5. Positions(f, k) = {1}
  BY <1>2, <1>3, <1>4 DEF Positions
<1>6. First(f, k) = 1 /\ Found(f, k)
  BY <1>5 DEF First, Found
<1>7. Lookup(f, k) = v
  BY <1>2, <1>6 DEF Lookup
<1> QED
  BY <1>7 DEF f

\* Nothing is found in an empty file.
LEMMA NothingLookup ==
  ASSUME NEW k \in Keys
  PROVE  Lookup(<<>>, k) = Absent
BY DEF Lookup, Found, Positions

\* Reducing a file to the line of a key does not change what is found.
LEMMA GistLookup ==
  ASSUME NEW f \in Seq(Cells), NEW k \in Keys
  PROVE  Lookup(Gist(f, k), k) = Lookup(f, k)
<1>1. CASE Found(f, k)
  <2>1. Lookup(f, k) \in Values
    BY <1>1, FirstIsLine
  <2> QED
    BY <1>1, <2>1, LineLookup DEF Gist
<1>2. CASE ~Found(f, k)
  <2>1. Lookup(f, k) = Absent
    BY <1>2 DEF Lookup
  <2> QED
    BY <1>2, <2>1, NothingLookup DEF Gist
<1> QED
  BY <1>1, <1>2

\* A file a program has open still says the same of its key.
LEMMA KeptLookup ==
  ASSUME Types, NEW p \in Programs, NEW f \in Files, pfp'[p] = f,
         data' = Kept(data)
  PROVE  Lookup(data'[f], KeyOf[p]) = Lookup(data[f], KeyOf[p])
<1>1. data \in [Files -> Seq(Cells)] /\ data[f] \in Seq(Cells) /\ KeyOf[p] \in Keys
  BY ProgramAssumption DEF Types, DataOK
<1>2. KeyOf[p] \in Sought(f)'
  BY DEF Sought
<1>3. CASE f \in Written'
  BY <1>1, <1>3, KeptFile
<1>4. CASE f \notin Written' /\ \E k \in Keys : Sought(f)' = {k}
  <2>1. (CHOOSE k \in Keys : Sought(f)' = {k}) = KeyOf[p]
    <3>1. \A k \in Keys : Sought(f)' = {k} => k = KeyOf[p]
      BY <1>2
    <3> QED
      BY <1>4, <3>1
  <2>2. Kept(data)[f] = Gist(data[f], CHOOSE k \in Keys : Sought(f)' = {k})
    BY <1>2, <1>4 DEF Kept
  <2>3. data'[f] = Gist(data[f], KeyOf[p])
    BY <2>1, <2>2
  <2> QED
    BY <1>1, <2>3, GistLookup
<1>5. CASE f \notin Written' /\ ~\E k \in Keys : Sought(f)' = {k}
  BY <1>2, <1>5 DEF Kept
<1> QED
  BY <1>3, <1>4, <1>5

\* A program that found the file would always read a setting of its start.
Starts(p) == ppc[p] = "read" /\ pfp[p] # NoFile => fresh[p]

ListenInv == \A p \in Programs : Starts(p)

\* What a step has to show of a program that goes on starting.
LEMMA GoesOn ==
  ASSUME Types, NEW p \in Programs, Starts(p), Watch,
         ppc'[p] = "read" /\ pfp'[p] # NoFile =>
           \/ Got(p)' = Current'[KeyOf[p]]
           \/ ppc[p] = "read" /\ pfp[p] # NoFile /\ Got(p)' = Got(p)
  PROVE  Starts(p)'
<1> SUFFICES ASSUME ppc'[p] = "read", pfp'[p] # NoFile PROVE fresh'[p]
  BY DEF Starts
<1>1. fresh'[p] = (/\ ppc'[p] = "read"
                   /\ \/ Got(p)' = Current'[KeyOf[p]]
                      \/ fresh[p] /\ Got(p)' = Got(p))
  BY DEF Watch
<1> QED
  BY <1>1 DEF Starts

\* If it has the file itself open, it would read the current setting.
LEMMA ReadsCurrent ==
  ASSUME NEW p \in Programs, pfp'[p] # NoFile, pfp'[p] = config'
  PROVE  Got(p)' = Current'[KeyOf[p]]
<1>1. KeyOf[p] \in Keys
  BY ProgramAssumption
<1> QED
  BY <1>1 DEF Got, Current, config

LEMMA ListenNext ==
  SingleWriter /\ Types /\ Placed /\ ListenInv /\ [Next]_vars => ListenInv'
<1> SUFFICES ASSUME SingleWriter, Types, Placed, ListenInv, [Next]_vars,
                    NEW p \in Programs
             PROVE  Starts(p)'
  BY DEF ListenInv
<1>1. /\ dir \in [Names -> Files \union {NoFile}]
      /\ data \in [Files -> Seq(Cells)]
      /\ ppc \in [Programs -> {"down", "read", "up"}]
      /\ pfp \in [Programs -> Files \union {NoFile}]
      /\ config \in Files \union {NoFile} /\ temp \in Files \union {NoFile}
      /\ KeyOf[p] \in Keys
  BY ProgramAssumption DEF Types, DataOK, Streams, ServersOK, config, temp, Names
<1>2. Starts(p)
  BY DEF ListenInv
<1>3. CASE UNCHANGED vars
  BY <1>2, <1>3 DEF vars, servers, Starts
<1> SUFFICES ASSUME Stores \/ Serves, Watch, ppc'[p] = "read", pfp'[p] # NoFile
             PROVE  \/ Got(p)' = Current'[KeyOf[p]]
                    \/ ppc[p] = "read" /\ pfp[p] # NoFile /\ Got(p)' = Got(p)
  BY <1>2, <1>3, GoesOn DEF Next
<1>4. ASSUME pfp'[p] = pfp[p], data'[pfp[p]] = data[pfp[p]] PROVE Got(p)' = Got(p)
  BY <1>4 DEF Got
<1>5. ASSUME pfp'[p] = pfp[p], data' = Kept(data) PROVE Got(p)' = Got(p)
  <2>1. pfp[p] \in Files
    BY <1>1, <1>5
  <2> QED
    BY <1>5, <2>1, KeptLookup DEF Got
<1>6. CASE Stores
  <2>1. ppc' = ppc /\ pfp' = pfp /\ pfp[p] \in Files
    BY <1>1, <1>6 DEF Stores, servers
  <2>2. ASSUME NEW w \in Writers, Put(w)
        PROVE  Got(p)' = Current'[KeyOf[p]] \/ Got(p)' = Got(p)
    <3>1. Place(w) /\ Private /\ Stage(w) /\ w \in Writers
          /\ wfp \in [Writers -> Files \union {NoFile}]
      BY DEF Placed, Types, WritersOK, Streams
    <3>2. ASSUME NEW g \in Files, NEW e, data' = [data EXCEPT ![g] = e], g # pfp[p]
          PROVE  Got(p)' = Got(p)
      BY <1>1, <1>4, <2>1, <3>2
    <3>3. CASE PCreate(w)
      <4>1. PICK f \in Files : /\ dir["config"] = NoFile => f \notin InUse
                               /\ data' = [data EXCEPT ![f] = <<>>]
        BY <3>3, OpenedEmpty DEF PCreate, Names
      <4>2. f \notin InUse
        BY <3>1, <3>3, <4>1 DEF PCreate, WMove, Place, config
      <4>3. f # pfp[p]
        BY <4>2 DEF InUse
      <4> QED
        BY <3>2, <4>1, <4>3
    <3>4. CASE PTemp(w)
      <4>1. PICK f \in Files : /\ temp # NoFile => f = temp
                               /\ temp = NoFile => f \notin InUse
                               /\ data' = [data EXCEPT ![f] = <<>>]
        BY <3>4, OpenedEmpty DEF PTemp, Names, temp
      <4>2. f # pfp[p]
        BY <2>1, <3>1, <4>1, FilesAre DEF InUse, Private
      <4> QED
        BY <3>2, <4>1, <4>2
    <3>5. CASE PCopy(w)
      <4>1. /\ wfp[w] = temp /\ temp \in Files
            /\ data' = [data EXCEPT ![wfp[w]] =
                          Overwrite(@, 1, Replace(snap[w], Key(w), Val(w)))]
        BY <1>1, <3>1, <3>5 DEF PCopy, WMove, Place
      <4>2. temp # pfp[p]
        BY <2>1, <3>1, FilesAre DEF Private
      <4> QED
        BY <3>2, <4>1, <4>2
    <3>6. CASE PFill(w) \/ PPatch(w)
      <4>1. wfp[w] = config /\ config \in Files /\ dir' = dir
        BY <1>1, <3>1, <3>6 DEF PFill, PPatch, WMove, Place
      <4>2. PICK e : data' = [data EXCEPT ![config] = e]
        BY <3>6, <4>1 DEF PFill, PPatch
      <4>3. CASE pfp[p] = config
        BY <2>1, <4>1, <4>3, FilesAre, ReadsCurrent DEF config
      <4>4. CASE pfp[p] # config
        BY <3>2, <4>1, <4>2, <4>4
      <4> QED
        BY <4>3, <4>4
    <3>7. CASE PRemove(w) \/ PRename(w)
      BY <1>5, <2>1, <3>7 DEF PRemove, PRename
    <3>8. CASE data' = data
      BY <1>4, <2>1, <3>8
    <3>9. \/ PCreate(w) \/ PTemp(w) \/ PCopy(w) \/ PFill(w) \/ PPatch(w)
          \/ PRemove(w) \/ PRename(w) \/ data' = data
      BY <2>2 DEF Put, PAsk, POpen, PRead, PReopen, PFails, PReturn, files
    <3> QED
      BY <3>3, <3>4, <3>5, <3>6, <3>7, <3>8, <3>9
  <2>3. ASSUME Crash PROVE Got(p)' = Got(p)
    BY <1>5, <2>1, <2>3 DEF Crash
  <2> QED
    BY <1>6, <2>1, <2>2, <2>3, FilesAre DEF Stores
<1>7. CASE Serves
  <2>1. dir' = dir
    BY <1>7 DEF Serves
  <2>2. PICK q \in Programs : SOpen(q) \/ SRead(q) \/ SStop(q)
    BY <1>7 DEF Serves
  <2>3. CASE SOpen(q) /\ q = p
    <3>1. pfp'[p] = config /\ config' = config
      BY <1>1, <2>1, <2>3 DEF SOpen, config
    <3> QED
      BY <3>1, ReadsCurrent
  <2>4. CASE q = p /\ (SRead(q) \/ SStop(q))
    BY <1>1, <2>4 DEF SRead, SStop
  <2>5. CASE q # p
    <3>1. ppc'[p] = ppc[p] /\ pfp'[p] = pfp[p]
      BY <1>1, <2>2, <2>5 DEF SOpen, SRead, SStop
    <3>2. data' = data \/ data' = Kept(data)
      BY <2>2 DEF SOpen, SRead, SStop
    <3> QED
      BY <1>4, <1>5, <3>1, <3>2
  <2> QED
    BY <2>2, <2>3, <2>4, <2>5
<1> QED
  BY <1>6, <1>7

LEMMA ListenInit == Init => ListenInv
BY DEF Init, ListenInv, Starts

\* While one thread stores ports and may die at any step, a program that
\* starts listens on a port that was set at some moment of its start; the
\* default is taken for it only if the file had no name when it was opened.
THEOREM ProgramsListenOnASetting ==
  SingleWriter => (Spec => ListensOnASetting)
<1> SUFFICES ASSUME SingleWriter PROVE Spec => ListensOnASetting
  OBVIOUS
<1> DEFINE I == Types /\ Placed /\ ListenInv
<1>1. Init => I
  BY TypesInit, PlacedInit, ListenInit
<1>2. I /\ [Next]_vars => I'
  BY TypesNext, PlacedNext, ListenNext
<1> DEFINE Listening ==
      \A p \in Programs :
        ppc[p] = "read" /\ ppc'[p] = "up" =>
          \/ fresh[p] /\ port'[p] = Listens(Number[Got(p)])
          \/ pfp[p] = NoFile /\ port'[p] = Listens(Number[Absent])
<1>3. I /\ [Next]_vars => [Listening]_vars
  <2> SUFFICES ASSUME I, Next, NEW p \in Programs, ppc[p] = "read",
                      ppc'[p] = "up"
               PROVE  \/ fresh[p] /\ port'[p] = Listens(Number[Got(p)])
                      \/ pfp[p] = NoFile /\ port'[p] = Listens(Number[Absent])
    OBVIOUS
  <2>1. /\ ppc \in [Programs -> {"down", "read", "up"}]
        /\ port \in [Programs -> 0 .. PortNumbers - 1]
    BY DEF Types, ServersOK
  <2>2. PICK q \in Programs : SOpen(q) \/ SRead(q) \/ SStop(q)
    <3>1. ~Stores
      BY DEF Stores, servers
    <3> QED
      BY <3>1 DEF Next, Serves
  <2>3. SRead(q) /\ q = p
    BY <2>1, <2>2 DEF SOpen, SRead, SStop
  <2>4. port'[p] = Listens(Number[Got(p)])
    BY <2>1, <2>3 DEF SRead
  <2>5. CASE pfp[p] = NoFile
    BY <2>4, <2>5 DEF Got
  <2>6. CASE pfp[p] # NoFile
    BY <2>4, <2>6 DEF ListenInv, Starts
  <2> QED
    BY <2>5, <2>6
<1> HIDE DEF I
<1>4. Spec => [][Listening]_vars
  BY <1>1, <1>2, <1>3, PTL DEF Spec
<1> QED
  BY <1>4 DEF ListensOnASetting

-----------------------------------------------------------------------------
(* Files made of whole lines, one for each key.                             *)

\* A whole line starts at cell s.
LineAt(f, s, k, v) ==
  /\ s \in 1 .. Len(f) /\ s + Width[v] - 1 <= Len(f)
  /\ \A n \in 1 .. Width[v] : f[s + n - 1] = <<k, v, n>>

Sound(f) ==
  /\ \A j \in 1 .. Len(f) : \E s \in 1 .. j, k \in Keys, v \in Values :
       LineAt(f, s, k, v) /\ j <= s + Width[v] - 1
  /\ \A k \in Keys, u, v \in Values, s, t \in 1 .. Len(f) :
       LineAt(f, s, k, u) /\ LineAt(f, t, k, v) => s = t

\* A cell within a line.
LEMMA CellOfLine ==
  ASSUME NEW f \in Seq(Cells), NEW k \in Keys, NEW v \in Values, NEW s \in Nat,
         LineAt(f, s, k, v), NEW j \in Nat, s <= j, j <= s + Width[v] - 1
  PROVE  j \in 1 .. Len(f) /\ f[j] = <<k, v, j - s + 1>>
<1> DEFINE n == j - s + 1
<1>1. Width[v] \in Nat \ {0} /\ Len(f) \in Nat
  BY WidthAssumption, LenProperties
<1>2. n \in 1 .. Width[v] /\ s + n - 1 = j
  BY <1>1
<1> HIDE DEF n
<1>3. f[s + n - 1] = <<k, v, n>>
  BY <1>2 DEF LineAt
<1>4. j \in 1 .. Len(f)
  BY <1>1 DEF LineAt
<1> QED
  BY <1>2, <1>3, <1>4 DEF n

\* The first cell of a line, and of no other.
LEMMA StartOfLine ==
  ASSUME NEW f \in Seq(Cells), Sound(f), NEW k \in Keys, NEW v \in Values,
         NEW s \in 1 .. Len(f), f[s] = <<k, v, 1>>
  PROVE  LineAt(f, s, k, v)
<1>1. PICK t \in 1 .. s, l \in Keys, u \in Values :
        LineAt(f, t, l, u) /\ s <= t + Width[u] - 1
  BY DEF Sound
<1>2. s \in Nat /\ t \in Nat /\ t <= s
  BY LenProperties
<1>3. f[s] = <<l, u, s - t + 1>>
  BY <1>1, <1>2, CellOfLine
<1>4. l = k /\ u = v /\ s - t + 1 = 1
  BY <1>3
<1>5. s = t
  BY <1>2, <1>4
<1> QED
  BY <1>1, <1>4, <1>5

\* Lines do not overlap.
LEMMA LinesApart ==
  ASSUME NEW f \in Seq(Cells), NEW k \in Keys, NEW v \in Values, NEW s \in Nat,
         LineAt(f, s, k, v), NEW l \in Keys, NEW u \in Values, NEW t \in Nat,
         LineAt(f, t, l, u), s < t
  PROVE  s + Width[v] - 1 < t
<1>1. Width[v] \in Nat \ {0} /\ Width[u] \in Nat \ {0} /\ Len(f) \in Nat
  BY WidthAssumption, LenProperties
<1>2. t <= t + Width[u] - 1 /\ t <= t /\ t - t + 1 = 1
  BY <1>1
<1>3. f[t] = <<l, u, 1>>
  <2>1. f[t] = <<l, u, t - t + 1>>
    BY <1>2, CellOfLine
  <2> QED
    BY <1>2, <2>1
<1>4. ASSUME t <= s + Width[v] - 1 PROVE FALSE
  <2>1. f[t] = <<k, v, t - s + 1>>
    BY <1>4, CellOfLine
  <2>2. t - s + 1 = 1
    BY <1>3, <2>1
  <2> QED
    BY <2>2
<1> QED
  BY <1>1, <1>4

\* Where getkeystring finds a line, and only there, is one.
LEMMA HasLineIsLineAt ==
  ASSUME NEW f \in Seq(Cells), Sound(f), NEW k \in Keys, NEW i \in 1 .. Len(f)
  PROVE  HasLine(f, i, k) <=> \E v \in Values : LineAt(f, i, k, v)
<1>1. i \in Nat /\ Len(f) \in Nat /\ i <= Len(f) /\ i >= 1
  BY LenProperties
<1>2. ASSUME HasLine(f, i, k)
      PROVE  LineAt(f, i, k, f[i][2]) /\ f[i][2] \in Values
  <2> DEFINE v == f[i][2]
  <2>1. f[i] \in Keys \X Values \X Nat
    BY <1>2, ElementOfSeq DEF HasLine, Cells
  <2>2. v \in Values /\ f[i] = <<k, v, 1>>
    BY <1>2, <2>1 DEF HasLine
  <2>3. Width[v] \in Nat \ {0}
    BY <2>2, WidthAssumption
  <2>4. /\ i + Width[v] - 1 <= Len(f)
        /\ \A n \in 2 .. Width[v] : f[i + n - 1] = <<k, v, n>>
    BY <1>2 DEF HasLine
  <2> HIDE DEF v
  <2>5. ASSUME NEW n \in 1 .. Width[v] PROVE f[i + n - 1] = <<k, v, n>>
    <3>1. CASE n = 1
      <4>1. i + n - 1 = i
        BY <1>1, <3>1
      <4> QED
        BY <2>2, <3>1, <4>1
    <3>2. CASE n # 1
      <4>1. n \in 2 .. Width[v]
        BY <2>3, <3>2
      <4> QED
        BY <2>4, <4>1
    <3> QED
      BY <3>1, <3>2
  <2>6. LineAt(f, i, k, v) /\ v \in Values
    BY <2>2, <2>4, <2>5 DEF LineAt
  <2> QED
    BY <2>6 DEF v
<1>3. ASSUME NEW v \in Values, LineAt(f, i, k, v) PROVE HasLine(f, i, k)
  <2>1. Width[v] \in Nat \ {0} /\ i + Width[v] - 1 <= Len(f)
    BY <1>3, WidthAssumption DEF LineAt
  <2>2. f[i] = <<k, v, 1>>
    <3>1. 1 \in 1 .. Width[v] /\ i + 1 - 1 = i
      BY <1>1, <2>1
    <3> QED
      BY <1>3, <3>1 DEF LineAt
  <2>3. f[i] # Hole /\ f[i][1] = k /\ f[i][2] = v /\ f[i][3] = 1
    BY <2>2 DEF Hole
  <2>4. \A n \in 2 .. Width[v] : f[i + n - 1] = <<k, v, n>>
    <3>1. \A n \in 2 .. Width[v] : n \in 1 .. Width[v]
      BY <2>1
    <3> QED
      BY <1>3, <3>1 DEF LineAt
  <2>5. ASSUME i # 1
        PROVE  f[i - 1] # Hole /\ f[i - 1][3] = Width[f[i - 1][2]]
    <3>1. i - 1 \in 1 .. Len(f) /\ i - 1 \in Nat /\ i - 1 < i
      BY <1>1, <2>5
    <3>2. PICK t \in 1 .. i - 1, l \in Keys, u \in Values :
            LineAt(f, t, l, u) /\ i - 1 <= t + Width[u] - 1
      BY <3>1 DEF Sound
    <3>3. t \in Nat /\ t <= i - 1 /\ t < i /\ Width[u] \in Nat \ {0}
      BY <1>1, WidthAssumption
    <3>4. t + Width[u] - 1 < i
      BY <1>1, <1>3, <3>2, <3>3, LinesApart
    <3>5. f[i - 1] = <<l, u, (i - 1) - t + 1>>
      BY <3>1, <3>2, <3>3, CellOfLine
    <3>6. (i - 1) - t + 1 = Width[u]
      BY <1>1, <3>2, <3>3, <3>4
    <3>7. f[i - 1] = <<l, u, Width[u]>>
      BY <3>5, <3>6
    <3> QED
      BY <3>7 DEF Hole
  <2> QED
    BY <2>1, <2>3, <2>4, <2>5 DEF HasLine
<1> QED
  BY <1>2, <1>3

\* What is looked up in such a file is what its line says.
LEMMA LookupIsLine ==
  ASSUME NEW f \in Seq(Cells), Sound(f), NEW k \in Keys, NEW v \in Values
  PROVE  /\ Lookup(f, k) = v <=> \E s \in 1 .. Len(f) : LineAt(f, s, k, v)
         /\ Lookup(f, k) = v => LineAt(f, First(f, k), k, v)
<1>1. ASSUME NEW u \in Values, NEW s \in 1 .. Len(f), LineAt(f, s, k, u)
      PROVE  Lookup(f, k) = u
  <2>1. HasLine(f, s, k)
    BY <1>1, HasLineIsLineAt
  <2>2. ASSUME NEW i \in 1 .. Len(f), HasLine(f, i, k) PROVE i = s
    <3>1. PICK x \in Values : LineAt(f, i, k, x)
      BY <2>2, HasLineIsLineAt
    <3> QED
      BY <1>1, <3>1 DEF Sound
  <2>3. Positions(f, k) = {s}
    BY <2>1, <2>2 DEF Positions
  <2>4. Found(f, k) /\ First(f, k) = s
    <3>1. s <= s
      BY LenProperties
    <3> QED
      BY <2>3, <3>1 DEF Found, First
  <2>5. f[s] = <<k, u, 1>>
    <3>1. s \in Nat /\ Width[u] \in Nat \ {0}
      BY WidthAssumption
    <3>2. s <= s /\ s <= s + Width[u] - 1 /\ s - s + 1 = 1
      BY <3>1
    <3>3. f[s] = <<k, u, s - s + 1>>
      BY <1>1, <3>1, <3>2, CellOfLine
    <3> QED
      BY <3>2, <3>3
  <2> QED
    BY <2>4, <2>5 DEF Lookup
<1>2. ASSUME Lookup(f, k) = v
      PROVE  /\ First(f, k) \in 1 .. Len(f)
             /\ LineAt(f, First(f, k), k, v)
  <2>1. Found(f, k)
    BY <1>2, LookupType, AbsentAssumption
  <2>2. /\ First(f, k) \in 1 .. Len(f) /\ Lookup(f, k) = f[First(f, k)][2]
        /\ HasLine(f, First(f, k), k)
    BY <2>1, FirstIsLine DEF Positions
  <2>3. PICK u \in Values : LineAt(f, First(f, k), k, u)
    BY <2>2, HasLineIsLineAt
  <2>4. Lookup(f, k) = u
    BY <1>1, <2>2, <2>3
  <2> QED
    BY <1>2, <2>2, <2>3, <2>4
<1> QED
  BY <1>1, <1>2

\* g is f with the line of k for v where f had one of old cells at a, or at
\* the end when it had none.
Spliced(f, g, a, old, k, v) ==
  /\ a \in 1 .. Len(f) + 1 /\ a + old - 1 <= Len(f)
  /\ \/ /\ old = 0 /\ a = Len(f) + 1
        /\ \A s \in 1 .. Len(f), u \in Values : ~LineAt(f, s, k, u)
     \/ \E u \in Values : LineAt(f, a, k, u) /\ old = Width[u]
  /\ Len(g) = Len(f) - old + Width[v]
  /\ \A j \in 1 .. a - 1 : g[j] = f[j]
  /\ \A n \in 1 .. Width[v] : g[a - 1 + n] = <<k, v, n>>
  /\ \A j \in a + old .. Len(f) : g[j - old + Width[v]] = f[j]

\* Then g has this line, the other lines of f, and nothing else.
LEMMA Splicing ==
  ASSUME NEW f \in Seq(Cells), Sound(f), NEW g \in Seq(Cells),
         NEW k \in Keys, NEW v \in Values, NEW a \in Nat, NEW old \in Nat,
         Spliced(f, g, a, old, k, v)
  PROVE  /\ Sound(g) /\ Lookup(g, k) = v
         /\ \A l \in Keys \ {k} : Lookup(g, l) = Lookup(f, l)
<1> DEFINE w == Width[v]
           New(x) == IF x < a THEN x ELSE x - old + w
           Out(x) == x < a \/ a + old <= x
<1>1. /\ w \in Nat \ {0} /\ Len(f) \in Nat /\ Len(g) \in Nat
      /\ Len(g) = Len(f) - old + w
      /\ 1 <= a /\ a <= Len(f) + 1 /\ a + old - 1 <= Len(f)
  BY WidthAssumption, LenProperties DEF Spliced
<1>2. ASSUME NEW x \in 1 .. Len(f), Out(x)
      PROVE  New(x) \in 1 .. Len(g) /\ g[New(x)] = f[x]
  <2>1. CASE x < a
    <3>1. x \in 1 .. a - 1
      BY <1>1, <2>1
    <3>2. g[x] = f[x]
      BY <3>1 DEF Spliced
    <3> QED
      BY <1>1, <2>1, <3>2
  <2>2. CASE ~(x < a)
    <3>1. x \in a + old .. Len(f)
      BY <1>1, <1>2, <2>2
    <3>2. g[x - old + Width[v]] = f[x]
      BY <3>1 DEF Spliced
    <3>3. New(x) = x - old + Width[v]
      BY <2>2
    <3>4. New(x) \in 1 .. Len(g)
      BY <1>1, <3>1, <3>3
    <3> QED
      BY <3>2, <3>3, <3>4
  <2> QED
    BY <2>1, <2>2
\* A line of f lies apart from what is cut out, or is it.
<1>3. ASSUME NEW s \in 1 .. Len(f), NEW l \in Keys, NEW u \in Values,
             LineAt(f, s, l, u)
      PROVE  /\ l = k => s = a /\ Width[u] = old
             /\ l # k => s + Width[u] - 1 < a \/ a + old <= s
  <2>1. s \in Nat /\ Width[u] \in Nat \ {0} /\ s + Width[u] - 1 <= Len(f)
    BY <1>1, <1>3, WidthAssumption DEF LineAt
  <2>2. CASE /\ old = 0 /\ a = Len(f) + 1
             /\ \A t \in 1 .. Len(f), x \in Values : ~LineAt(f, t, k, x)
    <3>1. l # k
      BY <1>3, <2>2
    <3>2. s + Width[u] - 1 < a
      BY <1>1, <2>1, <2>2
    <3> QED
      BY <3>1, <3>2
  <2>3. CASE \E x \in Values : LineAt(f, a, k, x) /\ old = Width[x]
    <3>1. PICK x \in Values : LineAt(f, a, k, x) /\ old = Width[x]
      BY <2>3
    <3>2. old \in Nat \ {0} /\ a \in 1 .. Len(f)
      BY <3>1, WidthAssumption DEF LineAt
    <3>3. f[s] = <<l, u, 1>> /\ f[a] = <<k, x, 1>>
      <4>1. /\ s <= s /\ s <= s + Width[u] - 1 /\ s - s + 1 = 1
            /\ a <= a /\ a <= a + old - 1 /\ a - a + 1 = 1
        BY <2>1, <3>2
      <4>2. f[s] = <<l, u, s - s + 1>>
        BY <1>3, <2>1, <4>1, CellOfLine
      <4>3. f[a] = <<k, x, a - a + 1>>
        <5>1. a <= a + Width[x] - 1
          BY <3>1, <4>1
        <5>2. LineAt(f, a, k, x) /\ a \in Nat /\ x \in Values /\ a <= a
          BY <3>1, <4>1
        <5> HIDE DEF w, New, Out
        <5> QED
          BY <5>1, <5>2, CellOfLine
      <4> QED
        BY <4>1, <4>2, <4>3
    <3>4. ASSUME l = k PROVE s = a /\ Width[u] = old
      <4>1. s = a
        BY <1>3, <3>1, <3>2, <3>4 DEF Sound
      <4> QED
        BY <3>1, <3>3, <4>1
    <3>5. ASSUME l # k PROVE s + Width[u] - 1 < a \/ a + old <= s
      <4>1. s # a
        BY <3>3, <3>5
      <4>2. CASE s < a
        BY <1>3, <2>1, <3>1, <4>2, LinesApart
      <4>3. CASE a < s
        <5>1. a + Width[x] - 1 < s
          BY <1>3, <2>1, <3>1, <4>3, LinesApart
        <5> QED
          BY <1>1, <2>1, <3>1, <5>1
      <4> QED
        BY <2>1, <4>1, <4>2, <4>3
    <3> QED
      BY <3>4, <3>5
  <2> QED
    BY <2>2, <2>3 DEF Spliced
\* It is in g as well, unless it was cut out.
<1>4. ASSUME NEW s \in 1 .. Len(f), NEW l \in Keys, NEW u \in Values,
             LineAt(f, s, l, u), l # k
      PROVE  LineAt(g, New(s), l, u) /\ New(s) \in 1 .. Len(g)
  <2>1. /\ s \in Nat /\ Width[u] \in Nat \ {0} /\ s + Width[u] - 1 <= Len(f)
        /\ s + Width[u] - 1 < a \/ a + old <= s
    BY <1>1, <1>3, <1>4, WidthAssumption DEF LineAt
  <2>2. ASSUME NEW n \in 1 .. Width[u]
        PROVE  /\ g[New(s) + n - 1] = <<l, u, n>>
               /\ New(s) + n - 1 \in 1 .. Len(g)
    <3> DEFINE x == s + n - 1
    <3>1. x \in 1 .. Len(f) /\ Out(x) /\ New(x) = New(s) + n - 1
      <4>1. n \in Nat /\ 1 <= n /\ n <= Width[u]
        BY <2>1
      <4>2. x \in 1 .. Len(f) /\ s <= x /\ x <= s + Width[u] - 1
        BY <1>1, <2>1, <4>1
      <4>3. CASE s + Width[u] - 1 < a
        <5>1. s < a /\ x < a
          BY <1>1, <2>1, <4>2, <4>3
        <5> QED
          BY <4>2, <5>1
      <4>4. CASE a + old <= s
        <5>1. ~(s < a) /\ ~(x < a) /\ a + old <= x
          BY <1>1, <2>1, <4>2, <4>4
        <5>2. New(s) = s - old + w /\ New(x) = x - old + w
          BY <5>1
        <5>3. New(x) = New(s) + n - 1
          BY <1>1, <2>1, <4>1, <5>2
        <5> QED
          BY <4>2, <5>1, <5>3
      <4> QED
        BY <2>1, <4>3, <4>4
    <3>2. f[x] = <<l, u, n>>
      BY <1>4 DEF LineAt
    <3> HIDE DEF x, New, Out
    <3>3. g[New(x)] = f[x] /\ New(x) \in 1 .. Len(g)
      BY <1>2, <3>1
    <3> QED
      BY <3>1, <3>2, <3>3
  <2>3. New(s) \in 1 .. Len(g)
    BY <1>1, <2>1
  <2>4. New(s) + Width[u] - 1 <= Len(g)
    <3>1. Width[u] \in 1 .. Width[u]
      BY <2>1
    <3>2. New(s) + Width[u] - 1 \in 1 .. Len(g)
      BY <2>2, <3>1
    <3> QED
      BY <1>1, <3>2
  <2> QED
    BY <2>2, <2>3, <2>4 DEF LineAt
<1>5. LineAt(g, a, k, v) /\ a \in 1 .. Len(g)
  <2>1. a \in 1 .. Len(g) /\ a + w - 1 <= Len(g)
    BY <1>1
  <2>2. ASSUME NEW n \in 1 .. w PROVE g[a + n - 1] = <<k, v, n>>
    <3>1. a + n - 1 = a - 1 + n
      BY <1>1
    <3>2. g[a - 1 + n] = <<k, v, n>>
      BY DEF Spliced
    <3> QED
      BY <3>1, <3>2
  <2> QED
    BY <2>1, <2>2 DEF LineAt
\* A cell of g is one of the new line, or it was in f.
<1>6. ASSUME NEW j \in 1 .. Len(g), ~(a <= j /\ j <= a + w - 1)
      PROVE  \E x \in 1 .. Len(f) : Out(x) /\ New(x) = j
  <2>1. CASE j < a
    <3>1. j \in 1 .. Len(f) /\ Out(j) /\ New(j) = j
      BY <1>1, <2>1
    <3> QED
      BY <3>1
  <2>2. CASE a <= j
    <3> DEFINE x == j - w + old
    <3>1. x \in 1 .. Len(f) /\ Out(x) /\ New(x) = j
      BY <1>1, <1>6, <2>2
    <3> QED
      BY <3>1
  <2> QED
    BY <1>1, <2>1, <2>2
\* The lines of g are the new one and the others of f.
<1>7. ASSUME NEW t \in 1 .. Len(g), NEW l \in Keys, NEW u \in Values,
             LineAt(g, t, l, u)
      PROVE  \/ t = a /\ l = k /\ u = v
             \/ l # k /\ \E s \in 1 .. Len(f) : LineAt(f, s, l, u) /\ t = New(s)
  <2>1. t \in Nat /\ Width[u] \in Nat \ {0}
    BY <1>1, WidthAssumption
  <2>2. g[t] = <<l, u, 1>>
    <3>1. t <= t /\ t <= t + Width[u] - 1 /\ t - t + 1 = 1
      BY <2>1
    <3>2. g[t] = <<l, u, t - t + 1>>
      BY <1>7, <2>1, <3>1, CellOfLine
    <3> QED
      BY <3>1, <3>2
  <2>3. CASE a <= t /\ t <= a + w - 1
    <3>1. g[t] = <<k, v, t - a + 1>>
      BY <1>5, <2>1, <2>3, CellOfLine
    <3>2. l = k /\ u = v /\ t - a + 1 = 1
      BY <2>2, <3>1
    <3>3. t = a
      BY <2>1, <3>2
    <3> QED
      BY <3>2, <3>3
  <2>4. CASE ~(a <= t /\ t <= a + w - 1)
    <3>1. PICK s \in 1 .. Len(f) : Out(s) /\ New(s) = t
      BY <1>6, <2>4
    <3>2. f[s] = <<l, u, 1>>
      <4> HIDE DEF New, Out
      <4> QED
        BY <1>2, <2>2, <3>1
    <3>3. LineAt(f, s, l, u)
      BY <3>2, StartOfLine
    <3>4. l # k
      <4>1. ASSUME l = k PROVE FALSE
        <5>1. s = a /\ Width[u] = old
          BY <1>3, <3>3, <4>1
        <5> QED
          BY <1>1, <2>1, <3>1, <5>1
      <4> QED
        BY <4>1
    <3> QED
      BY <3>1, <3>3, <3>4
  <2> QED
    BY <2>3, <2>4
<1>8. ASSUME NEW j \in 1 .. Len(g)
      PROVE  \E s \in 1 .. j, l \in Keys, u \in Values :
               LineAt(g, s, l, u) /\ j <= s + Width[u] - 1
  <2>1. CASE a <= j /\ j <= a + w - 1
    <3>1. a \in 1 .. j
      BY <1>1, <2>1
    <3> QED
      BY <1>5, <2>1, <3>1
  <2>2. CASE ~(a <= j /\ j <= a + w - 1)
    <3>1. PICK x \in 1 .. Len(f) : Out(x) /\ New(x) = j
      BY <1>6, <2>2
    <3>2. PICK s \in 1 .. x, l \in Keys, u \in Values :
            LineAt(f, s, l, u) /\ x <= s + Width[u] - 1
      BY DEF Sound
    <3>3. s \in 1 .. Len(f) /\ s <= x /\ Width[u] \in Nat \ {0}
      BY <1>1, WidthAssumption
    <3>4. l # k /\ (s + Width[u] - 1 < a \/ a + old <= s)
      <4>1. ASSUME l = k PROVE FALSE
        <5>1. s = a /\ Width[u] = old
          BY <1>3, <3>2, <3>3, <4>1
        <5> QED
          BY <1>1, <3>1, <3>2, <3>3, <5>1
      <4> QED
        BY <1>3, <3>2, <3>3, <4>1
    <3>5. New(s) \in 1 .. j /\ j <= New(s) + Width[u] - 1
      <4> DEFINE z == Width[u]
      <4>4. s \in Nat /\ x \in Nat /\ z \in Nat \ {0} /\ 1 <= s
        BY <1>1, <3>3
      <4>3. x <= s + z - 1 /\ s <= x
        BY <3>2, <3>3
      <4> HIDE DEF z
      <4>1. CASE s + z - 1 < a
        <5>1. s < a /\ x < a
          BY <1>1, <4>1, <4>3, <4>4
        <5>2. New(s) = s /\ j = x
          BY <3>1, <5>1
        <5> QED
          BY <4>3, <4>4, <5>2 DEF z
      <4>2. CASE a + old <= s
        <5>1. ~(s < a) /\ ~(x < a)
          BY <1>1, <4>2, <4>3, <4>4
        <5>2. New(s) = s - old + w /\ j = x - old + w
          BY <3>1, <5>1
        <5>3. New(s) \in 1 .. j
          BY <1>1, <4>2, <4>3, <4>4, <5>2
        <5>4. j <= New(s) + z - 1
          BY <1>1, <4>2, <4>3, <4>4, <5>2
        <5> QED
          BY <5>3, <5>4 DEF z
      <4> QED
        BY <3>4, <4>1, <4>2 DEF z
    <3>6. LineAt(g, New(s), l, u)
      BY <1>4, <3>2, <3>3, <3>4
    <3> QED
      BY <3>5, <3>6
  <2> QED
    BY <2>1, <2>2
<1> HIDE DEF New, Out
<1>9. ASSUME NEW l \in Keys, NEW x \in Values, NEW y \in Values,
             NEW s \in 1 .. Len(g), NEW t \in 1 .. Len(g),
             LineAt(g, s, l, x), LineAt(g, t, l, y)
      PROVE  s = t
  <2>1. CASE l = k
    BY <1>7, <1>9, <2>1
  <2>2. CASE l # k
    <3>1. PICK p \in 1 .. Len(f) : LineAt(f, p, l, x) /\ s = New(p)
      BY <1>7, <1>9, <2>2
    <3>2. PICK q \in 1 .. Len(f) : LineAt(f, q, l, y) /\ t = New(q)
      BY <1>7, <1>9, <2>2
    <3>3. p = q
      BY <3>1, <3>2 DEF Sound
    <3> QED
      BY <3>1, <3>2, <3>3
  <2> QED
    BY <2>1, <2>2
<1>10. Sound(g)
  BY <1>8, <1>9 DEF Sound
<1>11. Lookup(g, k) = v
  BY <1>5, <1>10, LookupIsLine
<1>12. ASSUME NEW l \in Keys \ {k} PROVE Lookup(g, l) = Lookup(f, l)
  <2>1. /\ Lookup(f, l) \in Values \union {Absent}
        /\ Lookup(g, l) \in Values \union {Absent}
    BY LookupType
  <2>2. ASSUME NEW u \in Values PROVE Lookup(f, l) = u <=> Lookup(g, l) = u
    <3>1. ASSUME Lookup(f, l) = u PROVE Lookup(g, l) = u
      <4>1. PICK s \in 1 .. Len(f) : LineAt(f, s, l, u)
        BY <3>1, LookupIsLine
      <4>2. LineAt(g, New(s), l, u) /\ New(s) \in 1 .. Len(g)
        BY <1>4, <4>1
      <4> QED
        BY <1>10, <4>2, LookupIsLine
    <3>2. ASSUME Lookup(g, l) = u PROVE Lookup(f, l) = u
      <4>1. PICK t \in 1 .. Len(g) : LineAt(g, t, l, u)
        BY <1>10, <3>2, LookupIsLine
      <4>2. PICK s \in 1 .. Len(f) : LineAt(f, s, l, u)
        BY <1>7, <4>1
      <4> QED
        BY <4>2, LookupIsLine
    <3> QED
      BY <3>1, <3>2
  <2> QED
    BY <2>1, <2>2
<1> QED
  BY <1>10, <1>11, <1>12

\* What ini_puts promises of a file g it has made from f.
Stored(f, g, k, v) ==
  /\ Sound(g)
  /\ \A l \in Keys : Lookup(g, l) = IF l = k THEN v ELSE Lookup(f, l)

LEMMA SplicedIsStored ==
  ASSUME NEW f \in Seq(Cells), Sound(f), NEW g \in Seq(Cells),
         NEW k \in Keys, NEW v \in Values, NEW a \in Nat, NEW old \in Nat,
         Spliced(f, g, a, old, k, v)
  PROVE  Stored(f, g, k, v)
<1>1. /\ Sound(g) /\ Lookup(g, k) = v
      /\ \A l \in Keys \ {k} : Lookup(g, l) = Lookup(f, l)
  BY Splicing
<1> QED
  BY <1>1 DEF Stored

\* A file with a line of k has it where getkeystring finds it.
LEMMA FoundLine ==
  ASSUME NEW f \in Seq(Cells), Sound(f), NEW k \in Keys, Found(f, k)
  PROVE  /\ Lookup(f, k) \in Values /\ LineAt(f, First(f, k), k, Lookup(f, k))
         /\ First(f, k) \in 1 .. Len(f)
         /\ First(f, k) + Width[Lookup(f, k)] - 1 <= Len(f)
<1>1. /\ Lookup(f, k) \in Values /\ First(f, k) \in 1 .. Len(f)
      /\ First(f, k) + Width[Lookup(f, k)] - 1 <= Len(f)
  BY FirstIsLine
<1> QED
  BY <1>1, LookupIsLine

\* The changed copy says what it should.
LEMMA ReplaceIsStored ==
  ASSUME NEW f \in Seq(Cells), Sound(f), NEW k \in Keys, NEW v \in Values
  PROVE  Stored(f, Replace(f, k, v), k, v)
<1> DEFINE g == Replace(f, k, v)
<1>1. Len(f) \in Nat /\ Width[v] \in Nat \ {0} /\ g \in Seq(Cells)
  BY LenProperties, WidthAssumption, Replaced
<1>2. CASE ~Found(f, k)
  <2>1. /\ Len(g) = Len(f) + Width[v]
        /\ \A j \in 1 .. Len(f) : g[j] = f[j]
        /\ \A n \in 1 .. Width[v] : g[Len(f) + n] = <<k, v, n>>
    BY <1>2, Replaced
  <2>2. ASSUME NEW s \in 1 .. Len(f), NEW u \in Values, LineAt(f, s, k, u)
        PROVE  FALSE
    <3>1. Lookup(f, k) = u
      BY <2>2, LookupIsLine
    <3> QED
      BY <1>2, <3>1, LookupType, AbsentAssumption
  <2> DEFINE a == Len(f) + 1
  <2> HIDE DEF g
  <2>3. Spliced(f, g, a, 0, k, v)
    <3>1. a \in 1 .. Len(f) + 1 /\ a + 0 - 1 <= Len(f) /\ a = Len(f) + 1
      BY <1>1
    <3>2. Len(g) = Len(f) - 0 + Width[v]
      BY <1>1, <2>1
    <3>3. \A j \in 1 .. a - 1 : g[j] = f[j]
      BY <1>1, <2>1
    <3>4. ASSUME NEW n \in 1 .. Width[v] PROVE g[a - 1 + n] = <<k, v, n>>
      <4>1. a - 1 + n = Len(f) + n
        BY <1>1
      <4> QED
        BY <2>1, <4>1
    <3>5. \A j \in a + 0 .. Len(f) : g[j - 0 + Width[v]] = f[j]
      BY <1>1
    <3> HIDE DEF a
    <3> QED
      BY <2>2, <3>1, <3>2, <3>3, <3>4, <3>5 DEF Spliced
  <2>4. a \in Nat /\ 0 \in Nat
    BY <1>1
  <2> HIDE DEF a
  <2>5. Stored(f, g, k, v)
    BY <1>1, <2>3, <2>4, SplicedIsStored
  <2> QED
    BY <2>5 DEF g
<1>3. CASE Found(f, k)
  <2> DEFINE a   == First(f, k)
             old == Width[Lookup(f, k)]
  <2>1. /\ Lookup(f, k) \in Values /\ LineAt(f, a, k, Lookup(f, k))
        /\ a \in 1 .. Len(f) /\ a + old - 1 <= Len(f) /\ old \in Nat \ {0}
    BY <1>3, FoundLine, WidthAssumption
  <2>2. /\ Len(g) = Len(f) - old + Width[v]
        /\ \A j \in 1 .. a - 1 : g[j] = f[j]
        /\ \A n \in 1 .. Width[v] : g[a - 1 + n] = <<k, v, n>>
        /\ \A j \in a + old .. Len(f) : g[j - old + Width[v]] = f[j]
    BY <1>3, Replaced
  <2>5. \E u \in Values : LineAt(f, a, k, u) /\ old = Width[u]
    BY <2>1
  <2>3. a \in Nat /\ old \in Nat /\ a \in 1 .. Len(f) + 1
    BY <1>1, <2>1
  <2> HIDE DEF a, old, g
  <2>4. Spliced(f, g, a, old, k, v)
    BY <2>1, <2>2, <2>3, <2>5 DEF Spliced
  <2>6. Stored(f, g, k, v)
    BY <1>1, <2>3, <2>4, SplicedIsStored
  <2> QED
    BY <2>6 DEF g
<1> QED
  BY <1>2, <1>3

\* So does the file whose line is overwritten by one as long.
LEMMA PatchIsStored ==
  ASSUME NEW f \in Seq(Cells), Sound(f), NEW k \in Keys, NEW v \in Values,
         Found(f, k), Width[Lookup(f, k)] = Width[v]
  PROVE  Stored(f, Overwrite(f, First(f, k), LineOf(k, v)), k, v)
<1> DEFINE a == First(f, k)
           w == Width[v]
           h == LineOf(k, v)
           g == Overwrite(f, a, h)
<1>1. /\ Lookup(f, k) \in Values /\ LineAt(f, a, k, Lookup(f, k))
      /\ a \in 1 .. Len(f) /\ a + w - 1 <= Len(f)
  BY FoundLine
<1>2. /\ Len(f) \in Nat /\ w \in Nat \ {0} /\ a \in Nat \ {0}
  BY <1>1, LenProperties, WidthAssumption
<1>3. /\ h \in Seq(Cells) /\ Len(h) = w
      /\ \A n \in 1 .. w : h[n] = <<k, v, n>>
  BY LineIsSeq
<1>4. \E u \in Values : LineAt(f, a, k, u) /\ w = Width[u]
  BY <1>1
<1> HIDE DEF a, h
<1>5. /\ g \in Seq(Cells)
      /\ LET end == a + Len(h) - 1
             n   == IF end > Len(f) THEN end ELSE Len(f) IN
         /\ Len(g) = n
         /\ \A i \in 1 .. n : g[i] =
              IF i \in a .. end THEN h[i - a + 1]
              ELSE IF i <= Len(f) THEN f[i] ELSE Hole
  <2>1. Len(h) > 0
    BY <1>2, <1>3
  <2> QED
    BY <1>2, <1>3, <2>1, Overwritten
<1> HIDE DEF g
<1>6. /\ Len(g) = Len(f)
      /\ \A i \in 1 .. Len(f) : g[i] =
           IF i \in a .. a + w - 1 THEN h[i - a + 1] ELSE f[i]
  <2>1. Len(h) = w
    BY <1>3
  <2>2. ~(a + w - 1 > Len(f))
    BY <1>1, <1>2
  <2>3. Len(g) = Len(f)
    BY <1>5, <2>1, <2>2
  <2>4. ASSUME NEW i \in 1 .. Len(f)
        PROVE  g[i] = IF i \in a .. a + w - 1 THEN h[i - a + 1] ELSE f[i]
    <3>1. i <= Len(f)
      BY <1>2
    <3> QED
      BY <1>5, <2>1, <2>2, <3>1
  <2> QED
    BY <2>3, <2>4
<1>7. ASSUME NEW j \in 1 .. Len(f), ~(a <= j /\ j <= a + w - 1)
      PROVE  g[j] = f[j]
  <2>1. j \notin a .. a + w - 1
    BY <1>2, <1>7
  <2> QED
    BY <1>6, <2>1
<1>8. ASSUME NEW n \in 1 .. w PROVE g[a - 1 + n] = <<k, v, n>>
  <2> DEFINE i == a - 1 + n
  <2>1. i \in 1 .. Len(f) /\ i \in a .. a + w - 1 /\ i - a + 1 = n
    BY <1>1, <1>2
  <2> HIDE DEF i
  <2>2. g[i] = h[i - a + 1]
    BY <1>6, <2>1
  <2>3. g[i] = h[n] /\ h[n] = <<k, v, n>>
    BY <1>3, <2>1, <2>2
  <2> QED
    BY <2>3 DEF i
<1>9. \A j \in 1 .. a - 1 : g[j] = f[j]
  BY <1>1, <1>2, <1>7
<1>10. ASSUME NEW j \in a + w .. Len(f) PROVE g[j - w + Width[v]] = f[j]
  <2>1. j - w + w = j /\ j \in 1 .. Len(f) /\ ~(j <= a + w - 1)
    BY <1>1, <1>2
  <2> QED
    BY <1>7, <2>1
<1>11. Spliced(f, g, a, w, k, v)
  <2>1. a \in 1 .. Len(f) + 1 /\ Len(g) = Len(f) - w + Width[v]
    BY <1>1, <1>2, <1>6
  <2> QED
    BY <1>1, <1>4, <1>8, <1>9, <1>10, <2>1 DEF Spliced
<1>12. w \in Nat /\ a \in Nat
  BY <1>2
<1>13. Stored(f, g, k, v)
  <2> HIDE DEF w
  <2> QED
    BY <1>5, <1>11, <1>12, SplicedIsStored
<1> QED
  BY <1>13 DEF g, a, h

\* Writing to an empty file.
LEMMA OverwriteEmpty ==
  ASSUME NEW h \in Seq(Cells), Len(h) > 0
  PROVE  Overwrite(<<>>, 1, h) = h
<1> DEFINE f  == <<>>
           at == 1
           g  == Overwrite(f, at, h)
<1>1. f \in Seq(Cells) /\ at \in Nat \ {0}
  OBVIOUS
<1>7. Len(f) = 0 /\ Len(h) \in Nat /\ at = 1
  BY LenProperties
<1> HIDE DEF f, at
<1>2. /\ g \in Seq(Cells)
      /\ LET end == at + Len(h) - 1
             n   == IF end > Len(f) THEN end ELSE Len(f) IN
         /\ Len(g) = n
         /\ \A i \in 1 .. n : g[i] =
              IF i \in at .. end THEN h[i - at + 1]
              ELSE IF i <= Len(f) THEN f[i] ELSE Hole
  BY <1>1, Overwritten
<1> HIDE DEF g
<1>3. at + Len(h) - 1 = Len(h) /\ Len(h) > Len(f)
  BY <1>7
<1>4. Len(g) = Len(h)
  BY <1>2, <1>3
<1>5. ASSUME NEW i \in 1 .. Len(h) PROVE g[i] = h[i]
  <2>1. i - at + 1 = i /\ i \in at .. Len(h)
    BY <1>7
  <2> QED
    BY <1>2, <1>3, <2>1
<1>6. g = h
  BY <1>2, <1>4, <1>5, SeqEqual
<1> QED
  BY <1>6 DEF g, f, at

\* The empty file, and one made from it.
LEMMA EmptyIsSound == Sound(<<>>) /\ <<>> \in Seq(Cells) /\ Len(<<>>) = 0
BY LenProperties DEF Sound

LEMMA LineIsStored ==
  ASSUME NEW k \in Keys, NEW v \in Values
  PROVE  Stored(<<>>, LineOf(k, v), k, v)
<1>1. ~Found(<<>>, k)
  BY DEF Found, Positions
<1>2. Replace(<<>>, k, v) = LineOf(k, v)
  <2>1. LineOf(k, v) \in Seq(Cells)
    BY LineIsSeq
  <2>2. <<>> \o LineOf(k, v) = LineOf(k, v)
    BY <2>1, ConcatEmptySeq
  <2> QED
    BY <1>1, <2>2 DEF Replace
<1>3. Stored(<<>>, Replace(<<>>, k, v), k, v)
  BY EmptyIsSound, ReplaceIsStored
<1> QED
  BY <1>2, <1>3

\* The file begins as one of whole lines, one for each key.
LEMMA BeginsSound ==
  ASSUME NEW c \in InitialContents
  PROVE  Sound(c)
<1>1. CASE c = <<>>
  BY <1>1, EmptyIsSound
<1>2. ASSUME NEW k \in Keys, NEW v \in Values, c = LineOf(k, v)
      PROVE  Sound(c)
  BY <1>2, LineIsStored DEF Stored
<1>3. ASSUME NEW k \in Keys, NEW v \in Values, NEW l \in Keys \ {k},
             NEW u \in Values, c = LineOf(k, v) \o LineOf(l, u)
      PROVE  Sound(c)
  <2> DEFINE f == LineOf(k, v)
  <2>1. f \in Seq(Cells) /\ Stored(<<>>, f, k, v)
    BY LineIsSeq, LineIsStored
  <2>2. Lookup(f, l) = Absent
    BY <2>1, NothingLookup DEF Stored
  <2>3. ~Found(f, l)
    BY <2>1, <2>2, LookupType
  <2>4. c = Replace(f, l, u)
    BY <1>3, <2>3 DEF Replace
  <2>5. Sound(f)
    BY <2>1 DEF Stored
  <2> HIDE DEF f
  <2> QED
    BY <2>1, <2>4, <2>5, ReplaceIsStored DEF Stored
<1> QED
  BY <1>1, <1>2, <1>3 DEF InitialContents

-----------------------------------------------------------------------------
(* One writer: the file and its copy say what was stored.                   *)

Copied(w) == Stored(data[config], data[temp], Key(w), Val(w))

Contents ==
  /\ config # NoFile => Sound(data[config])
  /\ temp # NoFile => Sound(data[temp])
  /\ \A w \in Writers : wpc[w] = "remove" => Copied(w)

applied == [w \in Writers |-> wpc[w] \in {"rename", "stored"}]

StoreStep == [Store!Next]_(Store!vars)

\* The settings are those of the file, or else of its copy.
LEMMA CurrentIs ==
  /\ config # NoFile => Current = [k \in Keys |-> Lookup(data[config], k)]
  /\ config = NoFile /\ temp # NoFile =>
       Current = [k \in Keys |-> Lookup(data[temp], k)]
  /\ config = NoFile /\ temp = NoFile => Current = [k \in Keys |-> Absent]
BY DEF Current, config, temp

\* A step that leaves the names and what is in their files.
LEMMA CurrentSame ==
  ASSUME config' = config, temp' = temp,
         config # NoFile => data'[config] = data[config],
         temp # NoFile => data'[temp] = data[temp]
  PROVE  /\ Current' = Current
         /\ config' # NoFile /\ Sound(data[config]) => Sound(data[config])'
         /\ temp' # NoFile /\ Sound(data[temp]) => Sound(data[temp])'
BY DEF Current, config, temp

LEMMA PutStores ==
  ASSUME SingleWriter, Types, Placed, Contents, NEW w \in Writers, Put(w),
         UNCHANGED servers
  PROVE  Contents' /\ StoreStep
<1>1. /\ dir \in [Names -> Files \union {NoFile}]
      /\ data \in [Files -> Seq(Cells)]
      /\ wpc \in [Writers -> WPcs]
      /\ wreq \in [Writers -> (Keys \X Values) \union {<<>>}]
      /\ snap \in [Writers -> Seq(Cells)]
      /\ wfp \in [Writers -> Files \union {NoFile}]
  BY DEF Types, DataOK, WritersOK, Streams
<1>2. /\ Place(w) /\ Stage(w) /\ Private
      /\ config \in Files \union {NoFile} /\ temp \in Files \union {NoFile}
      /\ NoFile \notin Files
  BY <1>1, FilesAre DEF Types, WritersOK, Placed, config, temp, Names
<1>3. \A v \in Writers : v = w
  BY DEF SingleWriter
<1>4. wpc[w] # "idle" => /\ wreq[w] # <<>> /\ wreq[w] = <<Key(w), Val(w)>>
                         /\ Key(w) \in Keys /\ Val(w) \in Values
  BY <1>1, <1>2 DEF Stage, Key, Val
<1>5. /\ config # NoFile => data[config] \in Seq(Cells) /\ Sound(data[config])
      /\ temp # NoFile => data[temp] \in Seq(Cells) /\ Sound(data[temp])
  BY <1>1, <1>2 DEF Contents
<1>6. ASSUME NEW to, wpc' = [wpc EXCEPT ![w] = to]
      PROVE  /\ to \in {"rename", "stored"} =>
                  applied' = [applied EXCEPT ![w] = TRUE]
             /\ ~(to \in {"rename", "stored"}) =>
                  applied' = [applied EXCEPT ![w] = FALSE]
             /\ wpc'[w] = to
  <2>1. wpc'[w] = to
    BY <1>1, <1>6
  <2>2. ASSUME to \in {"rename", "stored"}
        PROVE  applied' = [applied EXCEPT ![w] = TRUE]
    <3>1. applied' = [v \in Writers |-> TRUE]
      BY <1>3, <2>1, <2>2 DEF applied
    <3>2. [applied EXCEPT ![w] = TRUE] = [v \in Writers |-> TRUE]
      BY <1>3 DEF applied
    <3> QED
      BY <3>1, <3>2
  <2>3. ASSUME ~(to \in {"rename", "stored"})
        PROVE  applied' = [applied EXCEPT ![w] = FALSE]
    <3>1. applied' = [v \in Writers |-> FALSE]
      <4>1. \A v \in Writers : (wpc'[v] \in {"rename", "stored"}) = FALSE
        BY <1>3, <2>1, <2>3
      <4>2. applied' = [v \in Writers |-> wpc'[v] \in {"rename", "stored"}]
        BY DEF applied
      <4> QED
        BY <4>1, <4>2, Zenon
    <3>2. [applied EXCEPT ![w] = FALSE] = [v \in Writers |-> FALSE]
      BY <1>3 DEF applied
    <3> QED
      BY <3>1, <3>2
  <2> QED
    BY <2>1, <2>2, <2>3
<1>7. /\ Orphan <=> config = NoFile /\ temp # NoFile /\ wpc[w] # "rename"
      /\ Orphan' <=> config' = NoFile /\ temp' # NoFile /\ wpc'[w] # "rename"
  BY <1>3 DEF Orphan, config, temp
<1>8. Orphan \in BOOLEAN /\ Orphan' \in BOOLEAN
  BY DEF Orphan
<1>9. ASSUME config' # NoFile => Sound(data[config])',
             temp' # NoFile => Sound(data[temp])',
             wpc'[w] = "remove" => Copied(w)'
      PROVE  Contents'
  BY <1>3, <1>9 DEF Contents
<1>10. ASSUME Current' = Current, wreq' = wreq, applied' = applied, Orphan' = Orphan
       PROVE  StoreStep
  BY <1>10 DEF StoreStep, Store!vars, applied
<1>11. ASSUME wpc[w] # "idle", ~(wpc[w] \in {"rename", "stored"}),
              Current' = [Current EXCEPT ![Key(w)] = Val(w)],
              applied' = [applied EXCEPT ![w] = TRUE],
              wreq' = wreq, Orphan' = Orphan
       PROVE  StoreStep
  <2>1. Store!Apply(w)
    BY <1>4, <1>11 DEF Store!Apply, applied, Key, Val
  <2> QED
    BY <2>1 DEF StoreStep, Store!Next
\* Steps that leave the files.
<1>12. ASSUME dir' = dir, data' = data
       PROVE  /\ config' = config /\ temp' = temp /\ Current' = Current
              /\ config' # NoFile => Sound(data[config])'
              /\ temp' # NoFile => Sound(data[temp])'
  BY <1>5, <1>12, CurrentSame DEF config, temp
<1>13. ASSUME NEW k \in Keys, NEW v \in Values, PAsk(w, k, v)
       PROVE  Contents' /\ StoreStep
  <2>1. /\ wpc[w] = "idle" /\ wpc' = [wpc EXCEPT ![w] = "open"]
        /\ wreq' = [wreq EXCEPT ![w] = <<k, v>>] /\ dir' = dir /\ data' = data
    BY <1>13 DEF PAsk, WMove, files
  <2>2. applied' = [applied EXCEPT ![w] = FALSE] /\ wpc'[w] = "open"
    BY <1>6, <2>1
  <2>3. /\ config' = config /\ temp' = temp /\ Current' = Current
        /\ config' # NoFile => Sound(data[config])'
        /\ temp' # NoFile => Sound(data[temp])'
    BY <1>12, <2>1
  <2>4. Contents'
    BY <1>9, <2>2, <2>3
  <2>5. Orphan' = Orphan
    BY <1>7, <1>8, <2>1, <2>2, <2>3
  <2>6. wreq[w] = <<>>
    BY <1>2, <2>1 DEF Stage
  <2>7. Store!Ask(w)
    BY <2>1, <2>2, <2>3, <2>5, <2>6 DEF Store!Ask, applied
  <2> QED
    BY <2>4, <2>7 DEF StoreStep, Store!Next
<1>14. ASSUME ~(wpc[w] \in {"rename", "stored"}), NEW to \in WPcs,
              ~(to \in {"rename", "stored"}), wpc' = [wpc EXCEPT ![w] = to]
       PROVE  applied' = applied
  <2>1. applied' = [applied EXCEPT ![w] = FALSE]
    BY <1>6, <1>14
  <2>2. applied = [v \in Writers |-> FALSE]
    <3>1. \A v \in Writers : (wpc[v] \in {"rename", "stored"}) = FALSE
      BY <1>3, <1>14
    <3> QED
      BY <3>1, Zenon DEF applied
  <2>3. [applied EXCEPT ![w] = FALSE] = applied
    BY <1>3, <2>2
  <2> QED
    BY <2>1, <2>3
<1>15. ASSUME NEW to \in WPcs \ {"rename", "stored", "remove"},
              wpc' = [wpc EXCEPT ![w] = to], ~(wpc[w] \in {"rename", "stored"}),
              dir' = dir, data' = data, wreq' = wreq
       PROVE  Contents' /\ StoreStep
  <2>1. applied' = applied /\ wpc'[w] = to
    BY <1>6, <1>15, <1>14
  <2>2. /\ config' = config /\ temp' = temp /\ Current' = Current
        /\ config' # NoFile => Sound(data[config])'
        /\ temp' # NoFile => Sound(data[temp])'
    BY <1>12, <1>15
  <2>3. Contents'
    BY <1>9, <1>15, <2>1, <2>2
  <2>4. Orphan' = Orphan
    BY <1>7, <1>8, <1>15, <2>1, <2>2
  <2> QED
    BY <1>10, <1>15, <2>1, <2>2, <2>3, <2>4
<1>16. CASE POpen(w)
  BY <1>15, <1>16 DEF POpen, WMove, files, WPcs
<1>17. CASE PReopen(w)
  BY <1>15, <1>17 DEF PReopen, WMove, files, WPcs
<1>18. CASE PFails(w)
  BY <1>15, <1>18 DEF PFails, files, WPcs
<1>19. CASE PReturn(w)
  <2>1. /\ wpc[w] \in {"stored", "refused"} /\ wpc' = [wpc EXCEPT ![w] = "idle"]
        /\ wreq' = [wreq EXCEPT ![w] = <<>>] /\ dir' = dir /\ data' = data
    BY <1>19 DEF PReturn, files
  <2>2. applied' = [applied EXCEPT ![w] = FALSE] /\ wpc'[w] = "idle"
    BY <1>6, <2>1
  <2>3. /\ config' = config /\ temp' = temp /\ Current' = Current
        /\ config' # NoFile => Sound(data[config])'
        /\ temp' # NoFile => Sound(data[temp])'
    BY <1>12, <2>1
  <2>4. Contents'
    BY <1>9, <2>2, <2>3
  <2>5. Orphan' = Orphan
    BY <1>7, <1>8, <2>1, <2>2, <2>3
  <2>6. wreq[w] # <<>>
    BY <1>4, <2>1
  <2>7. Store!Answer(w)
    BY <2>1, <2>2, <2>3, <2>5, <2>6 DEF Store!Answer, applied
  <2> QED
    BY <2>4, <2>7 DEF StoreStep, Store!Next
<1>20. CASE PCreate(w)
  <2>1. PICK f \in Files : /\ dir["config"] = NoFile => f \notin InUse
                           /\ wfp' = [wfp EXCEPT ![w] = f]
                           /\ dir' = [dir EXCEPT !["config"] = f]
                           /\ data' = [data EXCEPT ![f] = <<>>]
    BY <1>20, OpenedEmpty DEF PCreate, Names
  <2>2. /\ wpc[w] = "create" /\ wpc' = [wpc EXCEPT ![w] = "fill"]
        /\ wreq' = wreq
    BY <1>20 DEF PCreate, WMove
  <2>3. f \notin InUse /\ f # NoFile /\ config = NoFile
    BY <1>2, <2>1, <2>2 DEF Place, config
  <2>4. config' = f /\ temp' = temp /\ data'[f] = <<>>
    BY <1>1, <2>1 DEF config, temp, Names
  <2>5. temp # f
    BY <2>3 DEF InUse, Written, temp, Names
  <2>6. temp # NoFile => data'[temp] = data[temp]
    BY <1>1, <1>2, <2>1, <2>5
  <2>7. wpc'[w] = "fill" /\ applied' = applied
    BY <1>6, <1>14, <2>2 DEF WPcs
  <2>8. Contents'
    BY <1>5, <1>9, <2>3, <2>4, <2>6, <2>7, EmptyIsSound
  <2>9. Current' = [k \in Keys |-> Absent]
    <3>1. \A k \in Keys : Lookup(data[config], k)' = Absent
      BY <2>4, NothingLookup
    <3> QED
      BY <2>3, <2>4, <3>1 DEF Current, config
  <2>10. ~Orphan'
    BY <1>7, <2>3, <2>4
  <2>11. CASE temp = NoFile
    <3>1. Current = [k \in Keys |-> Absent] /\ ~Orphan
      BY <1>7, <2>3, <2>11, CurrentIs
    <3> QED
      BY <1>8, <1>10, <2>2, <2>7, <2>8, <2>9, <2>10, <3>1
  <2>12. CASE temp # NoFile
    <3>1. Orphan
      BY <1>7, <2>2, <2>3, <2>12
    <3>2. Store!Lose
      BY <1>8, <2>2, <2>7, <2>9, <2>10, <3>1 DEF Store!Lose, applied
    <3> QED
      BY <2>8, <3>2 DEF StoreStep, Store!Next
  <2> QED
    BY <2>11, <2>12
\* A file that has become what was asked for.
<1>21. ASSUME wpc[w] # "idle", ~(wpc[w] \in {"rename", "stored"}),
              config # NoFile, config' = config, temp' = temp,
              wpc' = [wpc EXCEPT ![w] = "stored"], wreq' = wreq,
              temp # NoFile => data'[temp] = data[temp],
              Stored(data[config], data'[config], Key(w), Val(w))
       PROVE  Contents' /\ StoreStep
  <2>1. applied' = [applied EXCEPT ![w] = TRUE] /\ wpc'[w] = "stored"
    BY <1>6, <1>21
  <2>2. Contents'
    BY <1>5, <1>9, <1>21, <2>1 DEF Stored
  <2>3. Orphan' = Orphan
    BY <1>7, <1>8, <1>21
  <2>4. Current' = [Current EXCEPT ![Key(w)] = Val(w)]
    <3>1. Current' = [k \in Keys |-> Lookup(data'[config], k)]
      BY <1>21 DEF Current, config
    <3>2. Current = [k \in Keys |-> Lookup(data[config], k)]
      BY <1>21, CurrentIs
    <3>3. \A k \in Keys : Lookup(data'[config], k)
            = IF k = Key(w) THEN Val(w) ELSE Lookup(data[config], k)
      BY <1>21 DEF Stored
    <3> QED
      BY <3>1, <3>2, <3>3
  <2> QED
    BY <1>11, <1>21, <2>1, <2>2, <2>3, <2>4
<1>22. CASE PFill(w)
  <2> DEFINE h == LineOf(Key(w), Val(w))
  <2>1. /\ wpc[w] = "fill" /\ wpc' = [wpc EXCEPT ![w] = "stored"]
        /\ data' = [data EXCEPT ![wfp[w]] = Overwrite(@, 1, h)]
        /\ dir' = dir /\ wreq' = wreq
    BY <1>22 DEF PFill, WMove
  <2>2. config # NoFile /\ wfp[w] = config /\ data[config] = <<>>
    BY <1>2, <2>1 DEF Place
  <2>3. config' = config /\ temp' = temp
    BY <2>1 DEF config, temp
  <2>4. Key(w) \in Keys /\ Val(w) \in Values
    BY <1>4, <2>1
  <2>5. h \in Seq(Cells) /\ Len(h) > 0 /\ Stored(<<>>, h, Key(w), Val(w))
    BY <2>4, LineIsSeq, LineIsStored
  <2> HIDE DEF h
  <2>6. data'[config] = h
    BY <1>1, <1>2, <2>1, <2>2, <2>5, OverwriteEmpty
  <2>7. temp # NoFile => data'[temp] = data[temp]
    BY <1>1, <1>2, <2>1, <2>2 DEF Private
  <2> QED
    BY <1>21, <2>1, <2>2, <2>3, <2>5, <2>6, <2>7
<1>23. CASE PPatch(w)
  <2> DEFINE f == data[config]
             h == LineOf(Key(w), Val(w))
  <2>1. /\ wpc[w] = "patch" /\ wpc' = [wpc EXCEPT ![w] = "stored"]
        /\ data' = [data EXCEPT ![wfp[w]] =
                       Overwrite(@, First(snap[w], Key(w)), h)]
        /\ dir' = dir /\ wreq' = wreq
    BY <1>23 DEF PPatch, WMove
  <2>2. /\ config # NoFile /\ wfp[w] = config /\ snap[w] = f
        /\ Width[Lookup(f, Key(w))] = Width[Val(w)] /\ Found(f, Key(w))
    BY <1>2, <2>1 DEF Place, Stage
  <2>3. config' = config /\ temp' = temp
    BY <2>1 DEF config, temp
  <2>4. Key(w) \in Keys /\ Val(w) \in Values
    BY <1>4, <2>1
  <2>5. f \in Seq(Cells) /\ Sound(f)
    BY <1>5, <2>2
  <2>6. data'[config] = Overwrite(f, First(f, Key(w)), h)
    BY <1>1, <1>2, <2>1, <2>2
  <2>7. temp # NoFile => data'[temp] = data[temp]
    BY <1>1, <1>2, <2>1, <2>2 DEF Private
  <2>8. Stored(f, data'[config], Key(w), Val(w))
    BY <2>2, <2>4, <2>5, <2>6, PatchIsStored
  <2> QED
    BY <1>21, <2>1, <2>2, <2>3, <2>7, <2>8
<1>24. CASE PRead(w)
  <2> DEFINE f   == data[config]
             old == Lookup(f, Key(w))
  <2>1. wpc[w] = "read"
    BY <1>24 DEF PRead, WMove
  <2>2. config # NoFile /\ rfp[w] = config
    BY <1>2, <2>1 DEF Place
  <2>3. /\ wpc' = [wpc EXCEPT ![w] =
             IF old = Val(w) THEN "stored"
             ELSE IF old # Absent /\ Width[old] = Width[Val(w)] THEN "reopen"
             ELSE "temp"]
        /\ dir' = dir /\ data' = data /\ wreq' = wreq
    BY <1>24, <2>2 DEF PRead, WMove, files
  <2>4. CASE old = Val(w)
    <3>1. config' = config /\ temp' = temp /\ data'[config] = f
      BY <2>3 DEF config, temp
    <3>2. Stored(f, f, Key(w), Val(w))
      BY <1>5, <2>2, <2>4 DEF Stored
    <3> QED
      BY <1>21, <2>1, <2>2, <2>3, <2>4, <3>1, <3>2
  <2>5. CASE old # Val(w)
    <3>1. PICK to \in {"reopen", "temp"} : wpc' = [wpc EXCEPT ![w] = to]
      BY <2>3, <2>5
    <3>2. to \in WPcs \ {"rename", "stored", "remove"}
      BY DEF WPcs
    <3> QED
      BY <1>15, <2>1, <2>3, <3>1, <3>2
  <2> QED
    BY <2>4, <2>5
<1>25. CASE PTemp(w)
  <2>1. PICK f \in Files : /\ temp # NoFile => f = temp
                           /\ temp = NoFile => f \notin InUse
                           /\ wfp' = [wfp EXCEPT ![w] = f]
                           /\ dir' = [dir EXCEPT !["temp"] = f]
                           /\ data' = [data EXCEPT ![f] = <<>>]
    BY <1>25, OpenedEmpty DEF PTemp, Names, temp
  <2>2. /\ wpc[w] = "temp" /\ wpc' = [wpc EXCEPT ![w] = "copy"]
        /\ wreq' = wreq
    BY <1>25 DEF PTemp, WMove
  <2>3. config # NoFile
    BY <1>2, <2>2 DEF Place
  <2>4. f # NoFile /\ f # config
    <3>1. CASE temp = NoFile
      BY <1>2, <2>1, <3>1 DEF InUse, Written, config, Names
    <3>2. CASE temp # NoFile
      BY <1>2, <2>1, <2>3, <3>2 DEF Private
    <3> QED
      BY <3>1, <3>2
  <2>5. config' = config /\ temp' = f /\ data'[f] = <<>>
    BY <1>1, <2>1 DEF config, temp, Names
  <2>6. data'[config] = data[config]
    BY <1>1, <1>2, <2>1, <2>3, <2>4
  <2>7. wpc'[w] = "copy" /\ applied' = applied
    BY <1>6, <1>14, <2>2 DEF WPcs
  <2>8. Contents'
    BY <1>5, <1>9, <2>3, <2>5, <2>6, <2>7, EmptyIsSound
  <2>9. Current' = Current
    BY <2>3, <2>5, <2>6 DEF Current, config
  <2>10. Orphan' = Orphan
    BY <1>7, <1>8, <2>3, <2>5
  <2> QED
    BY <1>10, <2>2, <2>7, <2>8, <2>9, <2>10
<1>26. CASE PCopy(w)
  <2> DEFINE f == data[config]
             h == Replace(snap[w], Key(w), Val(w))
  <2>1. /\ wpc[w] = "copy" /\ wpc' = [wpc EXCEPT ![w] = "remove"]
        /\ data' = [data EXCEPT ![wfp[w]] = Overwrite(@, 1, h)]
        /\ dir' = dir /\ wreq' = wreq
    BY <1>26 DEF PCopy, WMove
  <2>2. /\ config # NoFile /\ snap[w] = f /\ temp # NoFile /\ wfp[w] = temp
        /\ data[temp] = <<>>
    BY <1>2, <2>1 DEF Place
  <2>3. config' = config /\ temp' = temp /\ Key(w)' = Key(w) /\ Val(w)' = Val(w)
    BY <2>1 DEF config, temp, Key, Val
  <2>4. Key(w) \in Keys /\ Val(w) \in Values /\ f \in Seq(Cells) /\ Sound(f)
    BY <1>4, <1>5, <2>1, <2>2
  <2>5. h \in Seq(Cells) /\ Stored(f, h, Key(w), Val(w))
    BY <2>2, <2>4, Replaced, ReplaceIsStored
  <2>6. Len(h) > 0
    <3>1. Lookup(h, Key(w)) = Val(w)
      BY <2>4, <2>5 DEF Stored
    <3>2. Found(h, Key(w))
      BY <2>4, <2>5, <3>1, LookupType, AbsentAssumption
    <3>3. First(h, Key(w)) \in 1 .. Len(h)
      BY <2>4, <2>5, <3>2, FirstIsLine
    <3>4. Len(h) \in Nat
      BY <2>5, LenProperties
    <3> QED
      BY <3>3, <3>4
  <2> HIDE DEF h
  <2>7. data'[temp] = h
    BY <1>1, <1>2, <2>1, <2>2, <2>5, <2>6, OverwriteEmpty
  <2>8. data'[config] = f
    BY <1>1, <1>2, <2>1, <2>2 DEF Private
  <2>9. wpc'[w] = "remove" /\ applied' = applied
    BY <1>6, <1>14, <2>1 DEF WPcs
  <2>10. Copied(w)'
    BY <2>3, <2>5, <2>7, <2>8 DEF Copied
  <2>11. Contents'
    <3>1. Sound(data[config])' /\ Sound(data[temp])'
      BY <2>3, <2>4, <2>5, <2>7, <2>8 DEF Stored
    <3> QED
      BY <1>9, <2>10, <3>1
  <2>12. Current' = Current
    BY <2>2, <2>3, <2>8 DEF Current, config
  <2>13. Orphan' = Orphan
    BY <1>7, <1>8, <2>2, <2>3
  <2> QED
    BY <1>10, <2>1, <2>9, <2>11, <2>12, <2>13
<1>27. CASE PRemove(w)
  <2>1. /\ wpc[w] = "remove" /\ wpc' = [wpc EXCEPT ![w] = "rename"]
        /\ dir' = [dir EXCEPT !["config"] = NoFile] /\ data' = Kept(data)
        /\ wreq' = wreq
    BY <1>27 DEF PRemove, WMove
  <2>2. config # NoFile /\ temp # NoFile /\ Copied(w)
    BY <1>2, <2>1 DEF Place, Contents
  <2>3. config' = NoFile /\ temp' = temp
    BY <1>1, <2>1 DEF config, temp, Names
  <2>4. data'[temp] = data[temp]
    BY <1>2, <2>1, <2>2, <2>3, KeptNamed DEF temp, Names
  <2>5. applied' = [applied EXCEPT ![w] = TRUE] /\ wpc'[w] = "rename"
    BY <1>6, <2>1
  <2>6. Contents'
    BY <1>5, <1>9, <2>2, <2>3, <2>4, <2>5
  <2>7. Current' = [Current EXCEPT ![Key(w)] = Val(w)]
    <3>1. Current' = [k \in Keys |-> Lookup(data[temp], k)]
      BY <2>2, <2>3, <2>4 DEF Current, config, temp
    <3>2. Current = [k \in Keys |-> Lookup(data[config], k)]
      BY <2>2, CurrentIs
    <3>3. \A k \in Keys : Lookup(data[temp], k)
            = IF k = Key(w) THEN Val(w) ELSE Lookup(data[config], k)
      BY <2>2 DEF Copied, Stored
    <3> QED
      BY <3>1, <3>2, <3>3
  <2>8. Orphan' = Orphan
    BY <1>7, <1>8, <2>2, <2>5
  <2> QED
    BY <1>11, <2>1, <2>5, <2>6, <2>7, <2>8
<1>28. CASE PRename(w)
  <2>1. /\ wpc[w] = "rename" /\ wpc' = [wpc EXCEPT ![w] = "stored"]
        /\ temp # NoFile =>
             dir' = [dir EXCEPT !["config"] = temp, !["temp"] = NoFile]
        /\ data' = Kept(data) /\ wreq' = wreq
    BY <1>28 DEF PRename, WMove, temp
  <2>2. config = NoFile /\ temp # NoFile
    BY <1>2, <2>1 DEF Place
  <2>3. config' = temp /\ temp' = NoFile
    BY <1>1, <2>1, <2>2 DEF config, temp, Names
  <2>4. data'[temp] = data[temp]
    <3>1. dir'["config"] \in Files /\ dir'["config"] = temp
      BY <1>2, <2>2, <2>3 DEF config
    <3>2. data'[dir'["config"]] = data[dir'["config"]]
      BY <2>1, <3>1, KeptNamed DEF Names
    <3> QED
      BY <3>1, <3>2
  <2>5. applied' = applied /\ wpc'[w] = "stored"
    <3>1. applied' = [applied EXCEPT ![w] = TRUE] /\ wpc'[w] = "stored"
      BY <1>6, <2>1
    <3>2. applied = [v \in Writers |-> TRUE]
      BY <1>3, <2>1 DEF applied
    <3>3. [applied EXCEPT ![w] = TRUE] = applied
      BY <1>3, <3>2
    <3> QED
      BY <3>1, <3>3
  <2>6. Contents'
    BY <1>5, <1>9, <2>2, <2>3, <2>4, <2>5
  <2>7. Current' = Current
    BY <2>2, <2>3, <2>4 DEF Current, config, temp
  <2>8. Orphan' = Orphan
    BY <1>7, <1>8, <2>1, <2>2, <2>3
  <2> QED
    BY <1>10, <2>1, <2>5, <2>6, <2>7, <2>8
<1> QED
  BY <1>13, <1>16, <1>17, <1>18, <1>19, <1>20, <1>22, <1>23, <1>24, <1>25,
     <1>26, <1>27, <1>28 DEF Put

LEMMA ContentsInit == Init => Contents /\ Store!Init
<1> SUFFICES ASSUME Init PROVE Contents /\ Store!Init
  OBVIOUS
<1>1. Types
  BY TypesInit
<1>2. PICK contents \in InitialContents :
        data = [f \in Files |-> IF f = dir["config"] THEN contents ELSE <<>>]
  BY DEF Init
<1>3. /\ config \in {NoFile, 1} /\ temp = NoFile /\ 1 \in Files
      /\ wpc = [w \in Writers |-> "idle"] /\ wreq = [w \in Writers |-> <<>>]
  BY FilesAre DEF Init, config, temp, Names
<1>4. Contents
  <2>1. ASSUME config # NoFile PROVE Sound(data[config])
    <3>1. data[config] = contents
      BY <1>2, <1>3, <2>1 DEF config
    <3> QED
      BY <3>1, BeginsSound
  <2> QED
    BY <1>3, <2>1 DEF Contents
<1>5. Current \in [Keys -> Values \union {Absent}]
  <2>1. CASE config = NoFile
    <3>1. Current = [k \in Keys |-> Absent]
      BY <1>3, <2>1, CurrentIs
    <3> QED
      BY <3>1
  <2>2. CASE config # NoFile
    <3>1. Current = [k \in Keys |-> Lookup(data[config], k)]
      BY <2>2, CurrentIs
    <3>2. data[config] \in Seq(Cells)
      BY <1>1, <1>3, <2>2 DEF Types, DataOK
    <3>3. \A k \in Keys : Lookup(data[config], k) \in Values \union {Absent}
      BY <3>2, LookupType
    <3> QED
      BY <3>1, <3>3
  <2> QED
    BY <2>1, <2>2
<1>6. applied = [w \in Writers |-> FALSE]
  <2>1. \A w \in Writers : (wpc[w] \in {"rename", "stored"}) = FALSE
    BY <1>3
  <2> QED
    BY <2>1, Zenon DEF applied
<1>7. Orphan = FALSE
  BY <1>3 DEF Orphan, temp
<1> QED
  BY <1>3, <1>4, <1>5, <1>6, <1>7 DEF Store!Init, applied

LEMMA ContentsNext ==
  SingleWriter /\ Types /\ Placed /\ Contents /\ [Next]_vars
    => Contents' /\ StoreStep
<1> SUFFICES ASSUME SingleWriter, Types, Placed, Contents, [Next]_vars
             PROVE  Contents' /\ StoreStep
  OBVIOUS
<1>1. /\ dir \in [Names -> Files \union {NoFile}]
      /\ config \in Files \union {NoFile} /\ temp \in Files \union {NoFile}
  BY DEF Types, Streams, config, temp, Names
\* Steps that leave the names and what a writer may still write.
<1>2. ASSUME dir' = dir, data' = data \/ data' = Kept(data)
      PROVE  /\ config' = config /\ temp' = temp /\ Current' = Current
             /\ config # NoFile => data'[config] = data[config]
             /\ temp # NoFile => data'[temp] = data[temp]
             /\ config' # NoFile => Sound(data[config])'
             /\ temp' # NoFile => Sound(data[temp])'
  <2>1. config' = config /\ temp' = temp
    BY <1>2 DEF config, temp
  <2>2. /\ config # NoFile => data'[config] = data[config]
        /\ temp # NoFile => data'[temp] = data[temp]
    BY <1>1, <1>2, KeptNamed DEF config, temp, Names
  <2>3. /\ config # NoFile => Sound(data[config])
        /\ temp # NoFile => Sound(data[temp])
    BY DEF Contents
  <2> QED
    BY <2>1, <2>2, <2>3, CurrentSame
<1>3. ASSUME dir' = dir, data' = data \/ data' = Kept(data), wpc' = wpc,
             wreq' = wreq
      PROVE  Contents' /\ StoreStep
  <2>1. /\ config' = config /\ temp' = temp /\ Current' = Current
        /\ config # NoFile => data'[config] = data[config]
        /\ temp # NoFile => data'[temp] = data[temp]
        /\ config' # NoFile => Sound(data[config])'
        /\ temp' # NoFile => Sound(data[temp])'
    BY <1>2, <1>3
  <2>2. ASSUME NEW w \in Writers, wpc'[w] = "remove" PROVE Copied(w)'
    <3>1. Copied(w) /\ config # NoFile /\ temp # NoFile
      BY <1>3, <2>2 DEF Contents, Placed, Place
    <3>2. Key(w)' = Key(w) /\ Val(w)' = Val(w)
      BY <1>3 DEF Key, Val
    <3> QED
      BY <2>1, <3>1, <3>2 DEF Copied
  <2>3. Contents'
    BY <2>1, <2>2 DEF Contents
  <2>4. Orphan' = Orphan
    BY <1>3 DEF Orphan
  <2>5. applied' = applied
    BY <1>3 DEF applied
  <2> QED
    BY <1>3, <2>1, <2>3, <2>4, <2>5 DEF StoreStep, Store!vars, applied
<1>4. CASE UNCHANGED vars
  BY <1>3, <1>4 DEF vars, files, writers
<1>5. CASE Serves
  <2>1. dir' = dir /\ wpc' = wpc /\ wreq' = wreq
    BY <1>5 DEF Serves, writers
  <2>2. data' = data \/ data' = Kept(data)
    BY <1>5 DEF Serves, SOpen, SRead, SStop
  <2> QED
    BY <1>3, <2>1, <2>2
<1>6. CASE Stores
  <2>1. ASSUME NEW w \in Writers, Put(w) PROVE Contents' /\ StoreStep
    BY <1>6, <2>1, PutStores DEF Stores
  <2>2. CASE Crash
    <3>1. /\ dir' = dir /\ data' = Kept(data)
          /\ wpc' = [w \in Writers |-> "idle"]
          /\ wreq' = [w \in Writers |-> <<>>]
      BY <2>2 DEF Crash
    <3>2. /\ config' = config /\ temp' = temp /\ Current' = Current
          /\ config' # NoFile => Sound(data[config])'
          /\ temp' # NoFile => Sound(data[temp])'
      BY <1>2, <3>1
    <3>3. \A w \in Writers : wpc'[w] = "idle"
      BY <3>1
    <3>4. Contents'
      BY <3>2, <3>3 DEF Contents
    <3>5. applied' = [w \in Writers |-> FALSE]
      <4>1. \A w \in Writers : (wpc'[w] \in {"rename", "stored"}) = FALSE
        BY <3>3
      <4>2. applied' = [w \in Writers |-> wpc'[w] \in {"rename", "stored"}]
        BY DEF applied
      <4> QED
        BY <4>1, <4>2, Zenon
    <3>6. Orphan' \in {Orphan, TRUE}
      <4>1. Orphan' \in BOOLEAN /\ Orphan \in BOOLEAN
        BY DEF Orphan
      <4>2. Orphan => Orphan'
        BY <3>1, <3>3 DEF Orphan
      <4> QED
        BY <4>1, <4>2
    <3>7. Store!Crash
      BY <3>1, <3>2, <3>5, <3>6 DEF Store!Crash, applied
    <3> QED
      BY <3>4, <3>7 DEF StoreStep, Store!Next
  <2> QED
    BY <1>6, <2>1, <2>2 DEF Stores
<1> QED
  BY <1>4, <1>5, <1>6 DEF Next

\* While one thread stores ports and may die at any step, the file and its
\* copy together always say of every key what was last stored for it: each
\* request takes effect at once, between the call of ini_puts and its answer,
\* and changes nothing else. Settings are lost only if the process died
\* between the removal and the renaming.
THEOREM SettingsKept == SingleWriter => (Spec => SettingsAreKept)
<1> SUFFICES ASSUME SingleWriter PROVE Spec => SettingsAreKept
  OBVIOUS
<1> DEFINE I == Types /\ Placed /\ Contents
<1>1. Init => I /\ Store!Init
  BY TypesInit, PlacedInit, ContentsInit
<1>2. I /\ [Next]_vars => I' /\ StoreStep
  BY TypesNext, PlacedNext, ContentsNext
<1> HIDE DEF I
<1>3. Spec => Store!Init /\ [][Store!Next]_(Store!vars)
  BY <1>1, <1>2, PTL DEF Spec, StoreStep
<1> QED
  BY <1>3, PTL DEF SettingsAreKept, Store!Spec

\* With one writer ini_puts keeps its word as well: when it reports success,
\* there is a file. It takes a second writer to break it.
THEOREM AloneSuccessLeavesAFile ==
  SingleWriter => (Spec => []SuccessLeavesAFile)
<1> SUFFICES ASSUME SingleWriter PROVE Spec => []SuccessLeavesAFile
  OBVIOUS
<1> DEFINE I == Types /\ Placed
<1>1. Init => I
  BY TypesInit, PlacedInit
<1>2. I /\ [Next]_vars => I'
  BY TypesNext, PlacedNext
<1>3. I => SuccessLeavesAFile
  BY DEF Placed, Place, SuccessLeavesAFile, config
<1> HIDE DEF I
<1> QED
  BY <1>1, <1>2, <1>3, PTL DEF Spec
=============================================================================
