---------------------------- MODULE TokensProofs ----------------------------
(***************************************************************************)
(* Proofs about Tokens: whatever is renamed, split into tokens, stopped    *)
(* and run again, the names of a file stay apart, a second renaming        *)
(* changes nothing, and the embeddings are those of the present files.     *)
(***************************************************************************)
EXTENDS Tokens, FiniteSetTheorems, WellFoundedInduction, TLAPS


Tags    == {"id", "hex", "HEX", "main", "argc", "keyword", "FUN", "VAR"}
WordSet == [name : Tags \X Nat, ctx : Contexts]
Lines   == Seq(Seq(WordSet))

(* The words are where they were at the beginning.                           *)
SameShape(a, b) == /\ DOMAIN a = DOMAIN b
                   /\ \A i \in DOMAIN a : DOMAIN a[i] = DOMAIN b[i]

Types == /\ text \in [Files -> Lines] /\ origin \in [Files -> Lines]
         /\ \A f \in Files : SameShape(text[f], origin[f])
         /\ renamed \in [Files -> SUBSET Renamers]
         /\ op = [kind |-> op.kind, of |-> op.of, todo |-> op.todo, batch |-> op.batch]
         /\ op.kind \in Renamers \union {"tokenize"} => op.todo \subseteq Files
         /\ DOMAIN csv = Paths
         /\ op.kind # "none" => last.kind = "none"

(* A source has no names that look renamed where it is still to be renamed.  *)
Code(now, before, done) ==
  /\ \A p \in Places(now) : At(now, p).ctx = At(before, p).ctx
  /\ \A kind \in Renamers \ done : \A p \in Places(now) :
       At(now, p).ctx \in FoundIn(kind) => At(now, p).name[1] # Prefix(kind)

(* A file of tokens has one in each line, with nothing behind it.            *)
TokenFile(now) == \A i \in DOMAIN now : Len(now[i]) = 1 /\ now[i][1].ctx = "end"

Apart(now, before) ==
  \A p, q \in Places(now) :
    At(before, p).ctx = At(before, q).ctx /\ At(before, p).ctx \in {"call", "end"} =>
      (At(Cleaned(now), p).name = At(Cleaned(now), q).name
         <=> At(Cleaned(before), p).name = At(Cleaned(before), q).name)

(* The names that are found have the numbers that they would be given.       *)
Settled(kind, now) ==
  /\ Cleaned(now) = now
  /\ \A p \in Found(kind, now) :
       At(now, p).name = <<Prefix(kind), Number(now, Found(kind, now), p)>>

Fits(now, before, done) ==
  /\ Code(now, before, done) \/ TokenFile(now)
  /\ Apart(now, before)
  /\ \A kind \in done : Settled(kind, now)

NamesInv == \A f \in Files \ cut : Fits(text[f], origin[f], renamed[f])

(* The documents that the model knows are to be saved, or have been.         *)
Known(d) == ToSet(d.tokens) \subseteq model.vocabulary
Given(d, length) == \E e \in WordDocs : e.path = d.path /\ csv[d.path] = Vectorize(e, length)

VectorInv ==
  /\ op.kind = "embed" /\ op.of = "word2vec" =>
       \E length \in Lengths :
         /\ op.todo \subseteq {Vectorize(d, length) : d \in WordDocs}
         /\ \A d \in WordDocs : Known(d) => Vectorize(d, length) \in op.todo \/ Given(d, length)
  /\ last.kind = "embed" /\ last.of = "word2vec" =>
       \E length \in Lengths : \A d \in WordDocs : Known(d) => Given(d, length)

IInv == Types /\ NamesInv /\ VectorInv
-------------------------------------------------------------------------------
(* Induction over sets of numbers: the library's induction theorems take an  *)
(* operator; that every set of numbers has a least element does not.         *)
LEMMA NatLeast ==
  ASSUME NEW T \in SUBSET Nat, T # {}
  PROVE  \E n \in T : \A m \in T : n <= m
<1> DEFINE R == {p \in Nat \X Nat : p[1] < p[2]}
<1>1. IsWellFoundedOn(R, Nat)
  BY NatLessThanWellFounded DEF OpToRel
<1> HIDE DEF R
<1>2. PICK x \in T : \A y \in T : <<y, x>> \notin R
  BY <1>1, WFMin
<1>3. ASSUME NEW m \in T PROVE x <= m
  <2>1. m \in Nat /\ x \in Nat /\ <<m, x>> \notin R
    BY <1>2
  <2> QED
    BY <2>1 DEF R
<1> QED
  BY <1>3

LEMMA NatSetInduction ==
  ASSUME NEW T, 0 \in T, \A n \in Nat : n \in T => n + 1 \in T
  PROVE  Nat \subseteq T
<1> SUFFICES ASSUME Nat \ T # {} PROVE FALSE
  OBVIOUS
<1>1. PICK n \in Nat \ T : \A m \in Nat \ T : n <= m
  BY NatLeast
<1>2. n # 0 /\ n - 1 \in Nat
  OBVIOUS
<1>3. n - 1 \in T
  BY <1>1, <1>2
<1> QED
  BY <1>2, <1>3

-------------------------------------------------------------------------------
(* Places are ordered, line by line.                                         *)
LEMMA Least ==
  ASSUME NEW S \in SUBSET (Nat \X Nat), S # {}
  PROVE  \E p \in S : \A q \in S : Upto(p, q)
<1> DEFINE A == {x \in Nat : \E y \in Nat : <<x, y>> \in S}
<1>1. A \in SUBSET Nat /\ A # {}
  OBVIOUS
<1>2. PICK x \in A : \A z \in A : x <= z
  BY <1>1, NatLeast
<1> DEFINE B == {y \in Nat : <<x, y>> \in S}
<1>3. B \in SUBSET Nat /\ B # {}
  BY <1>2
<1>4. PICK y \in B : \A z \in B : y <= z
  BY <1>3, NatLeast
<1>5. ASSUME NEW q \in S PROVE Upto(<<x, y>>, q)
  <2>1. q[1] \in Nat /\ q[2] \in Nat /\ q = <<q[1], q[2]>> /\ x \in Nat
    BY <1>2
  <2>2. x <= q[1]
    BY <1>2, <2>1
  <2>3. CASE q[1] = x
    <3>1. q[2] \in B
      BY <2>1, <2>3
    <3>2. y <= q[2]
      BY <1>4, <3>1
    <3> QED
      BY <2>3, <3>2 DEF Upto
  <2>4. CASE q[1] # x
    BY <2>1, <2>2, <2>4 DEF Upto
  <2> QED
    BY <2>3, <2>4
<1>6. <<x, y>> \in S
  BY <1>4
<1> QED
  BY <1>5, <1>6

LEMMA UptoFacts ==
  ASSUME NEW p \in Nat \X Nat, NEW q \in Nat \X Nat
  PROVE  /\ Upto(p, q) \/ Upto(q, p)
         /\ Upto(p, q) /\ Upto(q, p) => p = q
         /\ \A r \in Nat \X Nat : Upto(p, q) /\ Upto(q, r) => Upto(p, r)
BY DEF Upto

(* Each name has a first place.                                              *)
LEMMA FirstFacts ==
  ASSUME NEW lines, NEW S \in SUBSET (Nat \X Nat), NEW p \in S
  PROVE  \E a \in Firsts(lines, S) :
           /\ At(lines, a).name = At(lines, p).name
           /\ \A r \in Alike(lines, S, p) : Upto(a, r)
<1>1. Alike(lines, S, p) \in SUBSET (Nat \X Nat) /\ p \in Alike(lines, S, p)
  BY DEF Alike
<1>2. PICK a \in Alike(lines, S, p) : \A r \in Alike(lines, S, p) : Upto(a, r)
  BY <1>1, Least
<1>3. a \in S /\ At(lines, a).name = At(lines, p).name
  BY <1>2 DEF Alike
<1>4. Alike(lines, S, a) = Alike(lines, S, p)
  BY <1>3 DEF Alike
<1> QED
  BY <1>2, <1>3, <1>4 DEF Firsts
-------------------------------------------------------------------------------
(* The numbers of the symbol table: one for each name.                       *)
LEMMA NumberType ==
  ASSUME NEW lines, NEW S, IsFiniteSet(S), NEW p
  PROVE  Number(lines, S, p) \in Nat
<1> DEFINE N == {q \in Firsts(lines, S) : \A r \in Alike(lines, S, p) : Upto(q, r)}
<1>1. N \in SUBSET S
  BY DEF Firsts
<1>2. Cardinality(N) \in Nat
  BY <1>1, FS_Subset, FS_CardinalityType
<1> QED
  BY <1>2 DEF Number

LEMMA NumberAlike ==
  ASSUME NEW lines, NEW S, NEW p, NEW q, At(lines, p).name = At(lines, q).name
  PROVE  Number(lines, S, p) = Number(lines, S, q)
<1>1. Alike(lines, S, p) = Alike(lines, S, q)
  BY DEF Alike
<1> QED
  BY <1>1 DEF Number

LEMMA NumberOrder ==
  ASSUME NEW lines, NEW S \in SUBSET (Nat \X Nat), IsFiniteSet(S), NEW p \in S, NEW q \in S,
         NEW a \in Firsts(lines, S), NEW b \in Firsts(lines, S),
         At(lines, a).name = At(lines, p).name, At(lines, b).name = At(lines, q).name,
         \A r \in Alike(lines, S, p) : Upto(a, r), \A r \in Alike(lines, S, q) : Upto(b, r),
         Upto(a, b), a # b
  PROVE  Number(lines, S, p) # Number(lines, S, q)
<1> DEFINE N(x) == {y \in Firsts(lines, S) : \A r \in Alike(lines, S, x) : Upto(y, r)}
<1>0. Firsts(lines, S) \subseteq S /\ a \in S /\ b \in S
  BY DEF Firsts
<1>1. N(p) \subseteq N(q)
  <2> SUFFICES ASSUME NEW y \in N(p), NEW r \in Alike(lines, S, q) PROVE Upto(y, r)
    OBVIOUS
  <2>1. a \in Alike(lines, S, p)
    BY <1>0 DEF Alike
  <2>2. Upto(y, a) /\ Upto(b, r)
    BY <2>1
  <2>3. y \in Nat \X Nat /\ a \in Nat \X Nat /\ b \in Nat \X Nat /\ r \in Nat \X Nat
    BY <1>0 DEF Alike
  <2> QED
    BY <2>2, <2>3, UptoFacts
<1>2. b \in N(q)
  OBVIOUS
<1>3. b \notin N(p)
  <2> SUFFICES ASSUME b \in N(p) PROVE FALSE
    OBVIOUS
  <2>1. a \in Alike(lines, S, p)
    BY <1>0 DEF Alike
  <2>2. Upto(b, a)
    BY <2>1
  <2> QED
    BY <1>0, <2>2, UptoFacts
<1>4. IsFiniteSet(N(q))
  <2>1. N(q) \in SUBSET S
    BY <1>0
  <2> QED
    BY <2>1, FS_Subset
<1>5. Number(lines, S, p) = Cardinality(N(p)) /\ Number(lines, S, q) = Cardinality(N(q))
  BY DEF Number
<1> HIDE DEF N
<1>6. N(p) \in SUBSET N(q) /\ N(p) # N(q)
  BY <1>1, <1>2, <1>3
<1>7. Cardinality(N(q)) # Cardinality(N(p))
  BY <1>4, <1>6, FS_Subset
<1> QED
  BY <1>5, <1>7

LEMMA NumberApart ==
  ASSUME NEW lines, NEW S \in SUBSET (Nat \X Nat), IsFiniteSet(S), NEW p \in S, NEW q \in S
  PROVE  Number(lines, S, p) = Number(lines, S, q)
           <=> At(lines, p).name = At(lines, q).name
<1>1. ASSUME At(lines, p).name # At(lines, q).name
      PROVE  Number(lines, S, p) # Number(lines, S, q)
  <2>1. PICK a \in Firsts(lines, S) : /\ At(lines, a).name = At(lines, p).name
                                      /\ \A r \in Alike(lines, S, p) : Upto(a, r)
    BY FirstFacts
  <2>2. PICK b \in Firsts(lines, S) : /\ At(lines, b).name = At(lines, q).name
                                      /\ \A r \in Alike(lines, S, q) : Upto(b, r)
    BY FirstFacts
  <2>3. a # b /\ a \in S /\ b \in S
    BY <1>1, <2>1, <2>2 DEF Firsts
  <2>4. Upto(a, b) \/ Upto(b, a)
    BY <2>3, UptoFacts
  <2>5. CASE Upto(a, b)
    BY <2>1, <2>2, <2>3, <2>5, NumberOrder
  <2>6. CASE Upto(b, a)
    BY <2>1, <2>2, <2>3, <2>6, NumberOrder
  <2> QED
    BY <2>4, <2>5, <2>6
<1> QED
  BY <1>1, NumberAlike

(* They depend on nothing but which names are alike.                         *)
LEMMA NumberSame ==
  ASSUME NEW lines, NEW other, NEW S, NEW p \in S,
         \A q, r \in S : At(other, q).name = At(other, r).name
                           <=> At(lines, q).name = At(lines, r).name
  PROVE  Number(other, S, p) = Number(lines, S, p)
<1>1. \A q \in S : Alike(other, S, q) = Alike(lines, S, q)
  BY DEF Alike
<1>2. Firsts(other, S) = Firsts(lines, S)
  BY <1>1 DEF Firsts
<1> QED
  BY <1>1, <1>2 DEF Number
-------------------------------------------------------------------------------
(* What a line makes of a name, word by word.                                *)
NewName(kind, f, lines, found, p) ==
  <<Prefix(kind), FirstNumber(f) - 1 + Number(lines, found, p)>>

Chain(kind, f, lines, found, i, name, n, h) ==
  h = [k \in 0..n |->
         IF k = 0 THEN name
         ELSE IF <<i, k>> \in found /\ lines[i][k].name = h[k - 1]
              THEN <<Prefix(kind), FirstNumber(f) - 1 + Number(lines, found, <<i, k>>)>>
              ELSE h[k - 1]]

LEMMA ChainStep ==
  ASSUME NEW kind, NEW f, NEW lines, NEW found, NEW i, NEW name, NEW n \in Nat, NEW h,
         Chain(kind, f, lines, found, i, name, n, h)
  PROVE  \E g : Chain(kind, f, lines, found, i, name, n + 1, g)
<1> DEFINE Hit(k, x) == <<i, k>> \in found /\ lines[i][k].name = x
           To(k) == <<Prefix(kind), FirstNumber(f) - 1 + Number(lines, found, <<i, k>>)>>
           g == [k \in 0..n + 1 |-> IF k <= n THEN h[k]
                                    ELSE IF Hit(k, h[n]) THEN To(k) ELSE h[n]]
<1>1. h = [k \in 0..n |-> IF k = 0 THEN name ELSE IF Hit(k, h[k - 1]) THEN To(k) ELSE h[k - 1]]
  BY DEF Chain
<1> HIDE DEF Hit, To
<1>2. ASSUME NEW k \in 0..n + 1
      PROVE  g[k] = IF k = 0 THEN name ELSE IF Hit(k, g[k - 1]) THEN To(k) ELSE g[k - 1]
  <2>1. CASE k <= n
    <3>1. k \in 0..n /\ g[k] = h[k]
      BY <2>1
    <3>2. k # 0 => g[k - 1] = h[k - 1]
      BY <2>1
    <3> QED
      BY <1>1, <3>1, <3>2
  <2>2. CASE k = n + 1
    BY <2>2
  <2> QED
    BY <2>1, <2>2
<1>3. g = [k \in 0..n + 1 |-> g[k]]
  OBVIOUS
<1> HIDE DEF g
<1>4. g = [k \in 0..n + 1 |->
             IF k = 0 THEN name ELSE IF Hit(k, g[k - 1]) THEN To(k) ELSE g[k - 1]]
  BY <1>2, <1>3
<1> QED
  BY <1>4 DEF Chain, Hit, To

LEMMA ChainExists ==
  ASSUME NEW kind, NEW f, NEW lines, NEW found, NEW i, NEW name, NEW n \in Nat
  PROVE  \E h : Chain(kind, f, lines, found, i, name, n, h)
<1> DEFINE T == {m \in Nat : \E h : Chain(kind, f, lines, found, i, name, m, h)}
<1>1. 0 \in T
  <2>1. Chain(kind, f, lines, found, i, name, 0, [k \in 0..0 |-> name])
    BY DEF Chain
  <2> QED
    BY <2>1
<1>2. ASSUME NEW m \in Nat, m \in T PROVE m + 1 \in T
  BY <1>2, ChainStep
<1> HIDE DEF T
<1>3. Nat \subseteq T
  BY <1>1, <1>2, NatSetInduction
<1> QED
  BY <1>3 DEF T

(* No name that a line has found becomes another one of them.                *)
Calm(kind, f, lines, found) ==
  \A p, q \in found :
    p[1] = q[1] /\ NewName(kind, f, lines, found, p) = At(lines, q).name =>
      NewName(kind, f, lines, found, q) = NewName(kind, f, lines, found, p)

(* The line replaces the names that it has found, by their numbers.          *)
LEMMA ReplacingFacts ==
  ASSUME NEW kind, NEW f, NEW lines, NEW found, NEW i, NEW name, Len(lines[i]) \in Nat,
         Calm(kind, f, lines, found)
  PROVE  LET to == Replacing(kind, f, lines, found, i, name)
             K  == {k \in 1..Len(lines[i]) : <<i, k>> \in found /\ lines[i][k].name = name}
         IN  /\ \A k \in K : to = NewName(kind, f, lines, found, <<i, k>>)
             /\ K = {} => to = name
<1> DEFINE n == Len(lines[i])
           K(m) == {k \in 1..m : <<i, k>> \in found /\ lines[i][k].name = name}
           To(k) == NewName(kind, f, lines, found, <<i, k>>)
<1>1. PICK h : /\ Chain(kind, f, lines, found, i, name, n, h)
               /\ Replacing(kind, f, lines, found, i, name) = h[n]
  <2>1. \E h : Chain(kind, f, lines, found, i, name, n, h)
    BY ChainExists
  <2> QED
    BY <2>1 DEF Chain, Replacing
<1>2. ASSUME NEW k \in 0..n
      PROVE  h[k] = IF k = 0 THEN name
                    ELSE IF <<i, k>> \in found /\ lines[i][k].name = h[k - 1] THEN To(k)
                         ELSE h[k - 1]
  BY <1>1 DEF Chain, NewName
<1>3. ASSUME NEW k, NEW m, <<i, k>> \in found, <<i, m>> \in found,
             To(k) = lines[i][m].name
      PROVE  To(m) = To(k)
  <2>1. At(lines, <<i, m>>).name = lines[i][m].name
    BY DEF At
  <2> QED
    BY <1>3, <2>1 DEF Calm
<1>4. ASSUME NEW k, NEW m, lines[i][k].name = lines[i][m].name PROVE To(k) = To(m)
  <2>1. At(lines, <<i, m>>).name = At(lines, <<i, k>>).name
    BY <1>4 DEF At
  <2> QED
    BY <2>1, NumberAlike DEF NewName
<1> HIDE DEF To, n
<1> DEFINE Right(m) == (\A k \in K(m) : h[m] = To(k)) /\ (K(m) = {} => h[m] = name)
           T == {m \in Nat : m <= n => Right(m)}
<1>5. 0 \in T
  <2>1. 0 \in 0..n /\ K(0) = {}
    BY DEF n
  <2> QED
    BY <1>2, <2>1
<1>6. ASSUME NEW m \in Nat, m \in T PROVE m + 1 \in T
  <2> SUFFICES ASSUME m + 1 <= n PROVE Right(m + 1)
    OBVIOUS
  <2>0. n \in Nat /\ m \in 0..n /\ m + 1 \in 0..n /\ Right(m)
    BY <1>6 DEF n
  <2>1. h[m + 1] = IF <<i, m + 1>> \in found /\ lines[i][m + 1].name = h[m] THEN To(m + 1)
                   ELSE h[m]
    BY <2>0, <1>2
  <2>2. K(m + 1) = K(m) \union (IF <<i, m + 1>> \in found /\ lines[i][m + 1].name = name
                                THEN {m + 1} ELSE {})
    BY <2>0
  <2>3. ASSUME NEW k \in K(m) PROVE h[m + 1] = To(k)
    BY <2>0, <2>1, <1>3
  <2>4. CASE K(m) = {}
    BY <2>0, <2>1, <2>2, <2>4
  <2>5. CASE K(m) # {}
    <3>1. PICK k \in K(m) : TRUE
      BY <2>5
    <3>2. lines[i][m + 1].name = name => To(m + 1) = To(k)
      BY <1>4
    <3> QED
      BY <2>2, <2>3, <3>1, <3>2, <2>5
  <2> QED
    BY <2>4, <2>5
<1> HIDE DEF T
<1>7. n \in T
  BY <1>5, <1>6, NatSetInduction DEF n
<1>8. Right(n)
  BY <1>7 DEF T, n
<1> QED
  BY <1>1, <1>8 DEF n, To
-------------------------------------------------------------------------------
(* The places of the lines and the words in them.                            *)
LEMMA PlaceFacts ==
  ASSUME NEW lines \in Lines
  PROVE  /\ Places(lines) \subseteq Nat \X Nat
         /\ \A p \in Places(lines) : /\ p[1] \in DOMAIN lines
                                     /\ p[2] \in DOMAIN lines[p[1]]
                                     /\ At(lines, p) \in WordSet
         /\ \A i \in DOMAIN lines : \A j \in DOMAIN lines[i] :
              /\ <<i, j>> \in Places(lines)
              /\ At(lines, <<i, j>>) = lines[i][j]
<1>1. \A i \in DOMAIN lines : lines[i] \in Seq(WordSet) /\ i \in Nat
  BY DEF Lines
<1>2. \A i \in DOMAIN lines : \A j \in DOMAIN lines[i] : lines[i][j] \in WordSet /\ j \in Nat
  BY <1>1
<1>3. ASSUME NEW p \in Places(lines)
      PROVE  /\ p \in Nat \X Nat /\ p[1] \in DOMAIN lines /\ p[2] \in DOMAIN lines[p[1]]
             /\ At(lines, p) \in WordSet
  <2>1. PICK i \in DOMAIN lines : p \in {i} \X DOMAIN lines[i]
    BY DEF Places
  <2>2. p[1] = i /\ p[2] \in DOMAIN lines[i] /\ p = <<p[1], p[2]>>
    BY <2>1
  <2> QED
    BY <2>2, <1>1, <1>2 DEF At
<1>4. ASSUME NEW i \in DOMAIN lines, NEW j \in DOMAIN lines[i]
      PROVE  <<i, j>> \in Places(lines) /\ At(lines, <<i, j>>) = lines[i][j]
  BY DEF Places, At
<1> QED
  BY <1>3, <1>4

LEMMA PlacesFinite ==
  ASSUME NEW lines \in Lines
  PROVE  IsFiniteSet(Places(lines))
<1> DEFINE row(i) == {i} \X DOMAIN lines[i]
<1>1. ASSUME NEW i \in DOMAIN lines PROVE IsFiniteSet(row(i))
  <2>1. lines[i] \in Seq(WordSet)
    BY DEF Lines
  <2>2. Len(lines[i]) \in Nat /\ DOMAIN lines[i] = 1..Len(lines[i])
    BY <2>1
  <2>3. IsFiniteSet(DOMAIN lines[i])
    BY <2>2, FS_Interval
  <2>4. IsFiniteSet({i})
    BY FS_Singleton
  <2> QED
    BY <2>3, <2>4, FS_Product
<1>2. IsFiniteSet(DOMAIN lines)
  <2>1. Len(lines) \in Nat /\ DOMAIN lines = 1..Len(lines)
    BY DEF Lines
  <2> QED
    BY <2>1, FS_Interval
<1>3. IsFiniteSet({row(i) : i \in DOMAIN lines})
  <2> DEFINE D == DOMAIN lines
             R == {row(i) : i \in D}
             g == [i \in D |-> row(i)]
  <2>1. g \in Surjection(D, R)
    <3> HIDE DEF row
    <3> QED
      BY DEF Surjection
  <2> HIDE DEF g, R
  <2>2. IsFiniteSet(R)
    BY <1>2, <2>1, FS_Surjection
  <2> QED
    BY <2>2 DEF R
<1>4. IsFiniteSet(UNION {row(i) : i \in DOMAIN lines})
  BY <1>1, <1>3, FS_UNION
<1> QED
  BY <1>4 DEF Places

LEMMA SamePlaces ==
  ASSUME NEW a \in Lines, NEW b \in Lines, SameShape(a, b)
  PROVE  Places(a) = Places(b)
BY DEF SameShape, Places

(* Lines are equal if they have the same words at the same places.           *)
LEMMA SameLines ==
  ASSUME NEW a \in Lines, NEW b \in Lines, SameShape(a, b),
         \A p \in Places(a) : At(a, p) = At(b, p)
  PROVE  a = b
<1>1. ASSUME NEW i \in DOMAIN a PROVE a[i] = b[i]
  <2>1. \A j \in DOMAIN a[i] : a[i][j] = b[i][j]
    BY PlaceFacts DEF At
  <2>2. a[i] \in Seq(WordSet) /\ b[i] \in Seq(WordSet) /\ DOMAIN a[i] = DOMAIN b[i]
    BY DEF SameShape, Lines
  <2> QED
    BY <2>1, <2>2
<1> QED
  BY <1>1 DEF SameShape, Lines

(* A function of the words of lines gives lines.                             *)
LEMMA LinesMade ==
  ASSUME NEW lines \in Lines, NEW made, DOMAIN made = DOMAIN lines,
         \A i \in DOMAIN lines :
           made[i] = [j \in DOMAIN lines[i] |-> made[i][j]],
         \A i \in DOMAIN lines : \A j \in DOMAIN lines[i] : made[i][j] \in WordSet,
         made = [i \in DOMAIN lines |-> made[i]]
  PROVE  made \in Lines /\ SameShape(made, lines)
<1>1. ASSUME NEW i \in DOMAIN lines PROVE made[i] \in Seq(WordSet) /\ DOMAIN made[i] = DOMAIN lines[i]
  <2>1. lines[i] \in Seq(WordSet)
    BY DEF Lines
  <2>2. Len(lines[i]) \in Nat /\ DOMAIN lines[i] = 1..Len(lines[i])
    BY <2>1
  <2>3. made[i] \in [1..Len(lines[i]) -> WordSet]
    BY <2>2
  <2> QED
    BY <2>2, <2>3
<1>2. Len(lines) \in Nat /\ DOMAIN lines = 1..Len(lines)
  BY DEF Lines
<1>3. made \in [1..Len(lines) -> Seq(WordSet)]
  BY <1>1, <1>2
<1> QED
  BY <1>1, <1>2, <1>3 DEF Lines, SameShape

(* Only the literals in hexadecimal are cleaned.                             *)
LEMMA CleanedFacts ==
  ASSUME NEW lines \in Lines
  PROVE  /\ Cleaned(lines) \in Lines
         /\ SameShape(Cleaned(lines), lines)
         /\ Places(Cleaned(lines)) = Places(lines)
         /\ \A p \in Places(lines) :
              At(Cleaned(lines), p) = IF At(lines, p).name[1] = "hex"
                                      THEN [At(lines, p) EXCEPT !.name = <<"HEX", 0>>]
                                      ELSE At(lines, p)
<1> DEFINE made == Cleaned(lines)
<1>1. ASSUME NEW i \in DOMAIN lines
      PROVE  made[i] = [j \in DOMAIN lines[i] |->
                          IF lines[i][j].name[1] = "hex"
                          THEN [lines[i][j] EXCEPT !.name = <<"HEX", 0>>] ELSE lines[i][j]]
  BY DEF Cleaned, Ascii
<1>2. ASSUME NEW i \in DOMAIN lines, NEW j \in DOMAIN lines[i]
      PROVE  /\ made[i][j] = IF lines[i][j].name[1] = "hex"
                             THEN [lines[i][j] EXCEPT !.name = <<"HEX", 0>>] ELSE lines[i][j]
             /\ made[i][j] \in WordSet
  <2>1. lines[i][j] \in WordSet
    BY PlaceFacts
  <2>2. <<"HEX", 0>> \in Tags \X Nat
    BY DEF Tags
  <2>3. [lines[i][j] EXCEPT !.name = <<"HEX", 0>>] \in WordSet
    BY <2>1, <2>2 DEF WordSet
  <2>4. made[i][j] = IF lines[i][j].name[1] = "hex"
                     THEN [lines[i][j] EXCEPT !.name = <<"HEX", 0>>] ELSE lines[i][j]
    BY <1>1
  <2> HIDE DEF made
  <2> QED
    BY <2>1, <2>3, <2>4
<1>3. DOMAIN made = DOMAIN lines /\ made = [i \in DOMAIN lines |-> made[i]]
  BY DEF Cleaned
<1>4. \A i \in DOMAIN lines : made[i] = [j \in DOMAIN lines[i] |-> made[i][j]]
  BY <1>1
<1> HIDE DEF made
<1>5. made \in Lines /\ SameShape(made, lines)
  BY <1>2, <1>3, <1>4, LinesMade
<1>6. Places(made) = Places(lines)
  BY <1>5, SamePlaces
<1>7. ASSUME NEW p \in Places(lines)
      PROVE  At(made, p) = IF At(lines, p).name[1] = "hex"
                           THEN [At(lines, p) EXCEPT !.name = <<"HEX", 0>>] ELSE At(lines, p)
  <2>1. p[1] \in DOMAIN lines /\ p[2] \in DOMAIN lines[p[1]]
    BY PlaceFacts
  <2> QED
    BY <2>1, <1>2 DEF At
<1> QED
  BY <1>5, <1>6, <1>7 DEF made

(* What has no such literals is clean.                                       *)
LEMMA CleanLines ==
  ASSUME NEW lines \in Lines, \A p \in Places(lines) : At(lines, p).name[1] # "hex"
  PROVE  Cleaned(lines) = lines
BY CleanedFacts, SameLines

LEMMA CleanedWords ==
  ASSUME NEW lines \in Lines, NEW p \in Places(lines)
  PROVE  /\ At(Cleaned(lines), p) \in WordSet
         /\ At(Cleaned(lines), p).ctx = At(lines, p).ctx
         /\ At(Cleaned(lines), p).name[1] # "hex"
         /\ At(Cleaned(lines), p).name[1] \in {At(lines, p).name[1], "HEX"}
<1>1. At(lines, p) \in WordSet /\ At(Cleaned(lines), p) \in WordSet
  BY CleanedFacts, PlaceFacts
<1>2. At(Cleaned(lines), p) = IF At(lines, p).name[1] = "hex"
                              THEN [At(lines, p) EXCEPT !.name = <<"HEX", 0>>]
                              ELSE At(lines, p)
  BY CleanedFacts
<1> QED
  BY <1>1, <1>2 DEF WordSet
-------------------------------------------------------------------------------
(* What is found has numbers.                                                *)
LEMMA FoundFacts ==
  ASSUME NEW kind \in Renamers, NEW f, NEW lines \in Lines
  PROVE  /\ Found(kind, lines) \subseteq Places(lines)
         /\ Found(kind, lines) \in SUBSET (Nat \X Nat)
         /\ IsFiniteSet(Found(kind, lines))
         /\ \A p : /\ Number(lines, Found(kind, lines), p) \in Nat
                   /\ NewName(kind, f, lines, Found(kind, lines), p)
                        = <<Prefix(kind), Number(lines, Found(kind, lines), p)>>
                   /\ NewName(kind, f, lines, Found(kind, lines), p) \in Tags \X Nat
<1> DEFINE S == Found(kind, lines)
<1>1. S \subseteq Places(lines)
  BY DEF Found
<1>2. S \in SUBSET (Nat \X Nat)
  BY <1>1, PlaceFacts
<1>3. IsFiniteSet(S)
  BY <1>1, PlacesFinite, FS_Subset
<1> HIDE DEF S
<1>4. ASSUME NEW p PROVE Number(lines, S, p) \in Nat
  BY <1>3, NumberType
<1>5. ASSUME NEW p
      PROVE  NewName(kind, f, lines, S, p) = <<Prefix(kind), Number(lines, S, p)>>
  <2>1. 1 - 1 + Number(lines, S, p) = Number(lines, S, p)
    BY <1>4
  <2> QED
    BY <2>1 DEF NewName, FirstNumber
<1>6. Prefix(kind) \in Tags
  BY DEF Prefix, Tags
<1> QED
  BY <1>1, <1>2, <1>3, <1>4, <1>5, <1>6 DEF S

(* A name stays or gets a number.                                            *)
LEMMA ReplacingType ==
  ASSUME NEW kind, NEW f, NEW lines, NEW found, NEW i, NEW name, Len(lines[i]) \in Nat
  PROVE  \/ Replacing(kind, f, lines, found, i, name) = name
         \/ \E p : Replacing(kind, f, lines, found, i, name) = NewName(kind, f, lines, found, p)
<1> DEFINE n == Len(lines[i])
<1>1. PICK h : /\ Chain(kind, f, lines, found, i, name, n, h)
               /\ Replacing(kind, f, lines, found, i, name) = h[n]
  <2>1. \E h : Chain(kind, f, lines, found, i, name, n, h)
    BY ChainExists
  <2> QED
    BY <2>1 DEF Chain, Replacing
<1>2. ASSUME NEW k \in 0..n
      PROVE  h[k] = IF k = 0 THEN name
                    ELSE IF <<i, k>> \in found /\ lines[i][k].name = h[k - 1]
                         THEN NewName(kind, f, lines, found, <<i, k>>) ELSE h[k - 1]
  BY <1>1 DEF Chain, NewName
<1> DEFINE Fine(x) == x = name \/ \E p : x = NewName(kind, f, lines, found, p)
           T == {m \in Nat : m <= n => Fine(h[m])}
<1> HIDE DEF n
<1>3. 0 \in T
  <2>1. 0 \in 0..n
    BY DEF n
  <2> QED
    BY <1>2, <2>1
<1>4. ASSUME NEW m \in Nat, m \in T PROVE m + 1 \in T
  <2> SUFFICES ASSUME m + 1 <= n PROVE Fine(h[m + 1])
    OBVIOUS
  <2>1. n \in Nat /\ m + 1 \in 0..n /\ m + 1 # 0 /\ (m + 1) - 1 = m /\ Fine(h[m])
    BY <1>4 DEF n
  <2>2. h[m + 1] \in {h[m], NewName(kind, f, lines, found, <<i, m + 1>>)}
    BY <1>2, <2>1
  <2> QED
    BY <2>1, <2>2
<1> HIDE DEF T
<1>5. n \in T
  BY <1>3, <1>4, NatSetInduction DEF n
<1> QED
  BY <1>1, <1>5 DEF T, n

(* Renamed lines are clean lines of the same shape.                          *)
LEMMA RenamedShape ==
  ASSUME NEW kind \in Renamers, NEW f \in Files, text[f] \in Lines
  PROVE  /\ RenamedLines(kind, f) \in Lines
         /\ SameShape(RenamedLines(kind, f), text[f])
         /\ Places(RenamedLines(kind, f)) = Places(text[f])
         /\ Cleaned(RenamedLines(kind, f)) = RenamedLines(kind, f)
         /\ \A p \in Places(text[f]) :
              LET lines == Cleaned(text[f])
              IN  At(RenamedLines(kind, f), p) =
                    IF At(lines, p).ctx \in Replaced(kind)
                    THEN [At(lines, p) EXCEPT !.name =
                            Replacing(kind, f, lines, Found(kind, lines), p[1], @)]
                    ELSE At(lines, p)
<1> DEFINE lines == Cleaned(text[f])
           found == Found(kind, lines)
           made  == RenamedLines(kind, f)
           word(i, j) == IF lines[i][j].ctx \in Replaced(kind)
                         THEN [lines[i][j] EXCEPT !.name =
                                 Replacing(kind, f, lines, found, i, @)]
                         ELSE lines[i][j]
<1>1. lines \in Lines /\ SameShape(lines, text[f]) /\ Places(lines) = Places(text[f])
  BY CleanedFacts
<1>2. made = [i \in DOMAIN lines |-> [j \in DOMAIN lines[i] |-> word(i, j)]]
  BY DEF RenamedLines
<1> HIDE DEF lines, found, made
<1>3. ASSUME NEW i \in DOMAIN lines, NEW j \in DOMAIN lines[i]
      PROVE  /\ made[i][j] = word(i, j) /\ made[i][j] \in WordSet
             /\ made[i][j].name[1] # "hex"
  <2>1. <<i, j>> \in Places(lines) /\ At(lines, <<i, j>>) = lines[i][j] /\ lines[i][j] \in WordSet
    BY <1>1, PlaceFacts
  <2>2. lines[i][j].name[1] # "hex"
    BY <2>1, <1>1, CleanedWords DEF lines
  <2>3. made[i][j] = word(i, j)
    BY <1>2
  <2> DEFINE to == Replacing(kind, f, lines, found, i, lines[i][j].name)
  <2>4. Len(lines[i]) \in Nat
    BY <1>1 DEF Lines
  <2>5. to \in Tags \X Nat /\ to[1] # "hex"
    <3>1. to = lines[i][j].name \/ \E p : to = NewName(kind, f, lines, found, p)
      BY <2>4, ReplacingType
    <3>2. CASE to = lines[i][j].name
      BY <2>1, <2>2, <3>2 DEF WordSet
    <3>3. ASSUME NEW p, to = NewName(kind, f, lines, found, p)
          PROVE  to \in Tags \X Nat /\ to[1] # "hex"
      <4>1. to \in Tags \X Nat
        BY <1>1, <3>3, FoundFacts DEF found
      <4>2. to[1] = Prefix(kind)
        BY <1>1, <3>3, FoundFacts DEF found
      <4> QED
        BY <4>1, <4>2 DEF Prefix
    <3> QED
      BY <3>1, <3>2, <3>3
  <2> HIDE DEF to
  <2>6. word(i, j) = IF lines[i][j].ctx \in Replaced(kind)
                     THEN [lines[i][j] EXCEPT !.name = to] ELSE lines[i][j]
    BY DEF to
  <2>7. [lines[i][j] EXCEPT !.name = to] \in WordSet /\ [lines[i][j] EXCEPT !.name = to].name = to
    BY <2>1, <2>5 DEF WordSet
  <2> HIDE DEF word
  <2> QED
    BY <2>1, <2>2, <2>3, <2>5, <2>6, <2>7
<1>4. DOMAIN made = DOMAIN lines /\ made = [i \in DOMAIN lines |-> made[i]]
  BY <1>2
<1>5. \A i \in DOMAIN lines : made[i] = [j \in DOMAIN lines[i] |-> made[i][j]]
  BY <1>2
<1>6. made \in Lines /\ SameShape(made, lines)
  BY <1>1, <1>3, <1>4, <1>5, LinesMade
<1>7. SameShape(made, text[f]) /\ Places(made) = Places(lines)
  BY <1>1, <1>6, SamePlaces DEF SameShape
<1>8. ASSUME NEW p \in Places(lines)
      PROVE  /\ At(made, p) = word(p[1], p[2])
             /\ At(made, p).name[1] # "hex"
  <2>1. p[1] \in DOMAIN lines /\ p[2] \in DOMAIN lines[p[1]]
    BY <1>1, PlaceFacts
  <2> QED
    BY <2>1, <1>3 DEF At
<1>9. Cleaned(made) = made
  BY <1>6, <1>7, <1>8, CleanLines
<1> QED
  BY <1>1, <1>6, <1>7, <1>8, <1>9 DEF made, lines, found, At

(* What is found is numbered, and other words of its kind stay.              *)
LEMMA RenamedWords ==
  ASSUME NEW kind \in Renamers, NEW f \in Files, text[f] \in Lines,
         Calm(kind, f, Cleaned(text[f]), Found(kind, Cleaned(text[f]))),
         NEW p \in Places(text[f])
  PROVE  LET lines == Cleaned(text[f])
             found == Found(kind, lines)
             made  == RenamedLines(kind, f)
         IN  /\ At(made, p).ctx = At(lines, p).ctx
             /\ p \in found => At(made, p).name = NewName(kind, f, lines, found, p)
             /\ At(lines, p).ctx \in FoundIn(kind) /\ p \notin found => At(made, p) = At(lines, p)
             /\ At(lines, p).ctx \notin Replaced(kind) => At(made, p) = At(lines, p)
<1> DEFINE lines == Cleaned(text[f])
           found == Found(kind, lines)
           made  == RenamedLines(kind, f)
           to    == Replacing(kind, f, lines, found, p[1], At(lines, p).name)
           K     == {k \in 1..Len(lines[p[1]]) : /\ <<p[1], k>> \in found
                                                 /\ lines[p[1]][k].name = At(lines, p).name}
<1>1. lines \in Lines /\ p \in Places(lines)
  BY CleanedFacts
<1>2. /\ p \in Nat \X Nat /\ p = <<p[1], p[2]>> /\ p[1] \in DOMAIN lines
      /\ p[2] \in DOMAIN lines[p[1]] /\ At(lines, p) \in WordSet
  BY <1>1, PlaceFacts
<1>3. At(made, p) = IF At(lines, p).ctx \in Replaced(kind)
                    THEN [At(lines, p) EXCEPT !.name = to] ELSE At(lines, p)
  BY RenamedShape
<1>4. Len(lines[p[1]]) \in Nat /\ DOMAIN lines[p[1]] = 1..Len(lines[p[1]])
  BY <1>1, <1>2 DEF Lines
<1> HIDE DEF lines, made, to
<1>5. /\ \A k \in K : to = NewName(kind, f, lines, found, <<p[1], k>>)
      /\ K = {} => to = At(lines, p).name
  <2> HIDE DEF K
  <2> QED
    BY <1>4, ReplacingFacts DEF lines, to, K
<1>6. p \in found => to = NewName(kind, f, lines, found, p)
  <2> SUFFICES ASSUME p \in found PROVE p[2] \in K
    BY <1>2, <1>5
  <2> QED
    BY <1>2, <1>4 DEF At
<1>7. At(lines, p).ctx \in FoundIn(kind) /\ p \notin found => to = At(lines, p).name
  <2> SUFFICES ASSUME At(lines, p).ctx \in FoundIn(kind), p \notin found, NEW k \in K PROVE FALSE
    BY <1>5
  <2>1. At(lines, p).name[1] \in Kept(kind)
    BY <1>1 DEF Found
  <2>2. At(lines, <<p[1], k>>).name = At(lines, p).name /\ <<p[1], k>> \in found
    BY DEF At
  <2>3. At(lines, <<p[1], k>>).name[1] \notin Kept(kind)
    BY <2>2 DEF Found
  <2> QED
    BY <2>1, <2>2, <2>3
<1>8. FoundIn(kind) \subseteq Replaced(kind)
  BY DEF FoundIn, Replaced
<1>9. p \in found => At(lines, p).ctx \in FoundIn(kind)
  BY DEF Found
<1>10. /\ [At(lines, p) EXCEPT !.name = to].ctx = At(lines, p).ctx
       /\ [At(lines, p) EXCEPT !.name = to].name = to
       /\ to = At(lines, p).name => [At(lines, p) EXCEPT !.name = to] = At(lines, p)
  BY <1>2 DEF WordSet
<1> HIDE DEF found
<1>11. /\ At(made, p).ctx = At(lines, p).ctx
       /\ p \in found => At(made, p).name = NewName(kind, f, lines, found, p)
       /\ At(lines, p).ctx \in FoundIn(kind) /\ p \notin found => At(made, p) = At(lines, p)
       /\ At(lines, p).ctx \notin Replaced(kind) => At(made, p) = At(lines, p)
  BY <1>3, <1>6, <1>7, <1>8, <1>9, <1>10
<1> QED
  BY <1>11 DEF lines, found, made

(* Among words of a context that names are found in, those that were the     *)
(* same remain so, and no others become so.                                  *)
LEMMA RenamedApart ==
  ASSUME NEW kind \in Renamers, NEW f \in Files, text[f] \in Lines,
         Calm(kind, f, Cleaned(text[f]), Found(kind, Cleaned(text[f]))),
         NEW p \in Places(text[f]), NEW q \in Places(text[f]),
         At(text[f], p).ctx = At(text[f], q).ctx, At(text[f], p).ctx \in {"call", "end"}
  PROVE  At(RenamedLines(kind, f), p).name = At(RenamedLines(kind, f), q).name
           <=> At(Cleaned(text[f]), p).name = At(Cleaned(text[f]), q).name
<1> DEFINE lines == Cleaned(text[f])
           found == Found(kind, lines)
           made  == RenamedLines(kind, f)
           c     == At(text[f], p).ctx
<1>1. lines \in Lines /\ p \in Places(lines) /\ q \in Places(lines)
  BY CleanedFacts
<1>2. At(lines, p).ctx = c /\ At(lines, q).ctx = c
  BY CleanedWords
<1>3. ASSUME NEW r \in {p, q}
      PROVE  /\ r \in found => At(made, r).name = NewName(kind, f, lines, found, r)
             /\ c \in FoundIn(kind) /\ r \notin found => At(made, r) = At(lines, r)
             /\ c \notin Replaced(kind) => At(made, r) = At(lines, r)
  BY <1>2, <1>3, RenamedWords
<1>4. CASE c \notin FoundIn(kind)
  <2>1. c \notin Replaced(kind)
    BY <1>4 DEF FoundIn, Replaced
  <2> QED
    BY <2>1, <1>3
<1>5. CASE c \in FoundIn(kind)
  <2>1. ASSUME NEW r \in {p, q}
        PROVE  r \in found <=> At(lines, r).name[1] \notin Kept(kind)
    BY <1>1, <1>2, <1>5, <2>1 DEF Found
  <2>2. ASSUME NEW r \in {p, q}, r \in found
        PROVE  At(made, r).name = <<Prefix(kind), Number(lines, found, r)>>
    BY <1>1, <1>3, <2>2, FoundFacts
  <2>4. Prefix(kind) \notin Kept(kind)
    BY DEF Prefix, Kept
  <2>5. ASSUME NEW r \in {p, q}, r \notin found PROVE At(made, r) = At(lines, r)
    BY <1>3, <1>5, <2>5
  <2>6. CASE p \in found /\ q \in found
    <3>1. Number(lines, found, p) = Number(lines, found, q)
            <=> At(lines, p).name = At(lines, q).name
      BY <1>1, <2>6, FoundFacts, NumberApart
    <3> QED
      BY <2>2, <2>6, <3>1
  <2>7. CASE p \notin found /\ q \notin found
    BY <2>5, <2>7
  <2>8. ASSUME NEW r \in {p, q}, NEW s \in {p, q}, r \in found, s \notin found
        PROVE  At(made, r).name # At(made, s).name /\ At(lines, r).name # At(lines, s).name
    <3>1. At(made, r).name[1] = Prefix(kind)
      BY <2>2, <2>8
    <3>2. At(made, s).name[1] \in Kept(kind) /\ At(lines, s).name[1] \in Kept(kind)
      BY <2>1, <2>5, <2>8
    <3>3. At(lines, r).name[1] \notin Kept(kind)
      BY <2>1, <2>8
    <3> QED
      BY <2>4, <3>1, <3>2, <3>3
  <2> QED
    BY <2>6, <2>7, <2>8
<1> QED
  BY <1>4, <1>5

(* A file that has its numbers, or has none, and a file of tokens are calm.  *)
LEMMA CalmFile ==
  ASSUME NEW kind \in Renamers, NEW f \in Files, text[f] \in Lines,
         Fits(text[f], origin[f], renamed[f])
  PROVE  Calm(kind, f, Cleaned(text[f]), Found(kind, Cleaned(text[f])))
<1> DEFINE lines == Cleaned(text[f])
           found == Found(kind, lines)
<1>1. lines \in Lines /\ Places(lines) = Places(text[f])
  BY CleanedFacts
<1> SUFFICES ASSUME NEW p \in found, NEW q \in found, p[1] = q[1],
                    NewName(kind, f, lines, found, p) = At(lines, q).name
             PROVE  NewName(kind, f, lines, found, q) = NewName(kind, f, lines, found, p)
  BY DEF Calm
<1>2. p \in Places(text[f]) /\ q \in Places(text[f]) /\ At(lines, q).ctx \in FoundIn(kind)
  BY <1>1 DEF Found
<1>3. \A r : NewName(kind, f, lines, found, r) = <<Prefix(kind), Number(lines, found, r)>>
  BY <1>1, FoundFacts
<1>4. CASE kind \in renamed[f]
  <2>1. lines = text[f] /\ \A r \in found : At(lines, r).name = <<Prefix(kind), Number(lines, found, r)>>
    BY <1>4 DEF Fits, Settled
  <2> QED
    BY <1>3, <2>1
<1>5. CASE kind \notin renamed[f] /\ Code(text[f], origin[f], renamed[f])
  <2>1. At(text[f], q).name[1] # Prefix(kind)
    BY <1>2, <1>5, CleanedWords DEF Code
  <2>2. At(lines, q).name[1] \in {At(text[f], q).name[1], "HEX"}
    BY <1>2, CleanedWords
  <2>3. At(lines, q).name[1] = Prefix(kind)
    BY <1>3
  <2> QED
    BY <2>1, <2>2, <2>3 DEF Prefix
<1>6. CASE TokenFile(text[f])
  <2>1. Len(text[f][p[1]]) = 1
    BY <1>2, <1>6, PlaceFacts DEF TokenFile
  <2>2. DOMAIN text[f][p[1]] = 1..1
    BY <1>2, <2>1, PlaceFacts DEF Lines
  <2>3. p[2] = 1 /\ q[2] = 1 /\ p = <<p[1], p[2]>> /\ q = <<q[1], q[2]>>
    BY <1>2, <2>2, PlaceFacts
  <2> QED
    BY <2>3
<1> QED
  BY <1>4, <1>5, <1>6 DEF Fits

(* A file that was renamed stays in order, by kinds.                         *)
LEMMA RenamedSettled ==
  ASSUME NEW kind \in Renamers, NEW f \in Files, text[f] \in Lines, NEW other \in Renamers,
         Calm(kind, f, Cleaned(text[f]), Found(kind, Cleaned(text[f]))),
         other = kind \/ Settled(other, text[f])
  PROVE  Settled(other, RenamedLines(kind, f))
<1> DEFINE lines == Cleaned(text[f])
           made  == RenamedLines(kind, f)
           S     == Found(other, lines)
<1>1. /\ lines \in Lines /\ made \in Lines /\ Cleaned(made) = made
      /\ Places(lines) = Places(text[f]) /\ Places(made) = Places(text[f])
  BY CleanedFacts, RenamedShape
<1>2. \A p \in Places(lines) : At(made, p).ctx = At(lines, p).ctx
  BY <1>1, RenamedWords
<1>3. other # kind => /\ lines = text[f]
                      /\ \A p \in S : At(lines, p).name = <<Prefix(other), Number(lines, S, p)>>
  BY DEF Settled
<1>4. other # kind => \A p \in Places(lines) :
                        At(lines, p).ctx \in FoundIn(other) => At(made, p) = At(lines, p)
  <2> SUFFICES ASSUME other # kind, NEW p \in Places(lines), At(lines, p).ctx \in FoundIn(other)
               PROVE  At(made, p) = At(lines, p)
    OBVIOUS
  <2>1. At(lines, p).ctx \notin Replaced(kind)
    BY DEF FoundIn, Replaced, Renamers
  <2> QED
    BY <1>1, <2>1, RenamedWords
<1>5. other = kind => \A p \in Places(lines) :
        /\ p \in S => At(made, p).name = NewName(kind, f, lines, S, p)
        /\ At(lines, p).ctx \in FoundIn(other) /\ p \notin S => At(made, p) = At(lines, p)
  BY <1>1, RenamedWords
<1>6. \A p \in S : At(made, p).name = <<Prefix(other), Number(lines, S, p)>>
  <2> SUFFICES ASSUME NEW p \in S PROVE At(made, p).name = <<Prefix(other), Number(lines, S, p)>>
    OBVIOUS
  <2>1. p \in Places(lines) /\ At(lines, p).ctx \in FoundIn(other)
    BY DEF Found
  <2>2. CASE other # kind
    BY <1>3, <1>4, <2>1, <2>2
  <2>3. CASE other = kind
    BY <1>1, <1>5, <2>1, <2>3, FoundFacts
  <2> QED
    BY <2>2, <2>3
<1>7. Found(other, made) = S
  <2>1. ASSUME NEW p \in Places(lines), At(lines, p).ctx \in FoundIn(other)
        PROVE  p \in S <=> At(made, p).name[1] \notin Kept(other)
    <3>1. CASE p \in S
      <4>1. At(made, p).name[1] = Prefix(other)
        BY <1>6, <3>1
      <4> QED
        BY <3>1, <4>1 DEF Prefix, Kept
    <3>2. CASE p \notin S
      <4>1. At(lines, p).name[1] \in Kept(other)
        BY <2>1, <3>2 DEF Found
      <4>2. At(made, p) = At(lines, p)
        BY <1>4, <1>5, <2>1, <3>2
      <4> QED
        BY <3>2, <4>1, <4>2
    <3> QED
      BY <3>1, <3>2
  <2>2. \A p \in Places(lines) : p \in Found(other, made) =>
          At(lines, p).ctx \in FoundIn(other) /\ At(made, p).name[1] \notin Kept(other)
    BY <1>2 DEF Found
  <2>3. \A p \in Places(lines) :
          At(lines, p).ctx \in FoundIn(other) /\ At(made, p).name[1] \notin Kept(other)
            => p \in Found(other, made)
    BY <1>1, <1>2 DEF Found
  <2>4. Found(other, made) \subseteq Places(lines) /\ S \subseteq Places(lines)
    BY <1>1 DEF Found
  <2>5. \A p \in S : At(lines, p).ctx \in FoundIn(other)
    BY DEF Found
  <2> HIDE DEF S, made, lines
  <2> QED
    BY <2>1, <2>2, <2>3, <2>4, <2>5
<1>8. \A q, r \in S : At(made, q).name = At(made, r).name <=> At(lines, q).name = At(lines, r).name
  <2> SUFFICES ASSUME NEW q \in S, NEW r \in S
               PROVE  At(made, q).name = At(made, r).name <=> At(lines, q).name = At(lines, r).name
    OBVIOUS
  <2>1. Number(lines, S, q) = Number(lines, S, r) <=> At(lines, q).name = At(lines, r).name
    BY <1>1, FoundFacts, NumberApart
  <2> HIDE DEF S, made, lines
  <2> QED
    BY <1>6, <2>1
<1>9. \A p \in S : Number(made, S, p) = Number(lines, S, p)
  <2> HIDE DEF S, made, lines
  <2> QED
    BY <1>8, NumberSame
<1> QED
  BY <1>1, <1>6, <1>7, <1>9 DEF Settled

LEMMA RenamedFits ==
  ASSUME NEW kind \in Renamers, NEW f \in Files, text[f] \in Lines, origin[f] \in Lines,
         renamed[f] \in SUBSET Renamers, Fits(text[f], origin[f], renamed[f])
  PROVE  Fits(RenamedLines(kind, f), origin[f], renamed[f] \union {kind})
<1> DEFINE now    == text[f]
           lines  == Cleaned(now)
           made   == RenamedLines(kind, f)
           before == origin[f]
           done   == renamed[f]
<1>1. Calm(kind, f, lines, Found(kind, lines))
  BY CalmFile
<1>2. /\ made \in Lines /\ SameShape(made, now) /\ Places(made) = Places(now)
      /\ Cleaned(made) = made
  BY RenamedShape
<1>3. \A p \in Places(now) : /\ At(made, p).ctx = At(now, p).ctx
                             /\ At(now, p).ctx \notin Replaced(kind) => At(made, p) = At(lines, p)
  BY <1>1, RenamedWords, CleanedWords
<1>4. \A other \in done \union {kind} : Settled(other, made)
  BY <1>1, RenamedSettled DEF Fits
<1>5. CASE Code(now, before, done)
  <2>1. Code(made, before, done \union {kind})
    <3>1. \A p \in Places(made) : At(made, p).ctx = At(before, p).ctx
      BY <1>2, <1>3, <1>5 DEF Code
    <3>2. ASSUME NEW other \in Renamers \ (done \union {kind}), NEW p \in Places(made),
                 At(made, p).ctx \in FoundIn(other)
          PROVE  At(made, p).name[1] # Prefix(other)
      <4>1. p \in Places(now) /\ At(now, p).ctx \in FoundIn(other)
        BY <1>2, <1>3, <3>2
      <4>2. At(now, p).ctx \notin Replaced(kind)
        BY <3>2, <4>1 DEF FoundIn, Replaced, Renamers
      <4>3. At(made, p).name[1] \in {At(now, p).name[1], "HEX"}
        BY <1>3, <4>1, <4>2, CleanedWords
      <4>4. At(now, p).name[1] # Prefix(other)
        BY <1>5, <3>2, <4>1 DEF Code
      <4> QED
        BY <4>3, <4>4 DEF Prefix
    <3> QED
      BY <3>1, <3>2 DEF Code
  <2>2. Apart(made, before)
    <3> SUFFICES ASSUME NEW p \in Places(now), NEW q \in Places(now),
                        At(before, p).ctx = At(before, q).ctx, At(before, p).ctx \in {"call", "end"}
                 PROVE  At(made, p).name = At(made, q).name
                          <=> At(Cleaned(before), p).name = At(Cleaned(before), q).name
      BY <1>2 DEF Apart
    <3>1. At(now, p).ctx = At(now, q).ctx /\ At(now, p).ctx \in {"call", "end"}
      BY <1>5 DEF Code
    <3>2. At(made, p).name = At(made, q).name <=> At(lines, p).name = At(lines, q).name
      BY <1>1, <3>1, RenamedApart
    <3>3. At(lines, p).name = At(lines, q).name
            <=> At(Cleaned(before), p).name = At(Cleaned(before), q).name
      BY DEF Fits, Apart
    <3> QED
      BY <3>2, <3>3
  <2> QED
    BY <1>4, <2>1, <2>2 DEF Fits
<1>6. CASE TokenFile(now)
  <2>1. TokenFile(made)
    <3> SUFFICES ASSUME NEW i \in DOMAIN made PROVE Len(made[i]) = 1 /\ made[i][1].ctx = "end"
      BY DEF TokenFile
    <3>1. i \in DOMAIN now /\ DOMAIN made[i] = DOMAIN now[i]
      BY <1>2 DEF SameShape
    <3>2. Len(now[i]) = 1 /\ now[i][1].ctx = "end"
      BY <1>6, <3>1 DEF TokenFile
    <3>3. now[i] \in Seq(WordSet) /\ made[i] \in Seq(WordSet)
      BY <1>2, <3>1 DEF Lines
    <3>4. DOMAIN now[i] = 1..1 /\ Len(made[i]) = 1
      BY <3>1, <3>2, <3>3
    <3>5. /\ <<i, 1>> \in Places(now) /\ At(now, <<i, 1>>) = now[i][1]
          /\ At(made, <<i, 1>>) = made[i][1]
      BY <3>1, <3>4, PlaceFacts DEF At
    <3> QED
      BY <1>3, <3>2, <3>4, <3>5
  <2>2. Apart(made, before)
    <3> SUFFICES ASSUME NEW p \in Places(now), NEW q \in Places(now),
                        At(before, p).ctx = At(before, q).ctx, At(before, p).ctx \in {"call", "end"}
                 PROVE  At(made, p).name = At(made, q).name
                          <=> At(Cleaned(before), p).name = At(Cleaned(before), q).name
      BY <1>2 DEF Apart
    <3>1. ASSUME NEW r \in Places(now) PROVE At(now, r).ctx = "end"
      <4>1. r[1] \in DOMAIN now /\ r[2] \in DOMAIN now[r[1]]
        BY PlaceFacts
      <4>2. Len(now[r[1]]) = 1 /\ now[r[1]][1].ctx = "end" /\ now[r[1]] \in Seq(WordSet)
        BY <1>6, <4>1 DEF TokenFile, Lines
      <4>3. r[2] = 1
        BY <4>1, <4>2
      <4> QED
        BY <4>2, <4>3 DEF At
    <3>2. At(made, p).name = At(made, q).name <=> At(lines, p).name = At(lines, q).name
      BY <1>1, <3>1, RenamedApart
    <3>3. At(lines, p).name = At(lines, q).name
            <=> At(Cleaned(before), p).name = At(Cleaned(before), q).name
      BY DEF Fits, Apart
    <3> QED
      BY <3>2, <3>3
  <2> QED
    BY <1>4, <2>1, <2>2 DEF Fits
<1> QED
  BY <1>5, <1>6 DEF Fits

(* To rename again a file that has its numbers changes nothing.              *)
LEMMA RenamedAgain ==
  ASSUME NEW kind \in Renamers, NEW f \in Files, text[f] \in Lines, Settled(kind, text[f])
  PROVE  RenamedLines(kind, f) = text[f]
<1> DEFINE lines == Cleaned(text[f])
           found == Found(kind, lines)
           made  == RenamedLines(kind, f)
<1>1. lines = text[f] /\ \A p \in found : At(lines, p).name = <<Prefix(kind), Number(lines, found, p)>>
  BY DEF Settled
<1>2. \A p : NewName(kind, f, lines, found, p) = <<Prefix(kind), Number(lines, found, p)>>
  BY <1>1, FoundFacts
<1>3. Calm(kind, f, lines, found)
  BY <1>1, <1>2 DEF Calm
<1>4. made \in Lines /\ SameShape(made, lines) /\ Places(made) = Places(lines)
  BY <1>1, RenamedShape
<1>5. ASSUME NEW p \in Places(lines) PROVE At(made, p) = At(lines, p)
  <2> DEFINE to == Replacing(kind, f, lines, found, p[1], At(lines, p).name)
             K  == {k \in 1..Len(lines[p[1]]) : /\ <<p[1], k>> \in found
                                                /\ lines[p[1]][k].name = At(lines, p).name}
  <2>1. p[1] \in DOMAIN lines /\ At(lines, p) \in WordSet
    BY <1>1, PlaceFacts
  <2>2. Len(lines[p[1]]) \in Nat
    BY <1>1, <2>1 DEF Lines
  <2>3. /\ \A k \in K : to = NewName(kind, f, lines, found, <<p[1], k>>)
        /\ K = {} => to = At(lines, p).name
    <3> HIDE DEF lines, found
    <3> QED
      BY <1>3, <2>2, ReplacingFacts
  <2>4. to = At(lines, p).name
    <3> SUFFICES ASSUME NEW k \in K PROVE to = At(lines, p).name
      BY <2>3
    <3>1. At(lines, <<p[1], k>>) = lines[p[1]][k]
      BY DEF At
    <3>2. to = NewName(kind, f, lines, found, <<p[1], k>>) /\ <<p[1], k>> \in found
      BY <2>3
    <3> HIDE DEF to, found, lines
    <3> QED
      BY <1>1, <1>2, <3>1, <3>2
  <2>5. At(made, p) = IF At(lines, p).ctx \in Replaced(kind)
                      THEN [At(lines, p) EXCEPT !.name = to] ELSE At(lines, p)
    BY <1>1, RenamedShape
  <2> QED
    BY <2>1, <2>4, <2>5 DEF WordSet
<1> QED
  BY <1>1, <1>4, <1>5, SameLines
-------------------------------------------------------------------------------
(* A file without its first line.                                            *)
LEMMA TailFacts ==
  ASSUME NEW lines \in Lines, Len(lines) > 0
  PROVE  /\ Tail(lines) \in Lines
         /\ DOMAIN Tail(lines) = 1..Len(lines) - 1
         /\ \A i \in DOMAIN Tail(lines) : i + 1 \in DOMAIN lines /\ Tail(lines)[i] = lines[i + 1]
         /\ \A p \in Places(Tail(lines)) :
              /\ <<p[1] + 1, p[2]>> \in Places(lines)
              /\ At(Tail(lines), p) = At(lines, <<p[1] + 1, p[2]>>)
              /\ At(Cleaned(Tail(lines)), p) = At(Cleaned(lines), <<p[1] + 1, p[2]>>)
<1> DEFINE rest == Tail(lines)
<1>1. /\ rest \in Lines /\ DOMAIN rest = 1..Len(lines) - 1
      /\ \A i \in DOMAIN rest : i + 1 \in DOMAIN lines /\ rest[i] = lines[i + 1]
  BY DEF Lines
<1> HIDE DEF rest
<1>2. ASSUME NEW p \in Places(rest)
      PROVE  /\ <<p[1] + 1, p[2]>> \in Places(lines)
             /\ At(rest, p) = At(lines, <<p[1] + 1, p[2]>>)
  <2>1. p[1] \in DOMAIN rest /\ p[2] \in DOMAIN rest[p[1]]
    BY <1>1, PlaceFacts
  <2>2. p[1] + 1 \in DOMAIN lines /\ rest[p[1]] = lines[p[1] + 1]
    BY <1>1, <2>1
  <2> QED
    BY <2>1, <2>2, PlaceFacts DEF At
<1>3. ASSUME NEW p \in Places(rest)
      PROVE  At(Cleaned(rest), p) = At(Cleaned(lines), <<p[1] + 1, p[2]>>)
  <2>1. At(Cleaned(rest), p) = IF At(rest, p).name[1] = "hex"
                               THEN [At(rest, p) EXCEPT !.name = <<"HEX", 0>>] ELSE At(rest, p)
    BY <1>1, CleanedFacts
  <2> DEFINE q == <<p[1] + 1, p[2]>>
  <2>2. q \in Places(lines) /\ At(rest, p) = At(lines, q)
    BY <1>2
  <2>3. At(Cleaned(lines), q) = IF At(lines, q).name[1] = "hex"
                                THEN [At(lines, q) EXCEPT !.name = <<"HEX", 0>>] ELSE At(lines, q)
    BY <2>2, CleanedFacts
  <2> QED
    BY <2>1, <2>2, <2>3
<1> QED
  BY <1>1, <1>2, <1>3 DEF rest

LEMMA CutShape ==
  ASSUME NEW now \in Lines, NEW before \in Lines, Len(now) > 1, SameShape(now, before)
  PROVE  /\ Len(before) = Len(now) /\ Tail(now) \in Lines /\ Tail(before) \in Lines
         /\ SameShape(Tail(now), Tail(before))
<1>1. Len(before) = Len(now) /\ Len(before) > 0 /\ Len(now) > 0
  BY DEF SameShape, Lines
<1>2. Tail(now) \in Lines /\ Tail(before) \in Lines
  BY <1>1, TailFacts
<1>3. SameShape(Tail(now), Tail(before))
  BY <1>1, TailFacts DEF SameShape
<1> QED
  BY <1>1, <1>2, <1>3

LEMMA CutFits ==
  ASSUME NEW now \in Lines, NEW before \in Lines, Len(now) > 1, SameShape(now, before),
         Fits(now, before, {})
  PROVE  Fits(Tail(now), Tail(before), {})
<1>1. Len(before) = Len(now) /\ Len(before) > 0 /\ Len(now) > 0
  BY CutShape DEF Lines
<1>2. SameShape(Tail(now), Tail(before))
  BY CutShape
<1>3. /\ Tail(now) \in Lines /\ Tail(before) \in Lines
      /\ Places(Tail(now)) = Places(Tail(before))
  BY <1>1, <1>2, TailFacts, SamePlaces
<1>4. ASSUME NEW p \in Places(Tail(now))
      PROVE  /\ <<p[1] + 1, p[2]>> \in Places(now)
             /\ At(Tail(now), p) = At(now, <<p[1] + 1, p[2]>>)
             /\ At(Tail(before), p) = At(before, <<p[1] + 1, p[2]>>)
             /\ At(Cleaned(Tail(now)), p) = At(Cleaned(now), <<p[1] + 1, p[2]>>)
             /\ At(Cleaned(Tail(before)), p) = At(Cleaned(before), <<p[1] + 1, p[2]>>)
  BY <1>1, <1>3, TailFacts
<1>5. Code(now, before, {}) => Code(Tail(now), Tail(before), {})
  BY <1>4 DEF Code
<1>6. TokenFile(now) => TokenFile(Tail(now))
  BY <1>1, TailFacts DEF TokenFile
<1>7. Apart(Tail(now), Tail(before))
  <2> SUFFICES ASSUME NEW p \in Places(Tail(now)), NEW q \in Places(Tail(now)),
                      At(Tail(before), p).ctx = At(Tail(before), q).ctx,
                      At(Tail(before), p).ctx \in {"call", "end"}
               PROVE  At(Cleaned(Tail(now)), p).name = At(Cleaned(Tail(now)), q).name
                        <=> At(Cleaned(Tail(before)), p).name = At(Cleaned(Tail(before)), q).name
    BY DEF Apart
  <2> DEFINE x == <<p[1] + 1, p[2]>>
             y == <<q[1] + 1, q[2]>>
  <2>1. x \in Places(now) /\ y \in Places(now)
    BY <1>4
  <2>2. At(before, x).ctx = At(before, y).ctx /\ At(before, x).ctx \in {"call", "end"}
    BY <1>4
  <2>3. At(Cleaned(now), x).name = At(Cleaned(now), y).name
          <=> At(Cleaned(before), x).name = At(Cleaned(before), y).name
    BY <2>1, <2>2 DEF Fits, Apart
  <2> QED
    BY <1>4, <2>3
<1> QED
  BY <1>5, <1>6, <1>7 DEF Fits
-------------------------------------------------------------------------------
(* The words of all lines, one after the other: their sequence exists, and   *)
(* lines of the same shape have their words in the same order.               *)
Joined(lines, n, h) ==
  h = [i \in 1..n |-> IF i = 1 THEN lines[i] ELSE h[i - 1] \o lines[i]]

LEMMA JoinedExists ==
  ASSUME NEW lines, NEW n \in Nat
  PROVE  \E h : Joined(lines, n, h)
<1> DEFINE T == {m \in Nat : \E h : Joined(lines, m, h)}
<1>1. 0 \in T
  <2>1. Joined(lines, 0, [i \in 1..0 |-> lines])
    BY DEF Joined
  <2> QED
    BY <2>1
<1>2. ASSUME NEW m \in Nat, m \in T PROVE m + 1 \in T
  <2>1. PICK h : h = [i \in 1..m |-> IF i = 1 THEN lines[i] ELSE h[i - 1] \o lines[i]]
    BY <1>2 DEF Joined
  <2> DEFINE g == [i \in 1..m + 1 |-> IF i <= m THEN h[i]
                                      ELSE IF i = 1 THEN lines[i] ELSE h[i - 1] \o lines[i]]
  <2>2. ASSUME NEW i \in 1..m + 1
        PROVE  g[i] = IF i = 1 THEN lines[i] ELSE g[i - 1] \o lines[i]
    <3>1. i # 1 => i - 1 \in 1..m + 1 /\ i - 1 <= m /\ i - 1 \in 1..m
      OBVIOUS
    <3>2. i # 1 => g[i - 1] = h[i - 1]
      BY <3>1
    <3>3. CASE i <= m
      <4>1. i \in 1..m /\ g[i] = h[i]
        BY <3>3
      <4> QED
        BY <2>1, <3>2, <4>1
    <3>4. CASE ~(i <= m)
      BY <3>2, <3>4
    <3> QED
      BY <3>3, <3>4
  <2>3. g = [i \in 1..m + 1 |-> g[i]]
    OBVIOUS
  <2> HIDE DEF g
  <2>4. g = [i \in 1..m + 1 |-> IF i = 1 THEN lines[i] ELSE g[i - 1] \o lines[i]]
    BY <2>2, <2>3
  <2>5. Joined(lines, m + 1, g)
    BY <2>4 DEF Joined
  <2> QED
    BY <2>5
<1> HIDE DEF T
<1>3. Nat \subseteq T
  BY <1>1, <1>2, NatSetInduction
<1> QED
  BY <1>3 DEF T

LEMMA FlattenFacts ==
  ASSUME NEW a \in Lines, NEW b \in Lines, SameShape(a, b)
  PROVE  /\ FlattenSeq(a) \in Seq(WordSet) /\ FlattenSeq(b) \in Seq(WordSet)
         /\ Len(FlattenSeq(a)) = Len(FlattenSeq(b))
         /\ \A k \in DOMAIN FlattenSeq(a) : \E p \in Places(a) :
              FlattenSeq(a)[k] = At(a, p) /\ FlattenSeq(b)[k] = At(b, p)
<1> DEFINE n == Len(a)
           Alike2(s, t) == /\ s \in Seq(WordSet) /\ t \in Seq(WordSet) /\ Len(s) = Len(t)
                           /\ \A k \in 1..Len(s) : \E p \in Places(a) :
                                s[k] = At(a, p) /\ t[k] = At(b, p)
<1>1. n \in Nat /\ Len(b) = n /\ DOMAIN a = 1..n /\ DOMAIN b = 1..n
  BY DEF SameShape, Lines
<1> HIDE DEF n
<1>2. ASSUME NEW i \in 1..n PROVE Alike2(a[i], b[i])
  <2>0. i \in DOMAIN a /\ i \in DOMAIN b
    BY <1>1
  <2>1. a[i] \in Seq(WordSet) /\ b[i] \in Seq(WordSet) /\ DOMAIN a[i] = DOMAIN b[i]
    <3> HIDE DEF Alike2
    <3> QED
      BY <2>0 DEF Lines, SameShape
  <2>2. Len(a[i]) = Len(b[i])
    <3> HIDE DEF Alike2
    <3> QED
      BY <2>1
  <2>3. ASSUME NEW k \in 1..Len(a[i])
        PROVE  \E p \in Places(a) : a[i][k] = At(a, p) /\ b[i][k] = At(b, p)
    <3>1. k \in DOMAIN a[i] /\ i \in DOMAIN a
      BY <1>1, <2>1
    <3>2. <<i, k>> \in Places(a) /\ At(a, <<i, k>>) = a[i][k] /\ At(b, <<i, k>>) = b[i][k]
      BY <3>1, PlaceFacts DEF At
    <3> QED
      BY <3>2
  <2> QED
    BY <2>1, <2>2, <2>3
<1>3. ASSUME NEW s, NEW t, NEW u, NEW v, Alike2(s, t), Alike2(u, v)
      PROVE  Alike2(s \o u, t \o v)
  <2>1. /\ s \o u \in Seq(WordSet) /\ t \o v \in Seq(WordSet)
        /\ Len(s \o u) = Len(s) + Len(u) /\ Len(t \o v) = Len(s) + Len(u)
    <3>1. /\ s \in Seq(WordSet) /\ t \in Seq(WordSet) /\ Len(s) = Len(t)
          /\ u \in Seq(WordSet) /\ v \in Seq(WordSet) /\ Len(u) = Len(v)
      BY <1>3
    <3> HIDE DEF Alike2
    <3> QED
      BY <3>1
  <2>2. ASSUME NEW k \in 1..Len(s \o u)
        PROVE  \E p \in Places(a) : (s \o u)[k] = At(a, p) /\ (t \o v)[k] = At(b, p)
    <3>1. CASE k <= Len(s)
      <4>1. k \in 1..Len(s) /\ (s \o u)[k] = s[k] /\ (t \o v)[k] = t[k]
        BY <1>3, <3>1
      <4> QED
        BY <1>3, <4>1
    <3>2. CASE k > Len(s)
      <4>1. /\ k - Len(s) \in 1..Len(u) /\ (s \o u)[k] = u[k - Len(s)]
            /\ (t \o v)[k] = v[k - Len(s)]
        BY <1>3, <2>1, <3>2
      <4> QED
        BY <1>3, <4>1
    <3> QED
      BY <1>3, <2>1, <3>1, <3>2
  <2> QED
    BY <2>1, <2>2
<1>4. CASE n = 0
  <2>1. FlattenSeq(a) = a /\ FlattenSeq(b) = b /\ a = <<>> /\ b = <<>>
    BY <1>1, <1>4 DEF FlattenSeq, n, Lines
  <2> QED
    BY <2>1
<1>5. CASE n # 0
  <2>1. PICK h : Joined(a, n, h) /\ FlattenSeq(a) = h[n]
    <3>1. \E h : Joined(a, n, h)
      BY <1>1, JoinedExists
    <3> QED
      BY <1>5, <3>1 DEF Joined, FlattenSeq, n
  <2>2. PICK g : Joined(b, n, g) /\ FlattenSeq(b) = g[n]
    <3>1. \E g : Joined(b, n, g)
      BY <1>1, JoinedExists
    <3> QED
      BY <1>1, <1>5, <3>1 DEF Joined, FlattenSeq
  <2>3. \A i \in 1..n : /\ h[i] = IF i = 1 THEN a[i] ELSE h[i - 1] \o a[i]
                        /\ g[i] = IF i = 1 THEN b[i] ELSE g[i - 1] \o b[i]
    BY <2>1, <2>2 DEF Joined
  <2> DEFINE T == {m \in Nat : m \in 1..n => Alike2(h[m], g[m])}
  <2> HIDE DEF Alike2
  <2>4. 0 \in T
    OBVIOUS
  <2>5. ASSUME NEW m \in Nat, m \in T PROVE m + 1 \in T
    <3> SUFFICES ASSUME m + 1 \in 1..n PROVE Alike2(h[m + 1], g[m + 1])
      OBVIOUS
    <3>1. CASE m = 0
      BY <1>2, <2>3, <3>1
    <3>2. CASE m # 0
      <4>1. m \in 1..n /\ Alike2(h[m], g[m]) /\ Alike2(a[m + 1], b[m + 1])
        BY <1>1, <1>2, <2>5, <3>2
      <4>2. h[m + 1] = h[m] \o a[m + 1] /\ g[m + 1] = g[m] \o b[m + 1]
        <5>1. m + 1 # 1 /\ (m + 1) - 1 = m
          BY <3>2
        <5> QED
          BY <2>3, <5>1
      <4> QED
        BY <1>3, <4>1, <4>2
    <3> QED
      BY <3>1, <3>2
  <2> HIDE DEF T
  <2>6. n \in T
    BY <1>1, <2>4, <2>5, NatSetInduction
  <2>7. Alike2(h[n], g[n])
    BY <1>1, <1>5, <2>6 DEF T
  <2> QED
    BY <2>1, <2>2, <2>7 DEF Alike2
<1> QED
  BY <1>4, <1>5

(* A file that was split into tokens starts anew.                            *)
LEMMA SplitFacts ==
  ASSUME NEW lines \in Lines
  PROVE  /\ Split(lines) \in Lines /\ Tokenized(lines) \in Lines
         /\ DOMAIN Split(lines) = DOMAIN FlattenSeq(lines)
         /\ DOMAIN Tokenized(lines) = DOMAIN FlattenSeq(lines)
         /\ \A i \in DOMAIN FlattenSeq(lines) :
              /\ Split(lines)[i] = <<FlattenSeq(lines)[i]>>
              /\ Tokenized(lines)[i] = <<Word(FlattenSeq(lines)[i].name, "end")>>
<1> DEFINE flat == FlattenSeq(lines)
<1>1. flat \in Seq(WordSet)
  BY FlattenFacts DEF SameShape
<1>2. /\ Split(lines) = [i \in DOMAIN flat |-> <<flat[i]>>]
      /\ Tokenized(lines) = [i \in DOMAIN Split(lines) |-> <<Word(Split(lines)[i][1].name, "end")>>]
  BY DEF Split, Tokenized
<1> HIDE DEF flat
<1>3. Len(flat) \in Nat /\ DOMAIN flat = 1..Len(flat) /\ DOMAIN Split(lines) = DOMAIN flat
  BY <1>1, <1>2
<1>4. ASSUME NEW i \in DOMAIN flat
      PROVE  /\ Split(lines)[i] = <<flat[i]>> /\ <<flat[i]>> \in Seq(WordSet)
             /\ Tokenized(lines)[i] = <<Word(flat[i].name, "end")>>
             /\ <<Word(flat[i].name, "end")>> \in Seq(WordSet)
  <2>1. flat[i] \in WordSet
    BY <1>1
  <2>2. Word(flat[i].name, "end") \in WordSet
    BY <2>1 DEF Word, WordSet, Contexts
  <2> QED
    BY <1>2, <1>3, <2>1, <2>2
<1>5. Split(lines) \in [1..Len(flat) -> Seq(WordSet)]
  BY <1>2, <1>3, <1>4
<1>6. Tokenized(lines) \in [1..Len(flat) -> Seq(WordSet)]
  BY <1>2, <1>3, <1>4
<1>7. Split(lines) \in Lines /\ Tokenized(lines) \in Lines
  <2>1. \A g \in [1..Len(flat) -> Seq(WordSet)] : g \in Seq(Seq(WordSet))
    BY <1>3
  <2> QED
    BY <1>5, <1>6, <2>1 DEF Lines
<1> QED
  BY <1>2, <1>3, <1>4, <1>7 DEF flat

LEMMA TokenizedShape ==
  ASSUME NEW now \in Lines, NEW before \in Lines, SameShape(now, before)
  PROVE  SameShape(Tokenized(now), Split(before))
<1>1. /\ FlattenSeq(now) \in Seq(WordSet) /\ FlattenSeq(before) \in Seq(WordSet)
      /\ Len(FlattenSeq(now)) = Len(FlattenSeq(before))
  BY FlattenFacts
<1>2. DOMAIN FlattenSeq(now) = DOMAIN FlattenSeq(before)
  BY <1>1
<1> QED
  BY <1>2, SplitFacts DEF SameShape

LEMMA TokenizedFits ==
  ASSUME NEW now \in Lines, NEW before \in Lines, NEW done, SameShape(now, before),
         Fits(now, before, done)
  PROVE  Fits(Tokenized(now), Split(before), {})
<1> DEFINE flat == FlattenSeq(now)
           old  == FlattenSeq(before)
           t    == Tokenized(now)
           s    == Split(before)
<1>1. /\ flat \in Seq(WordSet) /\ old \in Seq(WordSet) /\ Len(flat) = Len(old)
      /\ \A k \in DOMAIN flat : \E p \in Places(now) :
           flat[k] = At(now, p) /\ old[k] = At(before, p)
  BY FlattenFacts
<1>2. DOMAIN flat = 1..Len(flat) /\ DOMAIN old = DOMAIN flat
  BY <1>1
<1>3. /\ t \in Lines /\ s \in Lines /\ DOMAIN t = DOMAIN flat /\ DOMAIN s = DOMAIN flat
      /\ \A i \in DOMAIN flat : t[i] = <<Word(flat[i].name, "end")>> /\ s[i] = <<old[i]>>
  BY <1>2, SplitFacts
<1> HIDE DEF flat, old, t, s
<1>4. SameShape(t, s)
  BY TokenizedShape DEF t, s
<1>5. TokenFile(t)
  BY <1>3 DEF TokenFile, Word
<1>6. ASSUME NEW p \in Places(t)
      PROVE  \E x \in Places(now) :
               /\ At(s, p).ctx = At(before, x).ctx
               /\ At(Cleaned(t), p).name = At(Cleaned(now), x).name
               /\ At(Cleaned(s), p).name = At(Cleaned(before), x).name
  <2>1. /\ p \in Places(s) /\ p[1] \in DOMAIN t /\ p[2] \in DOMAIN t[p[1]]
        /\ At(t, p) \in WordSet /\ At(s, p) \in WordSet
    BY <1>3, <1>4, PlaceFacts, SamePlaces
  <2>2. p[2] = 1
    BY <1>3, <2>1
  <2>3. At(t, p) = Word(flat[p[1]].name, "end") /\ At(s, p) = old[p[1]]
    BY <1>3, <2>1, <2>2 DEF At
  <2>4. PICK x \in Places(now) : flat[p[1]] = At(now, x) /\ old[p[1]] = At(before, x)
    BY <1>1, <1>3, <2>1
  <2>5. x \in Places(before) /\ At(now, x) \in WordSet /\ At(before, x) \in WordSet
    BY PlaceFacts, SamePlaces
  <2>6. At(t, p).name = At(now, x).name /\ At(s, p) = At(before, x)
    BY <2>3, <2>4 DEF Word
  <2>7. /\ At(Cleaned(t), p) = IF At(t, p).name[1] = "hex"
                               THEN [At(t, p) EXCEPT !.name = <<"HEX", 0>>] ELSE At(t, p)
        /\ At(Cleaned(now), x) = IF At(now, x).name[1] = "hex"
                                 THEN [At(now, x) EXCEPT !.name = <<"HEX", 0>>] ELSE At(now, x)
        /\ At(Cleaned(s), p) = IF At(s, p).name[1] = "hex"
                               THEN [At(s, p) EXCEPT !.name = <<"HEX", 0>>] ELSE At(s, p)
        /\ At(Cleaned(before), x) =
             IF At(before, x).name[1] = "hex"
             THEN [At(before, x) EXCEPT !.name = <<"HEX", 0>>] ELSE At(before, x)
    BY <1>3, <2>1, <2>5, CleanedFacts
  <2>8. /\ At(Cleaned(t), p).name = IF At(t, p).name[1] = "hex" THEN <<"HEX", 0>> ELSE At(t, p).name
        /\ At(Cleaned(now), x).name =
             IF At(now, x).name[1] = "hex" THEN <<"HEX", 0>> ELSE At(now, x).name
    BY <2>1, <2>5, <2>7 DEF WordSet
  <2> QED
    BY <2>6, <2>7, <2>8
<1>7. Apart(t, s)
  <2> SUFFICES ASSUME NEW p \in Places(t), NEW q \in Places(t),
                      At(s, p).ctx = At(s, q).ctx, At(s, p).ctx \in {"call", "end"}
               PROVE  At(Cleaned(t), p).name = At(Cleaned(t), q).name
                        <=> At(Cleaned(s), p).name = At(Cleaned(s), q).name
    BY DEF Apart
  <2>1. PICK x \in Places(now) : /\ At(s, p).ctx = At(before, x).ctx
                                 /\ At(Cleaned(t), p).name = At(Cleaned(now), x).name
                                 /\ At(Cleaned(s), p).name = At(Cleaned(before), x).name
    BY <1>6
  <2>2. PICK y \in Places(now) : /\ At(s, q).ctx = At(before, y).ctx
                                 /\ At(Cleaned(t), q).name = At(Cleaned(now), y).name
                                 /\ At(Cleaned(s), q).name = At(Cleaned(before), y).name
    BY <1>6
  <2>3. At(Cleaned(now), x).name = At(Cleaned(now), y).name
          <=> At(Cleaned(before), x).name = At(Cleaned(before), y).name
    BY <2>1, <2>2 DEF Fits, Apart
  <2> QED
    BY <2>1, <2>2, <2>3
<1> QED
  BY <1>5, <1>7 DEF Fits, t, s
-------------------------------------------------------------------------------
(* At the beginning there are only original names.                           *)
LEMMA SourceFacts ==
  ASSUME NEW f \in Files
  PROVE  /\ Sources[f] \in Lines
         /\ \A p \in Places(Sources[f]) : At(Sources[f], p).name[1] \notin {"FUN", "VAR"}
<1>1. Sources[f] \in Seq(Seq(Original))
  BY TokensAssumption
<1>2. \A w \in Original : w \in WordSet /\ w.name[1] \notin {"FUN", "VAR"}
  BY DEF Original, WordSet, Tags
<1>3. \A i \in DOMAIN Sources[f] : Sources[f][i] \in Seq(Original)
  BY <1>1
<1>4. ASSUME NEW i \in DOMAIN Sources[f] PROVE Sources[f][i] \in Seq(WordSet)
  <2>1. Sources[f][i] \in Seq(Original)
    BY <1>3
  <2> HIDE DEF WordSet
  <2> QED
    BY <1>2, <2>1
<1>5. Sources[f] \in Lines
  <2>1. Len(Sources[f]) \in Nat /\ DOMAIN Sources[f] = 1..Len(Sources[f])
    BY <1>1
  <2>2. Sources[f] = [i \in 1..Len(Sources[f]) |-> Sources[f][i]]
    BY <1>1
  <2>3. Sources[f] \in [1..Len(Sources[f]) -> Seq(WordSet)]
    BY <1>4, <2>1, <2>2
  <2>4. \A g \in [1..Len(Sources[f]) -> Seq(WordSet)] : g \in Seq(Seq(WordSet))
    BY <2>1
  <2> QED
    BY <2>3, <2>4 DEF Lines
<1>6. ASSUME NEW p \in Places(Sources[f])
      PROVE  At(Sources[f], p).name[1] \notin {"FUN", "VAR"}
  <2>1. p[1] \in DOMAIN Sources[f] /\ p[2] \in DOMAIN Sources[f][p[1]]
    BY <1>5, PlaceFacts
  <2>2. Sources[f][p[1]] \in Seq(Original)
    BY <1>3, <2>1
  <2>3. Sources[f][p[1]][p[2]] \in Original
    BY <2>1, <2>2
  <2> QED
    BY <1>2, <2>3 DEF At
<1> QED
  BY <1>5, <1>6

LEMMA InitInv == Init => IInv
<1> SUFFICES ASSUME Init PROVE IInv
  OBVIOUS
<1> USE DEF Init
<1>1. Types
  <2>1. Sources \in [Files -> Lines]
    BY TokensAssumption, SourceFacts
  <2>2. DOMAIN csv = Paths
    OBVIOUS
  <2> QED
    BY <2>1, <2>2 DEF Types, Idle, Renamers, SameShape
<1>2. NamesInv
  <2> SUFFICES ASSUME NEW f \in Files PROVE Fits(Sources[f], Sources[f], {})
    BY DEF NamesInv
  <2>1. Code(Sources[f], Sources[f], {})
    BY SourceFacts DEF Code, Prefix
  <2> QED
    BY <2>1 DEF Fits, Apart
<1>3. VectorInv
  BY DEF VectorInv, Idle
<1> QED
  BY <1>1, <1>2, <1>3 DEF IInv

LEMMA StartTypes ==
  ASSUME Types, UNCHANGED <<text, origin, renamed, csv>>, last' = Idle,
         op' = [kind |-> op'.kind, of |-> op'.of, todo |-> op'.todo, batch |-> op'.batch],
         op'.kind \in Renamers \union {"tokenize"} => op'.todo \subseteq Files
  PROVE  Types'
BY DEF Types, Idle

LEMMA NextTypes ==
  ASSUME IInv, [Next]_vars
  PROVE  Types'
<1>0. Types
  BY DEF IInv
<1> USE DEF Renamers
<1>1. CASE StartFiles
  <2>1. PICK kind \in Renamers \union {"tokenize"} : op' = [Idle EXCEPT !.kind = kind, !.todo = Files]
    BY <1>1 DEF StartFiles, Start
  <2>2. op' = [kind |-> kind, of |-> "none", todo |-> Files, batch |-> <<>>]
    BY <2>1 DEF Idle
  <2> QED
    BY <1>0, <1>1, <2>2, StartTypes DEF StartFiles, Start
<1>2. CASE RenameFile
  <2>1. PICK f \in op.todo :
          /\ text' = [text EXCEPT ![f] = RenamedLines(op.kind, f)]
          /\ renamed' = [renamed EXCEPT ![f] = @ \union {op.kind}]
          /\ op' = [op EXCEPT !.todo = @ \ {f}]
    BY <1>2 DEF RenameFile
  <2>2. f \in Files /\ text[f] \in Lines /\ op.kind \in Renamers
    BY <1>0, <1>2 DEF Types, RenameFile
  <2>3. RenamedLines(op.kind, f) \in Lines /\ SameShape(RenamedLines(op.kind, f), origin[f])
    BY <1>0, <2>2, RenamedShape DEF Types, SameShape
  <2>4. /\ text' \in [Files -> Lines] /\ renamed' \in [Files -> SUBSET Renamers]
        /\ \A g \in Files : SameShape(text'[g], origin[g])
    BY <1>0, <2>1, <2>2, <2>3 DEF Types
  <2>5. op' = [kind |-> op.kind, of |-> op.of, todo |-> op.todo \ {f}, batch |-> op.batch]
    BY <1>0, <2>1 DEF Types
  <2> QED
    BY <1>0, <1>2, <2>4, <2>5 DEF Types, RenameFile
<1>3. CASE TokenizeFile
  <2>1. PICK f \in op.todo :
          /\ text' = [text EXCEPT ![f] = Tokenized(@)]
          /\ origin' = [origin EXCEPT ![f] = Split(@)]
          /\ renamed' = [renamed EXCEPT ![f] = {}]
          /\ op' = [op EXCEPT !.todo = @ \ {f}]
    BY <1>3 DEF TokenizeFile
  <2>2. f \in Files /\ text[f] \in Lines /\ origin[f] \in Lines /\ SameShape(text[f], origin[f])
    BY <1>0, <1>3 DEF Types, TokenizeFile
  <2>3. /\ Tokenized(text[f]) \in Lines /\ Split(origin[f]) \in Lines
        /\ SameShape(Tokenized(text[f]), Split(origin[f]))
    BY <2>2, SplitFacts, TokenizedShape
  <2>4. /\ text' \in [Files -> Lines] /\ origin' \in [Files -> Lines]
        /\ \A g \in Files : SameShape(text'[g], origin'[g])
        /\ renamed' \in [Files -> SUBSET Renamers]
    BY <1>0, <2>1, <2>2, <2>3 DEF Types
  <2>5. op' = [kind |-> op.kind, of |-> op.of, todo |-> op.todo \ {f}, batch |-> op.batch]
    BY <1>0, <2>1 DEF Types
  <2> QED
    BY <1>0, <1>3, <2>4, <2>5 DEF Types, TokenizeFile
<1>4. CASE EndFiles
  BY <1>0, <1>4 DEF EndFiles, Ends, Types, Idle
<1>5. CASE CutLine
  <2>1. PICK f \in Files :
          /\ Len(text[f]) > 1
          /\ text' = [text EXCEPT ![f] = Tail(@)]
          /\ origin' = [origin EXCEPT ![f] = Tail(@)]
          /\ renamed' = [renamed EXCEPT ![f] = {}]
    BY <1>5 DEF CutLine
  <2>2. text[f] \in Lines /\ origin[f] \in Lines /\ SameShape(text[f], origin[f])
    BY <1>0 DEF Types
  <2>3. /\ Tail(text[f]) \in Lines /\ Tail(origin[f]) \in Lines
        /\ SameShape(Tail(text[f]), Tail(origin[f]))
    BY <2>1, <2>2, CutShape
  <2>4. /\ text' \in [Files -> Lines] /\ origin' \in [Files -> Lines]
        /\ \A g \in Files : SameShape(text'[g], origin'[g])
        /\ renamed' \in [Files -> SUBSET Renamers]
    BY <1>0, <2>1, <2>3 DEF Types
  <2> QED
    BY <1>0, <1>5, <2>4 DEF Types, CutLine
<1>6. CASE StartTraining
  <2>1. PICK kind \in Kinds : op' = [Idle EXCEPT !.kind = "train", !.of = kind]
    BY <1>6 DEF StartTraining, Start
  <2>2. op' = [kind |-> "train", of |-> kind, todo |-> {}, batch |-> <<>>]
    BY <2>1 DEF Idle
  <2> QED
    BY <1>0, <1>6, <2>2, StartTypes DEF StartTraining, Start
<1>7. CASE Train
  BY <1>0, <1>7 DEF Train, Ends, Fails, Types, Idle
<1>8. CASE StartEmbedding
  <2>1. PICK kind \in Kinds, length \in Lengths : op' = [Idle EXCEPT !.kind = "embed", !.of = kind, !.todo = ToSave(kind, length)]
    BY <1>8 DEF StartEmbedding, Start
  <2>2. op' = [kind |-> "embed", of |-> kind, todo |-> ToSave(kind, length), batch |-> <<>>]
    BY <2>1 DEF Idle
  <2> QED
    BY <1>0, <1>8, <2>2, StartTypes DEF StartEmbedding, Start
<1>9. CASE SaveDataframe
  <2>1. PICK v \in op.todo : /\ csv' = [csv EXCEPT ![v.path] = v]
                             /\ op' = [op EXCEPT !.todo = @ \ {v}]
    BY <1>9 DEF SaveDataframe
  <2>2. op' = [kind |-> op.kind, of |-> op.of, todo |-> op.todo \ {v}, batch |-> op.batch]
    BY <1>0, <2>1 DEF Types
  <2>3. DOMAIN csv' = Paths
    BY <1>0, <2>1 DEF Types
  <2> QED
    BY <1>0, <1>9, <2>2, <2>3 DEF Types, SaveDataframe
<1>10. CASE StopSaving
  <2>1. DOMAIN csv' = DOMAIN csv
    BY <1>10 DEF StopSaving
  <2> QED
    BY <1>0, <1>10, <2>1 DEF Types, StopSaving, Fails, Idle
<1>11. CASE EndEmbedding
  BY <1>0, <1>11 DEF EndEmbedding, Ends, Types, Idle
<1>12. CASE StartClassifier
  <2>1. PICK b : op' = [Idle EXCEPT !.kind = "classify", !.batch = b]
    BY <1>12 DEF StartClassifier, Start
  <2>2. op' = [kind |-> "classify", of |-> "none", todo |-> {}, batch |-> b]
    BY <2>1 DEF Idle
  <2> QED
    BY <1>0, <1>12, <2>2, StartTypes DEF StartClassifier, Start
<1>13. CASE EndClassifier
  BY <1>0, <1>13 DEF EndClassifier, Ends, Types, Idle
<1>14. CASE Stop
  BY <1>0, <1>14 DEF Stop, Fails, Types, Idle
<1>15. CASE UNCHANGED vars
  BY <1>0, <1>15 DEF vars, Types
<1> QED
  BY <1>1, <1>2, <1>3, <1>4, <1>5, <1>6, <1>7, <1>8, <1>9, <1>10, <1>11, <1>12, <1>13, <1>14,
     <1>15 DEF Next

LEMMA NextNames ==
  ASSUME IInv, [Next]_vars
  PROVE  NamesInv'
<1>0. Types /\ NamesInv
  BY DEF IInv
<1>1. CASE RenameFile
  <2>1. PICK f \in op.todo :
          /\ text' = [text EXCEPT ![f] = RenamedLines(op.kind, f)]
          /\ renamed' = [renamed EXCEPT ![f] = @ \union {op.kind}]
    BY <1>1 DEF RenameFile
  <2>2. op.kind \in Renamers /\ f \in Files /\ origin' = origin /\ cut' = cut
    BY <1>0, <1>1 DEF RenameFile, Types
  <2>3. /\ text[f] \in Lines /\ origin[f] \in Lines /\ renamed[f] \in SUBSET Renamers
        /\ text'[f] = RenamedLines(op.kind, f) /\ renamed'[f] = renamed[f] \union {op.kind}
        /\ \A g \in Files \ {f} : text'[g] = text[g] /\ renamed'[g] = renamed[g]
    BY <1>0, <2>1, <2>2 DEF Types
  <2>4. f \notin cut => Fits(text'[f], origin'[f], renamed'[f])
    BY <1>0, <2>2, <2>3, RenamedFits DEF NamesInv
  <2>5. ASSUME NEW g \in Files \ cut, g # f PROVE Fits(text'[g], origin'[g], renamed'[g])
    BY <1>0, <2>2, <2>3, <2>5 DEF NamesInv
  <2> QED
    BY <2>2, <2>4, <2>5 DEF NamesInv
<1>2. CASE TokenizeFile
  <2>1. PICK f \in op.todo :
          /\ text' = [text EXCEPT ![f] = Tokenized(@)]
          /\ origin' = [origin EXCEPT ![f] = Split(@)]
          /\ renamed' = [renamed EXCEPT ![f] = {}]
    BY <1>2 DEF TokenizeFile
  <2>2. f \in Files /\ cut' = cut
    BY <1>0, <1>2 DEF TokenizeFile, Types
  <2>3. /\ text[f] \in Lines /\ origin[f] \in Lines
        /\ SameShape(text[f], origin[f])
        /\ text'[f] = Tokenized(text[f]) /\ origin'[f] = Split(origin[f]) /\ renamed'[f] = {}
        /\ \A g \in Files \ {f} :
             text'[g] = text[g] /\ origin'[g] = origin[g] /\ renamed'[g] = renamed[g]
    BY <1>0, <2>1, <2>2 DEF Types
  <2>4. f \notin cut => Fits(text'[f], origin'[f], renamed'[f])
    BY <1>0, <2>2, <2>3, TokenizedFits DEF NamesInv
  <2>5. ASSUME NEW g \in Files \ cut, g # f PROVE Fits(text'[g], origin'[g], renamed'[g])
    BY <1>0, <2>3, <2>5 DEF NamesInv
  <2> QED
    BY <2>2, <2>4, <2>5 DEF NamesInv
<1>3. CASE CutLine
  <2>1. PICK f \in Files :
          /\ Len(text[f]) > 1
          /\ text' = [text EXCEPT ![f] = Tail(@)]
          /\ origin' = [origin EXCEPT ![f] = Tail(@)]
          /\ cut' = IF renamed[f] = {} THEN cut ELSE cut \union {f}
          /\ renamed' = [renamed EXCEPT ![f] = {}]
    BY <1>3 DEF CutLine
  <2>2. /\ text[f] \in Lines /\ origin[f] \in Lines
        /\ SameShape(text[f], origin[f])
        /\ text'[f] = Tail(text[f]) /\ origin'[f] = Tail(origin[f]) /\ renamed'[f] = {}
        /\ \A g \in Files \ {f} :
             text'[g] = text[g] /\ origin'[g] = origin[g] /\ renamed'[g] = renamed[g]
    BY <1>0, <2>1 DEF Types
  <2>3. cut \subseteq cut' /\ (f \notin cut' => renamed[f] = {})
    BY <2>1
  <2>4. f \notin cut' => Fits(text'[f], origin'[f], renamed'[f])
    BY <1>0, <2>1, <2>2, <2>3, CutFits DEF NamesInv
  <2>5. ASSUME NEW g \in Files \ cut', g # f PROVE Fits(text'[g], origin'[g], renamed'[g])
    BY <1>0, <2>2, <2>3, <2>5 DEF NamesInv
  <2> QED
    BY <2>4, <2>5 DEF NamesInv
<1>4. CASE UNCHANGED <<text, origin, renamed, cut>>
  BY <1>0, <1>4 DEF NamesInv
<1>5. \/ RenameFile \/ TokenizeFile \/ CutLine \/ UNCHANGED <<text, origin, renamed, cut>>
  BY DEF Next, StartFiles, EndFiles, StartTraining, Train, StartEmbedding, SaveDataframe,
         StopSaving, EndEmbedding, StartClassifier, EndClassifier, Stop, vars
<1> QED
  BY <1>1, <1>2, <1>3, <1>4, <1>5
-------------------------------------------------------------------------------
(* The first tokens of a document are tokens of it.                          *)
LEMMA CutOffFacts ==
  ASSUME NEW tokens, Len(tokens) \in Nat, DOMAIN tokens = 1..Len(tokens), NEW length \in Nat
  PROVE  ToSet(CutOff(tokens, length)) \subseteq ToSet(tokens)
<1> DEFINE m == Min({Len(tokens), length})
<1>1. m \in Nat /\ m <= Len(tokens)
  <2>1. \E x \in {Len(tokens), length} : \A y \in {Len(tokens), length} : x <= y
    OBVIOUS
  <2> QED
    BY <2>1 DEF Min
<1> HIDE DEF m
<1>2. CutOff(tokens, length) = [i \in 1..m |-> tokens[i]]
  <2>1. SubSeq(tokens, 1, m) = [i \in 1..m |-> tokens[i]]
    BY <1>1
  <2> QED
    BY <2>1 DEF CutOff, m
<1> QED
  BY <1>1, <1>2 DEF ToSet

LEMMA WordDocFacts ==
  ASSUME Types, NEW d \in WordDocs
  PROVE  Len(d.tokens) \in Nat /\ DOMAIN d.tokens = 1..Len(d.tokens) /\ d.path \in Paths
<1>1. PICK f \in Files : d = [path |-> Stem[f], tokens |-> text[f]]
  BY DEF WordDocs
<1>2. text[f] \in Lines
  BY DEF Types
<1> QED
  BY <1>1, <1>2 DEF Lines, Paths

LEMMA NextVectors ==
  ASSUME IInv, [Next]_vars
  PROVE  VectorInv'
<1>0. Types /\ VectorInv
  BY DEF IInv
<1>1. (op'.kind # "embed" /\ last'.kind # "embed") => VectorInv'
  BY DEF VectorInv
<1>2. CASE StartFiles
  <2>1. PICK kind \in Renamers \union {"tokenize"} : op' = [Idle EXCEPT !.kind = kind, !.todo = Files]
    BY <1>2 DEF StartFiles, Start
  <2>2. op'.kind # "embed"
    BY <2>1 DEF Idle, Renamers
  <2> QED
    BY <1>1, <1>2, <2>2 DEF StartFiles, Start, Idle
<1>3. CASE RenameFile
  <2>1. op'.kind = op.kind /\ last' = last
    BY <1>0, <1>3 DEF RenameFile, Types
  <2>2. op.kind \notin {"none", "embed"}
    BY <1>3 DEF RenameFile, Renamers
  <2> QED
    BY <1>0, <1>1, <2>1, <2>2 DEF Types
<1>4. CASE TokenizeFile
  <2>1. op'.kind = op.kind /\ last' = last
    BY <1>0, <1>4 DEF TokenizeFile, Types
  <2>2. op.kind \notin {"none", "embed"}
    BY <1>4 DEF TokenizeFile
  <2> QED
    BY <1>0, <1>1, <2>1, <2>2 DEF Types
<1>5. CASE EndFiles \/ EndClassifier
  <2>1. op' = Idle /\ last'.kind = op.kind
    BY <1>0, <1>5 DEF EndFiles, EndClassifier, Ends, Types
  <2>2. op.kind # "embed"
    BY <1>5 DEF EndFiles, EndClassifier, Renamers
  <2> QED
    BY <1>1, <2>1, <2>2 DEF Idle
<1>6. CASE CutLine
  BY <1>1, <1>6 DEF CutLine, Idle
<1>7. CASE StartTraining
  <2>1. PICK kind \in Kinds : op' = [Idle EXCEPT !.kind = "train", !.of = kind]
    BY <1>7 DEF StartTraining, Start
  <2>2. op'.kind # "embed"
    BY <2>1 DEF Idle
  <2> QED
    BY <1>1, <1>7, <2>2 DEF StartTraining, Start, Idle
<1>8. CASE Train
  <2>1. op' = Idle /\ last'.kind \in {op.kind, "none"} /\ op.kind = "train"
    BY <1>0, <1>8 DEF Train, Ends, Fails, Types, Idle
  <2> QED
    BY <1>1, <2>1 DEF Idle
<1>9. CASE StartEmbedding
  <2>1. PICK kind \in Kinds, length \in Lengths :
          op' = [Idle EXCEPT !.kind = "embed", !.of = kind, !.todo = ToSave(kind, length)]
    BY <1>9 DEF StartEmbedding, Start
  <2>2. op'.kind = "embed" /\ op'.of = kind /\ op'.todo = ToSave(kind, length)
    BY <2>1 DEF Idle
  <2>3. last'.kind = "none" /\ UNCHANGED <<text, csv>> /\ WordDocs' = WordDocs
    BY <1>9 DEF StartEmbedding, Start, Idle, WordDocs
  <2>4. model' = model
    BY <1>9 DEF StartEmbedding
  <2> SUFFICES ASSUME kind = "word2vec"
               PROVE  /\ op'.todo \subseteq {Vectorize(d, length)' : d \in WordDocs}
                      /\ \A d \in WordDocs : Known(d)' => Vectorize(d, length)' \in op'.todo
    BY <2>2, <2>3 DEF VectorInv
  <2>5. ToSave(kind, length) = {Vectorize(d, length) : d \in {x \in WordDocs :
             ToSet(CutOff(x.tokens, length)) \subseteq model.vocabulary}}
    BY DEF ToSave, Docs
  <2>6. \A d : Vectorize(d, length)' = Vectorize(d, length) /\ Known(d)' = Known(d)
    BY <2>4 DEF Vectorize, Known
  <2>7. ASSUME NEW d \in WordDocs, Known(d)
        PROVE  ToSet(CutOff(d.tokens, length)) \subseteq model.vocabulary
    <3>1. ToSet(CutOff(d.tokens, length)) \subseteq ToSet(d.tokens)
      BY <1>0, WordDocFacts, CutOffFacts, TokensAssumption
    <3> QED
      BY <2>7, <3>1 DEF Known
  <2> QED
    BY <2>2, <2>5, <2>6, <2>7
<1>10. CASE SaveDataframe
  <2>1. PICK v \in op.todo : /\ csv' = [csv EXCEPT ![v.path] = v]
                             /\ op' = [op EXCEPT !.todo = @ \ {v}]
    BY <1>10 DEF SaveDataframe
  <2>2. /\ op.kind = "embed" /\ last.kind = "none" /\ last' = last /\ text' = text /\ model' = model
        /\ op'.kind = op.kind /\ op'.of = op.of /\ op'.todo = op.todo \ {v}
    BY <1>0, <1>10, <2>1 DEF SaveDataframe, Types
  <2>3. CASE op.of # "word2vec"
    BY <2>2, <2>3 DEF VectorInv
  <2>4. CASE op.of = "word2vec"
    <3>1. PICK length \in Lengths :
            /\ op.todo \subseteq {Vectorize(d, length) : d \in WordDocs}
            /\ \A d \in WordDocs : Known(d) => Vectorize(d, length) \in op.todo \/ Given(d, length)
      BY <1>0, <2>2, <2>4 DEF VectorInv
    <3>2. /\ WordDocs' = WordDocs
          /\ \A d : Vectorize(d, length)' = Vectorize(d, length) /\ Known(d)' = Known(d)
      BY <2>2 DEF WordDocs, Vectorize, Known
    <3>3. PICK e \in WordDocs : v = Vectorize(e, length)
      BY <3>1
    <3>4. v.path = e.path /\ e.path \in DOMAIN csv
      BY <1>0, <3>3, WordDocFacts DEF Vectorize, Types
    <3>5. csv'[e.path] = v /\ \A p \in DOMAIN csv : p # e.path => csv'[p] = csv[p]
      BY <2>1, <3>4
    <3>6. \A d \in WordDocs : d.path = e.path => Given(d, length)'
      BY <3>2, <3>3, <3>5 DEF Given
    <3>7. ASSUME NEW d \in WordDocs, Given(d, length) PROVE Given(d, length)'
      <4>1. d.path \in DOMAIN csv
        BY <1>0, WordDocFacts DEF Types
      <4> QED
        BY <3>2, <3>5, <3>6, <3>7, <4>1 DEF Given
    <3>8. ASSUME NEW d \in WordDocs, Known(d)
          PROVE  Vectorize(d, length) \in op'.todo \/ Given(d, length)'
      <4>1. CASE Vectorize(d, length) = v
        <5>1. d.path = e.path
          BY <3>3, <4>1 DEF Vectorize
        <5> QED
          BY <3>6, <5>1
      <4>2. CASE Vectorize(d, length) # v
        BY <2>2, <3>1, <3>7, <3>8, <4>2
      <4> QED
        BY <4>1, <4>2
    <3>9. op'.todo \subseteq {Vectorize(d, length) : d \in WordDocs}
      BY <2>2, <3>1
    <3> QED
      BY <2>2, <3>2, <3>8, <3>9 DEF VectorInv
  <2> QED
    BY <2>3, <2>4
<1>11. CASE StopSaving \/ Stop
  BY <1>1, <1>11 DEF StopSaving, Stop, Fails, Idle
<1>12. CASE EndEmbedding
  <2>1. /\ op.kind = "embed" /\ op.todo = {} /\ op' = Idle /\ UNCHANGED <<text, model, csv>>
        /\ last'.kind = op.kind /\ last'.of = op.of
    BY <1>0, <1>12 DEF EndEmbedding, Ends, Types
  <2>2. op'.kind # "embed"
    BY <2>1 DEF Idle
  <2> SUFFICES ASSUME op.of = "word2vec"
               PROVE  \E length \in Lengths : \A d \in WordDocs' : Known(d)' => Given(d, length)'
    BY <2>1, <2>2 DEF VectorInv
  <2>3. PICK length \in Lengths : \A d \in WordDocs : Known(d) => Given(d, length)
    BY <1>0, <2>1 DEF VectorInv
  <2>4. /\ WordDocs' = WordDocs
        /\ \A d : Vectorize(d, length)' = Vectorize(d, length) /\ Known(d)' = Known(d)
    BY <2>1 DEF WordDocs, Vectorize, Known
  <2>5. \A d : Given(d, length) => Given(d, length)'
    BY <2>1, <2>4 DEF Given
  <2> QED
    BY <2>3, <2>4, <2>5
<1>13. CASE StartClassifier
  <2>1. PICK b : op' = [Idle EXCEPT !.kind = "classify", !.batch = b]
    BY <1>13 DEF StartClassifier, Start
  <2>2. op'.kind # "embed"
    BY <2>1 DEF Idle
  <2> QED
    BY <1>1, <1>13, <2>2 DEF StartClassifier, Start, Idle
<1>14. CASE UNCHANGED vars
  <2>1. UNCHANGED <<text, model, csv, op, last>>
    BY <1>14 DEF vars
  <2>2. /\ WordDocs' = WordDocs
        /\ \A d, length : Vectorize(d, length)' = Vectorize(d, length)
        /\ \A d : Known(d)' = Known(d)
    BY <2>1 DEF WordDocs, Vectorize, Known
  <2>3. \A d, length : Given(d, length)' = Given(d, length)
    BY <2>1, <2>2 DEF Given
  <2> QED
    BY <1>0, <2>1, <2>2, <2>3 DEF VectorInv
<1> QED
  BY <1>2, <1>3, <1>4, <1>5, <1>6, <1>7, <1>8, <1>9, <1>10, <1>11, <1>12, <1>13, <1>14 DEF Next
-------------------------------------------------------------------------------
(* Every step keeps the words in their places, the names of a file apart and *)
(* numbered, and the embeddings those of the documents (all operations of    *)
(* tokenizers and of features/extraction).                                   *)
THEOREM Inductive == Spec => []IInv
<1>1. Init => IInv
  BY InitInv
<1>2. IInv /\ [Next]_vars => IInv'
  BY NextTypes, NextNames, NextVectors DEF IInv
<1> QED
  BY <1>1, <1>2, PTL DEF Spec

(* In whatever order files are renamed, split into tokens and cut, and       *)
(* wherever the programs stop: two calls, or two variables, of a file have   *)
(* the same name exactly if they had before (replace_functions.py,           *)
(* replace_variables.py).                                                    *)
THEOREM NamesAreApart == Spec => []NamesStayApart
<1>1. ASSUME IInv PROVE NamesStayApart
  <2> SUFFICES ASSUME NEW f \in Files \ cut, NEW p \in Places(Cleaned(text[f])),
                      NEW q \in Places(Cleaned(text[f])),
                      At(Cleaned(origin[f]), p).ctx \in {"call", "end"},
                      At(Cleaned(origin[f]), p).ctx = At(Cleaned(origin[f]), q).ctx
               PROVE  At(Cleaned(origin[f]), p).name = At(Cleaned(origin[f]), q).name
                        <=> At(Cleaned(text[f]), p).name = At(Cleaned(text[f]), q).name
    BY DEF NamesStayApart
  <2>1. /\ text[f] \in Lines /\ origin[f] \in Lines /\ SameShape(text[f], origin[f])
        /\ Apart(text[f], origin[f])
    BY <1>1 DEF IInv, Types, NamesInv, Fits
  <2>2. /\ p \in Places(text[f]) /\ q \in Places(text[f])
        /\ p \in Places(origin[f]) /\ q \in Places(origin[f])
    BY <2>1, CleanedFacts, SamePlaces
  <2>3. /\ At(Cleaned(origin[f]), p).ctx = At(origin[f], p).ctx
        /\ At(Cleaned(origin[f]), q).ctx = At(origin[f], q).ctx
    BY <2>1, <2>2, CleanedWords
  <2> QED
    BY <2>1, <2>2, <2>3 DEF Apart
<1> QED
  BY <1>1, Inductive, PTL

(* A file that was renamed, and neither split nor cut since, is left as it   *)
(* is by the next run of the renaming (process_file of replace_functions.py  *)
(* and replace_variables.py), so a run that was stopped can be repeated.     *)
THEOREM RenamingIsSettled == Spec => RenamingSettles
<1>1. ASSUME IInv, [Next]_vars, NEW f \in Files \ cut, op.kind \in Renamers, f \in op.todo,
             f \notin op'.todo, op.kind \in renamed[f]
      PROVE  text'[f] = text[f]
  <2>1. text[f] \in Lines /\ Settled(op.kind, text[f])
    BY <1>1 DEF IInv, Types, NamesInv, Fits
  <2>2. RenamedLines(op.kind, f) = text[f]
    BY <1>1, <2>1, RenamedAgain
  <2>3. CASE RenameFile
    <3>1. PICK g \in op.todo : text' = [text EXCEPT ![g] = RenamedLines(op.kind, g)]
      BY <2>3 DEF RenameFile
    <3>2. f \in DOMAIN text
      BY <1>1 DEF IInv, Types
    <3> QED
      BY <2>2, <3>1, <3>2
  <2>4. CASE text' = text
    BY <2>4
  <2>5. RenameFile \/ text' = text
    <3>1. ~TokenizeFile /\ ~CutLine
      BY <1>1 DEF TokenizeFile, CutLine, Renamers
    <3> QED
      BY <1>1, <3>1 DEF Next, StartFiles, EndFiles, StartTraining, Train, StartEmbedding,
         SaveDataframe, StopSaving, EndEmbedding, StartClassifier, EndClassifier, Stop, vars
  <2> QED
    BY <2>3, <2>4, <2>5
<1>2. IInv /\ [Next]_vars =>
        [\A f \in Files \ cut :
           op.kind \in Renamers /\ f \in op.todo /\ f \notin op'.todo /\ op.kind \in renamed[f]
             => text'[f] = text[f]]_vars
  BY <1>1
<1> QED
  BY <1>2, Inductive, PTL DEF Spec, RenamingSettles

(* After embeddings that ended well, with a model that knows every token of  *)
(* the present files: each file's vectors, or those of a file with the same  *)
(* path, were saved by this model (word2vec/embeddings.py).                  *)
THEOREM VectorsAreCurrent == Spec => []VectorsCurrent
<1>1. ASSUME IInv PROVE VectorsCurrent
  <2> SUFFICES ASSUME last.kind = "embed", last.of = "word2vec",
                      \A d \in WordDocs : ToSet(d.tokens) \subseteq model.vocabulary,
                      NEW f \in Files
               PROVE  \E d \in WordDocs, length \in Lengths :
                        d.path = Stem[f] /\ csv[Stem[f]] = Vectorize(d, length)
    BY DEF VectorsCurrent
  <2>1. PICK length \in Lengths : \A d \in WordDocs : Known(d) => Given(d, length)
    BY <1>1 DEF IInv, VectorInv
  <2> DEFINE own == [path |-> Stem[f], tokens |-> text[f]]
  <2>2. own \in WordDocs /\ own.path = Stem[f]
    BY DEF WordDocs
  <2> HIDE DEF own
  <2>3. Given(own, length)
    BY <2>1, <2>2 DEF Known
  <2>4. PICK e \in WordDocs : e.path = Stem[f] /\ csv[Stem[f]] = Vectorize(e, length)
    BY <2>2, <2>3 DEF Given
  <2> QED
    BY <2>4
<1> QED
  BY <1>1, Inductive, PTL
===============================================================================
