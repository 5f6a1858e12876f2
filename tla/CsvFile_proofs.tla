--------------------------- MODULE CsvFile_proofs ---------------------------
(***************************************************************************)
(* Proofs about CsvFile: whatever crashes left behind, a running service   *)
(* writes below one header, and what it flushed stays, for any number of   *)
(* bands, views and crashes.  The first part is about FlattenSeq and Keep, *)
(* by induction in the form that speaks of sets of naturals.               *)
(***************************************************************************)
EXTENDS CsvFile, WellFoundedInduction, TLAPS

LessThan == {ss \in Nat \X Nat : ss[1] < ss[2]}

\* A set that holds 0 and the successor of every element is all of Nat.
LEMMA AllNaturals ==
    ASSUME NEW T \in SUBSET Nat, 0 \in T, \A n \in T : n + 1 \in T
    PROVE  T = Nat
<1>1. SUFFICES ASSUME Nat \ T # {} PROVE FALSE
  OBVIOUS
<1>2. IsWellFoundedOn(LessThan, Nat)
  BY NatLessThanWellFounded DEF OpToRel, LessThan
<1>3. PICK x \in Nat \ T : \A y \in Nat \ T : <<y, x>> \notin LessThan
  BY <1>1, <1>2, WFMin
<1>4. x # 0 /\ x - 1 \in Nat
  OBVIOUS
<1>5. <<x - 1, x>> \in LessThan
  <2>1. <<x - 1, x>> \in Nat \X Nat /\ <<x - 1, x>>[1] < <<x - 1, x>>[2]
    BY <1>4
  <2>2. QED
    BY <2>1 DEF LessThan
<1>6. x - 1 \in T
  BY <1>3, <1>4, <1>5
<1>7. QED
  BY <1>4, <1>6

-----------------------------------------------------------------------------
(***************************************************************************)
(* FlattenSeq.                                                             *)
(***************************************************************************)

\* A function that holds the concatenation of every prefix of seqs.
Flattens(it, seqs, n) ==
    it = [i \in 1 .. n |-> IF i = 1 THEN seqs[i] ELSE it[i - 1] \o seqs[i]]

\* The recursion of FlattenSeq has a solution.
LEMMA FlattensExist ==
    ASSUME NEW seqs, NEW n \in Nat
    PROVE  \E it : Flattens(it, seqs, n)
<1> DEFINE N == {k \in Nat : \E it : Flattens(it, seqs, k)}
<1>1. 0 \in N
  <2>1. Flattens([i \in 1 .. 0 |-> <<>>], seqs, 0)
    BY DEF Flattens
  <2>2. QED
    BY <2>1
<1>2. ASSUME NEW k \in N PROVE k + 1 \in N
  <2>1. PICK it : Flattens(it, seqs, k)
    OBVIOUS
  <2>2. k \in Nat
    OBVIOUS
  <2> DEFINE next == [i \in 1 .. k + 1 |-> IF i = 1 THEN seqs[i] ELSE it[i - 1] \o seqs[i]]
  <2>3. \A i \in 1 .. k : i \in 1 .. k + 1 /\ next[i] = it[i]
    <3>1. \A i \in 1 .. k : i \in 1 .. k + 1
      BY <2>2
    <3>2. \A i \in 1 .. k : it[i] = IF i = 1 THEN seqs[i] ELSE it[i - 1] \o seqs[i]
      BY <2>1 DEF Flattens
    <3>3. QED
      BY <3>1, <3>2
  <2>4. \A i \in 1 .. k + 1 : i # 1 => i - 1 \in 1 .. k
    BY <2>2
  <2>5. next = [i \in 1 .. k + 1 |-> IF i = 1 THEN seqs[i] ELSE next[i - 1] \o seqs[i]]
    <3>1. \A i \in 1 .. k + 1 : i # 1 => next[i - 1] = it[i - 1]
      BY <2>3, <2>4
    <3>2. QED
      BY <3>1
  <2>6. Flattens(next, seqs, k + 1)
    <3> HIDE DEF next
    <3> QED
      BY <2>5 DEF Flattens
  <2>7. QED
    <3> HIDE DEF next
    <3> QED
      BY <2>2, <2>6
<1>3. N = Nat
  <2> N \in SUBSET Nat
    OBVIOUS
  <2> HIDE DEF N
  <2> QED
    BY <1>1, <1>2, AllNaturals
<1>4. QED
  BY <1>3

\* What a solution holds.
LEMMA FlattensUnfold ==
    ASSUME NEW seqs, NEW n \in Nat, NEW it, Flattens(it, seqs, n), NEW i \in 1 .. n
    PROVE  it[i] = IF i = 1 THEN seqs[i] ELSE it[i - 1] \o seqs[i]
BY Zenon DEF Flattens

\* Solutions for two sequences of sequences agree if one begins with the other.
LEMMA FlattensAgree ==
    ASSUME NEW seqs, NEW others, NEW n \in Nat, NEW m \in Nat, n <= m,
           NEW it, Flattens(it, seqs, n), NEW that, Flattens(that, others, m),
           \A k \in 1 .. n : seqs[k] = others[k]
    PROVE  \A k \in 1 .. n : it[k] = that[k]
<1> DEFINE N == {k \in Nat : k \in 1 .. n => it[k] = that[k]}
<1>1. 0 \in N
  OBVIOUS
<1>2. ASSUME NEW k \in N PROVE k + 1 \in N
  <2>1. SUFFICES ASSUME k + 1 \in 1 .. n PROVE it[k + 1] = that[k + 1]
    OBVIOUS
  <2>2. k \in Nat /\ k + 1 \in 1 .. n /\ k + 1 \in 1 .. m
    BY <2>1
  <2>3. /\ it[k + 1] = IF k + 1 = 1 THEN seqs[k + 1] ELSE it[k + 1 - 1] \o seqs[k + 1]
        /\ that[k + 1] = IF k + 1 = 1 THEN others[k + 1] ELSE that[k + 1 - 1] \o others[k + 1]
    BY <2>2, FlattensUnfold
  <2>4. k + 1 # 1 => it[k] = that[k] /\ k + 1 - 1 = k
    BY <2>1, <2>2
  <2>5. QED
    BY <2>1, <2>3, <2>4
<1>3. N = Nat
  <2> N \in SUBSET Nat
    OBVIOUS
  <2> HIDE DEF N
  <2> QED
    BY <1>1, <1>2, AllNaturals
<1>4. QED
  BY <1>3

\* Nothing flattens to nothing.
LEMMA FlattenNothing == FlattenSeq(<<>>) = <<>>
BY DEF FlattenSeq

\* FlattenSeq is the last value of a solution.
LEMMA FlattenUnfolds ==
    ASSUME NEW seqs, Len(seqs) \in Nat, Len(seqs) # 0
    PROVE  \E it : Flattens(it, seqs, Len(seqs)) /\ FlattenSeq(seqs) = it[Len(seqs)]
<1> DEFINE flat == CHOOSE it : it = [i \in 1 .. Len(seqs) |->
                                       IF i = 1 THEN seqs[i] ELSE it[i - 1] \o seqs[i]]
<1>1. FlattenSeq(seqs) = flat[Len(seqs)]
  BY DEF FlattenSeq
<1>2. Flattens(flat, seqs, Len(seqs))
  BY FlattensExist DEF Flattens
<1> HIDE DEF flat
<1>3. QED
  BY <1>1, <1>2

\* What FlattenSeq makes of the last sequence.
LEMMA FlattenLast ==
    ASSUME NEW seqs, NEW more, NEW n \in Nat, n # 0, Len(seqs) = n, Len(more) = n + 1,
           \A k \in 1 .. n : seqs[k] = more[k]
    PROVE  FlattenSeq(more) = FlattenSeq(seqs) \o more[n + 1]
<1> DEFINE m == n + 1
<1>1. m \in Nat /\ m # 0 /\ m \in 1 .. m /\ m # 1 /\ m - 1 = n /\ n <= m /\ n \in 1 .. n
  OBVIOUS
<1> HIDE DEF m
<1>2. Len(more) = m
  BY DEF m
<1>3. PICK that : Flattens(that, seqs, n) /\ FlattenSeq(seqs) = that[n]
  BY FlattenUnfolds
<1>4. PICK it : Flattens(it, more, m) /\ FlattenSeq(more) = it[m]
  <2>1. Len(more) \in Nat /\ Len(more) # 0
    BY <1>1, <1>2
  <2>2. \E it : Flattens(it, more, Len(more)) /\ FlattenSeq(more) = it[Len(more)]
    BY <2>1, FlattenUnfolds
  <2>3. QED
    BY <1>2, <2>2
<1>5. it[m] = it[m - 1] \o more[m]
  <2>1. it[m] = IF m = 1 THEN more[m] ELSE it[m - 1] \o more[m]
    BY <1>1, <1>4, FlattensUnfold, ZenonT(40)
  <2>2. QED
    BY <1>1, <2>1
<1>6. \A k \in 1 .. n : that[k] = it[k]
  BY <1>1, <1>3, <1>4, FlattensAgree
<1>7. that[n] = it[n]
  BY <1>1, <1>6
<1>8. QED
  BY <1>1, <1>3, <1>4, <1>5, <1>7 DEF m

\* A single sequence stays what it is.
LEMMA FlattenOne ==
    ASSUME NEW seqs, Len(seqs) = 1
    PROVE  FlattenSeq(seqs) = seqs[1]
<1>1. PICK it : Flattens(it, seqs, 1) /\ FlattenSeq(seqs) = it[1]
  <2>1. Len(seqs) \in Nat /\ Len(seqs) # 0
    OBVIOUS
  <2>2. \E it : Flattens(it, seqs, Len(seqs)) /\ FlattenSeq(seqs) = it[Len(seqs)]
    BY <2>1, FlattenUnfolds
  <2>3. QED
    BY <2>2
<1>2. 1 \in Nat /\ 1 \in 1 .. 1
  OBVIOUS
<1>3. it[1] = seqs[1]
  BY <1>1, <1>2, FlattensUnfold
<1>4. QED
  BY <1>1, <1>3

\* One sequence more is appended to what the others flatten to.
LEMMA FlattenAppend ==
    ASSUME NEW U, NEW seqs \in Seq(Seq(U)), NEW x \in Seq(U)
    PROVE  FlattenSeq(Append(seqs, x)) = FlattenSeq(seqs) \o x
<1> DEFINE n == Len(seqs)
           more == Append(seqs, x)
<1>1. /\ n \in Nat /\ Len(more) = n + 1 /\ more[n + 1] = x
      /\ \A k \in 1 .. n : seqs[k] = more[k]
  OBVIOUS
<1>2. CASE n = 0
  <2>1. seqs = <<>> /\ more = <<x>> /\ Len(<<x>>) = 1
    BY <1>2
  <2>2. FlattenSeq(seqs) = <<>>
    BY <2>1, FlattenNothing
  <2>3. FlattenSeq(<<x>>) = x
    <3>1. FlattenSeq(<<x>>) = <<x>>[1]
      BY <2>1, FlattenOne
    <3>2. QED
      BY <3>1
  <2>4. <<>> \o x = x
    OBVIOUS
  <2>5. QED
    BY <2>1, <2>2, <2>3, <2>4
<1>3. CASE n # 0
  <2> HIDE DEF more
  <2>1. FlattenSeq(more) = FlattenSeq(seqs) \o more[n + 1]
    BY <1>1, <1>3, FlattenLast
  <2>2. QED
    BY <1>1, <2>1 DEF more
<1>4. QED
  BY <1>2, <1>3

\* Sequences flatten to a sequence.
LEMMA FlattenType ==
    ASSUME NEW U, NEW seqs \in Seq(Seq(U))
    PROVE  FlattenSeq(seqs) \in Seq(U)
<1> DEFINE n == Len(seqs)
<1>1. n \in Nat /\ \A k \in 1 .. n : seqs[k] \in Seq(U)
  OBVIOUS
<1>2. CASE n = 0
  <2>1. seqs = <<>> /\ <<>> \in Seq(U)
    BY <1>2
  <2>2. QED
    BY <2>1, FlattenNothing
<1>3. CASE n # 0
  <2> HIDE DEF n
  <2>1. PICK it : Flattens(it, seqs, n) /\ FlattenSeq(seqs) = it[n]
    BY <1>1, <1>3, FlattenUnfolds DEF n
  <2> DEFINE N == {k \in Nat : k \in 1 .. n => it[k] \in Seq(U)}
  <2>2. 0 \in N
    OBVIOUS
  <2>3. ASSUME NEW k \in N PROVE k + 1 \in N
    <3> DEFINE m == k + 1
    <3>1. SUFFICES ASSUME m \in 1 .. n PROVE it[m] \in Seq(U)
      OBVIOUS
    <3>2. k \in Nat /\ m \in Nat /\ m - 1 = k /\ (m # 1 => k \in 1 .. n)
      BY <1>1, <3>1
    <3> HIDE DEF m
    <3>3. it[m] = IF m = 1 THEN seqs[m] ELSE it[m - 1] \o seqs[m]
      BY <1>1, <2>1, <3>1, FlattensUnfold
    <3>4. seqs[m] \in Seq(U) /\ (m # 1 => it[m - 1] \in Seq(U))
      BY <1>1, <3>1, <3>2
    <3>5. QED
      BY <3>3, <3>4
  <2>4. N = Nat
    <3> N \in SUBSET Nat
      OBVIOUS
    <3> HIDE DEF N
    <3> QED
      BY <2>2, <2>3, AllNaturals
  <2>5. n \in N /\ n \in 1 .. n
    BY <1>1, <1>3, <2>4
  <2>6. QED
    BY <2>1, <2>5
<1>4. QED
  BY <1>2, <1>3

-----------------------------------------------------------------------------
(***************************************************************************)
(* Keep: the tokens of a set, in the order of the contents.                *)
(***************************************************************************)

Piece(tokens, t) == IF t \in tokens THEN <<t>> ELSE <<>>

Pieces(tokens, contents) == [k \in DOMAIN contents |-> Piece(tokens, contents[k])]

\* A piece has the token or nothing.
LEMMA PieceType ==
    ASSUME NEW U, NEW tokens, NEW t \in U
    PROVE  Piece(tokens, t) \in Seq(U \cap tokens)
<1>1. CASE t \in tokens
  <2>1. t \in U \cap tokens
    BY <1>1
  <2>2. <<t>> \in Seq(U \cap tokens)
    BY <2>1
  <2>3. QED
    BY <1>1, <2>2 DEF Piece
<1>2. CASE t \notin tokens
  BY <1>2 DEF Piece
<1>3. QED
  BY <1>1, <1>2

\* The pieces are sequences of tokens of the set that the contents hold.
LEMMA PiecesType ==
    ASSUME NEW U, NEW tokens, NEW contents \in Seq(U)
    PROVE  /\ Pieces(tokens, contents) \in Seq(Seq(U \cap tokens))
           /\ Len(Pieces(tokens, contents)) = Len(contents)
<1> DEFINE n == Len(contents)
<1>1. n \in Nat /\ DOMAIN contents = 1 .. n /\ \A k \in 1 .. n : contents[k] \in U
  OBVIOUS
<1>2. \A k \in 1 .. n : Piece(tokens, contents[k]) \in Seq(U \cap tokens)
  BY <1>1, PieceType
<1>4. Pieces(tokens, contents) \in [1 .. n -> Seq(U \cap tokens)]
  <2> HIDE DEF n
  <2> QED
    BY <1>1, <1>2 DEF Pieces
<1> HIDE DEF n
<1>5. QED
  BY <1>1, <1>4 DEF n

\* What is kept was there, and is of the set.
LEMMA KeepType ==
    ASSUME NEW U, NEW tokens, NEW contents \in Seq(U)
    PROVE  Keep(tokens, contents) \in Seq(U \cap tokens)
BY PiecesType, FlattenType DEF Keep, Pieces, Piece

\* Of nothing, nothing is kept.
LEMMA KeepNothing ==
    ASSUME NEW tokens
    PROVE  Keep(tokens, <<>>) = <<>>
<1>1. <<>> \in Seq({}) /\ Len(<<>>) = 0
  OBVIOUS
<1>2. Pieces(tokens, <<>>) \in Seq(Seq({} \cap tokens)) /\ Len(Pieces(tokens, <<>>)) = Len(<<>>)
  BY <1>1, PiecesType, ZenonT(40)
<1>3. Pieces(tokens, <<>>) = <<>>
  BY <1>1, <1>2
<1>4. QED
  BY <1>3, FlattenNothing DEF Keep, Pieces, Piece

\* One token more is kept if it is of the set.
LEMMA KeepAppend ==
    ASSUME NEW U, NEW tokens, NEW contents \in Seq(U), NEW t \in U
    PROVE  Keep(tokens, Append(contents, t)) =
               Keep(tokens, contents) \o Piece(tokens, t)
<1> DEFINE more == Append(contents, t)
           n == Len(contents)
           piece == Piece(tokens, t)
<1>1. more \in Seq(U) /\ Len(more) = n + 1 /\ n \in Nat /\ more[n + 1] = t
      /\ DOMAIN more = 1 .. n + 1 /\ DOMAIN contents = 1 .. n
      /\ \A k \in 1 .. n : more[k] = contents[k]
  OBVIOUS
<1>2. piece \in Seq(U \cap tokens)
  BY PieceType
<1>3. Pieces(tokens, contents) \in Seq(Seq(U \cap tokens)) /\ Len(Pieces(tokens, contents)) = n
  BY PiecesType
<1> HIDE DEF piece, more
<1>4. Pieces(tokens, more) \in Seq(Seq(U \cap tokens)) /\ Len(Pieces(tokens, more)) = n + 1
  <2>1. more \in Seq(U)
    BY <1>1
  <2>2. Pieces(tokens, more) \in Seq(Seq(U \cap tokens)) /\ Len(Pieces(tokens, more)) = Len(more)
    BY <2>1, PiecesType, ZenonT(60)
  <2>3. QED
    BY <1>1, <2>2
<1>5. Pieces(tokens, more) = Append(Pieces(tokens, contents), piece)
  <2> DEFINE old == Pieces(tokens, contents)
             new == Pieces(tokens, more)
  <2>1. \A k \in 1 .. n : new[k] = old[k]
    <3>1. \A k \in 1 .. n : k \in DOMAIN more /\ k \in DOMAIN contents
      BY <1>1
    <3>2. QED
      BY <1>1, <3>1 DEF Pieces
  <2>2. new[n + 1] = piece
    <3>1. n + 1 \in DOMAIN more
      BY <1>1
    <3>2. QED
      BY <1>1, <3>1 DEF Pieces, piece
  <2> HIDE DEF old, new
  <2>3. old \in Seq(Seq(U \cap tokens)) /\ Len(old) = n /\ new \in Seq(Seq(U \cap tokens)) /\ Len(new) = n + 1
    BY <1>3, <1>4 DEF old, new
  <2>4. new = Append(old, piece)
    BY <1>2, <2>1, <2>2, <2>3
  <2>5. QED
    BY <2>4 DEF old, new
<1>6. FlattenSeq(Pieces(tokens, more)) = FlattenSeq(Pieces(tokens, contents)) \o piece
  BY <1>2, <1>3, <1>5, FlattenAppend
<1>7. QED
  BY <1>6 DEF Keep, Pieces, Piece, more, piece

\* What is kept of two pieces, one behind the other.
LEMMA KeepConcat ==
    ASSUME NEW U, NEW tokens, NEW left \in Seq(U), NEW right \in Seq(U)
    PROVE  Keep(tokens, left \o right) = Keep(tokens, left) \o Keep(tokens, right)
<1> DEFINE n == Len(right)
           Upto(k) == SubSeq(right, 1, k)
           N == {k \in Nat : k <= n =>
                   Keep(tokens, left \o Upto(k)) = Keep(tokens, left) \o Keep(tokens, Upto(k))}
<1>1. n \in Nat /\ Upto(n) = right
  OBVIOUS
<1>2. 0 \in N
  <2>1. Upto(0) = <<>> /\ left \o <<>> = left
    OBVIOUS
  <2>2. Keep(tokens, left) \in Seq(U \cap tokens)
    BY KeepType
  <2>3. Keep(tokens, left) \o <<>> = Keep(tokens, left)
    BY <2>2
  <2>4. Keep(tokens, Upto(0)) = <<>>
    BY <2>1, KeepNothing
  <2> HIDE DEF Upto
  <2>5. QED
    BY <2>1, <2>3, <2>4
<1>3. ASSUME NEW k \in N PROVE k + 1 \in N
  <2> DEFINE prefix == Upto(k)
             t == right[k + 1]
             piece == Piece(tokens, t)
  <2>1. SUFFICES ASSUME k + 1 <= n
                 PROVE  Keep(tokens, left \o Upto(k + 1)) = Keep(tokens, left) \o Keep(tokens, Upto(k + 1))
    OBVIOUS
  <2>2. k \in Nat /\ k <= n /\ t \in U /\ prefix \in Seq(U)
    BY <2>1
  <2>3. Upto(k + 1) = Append(prefix, t)
    BY <2>1
  <2>4. left \o Append(prefix, t) = Append(left \o prefix, t) /\ left \o prefix \in Seq(U)
    <3> HIDE DEF Upto, prefix, t
    <3> QED
      BY <2>2
  <2>5. Keep(tokens, left \o prefix) = Keep(tokens, left) \o Keep(tokens, prefix)
    BY <2>2
  <2> HIDE DEF Upto, prefix, t
  <2>6. Keep(tokens, Append(left \o prefix, t)) = Keep(tokens, left \o prefix) \o piece
    BY <2>2, <2>4, KeepAppend
  <2>7. Keep(tokens, Append(prefix, t)) = Keep(tokens, prefix) \o piece
    BY <2>2, KeepAppend
  <2>8. /\ Keep(tokens, left) \in Seq(U \cap tokens) /\ Keep(tokens, prefix) \in Seq(U \cap tokens)
        /\ piece \in Seq(U \cap tokens)
    BY <2>2, KeepType, PieceType
  <2> DEFINE a == Keep(tokens, left)
             b == Keep(tokens, prefix)
  <2> HIDE DEF a, b, piece
  <2>9. (a \o b) \o piece = a \o (b \o piece)
    BY <2>8 DEF a, b
  <2>10. QED
    BY <2>3, <2>4, <2>5, <2>6, <2>7, <2>9 DEF a, b
<1>4. N = Nat
  <2> N \in SUBSET Nat
    OBVIOUS
  <2> HIDE DEF N
  <2> QED
    BY <1>2, <1>3, AllNaturals
<1>5. n \in N /\ n <= n
  BY <1>1, <1>4
<1> HIDE DEF Upto
<1>6. QED
  BY <1>1, <1>5

-----------------------------------------------------------------------------
(***************************************************************************)
(* The inductive invariant.                                                *)
(***************************************************************************)

Token == {Mark(kind) : kind \in {"header", "newline", "torn", "nul"}} \cup {Row(v) : v \in Nat}

\* The file and the service that writes it are well-typed.
TypeOK ==
    /\ file \in Seq(Token) /\ sanitized \in Seq(Token)
    /\ phase \in {"stopped", "check", "rewrite", "open", "running", "interrupted"}
    /\ program \in {"bbo", "price bands", "volume bands"}
    /\ flushed \in Seq(Nat) /\ Len(flushed) <= MaxViews
    /\ struck \in BOOLEAN /\ crashes \in 0 .. MaxCrashes

\* The header stands at the top or nowhere, whatever has been torn.
HeaderOnTop(contents) == \A k \in DOMAIN contents : contents[k].kind = "header" => k = 1

\* The header line is complete.
Headed(contents) ==
    Len(contents) >= 2 /\ contents[1] = Mark("header") /\ contents[2] = Mark("newline")

\* What a crash can leave behind, and what ensureCsvHasHeader makes of it.
Headers ==
    /\ HeaderOnTop(file)
    /\ file = <<>> \/ Has(file, "nul") \/ Headed(file)
    /\ phase \in {"open", "running", "interrupted"} => Headed(file) /\ ~Has(file, "nul")
    /\ phase = "rewrite" => file = <<>>
    /\ ~Has(sanitized, "header") /\ ~Has(sanitized, "nul")

Written == {Row(v) : v \in 1 .. MaxViews}

\* What a file that was never struck holds of the views.
Flushes ==
    ~struck => /\ ~Has(file, "nul")
               /\ phase = "rewrite" => sanitized = <<>> /\ FlushedRows = <<>>
               /\ RowsKept

-----------------------------------------------------------------------------
(***************************************************************************)
(* The rows of a view.                                                     *)
(***************************************************************************)

\* The bounds are naturals.
LEMMA Bounds == Bands \in Nat /\ MaxViews \in Nat /\ MaxCrashes \in Nat
BY CsvAssumption DEF CsvAssumption

\* Rows are rows and line ends.
LEMMA RowsType ==
    ASSUME NEW v \in Nat, NEW count \in Nat
    PROVE  Rows(v, count) \in Seq({Row(v), Mark("newline")})
<1> DEFINE U == {Row(v), Mark("newline")}
           lines == [k \in 1 .. count |-> <<Row(v), Mark("newline")>>]
<1>1. <<Row(v), Mark("newline")>> \in Seq(U)
  OBVIOUS
<1>2. lines \in Seq(Seq(U))
  <2>1. lines \in [1 .. count -> Seq(U)]
    <3> HIDE DEF U
    <3> QED
      BY <1>1
  <2> HIDE DEF lines, U
  <2>2. QED
    BY <2>1
<1> HIDE DEF lines, U
<1>3. FlattenSeq(lines) \in Seq(U)
  BY <1>2, FlattenType
<1>4. QED
  BY <1>3 DEF Rows, lines, U

\* One row more.
LEMMA RowsMore ==
    ASSUME NEW v \in Nat, NEW count \in Nat
    PROVE  Rows(v, count + 1) = Append(Append(Rows(v, count), Row(v)), Mark("newline"))
<1> DEFINE U == {Row(v), Mark("newline")}
           line == <<Row(v), Mark("newline")>>
           lines == [k \in 1 .. count |-> line]
           more == [k \in 1 .. count + 1 |-> line]
<1>1. line \in Seq(U)
  OBVIOUS
<1>2. /\ lines \in Seq(Seq(U)) /\ Len(lines) = count /\ more \in Seq(Seq(U)) /\ Len(more) = count + 1
      /\ more[count + 1] = line /\ \A k \in 1 .. count : more[k] = lines[k]
  <2>1. lines \in [1 .. count -> Seq(U)] /\ more \in [1 .. count + 1 -> Seq(U)]
    <3> HIDE DEF U, line
    <3> QED
      BY <1>1
  <2>2. more[count + 1] = line /\ \A k \in 1 .. count : more[k] = lines[k]
    <3> HIDE DEF U, line
    <3> QED
      OBVIOUS
  <2> HIDE DEF lines, more, U, line
  <2>3. QED
    BY <2>1, <2>2
<1> HIDE DEF lines, more, U, line
<1>3. more = Append(lines, line)
  BY <1>1, <1>2
<1>4. FlattenSeq(more) = FlattenSeq(lines) \o line
  BY <1>1, <1>2, <1>3, FlattenAppend
<1>5. FlattenSeq(lines) \in Seq(U)
  BY <1>2, FlattenType
<1>6. FlattenSeq(lines) \o line = Append(Append(FlattenSeq(lines), Row(v)), Mark("newline"))
  <2> DEFINE all == FlattenSeq(lines)
  <2> HIDE DEF all
  <2>1. all \in Seq(U) /\ Row(v) \in U /\ Mark("newline") \in U
    BY <1>5 DEF all, U
  <2>2. all \o <<Row(v), Mark("newline")>> = Append(Append(all, Row(v)), Mark("newline"))
    BY <2>1
  <2>3. QED
    BY <2>2 DEF all, line
<1>7. QED
  BY <1>4, <1>6 DEF Rows, lines, more, line

\* Rows without views are no rows at all.
LEMMA RowsNone == ASSUME NEW v PROVE Rows(v, 0) = <<>>
<1>1. [k \in 1 .. 0 |-> <<Row(v), Mark("newline")>>] = <<>>
  OBVIOUS
<1>2. QED
  BY <1>1, FlattenNothing DEF Rows

\* Which tokens are the rows of a view.
LEMMA RowTokens ==
    /\ \A v \in Nat : Row(v) \in Token
    /\ \A kind \in {"header", "newline", "row", "torn", "nul"} : Mark(kind) \in Token
    /\ \A v \in Nat : Row(v) \in Written <=> v \in 1 .. MaxViews
    /\ Mark("newline") \notin Written /\ Mark("header") \notin Written /\ Mark("torn") \notin Written
BY Bounds DEF Row, Mark, Token, Written

\* A row or a line end is neither a header nor NUL bytes.
LEMMA RowsClean ==
    ASSUME NEW v \in Nat, NEW rows \in Seq({Row(v), Mark("newline")})
    PROVE  rows \in Seq(Token) /\ ~Has(rows, "header") /\ ~Has(rows, "nul")
<1>1. {Row(v), Mark("newline")} \subseteq Token
  BY RowTokens
<1>2. \A t \in {Row(v), Mark("newline")} : t.kind \notin {"header", "nul"}
  BY DEF Row, Mark
<1>3. \A k \in DOMAIN rows : rows[k] \in {Row(v), Mark("newline")}
  OBVIOUS
<1>4. QED
  BY <1>1, <1>2, <1>3 DEF Has

\* Of what holds no row of a view, nothing is kept.
LEMMA KeepForeign ==
    ASSUME NEW U, NEW tokens, NEW contents \in Seq(U), U \cap tokens = {}
    PROVE  Keep(tokens, contents) = <<>>
<1>1. Keep(tokens, contents) \in Seq({})
  BY KeepType
<1>2. QED
  BY <1>1

\* The same row, so many times.
Alike(v, count) == [k \in 1 .. count |-> Row(v)]

AnyRow == {Row(v) : v \in Nat}

\* These are rows.
LEMMA AlikeType ==
    ASSUME NEW v \in Nat, NEW count \in Nat
    PROVE  Alike(v, count) \in Seq(AnyRow) /\ Len(Alike(v, count)) = count
<1>1. Alike(v, count) \in [1 .. count -> AnyRow]
  BY DEF Alike, AnyRow
<1>2. QED
  BY <1>1

\* One more of them.
LEMMA AlikeMore ==
    ASSUME NEW v \in Nat, NEW count \in Nat
    PROVE  Alike(v, count + 1) = Append(Alike(v, count), Row(v))
<1> DEFINE some == Alike(v, count)
           more == Alike(v, count + 1)
<1>1. some \in Seq(AnyRow) /\ Len(some) = count /\ more \in Seq(AnyRow) /\ Len(more) = count + 1
  BY AlikeType
<1>2. more[count + 1] = Row(v) /\ \A k \in 1 .. count : more[k] = some[k]
  BY DEF Alike
<1>3. Row(v) \in AnyRow
  BY DEF AnyRow
<1> HIDE DEF some, more
<1>4. more = Append(some, Row(v))
  BY <1>1, <1>2, <1>3
<1>5. QED
  BY <1>4 DEF some, more

\* All rows of a view are kept.
LEMMA KeepRows ==
    ASSUME NEW v \in 1 .. MaxViews, NEW count \in Nat
    PROVE  Keep(Written, Rows(v, count)) = Alike(v, count)
<1> DEFINE N == {n \in Nat : Keep(Written, Rows(v, n)) = Alike(v, n)}
           U == {Row(v), Mark("newline")}
<1>0. v \in Nat
  BY Bounds
<1>1. 0 \in N
  <2>1. Alike(v, 0) = <<>>
    BY DEF Alike
  <2>2. QED
    BY <2>1, RowsNone, KeepNothing
<1>2. ASSUME NEW n \in N PROVE n + 1 \in N
  <2>1. n \in Nat /\ Keep(Written, Rows(v, n)) = Alike(v, n)
    OBVIOUS
  <2> DEFINE rows == Rows(v, n)
  <2>2. rows \in Seq(U) /\ Row(v) \in U /\ Mark("newline") \in U
    BY <1>0, <2>1, RowsType
  <2>3. Piece(Written, Row(v)) = <<Row(v)>> /\ Piece(Written, Mark("newline")) = <<>>
    BY <1>0, RowTokens DEF Piece
  <2> HIDE DEF rows, U
  <2>4. Keep(Written, Append(rows, Row(v))) = Keep(Written, rows) \o Piece(Written, Row(v))
    BY <2>2, KeepAppend
  <2> DEFINE more == Append(rows, Row(v))
  <2>5. more \in Seq(U)
    BY <2>2
  <2> HIDE DEF more
  <2>6. Keep(Written, Append(more, Mark("newline")))
          = Keep(Written, more) \o Piece(Written, Mark("newline"))
    BY <2>2, <2>5, KeepAppend
  <2>7. Alike(v, n) \in Seq(AnyRow)
    BY <1>0, <2>1, AlikeType
  <2>8. Alike(v, n + 1) = Append(Alike(v, n), Row(v))
    BY <1>0, <2>1, AlikeMore
  <2>9. (Alike(v, n) \o <<Row(v)>>) \o <<>> = Append(Alike(v, n), Row(v))
    <3> QED
      BY <2>7
  <2>10. Keep(Written, Rows(v, n + 1)) = Alike(v, n + 1)
    <3>1. Rows(v, n + 1) = Append(Append(rows, Row(v)), Mark("newline"))
      BY <1>0, <2>1, RowsMore DEF rows
    <3>2. Keep(Written, rows) = Alike(v, n)
      BY <2>1 DEF rows
    <3>3. QED
      BY <2>3, <2>4, <2>6, <2>8, <2>9, <3>1, <3>2 DEF more
  <2>11. QED
    <3> QED
      BY <2>1, <2>10
<1>3. N = Nat
  <2> N \in SUBSET Nat
    OBVIOUS
  <2> HIDE DEF N
  <2> QED
    BY <1>1, <1>2, AllNaturals
<1>4. QED
  BY <1>3

-----------------------------------------------------------------------------
(***************************************************************************)
(* The steps.                                                              *)
(***************************************************************************)

IInv == TypeOK /\ Headers /\ Flushes

\* Most steps leave the file alone: only where ensureCsvHasHeader found it
\* good, or has made it good, may one begin to write.
LEMMA FileUntouched ==
    ASSUME IInv, UNCHANGED <<file, program, flushed>>,
           sanitized' \in {sanitized, <<>>}, crashes' \in 0 .. MaxCrashes,
           struck' \in {struck, TRUE},
           phase' \in {"stopped", "check", "open", "running", "interrupted"},
           phase' \in {"open", "running", "interrupted"} => Headed(file) /\ ~Has(file, "nul"),
           phase = "rewrite" => struck'
    PROVE  IInv'
<1>1. <<>> \in Seq(Token) /\ ~Has(<<>>, "header") /\ ~Has(<<>>, "nul")
  BY DEF Has
<1>2. ~Has(sanitized', "header") /\ ~Has(sanitized', "nul") /\ sanitized' \in Seq(Token)
  BY <1>1 DEF IInv, TypeOK, Headers
<1>3. TypeOK'
  BY <1>2 DEF IInv, TypeOK
<1>4. Headers'
  BY <1>2 DEF IInv, Headers
<1>5. Flushes'
  BY DEF IInv, Flushes, RowsKept, FlushedRows
<1>6. QED
  BY <1>3, <1>4, <1>5 DEF IInv

\* start-up, shutdown, and a good file.
LEMMA QuietSteps ==
    ASSUME IInv, Start \/ Open \/ Signal \/ Stop \/ FailToOpen \/ UNCHANGED vars
    PROVE  IInv'
<1>1. CASE Start \/ Open \/ Signal \/ Stop \/ FailToOpen
  <2>1. /\ UNCHANGED <<file, sanitized, program, flushed, struck, crashes>>
        /\ phase \in {"stopped", "check", "open", "running", "interrupted"}
        /\ phase' \in {"stopped", "check", "open", "running", "interrupted"}
        /\ phase' \in {"open", "running", "interrupted"} =>
               phase \in {"open", "running", "interrupted"}
    BY <1>1 DEF Start, Open, Signal, Stop, FailToOpen
  <2>2. phase' \in {"open", "running", "interrupted"} => Headed(file) /\ ~Has(file, "nul")
    BY <2>1 DEF IInv, Headers
  <2>3. crashes' \in 0 .. MaxCrashes
    BY <2>1 DEF IInv, TypeOK
  <2>4. QED
    BY <2>1, <2>2, <2>3, FileUntouched
<1>2. CASE UNCHANGED vars
  BY <1>2 DEF vars, IInv, TypeOK, Headers, Flushes, RowsKept, FlushedRows
<1>3. QED
  BY <1>1, <1>2

\* What is left of a file without its NUL bytes has the header on top, too.
LEMMA Erased ==
    ASSUME NEW contents \in Seq(Token), HeaderOnTop(contents)
    PROVE  /\ Erase(contents) \in Seq(Token)
           /\ HeaderOnTop(Erase(contents)) /\ ~Has(Erase(contents), "nul")
<1> DEFINE clean == {t \in Range(contents) : t.kind # "nul"}
<1>1. clean \subseteq Token /\ \A t \in clean : t.kind # "nul"
  <2>1. \A k \in DOMAIN contents : contents[k] \in Token
    OBVIOUS
  <2>2. QED
    BY <2>1 DEF Range
<1> HIDE DEF clean
<1>2. Keep(clean, contents) \in Seq(clean)
  <2>1. Token \cap clean = clean
    BY <1>1
  <2>2. QED
    BY <2>1, KeepType
<1>3. ~Has(Keep(clean, contents), "nul") /\ Keep(clean, contents) \in Seq(Token)
  BY <1>1, <1>2 DEF Has
<1>4. HeaderOnTop(Keep(clean, contents))
  <2>1. CASE contents = <<>>
    BY <2>1, KeepNothing DEF HeaderOnTop
  <2>2. CASE contents # <<>>
    <3> DEFINE first == <<contents[1]>>
               rest == Tail(contents)
               U == {t \in Token : t.kind # "header"}
    <3>1. first \in Seq(Token) /\ contents[1] \in Token
      BY <2>2
    <3>2. rest \in Seq(U)
      <4>1. /\ rest \in Seq(Token) /\ Len(rest) = Len(contents) - 1 /\ Len(contents) \in Nat
            /\ \A k \in 1 .. Len(rest) : rest[k] = contents[k + 1] /\ k + 1 \in DOMAIN contents /\ k + 1 # 1
        BY <2>2
      <4> HIDE DEF rest
      <4>2. \A k \in 1 .. Len(rest) : rest[k] \in U
        BY <4>1 DEF HeaderOnTop
      <4> HIDE DEF U
      <4>3. QED
        BY <4>1, <4>2
    <3>3. contents = first \o rest
      BY <2>2
    <3>4. rest \in Seq(Token)
      BY <2>2
    <3> DEFINE kept == Keep(clean, rest)
    <3> HIDE DEF first, rest
    <3>5. Keep(clean, contents) = Keep(clean, first) \o kept
      BY <3>1, <3>3, <3>4, KeepConcat
    <3>6. kept \in Seq(U \cap clean)
      BY <3>2, KeepType
    <3>7. Keep(clean, first) = Piece(clean, contents[1])
      <4>1. <<>> \in Seq(Token) /\ first = Append(<<>>, contents[1])
        BY DEF first
      <4>2. Keep(clean, first) = Keep(clean, <<>>) \o Piece(clean, contents[1])
        BY <3>1, <4>1, KeepAppend
      <4>3. Piece(clean, contents[1]) \in Seq(Token \cap clean)
        BY <3>1, PieceType
      <4>4. <<>> \o Piece(clean, contents[1]) = Piece(clean, contents[1])
        BY <4>3
      <4>5. QED
        BY <4>2, <4>4, KeepNothing
    <3> HIDE DEF kept
    <3>8. \A k \in DOMAIN kept : kept[k].kind # "header"
      BY <3>6
    <3>9. CASE contents[1] \in clean
      <4>1. Keep(clean, contents) = <<contents[1]>> \o kept
        BY <3>5, <3>7, <3>9 DEF Piece
      <4>2. \A k \in DOMAIN (<<contents[1]>> \o kept) :
                k # 1 => k - 1 \in DOMAIN kept /\ (<<contents[1]>> \o kept)[k] = kept[k - 1]
        BY <3>6
      <4>3. QED
        BY <3>8, <4>1, <4>2 DEF HeaderOnTop
    <3>10. CASE contents[1] \notin clean
      <4>1. Keep(clean, contents) = <<>> \o kept /\ <<>> \o kept = kept
        BY <3>5, <3>6, <3>7, <3>10 DEF Piece
      <4>2. QED
        BY <3>8, <4>1 DEF HeaderOnTop
    <3>11. QED
      BY <3>9, <3>10
  <2>3. QED
    BY <2>1, <2>2
<1>5. QED
  BY <1>3, <1>4 DEF Erase, clean

\* Without its header line, or the header, the rest has no header.
LEMMA Stripped ==
    ASSUME NEW data \in Seq(Token), HeaderOnTop(data), ~Has(data, "nul")
    PROVE  /\ StripHeaderIfPresent(data) \in Seq(Token)
           /\ ~Has(StripHeaderIfPresent(data), "header")
           /\ ~Has(StripHeaderIfPresent(data), "nul")
<1>1. CASE data = <<>>
  BY <1>1 DEF StripHeaderIfPresent, Has
<1>2. CASE data # <<>> /\ Head(data) # Mark("header")
  <2>1. StripHeaderIfPresent(data) = data
    BY <1>2 DEF StripHeaderIfPresent
  <2>2. data[1] \in Token /\ data[1] # Mark("header")
    BY <1>2
  <2>3. data[1].kind # "header"
    BY <2>2 DEF Token, Mark, Row
  <2>4. ~Has(data, "header")
    BY <2>3 DEF Has, HeaderOnTop
  <2>5. QED
    BY <2>1, <2>4
<1>3. CASE data # <<>> /\ Head(data) = Mark("header")
  <2> DEFINE rest == Tail(data)
  <2>1. /\ rest \in Seq(Token) /\ Len(rest) \in Nat
        /\ \A k \in 1 .. Len(rest) : rest[k] = data[k + 1] /\ k + 1 \in DOMAIN data /\ k + 1 # 1
    BY <1>3
  <2>2. StripHeaderIfPresent(data) \in {rest, Tail(rest)} /\ (rest # <<>> \/ StripHeaderIfPresent(data) = rest)
    <3>1. Len(data) > 1 => rest # <<>>
      <4>1. Len(rest) = Len(data) - 1 /\ Len(data) \in Nat
        BY <1>3
      <4> HIDE DEF rest
      <4>2. QED
        BY <4>1
    <3>2. QED
      BY <1>3, <3>1 DEF StripHeaderIfPresent
  <2> HIDE DEF rest
  <2>3. \A k \in 1 .. Len(rest) : rest[k].kind \notin {"header", "nul"}
    BY <2>1 DEF HeaderOnTop, Has
  <2>4. ~Has(rest, "header") /\ ~Has(rest, "nul")
    BY <2>1, <2>3 DEF Has
  <2>5. CASE rest # <<>> /\ StripHeaderIfPresent(data) = Tail(rest)
    <3> DEFINE left == Tail(rest)
    <3>1. /\ left \in Seq(Token) /\ Len(left) \in Nat
          /\ \A k \in 1 .. Len(left) : left[k] = rest[k + 1] /\ k + 1 \in 1 .. Len(rest)
      BY <2>1, <2>5
    <3> HIDE DEF left
    <3>2. ~Has(left, "header") /\ ~Has(left, "nul")
      <4>1. \A k \in 1 .. Len(left) : left[k].kind \notin {"header", "nul"}
        BY <2>3, <3>1
      <4>2. DOMAIN left = 1 .. Len(left)
        BY <3>1
      <4>3. QED
        BY <4>1, <4>2 DEF Has
    <3>3. QED
      BY <2>5, <3>1, <3>2 DEF left
  <2>6. QED
    BY <2>1, <2>2, <2>4, <2>5
<1>4. QED
  BY <1>1, <1>2, <1>3

\* A file that is not good is read; what was never struck is good or empty.
LEMMA EnsureHeaderStep ==
    ASSUME IInv, EnsureHeader
    PROVE  IInv'
<1>1. CASE Intact(file)
  <2>1. Headed(file) /\ ~Has(file, "nul")
    BY <1>1 DEF Intact, IInv, Headers
  <2>2. phase' = "open" /\ phase = "check" /\ UNCHANGED <<file, sanitized, program, flushed, struck, crashes>>
    BY <1>1 DEF EnsureHeader
  <2>3. crashes' \in 0 .. MaxCrashes
    BY <2>2 DEF IInv, TypeOK
  <2>4. QED
    BY <2>1, <2>2, <2>3, FileUntouched
<1>2. CASE ~Intact(file)
  <2>1. /\ phase' = "rewrite" /\ phase = "check" /\ file' = <<>>
        /\ sanitized' = StripHeaderIfPresent(Erase(file))
        /\ UNCHANGED <<program, flushed, struck, crashes>>
    BY <1>2 DEF EnsureHeader
  <2>2. sanitized' \in Seq(Token) /\ ~Has(sanitized', "header") /\ ~Has(sanitized', "nul")
    BY <2>1, Erased, Stripped DEF IInv, TypeOK, Headers
  <2>3. ~struck => file = <<>>
    <3>1. Headed(file) => Head(file) = Mark("header") /\ file # <<>>
      <4>1. file \in Seq(Token)
        BY DEF IInv, TypeOK
      <4>2. Len(file) >= 2 => file # <<>> /\ Head(file) = file[1]
        BY <4>1
      <4>3. QED
        BY <4>2 DEF Headed
    <3>2. Headed(file) => Has(file, "nul")
      BY <1>2, <3>1 DEF Headed, Intact
    <3>3. QED
      BY <3>2 DEF IInv, Headers, Flushes
  <2>4. <<>> \in Seq(Token) /\ HeaderOnTop(<<>>) /\ ~Has(<<>>, "nul")
    BY DEF HeaderOnTop, Has
  <2>5. ~struck => sanitized' = <<>> /\ FlushedRows = <<>>
    <3>1. Erase(<<>>) = <<>>
      BY KeepNothing DEF Erase
    <3>2. StripHeaderIfPresent(<<>>) = <<>>
      BY DEF StripHeaderIfPresent
    <3>3. ~struck => FlushedRows = <<>>
      BY <2>1, <2>3, KeepNothing DEF IInv, Flushes, RowsKept
    <3>4. QED
      BY <2>1, <2>3, <3>1, <3>2, <3>3
  <2>6. TypeOK'
    BY <2>1, <2>2, <2>4 DEF IInv, TypeOK
  <2>7. Headers'
    BY <2>1, <2>2, <2>4 DEF Headers
  <2>8. Flushes'
    <3>1. FlushedRows' = FlushedRows
      BY <2>1 DEF FlushedRows
    <3>2. QED
      BY <2>1, <2>4, <2>5, <3>1 DEF Flushes, RowsKept
  <2>9. QED
    BY <2>6, <2>7, <2>8 DEF IInv
<1>3. QED
  BY <1>1, <1>2

\* What stands where in two sequences, one behind the other.
LEMMA Concatenation ==
    ASSUME NEW U, NEW left \in Seq(U), NEW right \in Seq(U)
    PROVE  /\ left \o right \in Seq(U) /\ Len(left \o right) = Len(left) + Len(right)
           /\ \A k \in 1 .. Len(left) : (left \o right)[k] = left[k]
           /\ \A k \in 1 .. Len(left) + Len(right) :
                  k \in 1 .. Len(left) \/ (k - Len(left) \in 1 .. Len(right)
                                           /\ (left \o right)[k] = right[k - Len(left)])
OBVIOUS

\* What rewriting makes of what was read, as far as it comes.
LEMMA RewrittenHeaded ==
    ASSUME IInv
    PROVE  /\ Rewritten \in Seq(Token) /\ HeaderOnTop(Rewritten) /\ Headed(Rewritten)
           /\ ~Has(Rewritten, "nul")
<1> DEFINE top == <<Mark("header"), Mark("newline")>>
<1>1. /\ top \in Seq(Token) /\ Len(top) = 2 /\ top[1] = Mark("header") /\ top[2] = Mark("newline")
      /\ sanitized \in Seq(Token)
  <2>1. Mark("header") \in Token /\ Mark("newline") \in Token
    BY RowTokens
  <2>2. sanitized \in Seq(Token)
    BY DEF IInv, TypeOK
  <2>3. QED
    BY <2>1, <2>2
<1>2. /\ Rewritten \in Seq(Token) /\ Len(Rewritten) = Len(sanitized) + 2 /\ Len(sanitized) \in Nat
      /\ Rewritten[1] = top[1] /\ Rewritten[2] = top[2]
      /\ \A k \in 1 .. Len(Rewritten) :
             k \in {1, 2} \/ (k - 2 \in DOMAIN sanitized /\ Rewritten[k] = sanitized[k - 2])
  <2>1. Rewritten = top \o sanitized
    BY DEF Rewritten
  <2> HIDE DEF top
  <2>2. Len(sanitized) \in Nat /\ DOMAIN sanitized = 1 .. Len(sanitized)
    BY <1>1
  <2>3. /\ Rewritten \in Seq(Token) /\ Len(Rewritten) = Len(top) + Len(sanitized)
        /\ \A k \in 1 .. Len(top) : Rewritten[k] = top[k]
        /\ \A k \in 1 .. Len(top) + Len(sanitized) :
               k \in 1 .. Len(top) \/ (k - Len(top) \in 1 .. Len(sanitized)
                                       /\ Rewritten[k] = sanitized[k - Len(top)])
    <3> DEFINE all == top \o sanitized
    <3>1. /\ all \in Seq(Token) /\ Len(all) = Len(top) + Len(sanitized)
          /\ \A k \in 1 .. Len(top) : all[k] = top[k]
          /\ \A k \in 1 .. Len(top) + Len(sanitized) :
                 k \in 1 .. Len(top) \/ (k - Len(top) \in 1 .. Len(sanitized)
                                         /\ all[k] = sanitized[k - Len(top)])
      BY <1>1, Concatenation
    <3>2. Rewritten = all
      BY <2>1
    <3> HIDE DEF all
    <3>3. QED
      BY <3>1, <3>2
  <2>4. Rewritten[1] = top[1] /\ Rewritten[2] = top[2]
    BY <1>1, <2>3
  <2>5. \A k \in 1 .. Len(top) : k \in {1, 2}
    BY <1>1
  <2>6. QED
    BY <1>1, <2>2, <2>3, <2>4, <2>5
<1>3. ~Has(sanitized, "header") /\ ~Has(sanitized, "nul")
  BY DEF IInv, Headers
<1>4. \A k \in 1 .. Len(Rewritten) : Rewritten[k].kind # "nul" /\ (k # 1 => Rewritten[k].kind # "header")
  <2>1. top[1].kind = "header" /\ top[2].kind = "newline"
    BY <1>1 DEF Mark
  <2> HIDE DEF top
  <2>2. \A k \in DOMAIN sanitized : sanitized[k].kind \notin {"header", "nul"}
    BY <1>3 DEF Has
  <2>3. QED
    BY <1>2, <2>1, <2>2
<1>5. QED
  BY <1>1, <1>2, <1>4 DEF HeaderOnTop, Headed, Has

\* The file is written again, below one header.
LEMMA RewriteStep ==
    ASSUME IInv, Rewrite
    PROVE  IInv'
<1>1. /\ phase = "rewrite" /\ phase' = "open" /\ file' = Rewritten /\ sanitized' = <<>>
      /\ UNCHANGED <<program, flushed, struck, crashes>>
  BY DEF Rewrite
<1>2. <<>> \in Seq(Token) /\ ~Has(<<>>, "header") /\ ~Has(<<>>, "nul")
  BY DEF Has
<1>3. TypeOK'
  BY <1>1, <1>2, RewrittenHeaded DEF IInv, TypeOK
<1>4. Headers'
  BY <1>1, <1>2, RewrittenHeaded DEF IInv, Headers
<1>5. Flushes'
  <2>1. SUFFICES ASSUME ~struck
                 PROVE  Keep(Written, Rewritten) = <<>> /\ FlushedRows' = <<>>
    BY <1>1, RewrittenHeaded DEF Flushes, RowsKept, Written
  <2>2. sanitized = <<>> /\ FlushedRows = <<>>
    BY <1>1, <2>1 DEF IInv, Flushes
  <2>3. Rewritten \in Seq({Mark("header"), Mark("newline")})
    BY <2>2 DEF Rewritten
  <2>4. {Mark("header"), Mark("newline")} \cap Written = {}
    BY RowTokens
  <2>5. Keep(Written, Rewritten) = <<>>
    BY <2>3, <2>4, KeepForeign
  <2>6. QED
    BY <1>1, <2>2, <2>5 DEF FlushedRows
<1>6. QED
  BY <1>3, <1>4, <1>5 DEF IInv


\* Appending neither header nor NUL bytes keeps the header line where it is.
LEMMA Appended ==
    ASSUME NEW contents \in Seq(Token), NEW rows \in Seq(Token),
           HeaderOnTop(contents), Headed(contents), ~Has(contents, "nul"),
           ~Has(rows, "header"), ~Has(rows, "nul")
    PROVE  /\ contents \o rows \in Seq(Token)
           /\ HeaderOnTop(contents \o rows) /\ Headed(contents \o rows)
           /\ ~Has(contents \o rows, "nul")
<1> DEFINE all == contents \o rows
           n == Len(contents)
<1>1. /\ all \in Seq(Token) /\ Len(all) = n + Len(rows) /\ n \in Nat /\ Len(rows) \in Nat
      /\ DOMAIN contents = 1 .. n /\ DOMAIN rows = 1 .. Len(rows) /\ DOMAIN all = 1 .. n + Len(rows)
      /\ \A k \in 1 .. n : all[k] = contents[k]
      /\ \A k \in 1 .. n + Len(rows) :
             k \in 1 .. n \/ (k - n \in 1 .. Len(rows) /\ all[k] = rows[k - n])
  OBVIOUS
<1> HIDE DEF all, n
<1>2. HeaderOnTop(all)
  <2>1. SUFFICES ASSUME NEW k \in 1 .. n + Len(rows), all[k].kind = "header" PROVE k = 1
    BY <1>1 DEF HeaderOnTop
  <2>2. k \in 1 .. n
    BY <1>1, <2>1 DEF Has
  <2>3. contents[k].kind = "header" /\ k \in DOMAIN contents
    BY <1>1, <2>1, <2>2
  <2>4. QED
    BY <2>3 DEF HeaderOnTop
<1>3. Headed(all)
  <2>1. n >= 2 /\ contents[1] = Mark("header") /\ contents[2] = Mark("newline")
    BY DEF Headed, n
  <2>2. QED
    BY <1>1, <2>1 DEF Headed
<1>4. ~Has(all, "nul")
  BY <1>1 DEF Has
<1>5. QED
  BY <1>1, <1>2, <1>3, <1>4 DEF all

\* The callback appends the rows of one view.
LEMMA WriteStep ==
    ASSUME IInv, NEW count \in Nat, Write(count)
    PROVE  IInv'
<1> DEFINE v == Len(flushed) + 1
           rows == Rows(v, count)
           alike == Alike(v, count)
<1>1. /\ phase \in {"running", "interrupted"} /\ flushed' = Append(flushed, count)
      /\ UNCHANGED <<phase, sanitized, program, struck, crashes>>
      /\ Len(flushed) < MaxViews /\ file' = file \o Rows(Len(flushed'), count)
  BY DEF Write, Streaming
<1>2. flushed \in Seq(Nat) /\ file \in Seq(Token) /\ v \in 1 .. MaxViews /\ v \in Nat
  <2>1. flushed \in Seq(Nat) /\ file \in Seq(Token)
    BY DEF IInv, TypeOK
  <2>2. Len(flushed) \in Nat
    BY <2>1
  <2>3. QED
    BY <1>1, <2>1, <2>2, Bounds
<1>3. flushed' \in Seq(Nat) /\ Len(flushed') = v /\ v <= MaxViews
  BY <1>1, <1>2
<1>4. file' = file \o rows
  BY <1>1, <1>3
<1> HIDE DEF v
<1>5. rows \in Seq({Row(v), Mark("newline")})
  BY <1>2, RowsType
<1> HIDE DEF rows
<1>6. rows \in Seq(Token) /\ ~Has(rows, "header") /\ ~Has(rows, "nul")
  BY <1>2, <1>5, RowsClean
<1>7. HeaderOnTop(file) /\ Headed(file) /\ ~Has(file, "nul")
  BY <1>1 DEF IInv, Headers
<1>8. file' \in Seq(Token) /\ HeaderOnTop(file') /\ Headed(file') /\ ~Has(file', "nul")
  <2>1. /\ file \o rows \in Seq(Token) /\ HeaderOnTop(file \o rows) /\ Headed(file \o rows)
        /\ ~Has(file \o rows, "nul")
    BY <1>2, <1>6, <1>7, Appended
  <2>2. QED
    BY <1>4, <2>1
<1>9. TypeOK'
  BY <1>1, <1>3, <1>8 DEF IInv, TypeOK
<1>10. Headers'
  BY <1>1, <1>8 DEF IInv, Headers
<1>11. Keep(Written, file') = Keep(Written, file) \o alike
  <2>1. Keep(Written, file') = Keep(Written, file) \o Keep(Written, rows)
    BY <1>2, <1>4, <1>6, KeepConcat
  <2>2. Keep(Written, rows) = alike
    BY <1>2, KeepRows DEF rows
  <2>3. QED
    BY <2>1, <2>2
<1>12. FlushedRows' = FlushedRows \o alike
  <2> DEFINE lists == [w \in DOMAIN flushed |-> Alike(w, flushed[w])]
             more == [w \in DOMAIN flushed' |-> Alike(w, flushed'[w])]
  <2>1. /\ DOMAIN flushed = 1 .. v - 1 /\ DOMAIN flushed' = 1 .. v /\ v - 1 \in Nat /\ v - 1 + 1 = v
        /\ flushed'[v] = count /\ \A w \in 1 .. v - 1 : flushed'[w] = flushed[w] /\ flushed[w] \in Nat
        /\ \A w \in 1 .. v : flushed'[w] \in Nat /\ w \in Nat
    <3>1. v - 1 = Len(flushed) /\ v = Len(flushed) + 1
      BY <1>2 DEF v
    <3>2. QED
      BY <1>1, <1>2, <1>3, <3>1
  <2>2. \A w \in Nat, n \in Nat : Alike(w, n) \in Seq(AnyRow)
    BY AlikeType
  <2>3. lists \in [1 .. v - 1 -> Seq(AnyRow)] /\ more \in [1 .. v -> Seq(AnyRow)]
    <3>1. \A w \in 1 .. v - 1 : Alike(w, flushed[w]) \in Seq(AnyRow)
      <4>1. \A w \in 1 .. v - 1 : w \in Nat /\ flushed[w] \in Nat
        BY <2>1
      <4>2. QED
        BY <2>2, <4>1
    <3>2. \A w \in 1 .. v : Alike(w, flushed'[w]) \in Seq(AnyRow)
      BY <2>1, <2>2
    <3>3. QED
      BY <2>1, <3>1, <3>2
  <2>4. \A w \in 1 .. v - 1 : more[w] = lists[w]
    BY <2>1
  <2>5. more[v] = alike
    BY <1>2, <2>1
  <2>6. alike \in Seq(AnyRow)
    BY <1>2, <2>2
  <2> HIDE DEF lists, more, alike
  <2>7. lists \in Seq(Seq(AnyRow)) /\ Len(lists) = v - 1 /\ more \in Seq(Seq(AnyRow)) /\ Len(more) = v
    BY <1>2, <2>1, <2>3
  <2>8. more = Append(lists, alike)
    BY <2>1, <2>4, <2>5, <2>6, <2>7
  <2>9. FlattenSeq(more) = FlattenSeq(lists) \o alike
    BY <2>6, <2>7, <2>8, FlattenAppend
  <2>10. QED
    BY <2>9 DEF FlushedRows, Alike, lists, more
<1> HIDE DEF alike
<1>13. Flushes'
  <2>1. SUFFICES ASSUME ~struck
                 PROVE  Keep(Written, file') = FlushedRows'
    BY <1>1, <1>8 DEF Flushes, RowsKept, Written
  <2>2. Keep(Written, file) = FlushedRows
    BY <1>1, <2>1 DEF IInv, Flushes, RowsKept, Written
  <2>3. QED
    BY <1>11, <1>12, <2>2
<1>14. QED
  BY <1>9, <1>10, <1>13 DEF IInv


\* The process dies: what it was writing may be there in part.
LEMMA CrashStep ==
    ASSUME IInv, Crash
    PROVE  IInv'
<1>1. /\ phase' = "stopped" /\ crashes' = crashes + 1 /\ crashes < MaxCrashes /\ sanitized' = <<>>
      /\ struck' = (struck \/ phase = "rewrite") /\ UNCHANGED <<program, flushed>>
  BY DEF Crash
<1>2. /\ crashes' \in 0 .. MaxCrashes /\ file \in Seq(Token)
      /\ struck' \in BOOLEAN /\ (struck => struck') /\ (phase = "rewrite" => struck')
  <2>1. crashes' \in 0 .. MaxCrashes
    <3>1. crashes \in 0 .. MaxCrashes
      BY DEF IInv, TypeOK
    <3>2. QED
      BY <1>1, <3>1, Bounds
  <2>2. file \in Seq(Token)
    BY DEF IInv, TypeOK
  <2>3. QED
    BY <1>1, <2>1, <2>2
<1>3. <<>> \in Seq(Token) /\ ~Has(<<>>, "header") /\ ~Has(<<>>, "nul") /\ HeaderOnTop(<<>>)
  BY DEF Has, HeaderOnTop
<1>4. ASSUME file' \in Seq(Token), HeaderOnTop(file'),
             file' = <<>> \/ Has(file', "nul") \/ Headed(file'), Flushes'
      PROVE  IInv'
  <2>1. TypeOK'
    BY <1>1, <1>2, <1>3, <1>4 DEF IInv, TypeOK
  <2>2. Headers'
    BY <1>1, <1>3, <1>4 DEF Headers
  <2>3. QED
    BY <1>4, <2>1, <2>2 DEF IInv
<1>5. CASE phase = "rewrite"
  <2>1. PICK k \in {0} \cup 2 .. Len(Rewritten) : file' = SubSeq(Rewritten, 1, k)
    BY <1>5 DEF Crash
  <2>2. Rewritten \in Seq(Token) /\ HeaderOnTop(Rewritten) /\ Headed(Rewritten)
    BY RewrittenHeaded
  <2>3. /\ file' \in Seq(Token) /\ Len(file') = k /\ k \in Nat
        /\ \A j \in 1 .. k : file'[j] = Rewritten[j] /\ j \in DOMAIN Rewritten
    <3>1. Len(Rewritten) \in Nat /\ DOMAIN Rewritten = 1 .. Len(Rewritten)
      BY <2>2
    <3>2. k \in 0 .. Len(Rewritten)
      BY <2>1, <3>1
    <3>3. QED
      BY <2>1, <2>2, <3>1, <3>2
  <2>4. HeaderOnTop(file')
    BY <2>2, <2>3 DEF HeaderOnTop
  <2>5. file' = <<>> \/ Headed(file')
    <3>1. CASE k = 0
      BY <2>3, <3>1
    <3>2. CASE k # 0
      <4>1. k >= 2 /\ 1 \in 1 .. k /\ 2 \in 1 .. k
        BY <2>1, <2>3, <3>2
      <4>2. QED
        BY <2>2, <2>3, <4>1 DEF Headed
    <3>3. QED
      BY <3>1, <3>2
  <2>6. Flushes'
    BY <1>1, <1>5 DEF Flushes
  <2>7. QED
    BY <1>4, <2>3, <2>4, <2>5, <2>6
<1>6. CASE phase # "rewrite" /\ UNCHANGED file
  <2>1. struck' = struck /\ phase' \notin {"open", "running", "interrupted"}
    BY <1>1, <1>6 DEF IInv, TypeOK
  <2>2. QED
    BY <1>1, <1>2, <1>6, <2>1, FileUntouched
<1>7. CASE phase # "rewrite" /\ Streaming /\ file' # file
  <2>0. PICK k \in 0 .. (IF program = "bbo" THEN 0 ELSE Bands - 1) :
            \E piece \in {<<>>, <<Mark("torn")>>} : file' = file \o Rows(0, k) \o piece
    BY <1>7 DEF Crash
  <2>1. PICK piece : /\ piece = <<>> \/ piece = <<Mark("torn")>>
                     /\ file' = file \o Rows(0, k) \o piece
    BY <2>0
  <2> DEFINE rows == Rows(0, k)
             dirt == rows \o piece
             U == {Row(0), Mark("newline"), Mark("torn")}
  <2>2. k \in Nat
    BY <2>0, Bounds
  <2>3. rows \in Seq({Row(0), Mark("newline")})
    BY <2>2, RowsType
  <2>4. U \subseteq Token /\ U \cap Written = {} /\ \A t \in U : t.kind \notin {"header", "nul"}
    <3>1. U \subseteq Token
      BY RowTokens
    <3>2. U \cap Written = {}
      BY RowTokens, Bounds
    <3>3. \A t \in U : t.kind \notin {"header", "nul"}
      BY DEF Row, Mark
    <3>4. QED
      BY <3>1, <3>2, <3>3
  <2>5. piece \in Seq(U)
    <3> DEFINE t == Mark("torn")
    <3>1. t \in U
      OBVIOUS
    <3>2. piece = <<>> \/ piece = <<t>>
      BY <2>1
    <3> HIDE DEF U, t
    <3>3. <<t>> \in Seq(U) /\ <<>> \in Seq(U)
      BY <3>1
    <3>4. CASE piece = <<>>
      BY <3>3, <3>4
    <3>5. CASE piece = <<t>>
      BY <3>3, <3>5
    <3>6. QED
      BY <3>2, <3>4, <3>5
  <2> HIDE DEF rows
  <2>6. rows \in Seq(U)
    BY <2>3
  <2> HIDE DEF U
  <2>7. dirt \in Seq(U)
    BY <2>5, <2>6
  <2>8. file' = file \o dirt
    <3>1. rows \in Seq(Token) /\ piece \in Seq(Token)
      BY <2>4, <2>5, <2>6
    <3>2. (file \o rows) \o piece = file \o (rows \o piece)
      BY <1>2, <3>1
    <3>3. QED
      BY <2>1, <3>2 DEF rows
  <2> HIDE DEF dirt
  <2>9. dirt \in Seq(Token) /\ ~Has(dirt, "header") /\ ~Has(dirt, "nul")
    BY <2>4, <2>7 DEF Has
  <2>10. HeaderOnTop(file) /\ Headed(file) /\ ~Has(file, "nul")
    BY <1>7 DEF IInv, Headers, Streaming
  <2>11. file' \in Seq(Token) /\ HeaderOnTop(file') /\ Headed(file') /\ ~Has(file', "nul")
    BY <1>2, <2>8, <2>9, <2>10, Appended
  <2>12. Keep(Written, file') = Keep(Written, file)
    <3>1. Keep(Written, file') = Keep(Written, file) \o Keep(Written, dirt)
      BY <1>2, <2>8, <2>9, KeepConcat
    <3>2. Keep(Written, dirt) = <<>>
      BY <2>4, <2>7, KeepForeign
    <3>3. Keep(Written, file) \in Seq(Token \cap Written)
      BY <1>2, KeepType
    <3>4. Keep(Written, file) \o <<>> = Keep(Written, file)
      BY <3>3
    <3>5. QED
      BY <3>1, <3>2, <3>4
  <2>13. Flushes'
    <3>1. SUFFICES ASSUME ~struck
                   PROVE  Keep(Written, file') = FlushedRows'
      BY <1>1, <2>11 DEF Flushes, RowsKept, Written
    <3>2. Keep(Written, file) = FlushedRows
      BY <1>7, <3>1 DEF IInv, Flushes, RowsKept, Written
    <3>3. QED
      BY <1>1, <2>12, <3>2 DEF FlushedRows
  <2>14. QED
    BY <1>4, <2>11, <2>13
<1>8. QED
  BY <1>5, <1>6, <1>7 DEF Crash

\* The machine dies: what is lost is marked by NUL bytes.
LEMMA PowerFailureStep ==
    ASSUME IInv, PowerFailure
    PROVE  IInv'
<1>1. /\ phase' = "stopped" /\ crashes' = crashes + 1 /\ crashes < MaxCrashes /\ sanitized' = <<>>
      /\ struck' = TRUE /\ UNCHANGED <<program, flushed>>
  BY DEF PowerFailure
<1>2. PICK k \in 0 .. Len(file) : file' = Append(SubSeq(file, 1, k), Mark("nul"))
  BY DEF PowerFailure
<1>3. <<>> \in Seq(Token) /\ ~Has(<<>>, "header") /\ ~Has(<<>>, "nul")
  BY DEF Has
<1>4. file \in Seq(Token) /\ Len(file) \in Nat /\ DOMAIN file = 1 .. Len(file)
  <2>1. file \in Seq(Token)
    BY DEF IInv, TypeOK
  <2>2. QED
    BY <2>1
<1>5. Mark("nul") \in Token /\ Mark("nul").kind = "nul"
  BY RowTokens DEF Mark
<1>6. /\ file' \in Seq(Token) /\ DOMAIN file' = 1 .. k + 1 /\ file'[k + 1] = Mark("nul") /\ k \in Nat
      /\ \A j \in 1 .. k : file'[j] = file[j] /\ j \in DOMAIN file
  <2> DEFINE left == SubSeq(file, 1, k)
  <2>1. left \in Seq(Token) /\ Len(left) = k /\ k \in Nat /\ \A j \in 1 .. k : left[j] = file[j] /\ j \in DOMAIN file
    BY <1>4
  <2> HIDE DEF left
  <2>2. file' = Append(left, Mark("nul"))
    BY <1>2 DEF left
  <2>3. QED
    BY <1>5, <2>1, <2>2
<1>7. HeaderOnTop(file')
  <2>1. HeaderOnTop(file)
    BY DEF IInv, Headers
  <2>2. \A j \in 1 .. k + 1 : j \in 1 .. k \/ j = k + 1
    BY <1>6
  <2>3. QED
    BY <1>5, <1>6, <2>1, <2>2 DEF HeaderOnTop
<1>8. Has(file', "nul")
  BY <1>5, <1>6 DEF Has
<1>9. crashes' \in 0 .. MaxCrashes
  <2>1. crashes \in 0 .. MaxCrashes
    BY DEF IInv, TypeOK
  <2>2. QED
    BY <1>1, <2>1, Bounds
<1>10. TypeOK'
  BY <1>1, <1>3, <1>6, <1>9 DEF IInv, TypeOK
<1>11. Headers'
  BY <1>1, <1>3, <1>7, <1>8 DEF Headers
<1>12. Flushes'
  BY <1>1 DEF Flushes
<1>13. QED
  BY <1>10, <1>11, <1>12 DEF IInv

(***************************************************************************)
(* The theorems.                                                           *)
(***************************************************************************)

\* The invariant holds, whatever happens to the service and its machine.
LEMMA CsvInvariant == Spec => []IInv
<1>1. Init => IInv
  <2>1. SUFFICES ASSUME Init
                 PROVE  IInv
    OBVIOUS
  <2>2. <<>> \in Seq(Token) /\ <<>> \in Seq(Nat) /\ Len(<<>>) = 0 /\ DOMAIN <<>> = {}
    OBVIOUS
  <2>3. ~Has(<<>>, "header") /\ ~Has(<<>>, "nul") /\ HeaderOnTop(<<>>)
    BY <2>2 DEF Has, HeaderOnTop
  <2>4. TypeOK
    <3>1. 0 <= MaxViews /\ 0 \in 0 .. MaxCrashes
      BY Bounds
    <3>2. QED
      BY <2>1, <2>2, <3>1 DEF Init, TypeOK
  <2>5. Headers
    BY <2>1, <2>3 DEF Init, Headers
  <2>6. FlushedRows = <<>>
    <3>1. [v \in DOMAIN flushed |-> [k \in 1 .. flushed[v] |-> Row(v)]] = <<>>
      <4>1. DOMAIN flushed = 1 .. 0
        <5>1. flushed = <<>>
          BY <2>1 DEF Init
        <5>2. DOMAIN <<>> = 1 .. 0
          OBVIOUS
        <5>3. QED
          BY <5>1, <5>2
      <4>2. [v \in 1 .. 0 |-> [k \in 1 .. flushed[v] |-> Row(v)]] = <<>>
        OBVIOUS
      <4>3. QED
        BY <4>1, <4>2
    <3>2. QED
      BY <3>1, FlattenNothing DEF FlushedRows
  <2>7. Flushes
    BY <2>1, <2>3, <2>6, KeepNothing DEF Init, Flushes, RowsKept
  <2>8. QED
    BY <2>4, <2>5, <2>7 DEF IInv
<1>2. IInv /\ [Next]_vars => IInv'
  <2>1. SUFFICES ASSUME IInv, [Next]_vars
                 PROVE  IInv'
    OBVIOUS
  <2>2. CASE Start \/ Open \/ Signal \/ Stop \/ FailToOpen \/ UNCHANGED vars
    BY <2>1, <2>2, QuietSteps
  <2>3. CASE EnsureHeader \/ Rewrite
    BY <2>1, <2>3, EnsureHeaderStep, RewriteStep
  <2>4. CASE WriteBbo \/ WritePriceBands \/ WriteVolumeBands
    <3>1. \E count \in Nat : Write(count)
      BY <2>4, Bounds DEF WriteBbo, WritePriceBands, WriteVolumeBands
    <3>2. QED
      BY <2>1, <3>1, WriteStep
  <2>5. CASE Crash \/ PowerFailure
    BY <2>1, <2>5, CrashStep, PowerFailureStep
  <2>6. QED
    BY <2>1, <2>2, <2>3, <2>4, <2>5 DEF Next
<1>3. QED
  BY <1>1, <1>2, PTL DEF Spec

\* The file holds tokens and the service keeps its types, for any number of
\* bands, views and crashes.
THEOREM TypeCorrect == Spec => []TypeOK
<1>1. IInv => TypeOK
  BY DEF IInv
<1>2. QED
  BY <1>1, CsvInvariant, PTL

\* However often the service or its machine died, while it writes the file has
\* its header line on top, once, and no NUL bytes.
THEOREM HeaderIsOnce == Spec => []HeaderOnce
<1>1. IInv => HeaderOnce
  <2>1. SUFFICES ASSUME IInv, Streaming
                 PROVE  /\ Len(file) >= 2
                        /\ SubSeq(file, 1, 2) = <<Mark("header"), Mark("newline")>>
                        /\ ~Has(SubSeq(file, 3, Len(file)), "header") /\ ~Has(file, "nul")
    BY DEF HeaderOnce
  <2>2. Headed(file) /\ ~Has(file, "nul") /\ HeaderOnTop(file)
    BY <2>1 DEF IInv, Headers, Streaming
  <2>3. file \in Seq(Token) /\ Len(file) >= 2 /\ file[1] = Mark("header") /\ file[2] = Mark("newline")
    BY <2>1, <2>2 DEF IInv, TypeOK, Headed
  <2>4. SubSeq(file, 1, 2) = <<Mark("header"), Mark("newline")>>
    <3> DEFINE top == SubSeq(file, 1, 2)
    <3>1. Len(file) \in Nat /\ DOMAIN file = 1 .. Len(file)
      BY <2>3
    <3>2. top \in Seq(Token) /\ Len(top) = 2 /\ top[1] = file[1] /\ top[2] = file[2]
      BY <2>3, <3>1
    <3> HIDE DEF top
    <3>3. top = <<top[1], top[2]>>
      BY <3>2
    <3>4. QED
      BY <2>3, <3>2, <3>3 DEF top
  <2>5. ~Has(SubSeq(file, 3, Len(file)), "header")
    <3> DEFINE rest == SubSeq(file, 3, Len(file))
    <3>1. Len(file) \in Nat /\ DOMAIN file = 1 .. Len(file)
      BY <2>3
    <3>2. /\ DOMAIN rest = 1 .. Len(file) - 2
          /\ \A k \in 1 .. Len(file) - 2 : rest[k] = file[k + 2] /\ k + 2 \in DOMAIN file /\ k + 2 # 1
      BY <2>3, <3>1
    <3> HIDE DEF rest
    <3>3. ~Has(rest, "header")
      BY <2>2, <3>2 DEF Has, HeaderOnTop
    <3>4. QED
      BY <3>3 DEF rest
  <2>6. QED
    BY <2>2, <2>3, <2>4, <2>5
<1>2. QED
  BY <1>1, CsvInvariant, PTL

\* Rows that were flushed are in the file for good, in order and once, unless
\* a crash hit a rewrite or the power failed.
THEOREM FlushedRowsAreKept == Spec => []RowsKept
<1>1. IInv => RowsKept
  BY DEF IInv, Flushes, RowsKept
<1>2. QED
  BY <1>1, CsvInvariant, PTL

=============================================================================
