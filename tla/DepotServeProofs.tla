---------------------------- MODULE DepotServeProofs ----------------------------
(***************************************************************************)
(* Proof that the HTTP server takes the requests of a client in the order  *)
(* they were sent, none from the body of another, and answers each before  *)
(* it looks at the next: for any connections, scripts of requests and      *)
(* budgets.  What is left of a client's tokens is followed from the        *)
(* request they begin in, for which the flattened script is taken apart by *)
(* an induction over its requests.                                         *)
(***************************************************************************)
EXTENDS DepotServe, FiniteSetTheorems, SequenceTheorems, WellFoundedInduction, TLAPS

-------------------------------------------------------------------------------
\* Induction over the numbers.
Less == {p \in Nat \X Nat : p[1] < p[2]}

LEMMA LessFounded == IsWellFoundedOn(Less, Nat)
<1>1. Less = OpToRel(<, Nat)
  BY Zenon DEF Less, OpToRel
<1> QED
  BY <1>1, NatLessThanWellFounded

LEMMA LeastNat ==
    ASSUME NEW T, T \subseteq Nat, T # {}
    PROVE  \E n \in T : \A m \in T : n <= m
<1>1. PICK n \in T : \A m \in T : ~ (<<m, n>> \in Less)
  BY LessFounded, WFMin, Zenon
<1>2. ASSUME NEW m \in T PROVE n <= m
  <2>1. m \in Nat /\ n \in Nat
    OBVIOUS
  <2>2. m < n => <<m, n>> \in Less
    BY <2>1 DEF Less
  <2> QED
    BY <1>1, <2>1, <2>2
<1> QED
  BY <1>2

\* What holds of 0 and, with a number, of the next holds of all: T is where it holds.
LEMMA AllNat ==
    ASSUME NEW T, 0 \in T, \A n \in Nat : n \in T => n + 1 \in T
    PROVE  Nat \subseteq T
<1> SUFFICES ASSUME Nat \ T # {} PROVE FALSE
  OBVIOUS
<1>1. PICK n \in Nat \ T : \A m \in Nat \ T : n <= m
  BY LeastNat
<1>2. n # 0 /\ n - 1 \in Nat /\ (n - 1) + 1 = n
  BY <1>1
<1>3. n - 1 \in T
  BY <1>1, <1>2
<1> QED
  BY <1>1, <1>2, <1>3

-------------------------------------------------------------------------------
\* What a client sends, one request after the other.  f[i] is what the first i are.
Flats(seqs, f) == f = [i \in 1..Len(seqs) |-> IF i = 1 THEN seqs[i] ELSE f[i - 1] \o seqs[i]]

LEMMA FlattenUnfolds ==
    ASSUME NEW seqs, Len(seqs) # 0
    PROVE  FlattenSeq(seqs) = (CHOOSE f : Flats(seqs, f))[Len(seqs)]
BY DEF FlattenSeq, Flats

LEMMA FlatsExist ==
    ASSUME NEW V, NEW seqs \in Seq(Seq(V))
    PROVE  \E f : Flats(seqs, f)
<1> DEFINE N == Len(seqs)
           Upto(m, g) == \A i \in 1..N : i <= m =>
                            g[i] = IF i = 1 THEN seqs[i] ELSE g[i - 1] \o seqs[i]
           T == {m \in Nat : \E g \in [1..N -> Seq(V)] : Upto(m, g)}
<1>0. N \in Nat /\ \A i \in 1..N : seqs[i] \in Seq(V)
  OBVIOUS
<1>1. 0 \in T
  <2>1. [i \in 1..N |-> <<>>] \in [1..N -> Seq(V)]
    OBVIOUS
  <2>2. Upto(0, [i \in 1..N |-> <<>>])
    BY <1>0
  <2> QED
    BY <2>1, <2>2
<1>2. ASSUME NEW m \in Nat, m \in T PROVE m + 1 \in T
  <2>1. PICK g \in [1..N -> Seq(V)] : Upto(m, g)
    BY <1>2
  <2> DEFINE piece == IF m = 0 THEN seqs[m + 1] ELSE g[m] \o seqs[m + 1]
             next == [i \in 1..N |-> IF i = m + 1 THEN piece ELSE g[i]]
  <2>2. m + 1 \in 1..N => piece \in Seq(V)
    <3> SUFFICES ASSUME m + 1 \in 1..N PROVE piece \in Seq(V)
      OBVIOUS
    <3>1. seqs[m + 1] \in Seq(V)
      BY <1>0
    <3>2. m # 0 => m \in 1..N
      BY <1>0
    <3>3. m # 0 => g[m] \in Seq(V)
      BY <3>2
    <3> QED
      BY <3>1, <3>3
  <2>3. next \in [1..N -> Seq(V)]
    BY <2>2
  <2>4. Upto(m + 1, next)
    <3> SUFFICES ASSUME NEW i \in 1..N, i <= m + 1
                 PROVE  next[i] = IF i = 1 THEN seqs[i] ELSE next[i - 1] \o seqs[i]
      OBVIOUS
    <3>1. CASE i = m + 1
      BY <1>0, <3>1
    <3>2. CASE i # m + 1
      <4>1. i <= m /\ i - 1 # m + 1
        BY <1>0, <3>2
      <4>2. next[i] = g[i] /\ (i # 1 => next[i - 1] = g[i - 1])
        BY <1>0, <4>1, <3>2
      <4> QED
        BY <2>1, <4>1, <4>2
    <3> QED
      BY <3>1, <3>2
  <2> HIDE DEF next, Upto
  <2> QED
    BY <2>3, <2>4
<1>3. N \in T
  <2> HIDE DEF T
  <2> QED
    BY <1>0, <1>1, <1>2, AllNat
<1>4. PICK g \in [1..N -> Seq(V)] : Upto(N, g)
  BY <1>3
<1>5. \A i \in 1..N : g[i] = IF i = 1 THEN seqs[i] ELSE g[i - 1] \o seqs[i]
  <2> SUFFICES ASSUME NEW i \in 1..N
               PROVE  g[i] = IF i = 1 THEN seqs[i] ELSE g[i - 1] \o seqs[i]
    OBVIOUS
  <2>1. i <= N
    BY <1>0
  <2> QED
    BY <1>4, <2>1
<1>6. Flats(seqs, g)
  BY <1>5 DEF Flats
<1> QED
  BY <1>6

\* Where the pieces are: piece n begins behind those before it.
Parts(seqs, whole, at) ==
    /\ at \in [1..(Len(seqs) + 1) -> Nat] /\ at[1] = 0 /\ at[Len(seqs) + 1] = Len(whole)
    /\ \A n \in 1..Len(seqs) :
           /\ at[n + 1] = at[n] + Len(seqs[n])
           /\ \A i \in 1..Len(seqs[n]) : whole[at[n] + i] = seqs[n][i]

LEMMA Between ==
    ASSUME NEW x \in Nat, NEW y \in Nat, NEW z \in Nat, x + y <= z
    PROVE  (\A i \in 1..y : x + i \in 1..z) /\ (\A w \in Nat : x + y <= z + w)
OBVIOUS

LEMMA FlattenParts ==
    ASSUME NEW V, NEW seqs \in Seq(Seq(V))
    PROVE  FlattenSeq(seqs) \in Seq(V) /\ \E at : Parts(seqs, FlattenSeq(seqs), at)
<1> DEFINE N == Len(seqs)
<1>0. N \in Nat /\ \A i \in 1..N : seqs[i] \in Seq(V)
  OBVIOUS
<1>1. CASE N = 0
  <2>1. seqs = <<>> /\ FlattenSeq(seqs) = seqs
    BY <1>1 DEF FlattenSeq
  <2>2. Parts(seqs, seqs, [n \in 1..1 |-> 0])
    BY <2>1 DEF Parts
  <2>3. seqs \in Seq(V)
    BY <2>1
  <2> QED
    BY <2>1, <2>2, <2>3
<1>2. CASE N # 0
  <2>1. PICK f : Flats(seqs, f) /\ FlattenSeq(seqs) = f[N]
    <3>1. Flats(seqs, CHOOSE f : Flats(seqs, f))
      BY FlatsExist
    <3> QED
      BY <1>2, <3>1, FlattenUnfolds
  <2>2. \A i \in 1..N : f[i] = IF i = 1 THEN seqs[i] ELSE f[i - 1] \o seqs[i]
    BY <2>1 DEF Flats
  <2> DEFINE at == [n \in 1..(N + 1) |-> IF n = 1 THEN 0 ELSE Len(f[n - 1])]
             Right(m) == /\ f[m] \in Seq(V)
                         /\ \A n \in 1..m :
                                /\ at[n] \in Nat
                                /\ at[n + 1] = at[n] + Len(seqs[n]) /\ at[n + 1] <= Len(f[m])
                                /\ \A i \in 1..Len(seqs[n]) : f[m][at[n] + i] = seqs[n][i]
             T == {m \in Nat : m \in 1..N => Right(m)}
  <2> HIDE DEF Right
  <2>3. 0 \in T
    BY <1>0
  <2>4. ASSUME NEW m \in Nat, m \in T PROVE m + 1 \in T
    <3> SUFFICES ASSUME m + 1 \in 1..N PROVE Right(m + 1)
      OBVIOUS
    <3> DEFINE k == m + 1
    <3>1. k \in 1..N /\ k \in Nat /\ (m # 0 => m \in 1..N) /\ seqs[k] \in Seq(V) /\ k + 1 \in 1..(N + 1)
      BY <1>0
    <3>2. CASE m = 0
      <4>1. f[k] = seqs[k] /\ k = 1
        BY <2>2, <3>1, <3>2
      <4>2. at[1] = 0 /\ at[2] = Len(seqs[1])
        BY <1>0, <3>1, <4>1
      <4> HIDE DEF at
      <4>3. Right(1)
        BY <3>1, <4>1, <4>2 DEF Right
      <4> QED
        BY <4>1, <4>3
    <3>3. CASE m # 0
      <4>0. Right(m)
        BY <2>4, <3>1, <3>3
      <4>1. f[k] = f[m] \o seqs[k]
        <5>1. k # 1 /\ k - 1 = m
          BY <3>3
        <5> QED
          BY <2>2, <3>1, <5>1
      <4>2. at[k] = Len(f[m]) /\ at[k + 1] = Len(f[k])
        BY <1>0, <3>1, <3>3
      <4> HIDE DEF at
      <4>3. /\ f[m] \in Seq(V) /\ f[k] \in Seq(V) /\ Len(f[k]) = Len(f[m]) + Len(seqs[k])
            /\ Len(f[m]) \in Nat /\ Len(seqs[k]) \in Nat
            /\ \A j \in 1..Len(f[m]) : f[k][j] = f[m][j]
            /\ \A j \in 1..Len(seqs[k]) : f[k][Len(f[m]) + j] = seqs[k][j]
        <5>1. f[m] \in Seq(V)
          BY <4>0 DEF Right
        <5> HIDE DEF k
        <5>2. PICK a, b : a = f[m] /\ b = seqs[k] /\ a \in Seq(V) /\ b \in Seq(V)
          BY <3>1, <5>1
        <5>3. Len(a) \in Nat /\ Len(b) \in Nat
          BY <5>2
        <5>4. /\ a \o b \in Seq(V) /\ Len(a \o b) = Len(a) + Len(b)
              /\ \A j \in 1..(Len(a) + Len(b)) :
                     (a \o b)[j] = IF j <= Len(a) THEN a[j] ELSE b[j - Len(a)]
          BY <5>2, ConcatProperties
        <5>5. \A j \in 1..Len(a) : (a \o b)[j] = a[j]
          BY <5>3, <5>4
        <5>6. ASSUME NEW j \in 1..Len(b) PROVE (a \o b)[Len(a) + j] = b[j]
          <6>1. Len(a) + j \in 1..(Len(a) + Len(b)) /\ ~ (Len(a) + j <= Len(a)) /\ (Len(a) + j) - Len(a) = j
            BY <5>3
          <6> QED
            BY <5>4, <6>1
        <5> QED
          BY <4>1, <5>2, <5>3, <5>4, <5>5, <5>6
      <4> HIDE DEF k
      <4>4. ASSUME NEW n \in 1..k
            PROVE  /\ at[n] \in Nat
                   /\ at[n + 1] = at[n] + Len(seqs[n]) /\ at[n + 1] <= Len(f[k])
                   /\ \A i \in 1..Len(seqs[n]) : f[k][at[n] + i] = seqs[n][i]
        <5>1. CASE n = k
          <6>1. at[n] = Len(f[m]) /\ at[n + 1] = Len(f[m]) + Len(seqs[n])
            BY <4>2, <4>3, <5>1
          <6>2. Len(f[m]) + Len(seqs[n]) <= Len(f[k])
            BY <4>3, <5>1
          <6> QED
            BY <4>3, <5>1, <6>1, <6>2
        <5>2. CASE n # k
          <6>1. n \in 1..m /\ n \in 1..N
            BY <1>0, <3>1, <5>2 DEF k
          <6>2. at[n] \in Nat /\ at[n + 1] = at[n] + Len(seqs[n]) /\ at[n + 1] <= Len(f[m])
            BY <4>0, <6>1 DEF Right
          <6>5. \A i \in 1..Len(seqs[n]) : f[m][at[n] + i] = seqs[n][i]
            BY <4>0, <6>1 DEF Right
          <6>3. Len(seqs[n]) \in Nat
            <7>1. seqs[n] \in Seq(V)
              BY <1>0, <6>1
            <7> QED
              BY <7>1
          <6>4. ASSUME NEW i \in 1..Len(seqs[n]) PROVE f[k][at[n] + i] = seqs[n][i]
            <7>4. at[n] + i \in 1..Len(f[m])
              <8>1. at[n] + Len(seqs[n]) <= Len(f[m]) /\ Len(f[m]) \in Nat /\ at[n] \in Nat
                BY <4>3, <6>2
              <8> QED
                BY <6>3, <8>1, Between
            <7>2. f[k][at[n] + i] = f[m][at[n] + i]
              BY <4>3, <7>4
            <7> QED
              BY <6>5, <7>2
          <6>6. at[n + 1] <= Len(f[k])
            <7>1. at[n] + Len(seqs[n]) <= Len(f[m]) /\ Len(f[m]) \in Nat /\ at[n] \in Nat
              BY <4>3, <6>2
            <7>2. at[n] + Len(seqs[n]) <= Len(f[m]) + Len(seqs[k])
              BY <4>3, <6>3, <7>1, Between
            <7> QED
              BY <4>3, <6>2, <7>2
          <6> QED
            BY <6>2, <6>4, <6>6
        <5> QED
          BY <5>1, <5>2
      <4> QED
        BY <4>3, <4>4 DEF Right, k
    <3> QED
      BY <3>2, <3>3
  <2>5. Right(N)
    <3>1. N \in T
      <4> HIDE DEF T
      <4> QED
        BY <1>0, <2>3, <2>4, AllNat
    <3>2. N \in 1..N
      BY <1>0, <1>2
    <3> QED
      BY <3>1, <3>2
  <2>6. at[1] = 0 /\ at[N + 1] = Len(f[N]) /\ N \in 1..N /\ at \in [1..(N + 1) -> Nat]
    <3>1. at[1] = 0 /\ at[N + 1] = Len(f[N]) /\ N \in 1..N
      BY <1>0, <1>2
    <3>2. \A n \in 1..(N + 1) : at[n] \in Nat
      <4> SUFFICES ASSUME NEW n \in 1..(N + 1) PROVE at[n] \in Nat
        OBVIOUS
      <4>1. n \in 1..N \/ n = N + 1
        BY <1>0
      <4> HIDE DEF at
      <4> QED
        BY <2>5, <3>1, <4>1 DEF Right
    <3> QED
      BY <3>1, <3>2
  <2> HIDE DEF at
  <2>7. Parts(seqs, f[N], at)
    BY <2>5, <2>6 DEF Parts, Right
  <2>8. f[N] \in Seq(V)
    BY <2>5 DEF Right
  <2> QED
    BY <2>1, <2>7, <2>8
<1> QED
  BY <1>1, <1>2

-------------------------------------------------------------------------------
\* The requests of a script, each the tokens it is.
Token == {"line", "blank", "data"} \X Nat
Asked == [plan : {"respond", "buffer", "stream"}, body : Nat, pulls : Nat]
Scripts == Seq(Asked)
Piece(script, n) ==
    <<<<"line", n>>, <<"blank", n>>>> \o [i \in 1..script[n].body |-> <<"data", n>>]
Pieces(script) == [n \in DOMAIN script |-> Piece(script, n)]

LEMMA PieceIs ==
    ASSUME NEW script \in Scripts, NEW n \in 1..Len(script)
    PROVE  /\ Piece(script, n) \in Seq(Token) /\ Len(Piece(script, n)) = 2 + script[n].body
           /\ Piece(script, n)[1] = <<"line", n>> /\ Piece(script, n)[2] = <<"blank", n>>
           /\ script[n].body \in Nat
<1>1. script[n].body \in Nat /\ n \in Nat
  <2>1. script[n] \in Asked
    BY ElementOfSeq DEF Scripts
  <2> QED
    BY <2>1 DEF Asked
<1> DEFINE a == <<<<"line", n>>, <<"blank", n>>>>
           b == [i \in 1..script[n].body |-> <<"data", n>>]
<1>2. a \in Seq(Token) /\ Len(a) = 2 /\ a[1] = <<"line", n>> /\ a[2] = <<"blank", n>>
  BY <1>1 DEF Token
<1>3. b \in Seq(Token) /\ Len(b) = script[n].body
  BY <1>1 DEF Token
<1> HIDE DEF a, b
<1>4. /\ a \o b \in Seq(Token) /\ Len(a \o b) = 2 + script[n].body
      /\ (a \o b)[1] = a[1] /\ (a \o b)[2] = a[2]
  <2>1. \A i \in 1..(Len(a) + Len(b)) : (a \o b)[i] = IF i <= Len(a) THEN a[i] ELSE b[i - Len(a)]
    BY <1>2, <1>3, ConcatProperties
  <2>2. 1 \in 1..(Len(a) + Len(b)) /\ 2 \in 1..(Len(a) + Len(b))
    BY <1>1, <1>2, <1>3
  <2>3. a \o b \in Seq(Token) /\ Len(a \o b) = Len(a) + Len(b)
    BY <1>2, <1>3, ConcatProperties
  <2>4. Len(a \o b) = 2 + script[n].body
    BY <1>2, <1>3, <2>3
  <2>5. 1 <= Len(a) /\ 2 <= Len(a)
    BY <1>2
  <2>6. (a \o b)[1] = a[1] /\ (a \o b)[2] = a[2]
    BY <2>1, <2>2, <2>5
  <2> QED
    BY <2>3, <2>4, <2>6
<1>5. Piece(script, n) = a \o b
  BY DEF Piece, a, b
<1> QED
  BY <1>1, <1>2, <1>4, <1>5

\* Where request n begins among what its client sends, and what its head is there.
Starts(script, at) ==
    /\ Tokens(script) \in Seq(Token)
    /\ at \in [1..(Len(script) + 1) -> Nat] /\ at[1] = 0
    /\ at[Len(script) + 1] = Len(Tokens(script))
    /\ \A n \in 1..Len(script) :
           /\ script[n].body \in Nat /\ at[n + 1] = at[n] + 2 + script[n].body
           /\ Tokens(script)[at[n] + 1] = <<"line", n>>
           /\ Tokens(script)[at[n] + 2] = <<"blank", n>>

LEMMA TokensStart ==
    ASSUME NEW script \in Scripts
    PROVE  \E at : Starts(script, at)
<1>1. Tokens(script) = FlattenSeq(Pieces(script))
  BY DEF Tokens, Pieces, Piece
<1>2. /\ Len(script) \in Nat /\ DOMAIN script = 1..Len(script)
      /\ Pieces(script) \in Seq(Seq(Token)) /\ Len(Pieces(script)) = Len(script)
      /\ \A n \in 1..Len(script) : Pieces(script)[n] = Piece(script, n)
  <2>1. Len(script) \in Nat /\ DOMAIN script = 1..Len(script)
    BY DEF Scripts
  <2>2. \A n \in 1..Len(script) : Piece(script, n) \in Seq(Token)
    BY PieceIs
  <2>3. Pieces(script) = [n \in 1..Len(script) |-> Piece(script, n)]
    BY <2>1 DEF Pieces
  <2> QED
    BY <2>1, <2>2, <2>3
<1>3. PICK at : FlattenSeq(Pieces(script)) \in Seq(Token) /\ Parts(Pieces(script), FlattenSeq(Pieces(script)), at)
  BY <1>2, FlattenParts
<1>4. Parts(Pieces(script), Tokens(script), at) /\ Tokens(script) \in Seq(Token)
  BY <1>1, <1>3
<1>5. /\ at \in [1..(Len(script) + 1) -> Nat] /\ at[1] = 0 /\ at[Len(script) + 1] = Len(Tokens(script))
      /\ \A n \in 1..Len(script) :
             /\ at[n + 1] = at[n] + Len(Piece(script, n))
             /\ \A i \in 1..Len(Piece(script, n)) : Tokens(script)[at[n] + i] = Piece(script, n)[i]
  <2>1. /\ at \in [1..(Len(script) + 1) -> Nat] /\ at[1] = 0 /\ at[Len(script) + 1] = Len(Tokens(script))
        /\ \A n \in 1..Len(script) :
               /\ at[n + 1] = at[n] + Len(Pieces(script)[n])
               /\ \A i \in 1..Len(Pieces(script)[n]) : Tokens(script)[at[n] + i] = Pieces(script)[n][i]
    BY <1>2, <1>4 DEF Parts
  <2> QED
    BY <1>2, <2>1
<1>6. ASSUME NEW n \in 1..Len(script)
      PROVE  /\ script[n].body \in Nat /\ at[n + 1] = at[n] + 2 + script[n].body
             /\ Tokens(script)[at[n] + 1] = <<"line", n>>
             /\ Tokens(script)[at[n] + 2] = <<"blank", n>>
  <2>1. /\ Len(Piece(script, n)) = 2 + script[n].body /\ script[n].body \in Nat
        /\ Piece(script, n)[1] = <<"line", n>> /\ Piece(script, n)[2] = <<"blank", n>>
    BY PieceIs
  <2>2. 1 \in 1..Len(Piece(script, n)) /\ 2 \in 1..Len(Piece(script, n))
    BY <2>1
  <2>3. at[n] \in Nat
    <3>1. n \in 1..(Len(script) + 1)
      BY <1>2
    <3> QED
      BY <1>5, <3>1
  <2>4. at[n + 1] = at[n] + (2 + script[n].body)
    BY <1>5, <2>1
  <2>5. at[n + 1] = at[n] + 2 + script[n].body
    BY <2>1, <2>3, <2>4
  <2>6. Tokens(script)[at[n] + 1] = <<"line", n>> /\ Tokens(script)[at[n] + 2] = <<"blank", n>>
    BY <1>5, <2>1, <2>2
  <2> QED
    BY <2>1, <2>5, <2>6
<1> QED
  BY <1>4, <1>5, <1>6 DEF Starts

-------------------------------------------------------------------------------
\* What has come and what is to come are all that is sent but its first p tokens.
Follows(toks, in, unsent, p) ==
    /\ p \in Nat /\ p + Len(in) + Len(unsent) = Len(toks)
    /\ \A i \in 1..Len(in) : in[i] = toks[p + i]
    /\ \A i \in 1..Len(unsent) : unsent[i] = toks[p + Len(in) + i]

\* Taking the first n of what has come.
LEMMA TakenFollows ==
    ASSUME NEW toks \in Seq(Token), NEW in \in Seq(Token), NEW unsent \in Seq(Token), NEW p \in Nat,
           Follows(toks, in, unsent, p), NEW n \in 0..Len(in)
    PROVE  /\ SubSeq(in, n + 1, Len(in)) \in Seq(Token)
           /\ Follows(toks, SubSeq(in, n + 1, Len(in)), unsent, p + n)
<1> DEFINE r == SubSeq(in, n + 1, Len(in))
<1>1. /\ Len(in) \in Nat /\ n \in Nat /\ p \in Nat /\ Len(unsent) \in Nat /\ Len(toks) \in Nat
      /\ p + Len(in) + Len(unsent) = Len(toks)
  BY DEF Follows
<1>2. r \in Seq(Token) /\ Len(r) = Len(in) - n /\ \A i \in 1..(Len(in) - n) : r[i] = in[n + i]
  BY <1>1
<1> HIDE DEF r
<1>3. p + n + Len(r) + Len(unsent) = Len(toks) /\ p + n \in Nat
  <2>1. Len(r) = Len(in) - n
    BY <1>2
  <2>2. p + n + (Len(in) - n) + Len(unsent) = p + Len(in) + Len(unsent) /\ p + n \in Nat
    BY <1>1
  <2> QED
    BY <1>1, <2>1, <2>2, Zenon
<1>4. ASSUME NEW i \in 1..Len(r) PROVE r[i] = toks[(p + n) + i]
  <2>1. n + i \in 1..Len(in) /\ p + (n + i) = (p + n) + i
    BY <1>1, <1>2
  <2> QED
    BY <1>2, <2>1 DEF Follows
<1>5. ASSUME NEW i \in 1..Len(unsent) PROVE unsent[i] = toks[(p + n) + Len(r) + i]
  <2>1. (p + n) + Len(r) + i = p + Len(in) + i
    BY <1>1, <1>2
  <2> QED
    BY <2>1 DEF Follows
<1>6. Follows(toks, r, unsent, p + n)
  BY <1>3, <1>4, <1>5 DEF Follows
<1> QED
  BY <1>2, <1>6 DEF r

\* Receiving the first n of what is to come.
LEMMA ReceivedFollows ==
    ASSUME NEW toks \in Seq(Token), NEW in \in Seq(Token), NEW unsent \in Seq(Token), NEW p \in Nat,
           Follows(toks, in, unsent, p), NEW n \in 0..Len(unsent)
    PROVE  Follows(toks, in \o SubSeq(unsent, 1, n), SubSeq(unsent, n + 1, Len(unsent)), p)
<1> DEFINE a == SubSeq(unsent, 1, n)
           r == SubSeq(unsent, n + 1, Len(unsent))
           b == in \o a
<1>1. Len(in) \in Nat /\ n \in Nat /\ p \in Nat /\ Len(unsent) \in Nat /\ Len(toks) \in Nat
  BY DEF Follows
<1>2. a \in Seq(Token) /\ Len(a) = n /\ \A i \in 1..n : a[i] = unsent[i]
  BY <1>1
<1>3. Len(r) = Len(unsent) - n /\ \A i \in 1..(Len(unsent) - n) : r[i] = unsent[n + i]
  BY <1>1
<1> HIDE DEF a, r
<1>4. Len(b) = Len(in) + n /\ \A i \in 1..(Len(in) + n) : b[i] = IF i <= Len(in) THEN in[i] ELSE a[i - Len(in)]
  BY <1>2, ConcatProperties
<1> HIDE DEF b
<1>5. p + Len(b) + Len(r) = Len(toks)
  BY <1>1, <1>3, <1>4, SMTT(30) DEF Follows
<1>6. ASSUME NEW i \in 1..Len(b) PROVE b[i] = toks[p + i]
  <2>1. CASE i <= Len(in)
    <3>1. i \in 1..Len(in) /\ i \in 1..(Len(in) + n)
      BY <1>1, <1>4, <2>1
    <3> QED
      BY <1>4, <2>1, <3>1 DEF Follows
  <2>2. CASE ~ (i <= Len(in))
    <3>1. /\ i - Len(in) \in 1..n /\ i - Len(in) \in 1..Len(unsent) /\ i \in 1..(Len(in) + n)
          /\ p + Len(in) + (i - Len(in)) = p + i
      BY <1>1, <1>4, <2>2
    <3>2. b[i] = unsent[i - Len(in)]
      BY <1>2, <1>4, <2>2, <3>1
    <3>3. unsent[i - Len(in)] = toks[p + Len(in) + (i - Len(in))]
      BY <3>1 DEF Follows
    <3> QED
      BY <3>1, <3>2, <3>3
  <2> QED
    BY <2>1, <2>2
<1>7. ASSUME NEW i \in 1..Len(r) PROVE r[i] = toks[p + Len(b) + i]
  <2>1. /\ i \in 1..(Len(unsent) - n) /\ n + i \in 1..Len(unsent)
        /\ p + Len(in) + (n + i) = p + Len(b) + i
    BY <1>1, <1>3, <1>4
  <2>2. unsent[n + i] = toks[p + Len(in) + (n + i)]
    BY <2>1 DEF Follows
  <2> QED
    BY <1>3, <2>1, <2>2
<1>8. Follows(toks, b, r, p)
  BY <1>1, <1>5, <1>6, <1>7 DEF Follows
<1> QED
  BY <1>8 DEF a, r, b

-------------------------------------------------------------------------------
\* A connection, and what is true of it between two steps.
Phases == {"new", "head", "body", "out", "done", "close", "gone"}
Conns ==
    [phase : Phases, in : Seq(Token), out : Seq(BOOLEAN), keep : BOOLEAN, eof : BOOLEAN,
     left : Nat, buf : Nat, charge : Nat, failed : BOOLEAN, pulls : Nat,
     parsed : Seq(Nat), answered : Nat, read : BOOLEAN, written : BOOLEAN]

At(script) == CHOOSE at : Starts(script, at)

\* The requests whose heads were parsed are the first the client sent.
Counted(k) == k.parsed = [n \in 1..Len(k.parsed) |-> n]

\* What is left of the stream begins behind the last of them, but for what is
\* left of its body.
Behind(script, k, unsent) ==
    /\ Len(k.parsed) <= Len(script)
    /\ At(script)[Len(k.parsed) + 1] - k.left \in Nat
    /\ Follows(Tokens(script), k.in, unsent, At(script)[Len(k.parsed) + 1] - k.left)

\* The last of them is being answered.
Answering(k) == Counted(k) /\ Len(k.parsed) >= 1 /\ k.answered = Len(k.parsed) - 1
Open(script, k, unsent) ==
    /\ Answering(k)
    /\ k.keep => Behind(script, k, unsent)

InStep(script, k, unsent) ==
    /\ Counted(k) /\ k.answered \in {Len(k.parsed), Len(k.parsed) - 1}
    /\ k.phase = "new" => k.parsed = <<>> /\ k.in = <<>>
    /\ k.phase \in {"new", "head", "done"} => k.answered = Len(k.parsed) /\ k.left = 0
    /\ k.phase \in {"body", "out"} => Len(k.parsed) >= 1 /\ k.answered = Len(k.parsed) - 1
    /\ k.phase = "out" => k.left = 0
    /\ k.phase \in {"new", "head", "body"} => k.keep
    /\ k.keep /\ k.phase \notin {"close", "gone"} => Behind(script, k, unsent)

\* It does not matter what else of the connection changes.
LEMMA SameStep ==
    ASSUME NEW script, NEW unsent, NEW k \in Conns, NEW l \in Conns,
           l.in = k.in, l.keep = k.keep, l.left = k.left, l.parsed = k.parsed, l.answered = k.answered
    PROVE  /\ Open(script, k, unsent) => Open(script, l, unsent)
           /\ l.phase = k.phase /\ InStep(script, k, unsent) => InStep(script, l, unsent)
           /\ l.phase = "close" /\ InStep(script, k, unsent) => InStep(script, l, unsent)
<1>1. Behind(script, k, unsent) <=> Behind(script, l, unsent)
  BY Zenon DEF Behind
<1>2. Counted(k) <=> Counted(l)
  BY Zenon DEF Counted
<1>3. Open(script, k, unsent) => Open(script, l, unsent)
  BY <1>1, <1>2, Zenon DEF Open, Answering
<1>4. l.phase = k.phase /\ InStep(script, k, unsent) => InStep(script, l, unsent)
  BY <1>1, <1>2, Zenon DEF InStep
<1>5. l.phase = "close" /\ InStep(script, k, unsent) => InStep(script, l, unsent)
  BY <1>1, <1>2 DEF InStep
<1> QED
  BY <1>3, <1>4, <1>5

\* A connection that ends.
LEMMA EndedInStep ==
    ASSUME NEW script, NEW unsent, NEW k \in Conns, NEW l \in Conns,
           l.phase = "close", l.parsed = k.parsed, l.answered = k.answered,
           InStep(script, k, unsent) \/ Open(script, k, unsent)
    PROVE  InStep(script, l, unsent)
<1>1. Counted(l) /\ l.answered \in {Len(l.parsed), Len(l.parsed) - 1}
  BY Zenon DEF InStep, Open, Answering, Counted
<1> QED
  BY <1>1 DEF InStep

LEMMA FinishedInStep ==
    ASSUME NEW script, NEW unsent, NEW k \in Conns, InStep(script, k, unsent)
    PROVE  Finished(k) \in Conns /\ InStep(script, Finished(k), unsent)
<1>1. CASE ~ (k.phase = "done" /\ k.out = <<>>)
  BY <1>1 DEF Finished
<1>2. CASE k.phase = "done" /\ k.out = <<>> /\ ~ (k.keep /\ ~k.eof)
  <2> DEFINE l == [k EXCEPT !.phase = "close"]
  <2>1. Finished(k) = l
    BY <1>2 DEF Finished
  <2>2. l \in Conns /\ l.phase = "close" /\ l.parsed = k.parsed /\ l.answered = k.answered
    BY DEF Conns, Phases
  <2> QED
    BY <2>1, <2>2, EndedInStep
<1>3. CASE k.phase = "done" /\ k.out = <<>> /\ k.keep /\ ~k.eof
  <2> DEFINE l == [k EXCEPT !.phase = "head"]
  <2>1. Finished(k) = l
    BY <1>3 DEF Finished
  <2>2. /\ l \in Conns /\ l.phase = "head" /\ l.parsed = k.parsed /\ l.answered = k.answered
        /\ l.in = k.in /\ l.keep = k.keep /\ l.left = k.left
    BY DEF Conns, Phases
  <2>3. InStep(script, l, unsent)
    <3> HIDE DEF l
    <3>1. Behind(script, k, unsent) => Behind(script, l, unsent)
      BY <2>2, Zenon DEF Behind
    <3>2. Counted(k) => Counted(l)
      BY <2>2, Zenon DEF Counted
    <3> QED
      BY <1>3, <2>2, <3>1, <3>2 DEF InStep
  <2> QED
    BY <2>1, <2>2, <2>3
<1> QED
  BY <1>1, <1>2, <1>3

\* An answer that is whole, one that is streamed, and one that is cut short.
LEMMA WholeInStep ==
    ASSUME NEW script, NEW unsent, NEW k \in Conns, Open(script, k, unsent),
           k.left = 0 \/ ~k.keep
    PROVE  Whole(k) \in Conns /\ InStep(script, Whole(k), unsent)
<1>1. /\ Whole(k) \in Conns /\ Whole(k).phase = "done" /\ Whole(k).in = k.in
      /\ Whole(k).keep = k.keep /\ Whole(k).left = 0 /\ Whole(k).parsed = k.parsed
      /\ Whole(k).answered = k.answered + 1
  <2>1. Append(k.out, TRUE) \in Seq(BOOLEAN)
    BY DEF Conns
  <2>2. k.answered + 1 \in Nat
    BY DEF Conns
  <2>3. Whole(k) \in Conns
    BY <2>1, <2>2 DEF Conns, Phases, Whole
  <2>4. /\ Whole(k).phase = "done" /\ Whole(k).in = k.in
        /\ Whole(k).keep = k.keep /\ Whole(k).left = 0 /\ Whole(k).parsed = k.parsed
        /\ Whole(k).answered = k.answered + 1
    BY DEF Conns, Whole
  <2> QED
    BY <2>3, <2>4
<1> DEFINE l == Whole(k)
<1>2. InStep(script, l, unsent)
  <2> HIDE DEF l
  <2>0. /\ l \in Conns /\ l.phase = "done" /\ l.in = k.in
        /\ l.keep = k.keep /\ l.left = 0 /\ l.parsed = k.parsed
        /\ l.answered = k.answered + 1
    BY <1>1 DEF l
  <2>1. l.keep => Behind(script, l, unsent)
    BY <2>0 DEF Open, Answering, Behind
  <2>2. Counted(l)
    BY <2>0, Zenon DEF Open, Answering, Counted
  <2>3. Len(k.parsed) \in Nat /\ k.answered = Len(k.parsed) - 1
    BY DEF Open, Answering, Conns
  <2>4. l.answered = Len(l.parsed)
    BY <2>0, <2>3
  <2> QED
    BY <2>0, <2>1, <2>2, <2>4 DEF InStep
<1> QED
  BY <1>1, <1>2

LEMMA RefusalInStep ==
    ASSUME NEW script, NEW unsent, NEW k \in Conns, Answering(k)
    PROVE  Refusal(k) \in Conns /\ InStep(script, Refusal(k), unsent)
<1> DEFINE l == [k EXCEPT !.keep = FALSE]
<1>1. l \in Conns /\ l.keep = FALSE /\ l.parsed = k.parsed /\ l.answered = k.answered
  BY DEF Conns
<1>2. Refusal(k) = Whole(l)
  BY DEF Refusal
<1> HIDE DEF l
<1>3. Open(script, l, unsent)
  BY <1>1 DEF Open, Answering, Counted
<1> QED
  BY <1>1, <1>2, <1>3, WholeInStep

LEMMA StreamedInStep ==
    ASSUME NEW script, NEW unsent, NEW k \in Conns, Open(script, k, unsent),
           k.left = 0 \/ ~k.keep, NEW pulls \in Nat
    PROVE  Streamed(k, pulls) \in Conns /\ InStep(script, Streamed(k, pulls), unsent)
<1> DEFINE l == Streamed(k, pulls)
<1>1. /\ l \in Conns /\ l.phase = "out" /\ l.in = k.in
      /\ l.keep = k.keep /\ l.left = 0 /\ l.parsed = k.parsed /\ l.answered = k.answered
  <2>1. Append(k.out, FALSE) \in Seq(BOOLEAN)
    BY DEF Conns
  <2> QED
    BY <2>1 DEF Conns, Phases, Streamed
<1>2. InStep(script, l, unsent)
  <2> HIDE DEF l
  <2>1. l.keep => Behind(script, l, unsent)
    BY <1>1 DEF Open, Answering, Behind
  <2>2. Counted(l)
    BY <1>1, Zenon DEF Open, Answering, Counted
  <2>3. Len(l.parsed) >= 1 /\ l.answered = Len(l.parsed) - 1
    BY <1>1 DEF Open, Answering
  <2> QED
    BY <1>1, <2>1, <2>2, <2>3 DEF InStep
<1> QED
  BY <1>1, <1>2

LEMMA CutShortInStep ==
    ASSUME NEW script, NEW unsent, NEW k \in Conns, Open(script, k, unsent)
    PROVE  CutShort(k) \in Conns /\ InStep(script, CutShort(k), unsent)
<1> DEFINE l == CutShort(k)
<1>1. l \in Conns /\ l.phase = "close" /\ l.parsed = k.parsed /\ l.answered = k.answered
  BY DEF Conns, Phases, CutShort
<1> HIDE DEF l
<1>2. InStep(script, l, unsent)
  BY <1>1, EndedInStep
<1> QED
  BY <1>1, <1>2 DEF l

LEMMA Rest ==
    ASSUME NEW a \in Nat, NEW b \in Nat, NEW c \in Nat, a - b \in Nat
    PROVE  (a - b) + c = a - (b - c) /\ (a - b) + c \in Nat
OBVIOUS

\* The decoder takes what belongs to the body.
LEMMA TakenOpen ==
    ASSUME NEW script \in Scripts, NEW unsent \in Seq(Token), NEW k \in Conns, Open(script, k, unsent)
    PROVE  Taken(k) \in Conns /\ Open(script, Taken(k), unsent) /\ Came(k) \in Nat
<1> DEFINE l == Taken(k)
           n == Came(k)
           p == At(script)[Len(k.parsed) + 1] - k.left
<1>1. k.in \in Seq(Token) /\ Len(k.in) \in Nat /\ k.left \in Nat
  BY DEF Conns
<1>2. n \in 0..Len(k.in) /\ n \in Nat /\ k.left - n \in Nat
  BY <1>1 DEF Came
<1>3. SubSeq(k.in, n + 1, Len(k.in)) \in Seq(Token)
  BY <1>1, <1>2
<1>4. /\ l \in Conns /\ l.in = SubSeq(k.in, n + 1, Len(k.in)) /\ l.left = k.left - n
      /\ l.keep = k.keep /\ l.parsed = k.parsed /\ l.answered = k.answered
  <2> HIDE DEF n
  <2>1. l = [k EXCEPT !.in = SubSeq(k.in, n + 1, Len(k.in)), !.left = k.left - n]
    BY DEF Taken, n
  <2> HIDE DEF l
  <2> QED
    BY <1>2, <1>3, <2>1 DEF Conns
<1> HIDE DEF l, n
<1>5. ASSUME k.keep PROVE Behind(script, l, unsent)
  <2>1. Len(k.parsed) <= Len(script) /\ p \in Nat /\ Follows(Tokens(script), k.in, unsent, p)
    BY <1>5 DEF Open, Behind
  <2>2. Tokens(script) \in Seq(Token)
    BY TokensStart DEF Starts
  <2>3. Follows(Tokens(script), l.in, unsent, p + n)
    <3> HIDE DEF p
    <3> QED
      BY <1>1, <1>2, <1>4, <2>1, <2>2, TakenFollows
  <2>4. p + n = At(script)[Len(l.parsed) + 1] - l.left /\ p + n \in Nat
    <3>1. At(script)[Len(k.parsed) + 1] \in Nat
      <4>1. Starts(script, At(script))
        BY TokensStart DEF At
      <4>2. Len(k.parsed) + 1 \in 1..(Len(script) + 1)
        BY <2>1 DEF Conns, Scripts
      <4> QED
        BY <4>1, <4>2 DEF Starts
    <3>2. /\ (At(script)[Len(k.parsed) + 1] - k.left) + n = At(script)[Len(k.parsed) + 1] - (k.left - n)
          /\ (At(script)[Len(k.parsed) + 1] - k.left) + n \in Nat
      BY <1>1, <1>2, <2>1, <3>1, Rest
    <3> QED
      BY <1>4, <3>2
  <2> HIDE DEF p
  <2> QED
    BY <1>4, <2>1, <2>3, <2>4 DEF Behind
<1>6. Open(script, l, unsent)
  BY <1>4, <1>5 DEF Open, Answering, Counted
<1> QED
  BY <1>2, <1>4, <1>6 DEF l, n

\* The head of the next request is what comes first, and is whole when a blank
\* line has come.
LEMMA NextHead ==
    ASSUME NEW script \in Scripts, NEW unsent \in Seq(Token), NEW k \in Conns,
           InStep(script, k, unsent), k.phase = "head", HeadEnd(k) # {}
    PROVE  /\ EndOfHead(k) = 2 /\ Len(k.in) >= 2
           /\ k.in[2] = <<"blank", Len(k.parsed) + 1>>
           /\ SubSeq(k.in, 1, 2) = <<<<"line", Len(k.parsed) + 1>>, <<"blank", Len(k.parsed) + 1>>>>
           /\ Len(k.parsed) + 1 \in 1..Len(script)
           /\ k.left = 0 /\ k.keep /\ k.answered = Len(k.parsed) /\ Counted(k)
           /\ At(script)[Len(k.parsed) + 1] \in Nat
           /\ Follows(Tokens(script), k.in, unsent, At(script)[Len(k.parsed) + 1])
<1> DEFINE P == Len(k.parsed)
           m == P + 1
           p == At(script)[m]
           toks == Tokens(script)
<1>0. P \in Nat /\ Len(script) \in Nat /\ Len(k.in) \in Nat /\ DOMAIN k.in = 1..Len(k.in) /\ k.in \in Seq(Token)
  BY DEF Conns, Scripts
<1>1. k.left = 0 /\ k.keep /\ k.answered = P /\ Counted(k)
  BY DEF InStep
<1>2. /\ P <= Len(script) /\ p - 0 \in Nat /\ Follows(toks, k.in, unsent, p - 0)
  BY <1>1 DEF InStep, Behind
<1>3. Starts(script, At(script))
  BY TokensStart DEF At
<1>4. p \in Nat
  <2>1. m \in 1..(Len(script) + 1)
    BY <1>0, <1>2
  <2> QED
    BY <1>3, <2>1 DEF Starts
<1>5. Follows(toks, k.in, unsent, p)
  <2>1. p - 0 = p
    BY <1>4
  <2> QED
    BY <1>2, <2>1
<1>6. PICK i \in 1..Len(k.in) : k.in[i][1] = "blank"
  BY <1>0 DEF HeadEnd
<1>7. /\ p + Len(k.in) + Len(unsent) = Len(toks) /\ Len(unsent) \in Nat
      /\ \A j \in 1..Len(k.in) : k.in[j] = toks[p + j]
  BY <1>5 DEF Follows
<1>8. P # Len(script)
  <2> SUFFICES ASSUME P = Len(script) PROVE FALSE
    OBVIOUS
  <2>1. p = Len(toks)
    BY <1>3 DEF Starts
  <2> HIDE DEF p
  <2> QED
    BY <1>0, <1>4, <1>6, <1>7, <2>1
<1>9. m \in 1..Len(script)
  BY <1>0, <1>2, <1>8
<1>10. toks[p + 1] = <<"line", m>> /\ toks[p + 2] = <<"blank", m>>
  BY <1>3, <1>9 DEF Starts
<1> HIDE DEF p, toks, m
<1>11. 1 \in 1..Len(k.in) /\ k.in[1] = <<"line", m>>
  BY <1>0, <1>6, <1>7, <1>10
<1>12. i # 1
  <2>1. k.in[1][1] = "line"
    BY <1>11
  <2> QED
    BY <1>6, <2>1
<1>13. 2 \in 1..Len(k.in) /\ k.in[2] = <<"blank", m>> /\ Len(k.in) >= 2
  BY <1>0, <1>6, <1>7, <1>10, <1>12
<1>14. 2 \in HeadEnd(k) /\ ~ (1 \in HeadEnd(k)) /\ \A j \in HeadEnd(k) : 2 <= j
  <2>1. k.in[1][1] = "line" /\ k.in[2][1] = "blank"
    BY <1>11, <1>13
  <2>2. 2 \in HeadEnd(k) /\ ~ (1 \in HeadEnd(k))
    BY <1>0, <1>13, <2>1 DEF HeadEnd
  <2>3. \A j \in HeadEnd(k) : j \in 1..Len(k.in)
    BY <1>0 DEF HeadEnd
  <2>4. ASSUME NEW j \in HeadEnd(k) PROVE 2 <= j
    BY <1>0, <2>2, <2>3
  <2> QED
    BY <2>2, <2>4
<1>15. EndOfHead(k) = 2
  <2>1. EndOfHead(k) \in HeadEnd(k) /\ \A j \in HeadEnd(k) : EndOfHead(k) <= j
    BY <1>14 DEF EndOfHead
  <2>2. EndOfHead(k) \in 1..Len(k.in)
    BY <1>0, <2>1 DEF HeadEnd
  <2>3. EndOfHead(k) <= 2 /\ 2 <= EndOfHead(k)
    BY <1>14, <2>1
  <2> QED
    BY <1>0, <2>2, <2>3
<1>16. SubSeq(k.in, 1, 2) = <<k.in[1], k.in[2]>>
  <2> DEFINE q == SubSeq(k.in, 1, 2)
  <2>1. q \in Seq(Token) /\ Len(q) = 2 /\ \A j \in 1..2 : q[j] = k.in[j]
    BY <1>0, <1>13
  <2>2. q = [j \in 1..2 |-> k.in[j]]
    BY <2>1
  <2>3. <<k.in[1], k.in[2]>> = [j \in 1..2 |-> k.in[j]]
    OBVIOUS
  <2> QED
    BY <2>2, <2>3
<1> QED
  BY <1>1, <1>4, <1>5, <1>9, <1>11, <1>13, <1>15, <1>16 DEF p, toks, m

\* The head of the next request is parsed: what is left of the connection, and
\* the request.
Unparsed(k) == [k EXCEPT !.in = SubSeq(@, 3, Len(@))]
Parsed(k) == [Unparsed(k) EXCEPT !.parsed = Append(@, Len(k.parsed) + 1)]
WithBody(head, r) == [head EXCEPT !.phase = "body", !.left = r.body]
Asks(script, k) == script[Len(k.parsed) + 1]

\* It is being answered at once, or its body
\* comes next.
LEMMA HeadParsed ==
    ASSUME NEW script \in Scripts, NEW unsent \in Seq(Token), NEW k \in Conns,
           InStep(script, k, unsent), k.phase = "head", HeadEnd(k) # {},
           NEW head, head = Parsed(k), NEW r, r = Asks(script, k)
    PROVE  /\ head \in Conns /\ Answering(head) /\ r.body \in Nat
           /\ UnreadBody(head, r) \in Conns /\ Open(script, UnreadBody(head, r), unsent)
           /\ UnreadBody(head, r).left = 0
           /\ WithBody(head, r) \in Conns /\ InStep(script, WithBody(head, r), unsent)
<1> DEFINE P == Len(k.parsed)
           m == P + 1
           a == At(script)[m]
           toks == Tokens(script)
           in == SubSeq(k.in, 3, Len(k.in))
<1>0. /\ P \in Nat /\ m \in Nat /\ Len(script) \in Nat /\ Len(k.in) \in Nat
      /\ k.in \in Seq(Token) /\ k.parsed \in Seq(Nat)
  BY DEF Conns, Scripts
<1>1. /\ Len(k.in) >= 2 /\ m \in 1..Len(script) /\ k.left = 0 /\ k.keep /\ k.answered = P
      /\ Counted(k) /\ a \in Nat /\ Follows(toks, k.in, unsent, a)
  BY NextHead
<1>2. toks \in Seq(Token)
  BY TokensStart DEF Starts
<1>3. in \in Seq(Token) /\ Follows(toks, in, unsent, a + 2)
  <2>1. 2 \in 0..Len(k.in) /\ 2 + 1 = 3
    BY <1>0, <1>1
  <2> HIDE DEF a, toks
  <2> QED
    BY <1>0, <1>1, <1>2, <2>1, TakenFollows
<1>4. r.body \in Nat /\ At(script)[m + 1] = a + 2 + r.body
  <2>1. Starts(script, At(script))
    BY TokensStart DEF At
  <2> QED
    BY <1>1, <2>1 DEF Starts, Asks
<1>5. Append(k.parsed, m) \in Seq(Nat) /\ Len(Append(k.parsed, m)) = m
      /\ Append(k.parsed, m) = [n \in 1..m |-> n]
  <2>1. k.parsed = [n \in 1..P |-> n]
    BY <1>1 DEF Counted
  <2> DEFINE q == Append(k.parsed, m)
  <2>2. q \in Seq(Nat) /\ Len(q) = m /\ q[m] = m /\ \A n \in 1..P : q[n] = k.parsed[n]
    BY <1>0
  <2>3. \A n \in 1..m : q[n] = n
    <3> SUFFICES ASSUME NEW n \in 1..m PROVE q[n] = n
      OBVIOUS
    <3>1. CASE n = m
      BY <2>2, <3>1
    <3>2. CASE n # m
      <4>1. n \in 1..P
        BY <1>0, <3>2
      <4> QED
        BY <2>1, <2>2, <4>1
    <3> QED
      BY <3>1, <3>2
  <2> HIDE DEF q, m
  <2>4. q = [n \in 1..m |-> n]
    BY <2>2, <2>3
  <2> QED
    BY <2>2, <2>4 DEF q
<1>6. /\ head \in Conns /\ head.in = in /\ head.parsed = Append(k.parsed, m) /\ head.left = 0
      /\ head.keep = TRUE /\ head.answered = P /\ head.phase = "head"
  <2> DEFINE rest == Unparsed(k)
  <2>1. rest \in Conns /\ rest.in = in /\ rest.parsed = k.parsed /\ rest.left = 0 /\ rest.keep = TRUE
        /\ rest.answered = P /\ rest.phase = "head"
    BY <1>1, <1>3 DEF Conns, Unparsed
  <2> HIDE DEF in, rest
  <2>2. head = [rest EXCEPT !.parsed = Append(k.parsed, m)]
    BY <2>1 DEF Parsed, rest
  <2> QED
    BY <1>5, <2>1, <2>2 DEF Conns
<1> HIDE DEF in, toks, a
<1>7. Len(head.parsed) = m /\ Counted(head)
  BY <1>5, <1>6 DEF Counted
<1>8. Answering(head)
  BY <1>0, <1>6, <1>7 DEF Answering
\* What follows the head, when b tokens of a body are left.
<1>9. ASSUME NEW l, l.in = in, l.parsed = head.parsed, l.left = r.body PROVE Behind(script, l, unsent)
  <2>1. Len(l.parsed) = m /\ m <= Len(script)
    BY <1>0, <1>1, <1>7, <1>9
  <2>2. (a + 2 + r.body) - r.body = a + 2 /\ a + 2 \in Nat
    BY <1>1, <1>4
  <2>3. At(script)[Len(l.parsed) + 1] - l.left = a + 2
    BY <1>4, <1>9, <2>1, <2>2
  <2> QED
    BY <1>3, <1>9, <2>1, <2>2, <2>3 DEF Behind, toks
<1>10. /\ UnreadBody(head, r) \in Conns /\ Open(script, UnreadBody(head, r), unsent)
       /\ UnreadBody(head, r).left = 0
  <2>1. CASE r.body > 0
    <3> DEFINE l == [head EXCEPT !.keep = FALSE]
    <3>1. l \in Conns /\ l.keep = FALSE /\ l.left = 0 /\ l.parsed = head.parsed /\ l.answered = head.answered
      BY <1>6 DEF Conns
    <3>2. UnreadBody(head, r) = l
      BY <2>1 DEF UnreadBody
    <3> HIDE DEF l
    <3>3. Open(script, l, unsent)
      BY <1>8, <3>1 DEF Open, Answering, Counted
    <3> QED
      BY <3>1, <3>2, <3>3
  <2>2. CASE ~ (r.body > 0)
    <3>1. r.body = 0 /\ UnreadBody(head, r) = head
      BY <1>4, <2>2 DEF UnreadBody
    <3>2. Behind(script, head, unsent)
      BY <1>6, <1>9, <3>1
    <3> QED
      BY <1>6, <1>8, <3>1, <3>2 DEF Open
  <2> QED
    BY <2>1, <2>2
<1> DEFINE body == [head EXCEPT !.phase = "body", !.left = r.body]
<1>11. /\ body \in Conns /\ body.phase = "body" /\ body.left = r.body /\ body.in = in
       /\ body.keep = TRUE /\ body.parsed = head.parsed /\ body.answered = head.answered
  <2>1. body \in Conns
    <3>1. head \in Conns /\ r.body \in Nat
      BY <1>4, <1>6
    <3> HIDE DEF in
    <3>2. PICK b : b = r.body /\ b \in Nat
      BY <3>1
    <3>3. [head EXCEPT !.phase = "body", !.left = b] \in Conns
      BY <3>1, <3>2 DEF Conns, Phases
    <3> QED
      BY <3>2, <3>3
  <2>2. /\ body.phase = "body" /\ body.left = r.body /\ body.in = head.in
        /\ body.keep = head.keep /\ body.parsed = head.parsed /\ body.answered = head.answered
    BY <1>6 DEF Conns
  <2> QED
    BY <1>6, <2>1, <2>2
<1> HIDE DEF body
<1>12. InStep(script, body, unsent)
  <2>1. Behind(script, body, unsent)
    BY <1>9, <1>11
  <2>2. Counted(body) /\ Len(body.parsed) >= 1 /\ body.answered = Len(body.parsed) - 1
    BY <1>8, <1>11 DEF Answering, Counted
  <2> QED
    BY <1>11, <2>1, <2>2 DEF InStep
<1> QED
  BY <1>4, <1>6, <1>8, <1>10, <1>11, <1>12 DEF body, WithBody

-------------------------------------------------------------------------------
\* The inductive invariant: every connection is in step with what its client sends.
OrderInv ==
    /\ sScript \in [SConns -> Scripts] /\ sUnsent \in [SConns -> Seq(Token)]
    /\ sConn \in [SConns -> Conns]
    /\ \A c \in SConns : InStep(sScript[c], sConn[c], sUnsent[c])

LEMMA OrderOfInv == OrderInv => InRequestOrder
<1> SUFFICES ASSUME OrderInv, NEW c \in SConns
             PROVE  /\ sConn[c].parsed = [n \in 1..Len(sConn[c].parsed) |-> n]
                    /\ sConn[c].answered \in {Len(sConn[c].parsed), Len(sConn[c].parsed) - 1}
  BY DEF InRequestOrder
<1> QED
  BY DEF OrderInv, InStep, Counted

LEMMA FreshInStep ==
    ASSUME NEW script \in Scripts
    PROVE  /\ NewConn \in Conns /\ InStep(script, NewConn, Tokens(script))
           /\ NewConn.parsed = <<>> /\ NewConn.answered = 0 /\ NewConn.in = <<>>
           /\ NewConn.keep = TRUE /\ NewConn.left = 0
<1>1. /\ NewConn.parsed = <<>> /\ NewConn.answered = 0 /\ NewConn.in = <<>>
      /\ NewConn.keep = TRUE /\ NewConn.left = 0 /\ NewConn.phase = "new"
  BY DEF NewConn
<1>2. NewConn \in Conns
  BY DEF NewConn, Conns, Phases
<1>3. Starts(script, At(script))
  BY TokensStart DEF At
<1>4. At(script)[1] = 0 /\ Tokens(script) \in Seq(Token) /\ Len(script) \in Nat
  BY <1>3 DEF Starts, Scripts
<1>5. Follows(Tokens(script), <<>>, Tokens(script), 0)
  BY <1>4 DEF Follows
<1>6. Len(NewConn.parsed) = 0 /\ At(script)[Len(NewConn.parsed) + 1] - NewConn.left = 0
  BY <1>1, <1>4
<1>7. Behind(script, NewConn, Tokens(script))
  BY <1>1, <1>4, <1>5, <1>6 DEF Behind
<1>8. Counted(NewConn)
  BY <1>1 DEF Counted
<1>9. InStep(script, NewConn, Tokens(script))
  BY <1>1, <1>6, <1>7, <1>8 DEF InStep
<1> QED
  BY <1>1, <1>2, <1>9

\* One connection becomes another, and nothing is sent.
LEMMA Changed ==
    ASSUME OrderInv, NEW c \in SConns, NEW l \in Conns, InStep(sScript[c], l, sUnsent[c]),
           sConn' = [sConn EXCEPT ![c] = l], UNCHANGED <<sScript, sUnsent>>
    PROVE  OrderInv'
<1>1. sConn' \in [SConns -> Conns]
  BY DEF OrderInv
<1>2. ASSUME NEW d \in SConns PROVE InStep(sScript[d], sConn'[d], sUnsent[d])
  <2>1. CASE d = c
    BY <2>1 DEF OrderInv
  <2>2. CASE d # c
    <3>1. sConn'[d] = sConn[d]
      BY <2>2 DEF OrderInv
    <3> QED
      BY <3>1 DEF OrderInv
  <2> QED
    BY <2>1, <2>2
<1> QED
  BY <1>1, <1>2 DEF OrderInv

\* service returns with the connection k.
Returned(c, k) ==
    /\ \/ \E n \in 0..Len(k.out) :
              sConn' = [sConn EXCEPT ![c] = Finished(
                  [k EXCEPT !.out = SubSeq(@, n + 1, Len(@)), !.written = @ \/ n > 0])]
       \/ sConn' = [sConn EXCEPT ![c] =
              [k EXCEPT !.phase = "close", !.out = <<>>, !.buf = 0, !.charge = 0]]
    /\ UNCHANGED <<sScript, sUnsent>>

LEMMA ReturnedKeeps ==
    ASSUME OrderInv, NEW c \in SConns, NEW k \in Conns, InStep(sScript[c], k, sUnsent[c]), Returned(c, k)
    PROVE  OrderInv'
<1>1. ASSUME NEW n \in 0..Len(k.out),
             sConn' = [sConn EXCEPT ![c] = Finished(
                 [k EXCEPT !.out = SubSeq(@, n + 1, Len(@)), !.written = @ \/ n > 0])]
      PROVE  OrderInv'
  <2> DEFINE l == [k EXCEPT !.out = SubSeq(@, n + 1, Len(@)), !.written = @ \/ n > 0]
  <2>1. SubSeq(k.out, n + 1, Len(k.out)) \in Seq(BOOLEAN) /\ (k.written \/ n > 0) \in BOOLEAN
    BY DEF Conns
  <2>2. /\ l \in Conns /\ l.phase = k.phase /\ l.in = k.in /\ l.keep = k.keep /\ l.left = k.left
        /\ l.parsed = k.parsed /\ l.answered = k.answered
    BY <2>1 DEF Conns
  <2>3. sConn' = [sConn EXCEPT ![c] = Finished(l)]
    BY <1>1
  <2> HIDE DEF l
  <2>4. \A script, unsent : InStep(script, k, unsent) => InStep(script, l, unsent)
    BY <2>2, SameStep
  <2>5. PICK m : m = Finished(l)
    OBVIOUS
  <2>6. m \in Conns /\ InStep(sScript[c], m, sUnsent[c])
    BY <2>2, <2>4, <2>5, FinishedInStep
  <2> QED
    BY <2>3, <2>5, <2>6, Changed DEF Returned
<1>2. ASSUME sConn' = [sConn EXCEPT ![c] =
                 [k EXCEPT !.phase = "close", !.out = <<>>, !.buf = 0, !.charge = 0]]
      PROVE  OrderInv'
  <2> DEFINE l == [k EXCEPT !.phase = "close", !.out = <<>>, !.buf = 0, !.charge = 0]
  <2>2. l \in Conns /\ l.phase = "close" /\ l.parsed = k.parsed /\ l.answered = k.answered
    <3>0. <<>> \in Seq(BOOLEAN) /\ "close" \in Phases
      BY DEF Phases
    <3>1. l \in Conns
      BY <3>0 DEF Conns
    <3>2. l.phase = "close" /\ l.parsed = k.parsed /\ l.answered = k.answered
      BY DEF Conns
    <3> QED
      BY <3>1, <3>2
  <2>3. sConn' = [sConn EXCEPT ![c] = l]
    BY <1>2
  <2> HIDE DEF l
  <2>4. InStep(sScript[c], l, sUnsent[c])
    BY <2>2, EndedInStep
  <2> QED
    BY <2>2, <2>3, <2>4, Changed DEF Returned
<1> QED
  BY <1>1, <1>2 DEF Returned

\* The two ways a round of the loop ends.
LEMMA RoundKeeps ==
    ASSUME OrderInv, NEW c \in SConns, NEW l \in Conns, InStep(sScript[c], l, sUnsent[c]),
           NEW STATE held, Round(c, l, held)
    PROVE  OrderInv'
BY Changed DEF Round

LEMMA LeaveKeeps ==
    ASSUME OrderInv, NEW c \in SConns, NEW l \in Conns, InStep(sScript[c], l, sUnsent[c]),
           NEW STATE held, Leave(c, l, held)
    PROVE  OrderInv'
<1>1. Returned(c, l)
  BY DEF Leave, Returned
<1> QED
  BY <1>1, ReturnedKeeps

-------------------------------------------------------------------------------
\* A connection in its body is answering, and what the decoder leaves of it is too.
LEMMA BodyOpen ==
    ASSUME NEW script \in Scripts, NEW unsent \in Seq(Token), NEW k \in Conns,
           InStep(script, k, unsent), k.phase \in {"body", "out"}
    PROVE  /\ Open(script, k, unsent)
           /\ k.phase = "body" => k.keep
<1>1. k.phase \notin {"close", "gone"}
  OBVIOUS
<1> QED
  BY <1>1 DEF InStep, Open, Answering

LEMMA OpenBody ==
    ASSUME NEW script, NEW unsent, NEW k \in Conns, Open(script, k, unsent), k.phase = "body", k.keep
    PROVE  InStep(script, k, unsent)
BY DEF InStep, Open, Answering

\* What the step is about: a client, the script it follows and its connection.
LEMMA AboutOne ==
    ASSUME OrderInv, NEW c \in SConns
    PROVE  \E script \in Scripts, unsent \in Seq(Token), k \in Conns :
               /\ script = sScript[c] /\ unsent = sUnsent[c] /\ k = sConn[c]
               /\ InStep(script, k, unsent)
BY DEF OrderInv

LEMMA InitKeepsOrder ==
    ASSUME ServeAssumption, SInit
    PROVE  OrderInv
<1>1. SScripts \subseteq Scripts
  BY DEF ServeAssumption, Scripts, Asked
<1>2. sScript \in [SConns -> Scripts]
  BY <1>1 DEF SInit
<1>3. ASSUME NEW c \in SConns
      PROVE  /\ sUnsent[c] = Tokens(sScript[c]) /\ sUnsent[c] \in Seq(Token)
             /\ sConn[c] = NewConn /\ NewConn \in Conns /\ InStep(sScript[c], NewConn, sUnsent[c])
  <2>1. sUnsent[c] = Tokens(sScript[c]) /\ sConn[c] = NewConn
    BY DEF SInit
  <2>2. PICK script \in Scripts : script = sScript[c]
    BY <1>2
  <2>3. Tokens(script) \in Seq(Token)
    BY TokensStart DEF Starts
  <2> QED
    BY <2>1, <2>2, <2>3, FreshInStep
<1>4. sUnsent \in [SConns -> Seq(Token)] /\ sConn \in [SConns -> Conns]
  BY <1>3 DEF SInit
<1> QED
  BY <1>2, <1>3, <1>4 DEF OrderInv

LEMMA StepKeepsOrder ==
    ASSUME OrderInv, Step
    PROVE  OrderInv'
<1>1. PICK dropped \in SUBSET SConns, accepted \in SUBSET SConns : Pass(dropped, accepted)
  BY DEF Step
<1>2. accepted \subseteq {c \in SConns : sConn[c].phase = "new"} /\ UNCHANGED <<sScript, sUnsent>>
  BY <1>1 DEF Pass
<1>3. sConn' = [c \in SConns |->
          IF c \in dropped THEN [NewConn EXCEPT !.phase = "gone"] ELSE
          IF c \in accepted THEN [NewConn EXCEPT !.phase = "head"] ELSE
          [sConn[c] EXCEPT !.read = FALSE, !.written = FALSE]]
  BY <1>1 DEF Pass
<1>4. ASSUME NEW c \in SConns
      PROVE  sConn'[c] \in Conns /\ InStep(sScript[c], sConn'[c], sUnsent[c])
  <2>0. PICK script \in Scripts, unsent \in Seq(Token), k \in Conns :
            /\ script = sScript[c] /\ unsent = sUnsent[c] /\ k = sConn[c]
            /\ InStep(script, k, unsent)
    BY AboutOne
  <2>1. CASE c \in dropped
    <3> DEFINE l == [NewConn EXCEPT !.phase = "gone"]
    <3>1. l \in Conns /\ l.phase = "gone" /\ l.parsed = <<>> /\ l.answered = 0
      BY FreshInStep DEF Conns, Phases
    <3>2. sConn'[c] = l
      BY <1>3, <2>1
    <3> HIDE DEF l
    <3>3. InStep(script, l, unsent)
      BY <3>1 DEF InStep, Counted
    <3> QED
      BY <2>0, <3>1, <3>2, <3>3
  <2>2. CASE c \notin dropped /\ c \in accepted
    <3> DEFINE l == [NewConn EXCEPT !.phase = "head"]
    <3>1. /\ l \in Conns /\ l.phase = "head" /\ l.parsed = <<>> /\ l.answered = 0
          /\ l.in = <<>> /\ l.keep = TRUE /\ l.left = 0
      BY FreshInStep DEF Conns, Phases
    <3>2. sConn'[c] = l
      BY <1>3, <2>2
    <3> HIDE DEF l
    <3>3. k.phase = "new"
      BY <1>2, <2>0, <2>2
    <3>5. k.parsed = <<>> /\ k.in = <<>> /\ k.left = 0 /\ Behind(script, k, unsent)
      BY <2>0, <3>3 DEF InStep
    <3>6. Behind(script, l, unsent)
      BY <3>1, <3>5 DEF Behind
    <3>4. InStep(script, l, unsent)
      BY <3>1, <3>6 DEF InStep, Counted
    <3> QED
      BY <2>0, <3>1, <3>2, <3>4
  <2>3. CASE c \notin dropped /\ c \notin accepted
    <3> DEFINE l == [k EXCEPT !.read = FALSE, !.written = FALSE]
    <3>1. /\ l \in Conns /\ l.phase = k.phase /\ l.in = k.in /\ l.keep = k.keep /\ l.left = k.left
          /\ l.parsed = k.parsed /\ l.answered = k.answered
      BY DEF Conns
    <3>2. sConn'[c] = l
      BY <1>3, <2>0, <2>3
    <3> HIDE DEF l
    <3>3. InStep(script, l, unsent)
      BY <2>0, <3>1, SameStep
    <3> QED
      BY <2>0, <3>1, <3>2, <3>3
  <2> QED
    BY <2>1, <2>2, <2>3
<1>5. sConn' \in [SConns -> Conns]
  BY <1>3, <1>4
<1> QED
  BY <1>2, <1>4, <1>5 DEF OrderInv

LEMMA ServiceKeepsOrder ==
    ASSUME OrderInv, NEW c \in SConns, Service(c)
    PROVE  OrderInv'
<1>1. PICK n \in 0..Len(sUnsent[c]), eof \in BOOLEAN :
          /\ (~Reads(sConn[c])) => n = 0 /\ ~eof
          /\ sUnsent' = [sUnsent EXCEPT ![c] = SubSeq(@, n + 1, Len(@))]
          /\ sConn' = [sConn EXCEPT ![c] =
                 [sConn[c] EXCEPT !.in = @ \o SubSeq(sUnsent[c], 1, n),
                                  !.read = @ \/ n > 0, !.eof = @ \/ eof]]
  BY DEF Service
<1>2. PICK script \in Scripts, unsent \in Seq(Token), k \in Conns :
          /\ script = sScript[c] /\ unsent = sUnsent[c] /\ k = sConn[c]
          /\ InStep(script, k, unsent)
  BY AboutOne
<1> DEFINE rest == SubSeq(unsent, n + 1, Len(unsent))
           in == k.in \o SubSeq(unsent, 1, n)
           l == [k EXCEPT !.in = in, !.read = @ \/ n > 0, !.eof = @ \/ eof]
<1>3. n \in 0..Len(unsent) /\ Len(unsent) \in Nat
  BY <1>1, <1>2
<1>4. rest \in Seq(Token) /\ SubSeq(unsent, 1, n) \in Seq(Token)
  BY <1>3
<1>5. in \in Seq(Token)
  BY <1>4 DEF Conns
<1>6. /\ l \in Conns /\ l.in = in /\ l.phase = k.phase /\ l.keep = k.keep /\ l.left = k.left
      /\ l.parsed = k.parsed /\ l.answered = k.answered
  <2> HIDE DEF in
  <2>1. (k.read \/ n > 0) \in BOOLEAN /\ (k.eof \/ eof) \in BOOLEAN
    OBVIOUS
  <2>2. l \in Conns
    BY <1>5, <2>1 DEF Conns
  <2>3. /\ l.in = in /\ l.phase = k.phase /\ l.keep = k.keep /\ l.left = k.left
        /\ l.parsed = k.parsed /\ l.answered = k.answered
    BY DEF Conns
  <2> QED
    BY <2>2, <2>3
<1>7. /\ sUnsent' = [sUnsent EXCEPT ![c] = rest] /\ sConn' = [sConn EXCEPT ![c] = l]
      /\ UNCHANGED sScript
  <2>1. sUnsent' = [sUnsent EXCEPT ![c] = rest]
    BY <1>1, <1>2
  <2>3. sConn' = [sConn EXCEPT ![c] = l]
    BY <1>1, <1>2
  <2>4. UNCHANGED sScript
    BY DEF Service
  <2> QED
    BY <2>1, <2>3, <2>4
<1>8. k.phase = "new" => n = 0 /\ SubSeq(unsent, 1, n) = <<>>
  BY <1>1, <1>2, <1>3 DEF Reads
<1>9. ASSUME Behind(script, k, unsent) PROVE Behind(script, l, rest)
  <2>1. Tokens(script) \in Seq(Token)
    BY TokensStart DEF Starts
  <2>2. PICK p \in Nat : p = At(script)[Len(k.parsed) + 1] - k.left
    BY <1>9 DEF Behind
  <2>3. Follows(Tokens(script), k.in, unsent, p)
    BY <1>9, <2>2 DEF Behind
  <2>4. k.in \in Seq(Token)
    BY DEF Conns
  <2>5. Follows(Tokens(script), in, rest, p)
    BY <1>3, <2>1, <2>3, <2>4, ReceivedFollows
  <2> HIDE DEF in, rest, l
  <2> QED
    BY <1>6, <1>9, <2>2, <2>5 DEF Behind
<1>10. k.phase = "new" => l.in = k.in
  <2>1. k.in \in Seq(Token)
    BY DEF Conns
  <2> QED
    BY <1>6, <1>8, <2>1
<1> HIDE DEF in, rest, l
<1>11. InStep(script, l, rest)
  <2>1. Counted(k) => Counted(l)
    BY <1>6 DEF Counted
  <2> QED
    BY <1>2, <1>6, <1>9, <1>10, <2>1 DEF InStep
<1>12. sUnsent' \in [SConns -> Seq(Token)] /\ sConn' \in [SConns -> Conns]
  BY <1>4, <1>6, <1>7 DEF OrderInv
<1>13. ASSUME NEW d \in SConns PROVE InStep(sScript[d], sConn'[d], sUnsent'[d])
  <2>1. CASE d = c
    <3>1. sConn'[d] = l /\ sUnsent'[d] = rest /\ sScript[d] = script
      BY <1>2, <1>7, <2>1 DEF OrderInv
    <3> QED
      BY <1>11, <3>1
  <2>2. CASE d # c
    <3>1. sConn'[d] = sConn[d] /\ sUnsent'[d] = sUnsent[d]
      BY <1>7, <2>2 DEF OrderInv
    <3> QED
      BY <3>1 DEF OrderInv
  <2> QED
    BY <2>1, <2>2
<1> QED
  BY <1>7, <1>12, <1>13 DEF OrderInv

LEMMA ResetKeepsOrder ==
    ASSUME OrderInv, NEW c \in SConns, Reset(c)
    PROVE  OrderInv'
<1>2. PICK script \in Scripts, unsent \in Seq(Token), k \in Conns :
          /\ script = sScript[c] /\ unsent = sUnsent[c] /\ k = sConn[c]
          /\ InStep(script, k, unsent)
  BY AboutOne
<1> DEFINE l == [k EXCEPT !.phase = "close", !.eof = TRUE, !.out = <<>>, !.buf = 0, !.charge = 0]
<1>3. sConn' = [sConn EXCEPT ![c] = l] /\ UNCHANGED <<sScript, sUnsent>>
  BY <1>2 DEF Reset
<1>4. <<>> \in Seq(BOOLEAN) /\ "close" \in Phases
  BY DEF Phases
<1>5. l \in Conns
  BY <1>4 DEF Conns
<1>6. l.phase = "close" /\ l.parsed = k.parsed /\ l.answered = k.answered
  BY DEF Conns
<1> HIDE DEF l
<1>7. InStep(sScript[c], l, sUnsent[c])
  BY <1>2, <1>5, <1>6, EndedInStep
<1> QED
  BY <1>3, <1>5, <1>7, Changed

-------------------------------------------------------------------------------
\* service: one lemma for each way round its loop.
LEMMA NoHeadKeepsOrder ==
    ASSUME OrderInv, NEW c \in SConns, NoHeadYet(c)
    PROVE  OrderInv'
<1>1. PICK script \in Scripts, unsent \in Seq(Token), k \in Conns :
          /\ script = sScript[c] /\ unsent = sUnsent[c] /\ k = sConn[c]
          /\ InStep(script, k, unsent)
  BY AboutOne
<1> DEFINE l == [k EXCEPT !.phase = IF k.eof THEN "close" ELSE "head"]
<1>2. Leave(c, l, sHeld) /\ k.phase = "head"
  BY <1>1 DEF NoHeadYet
<1>3. l \in Conns
  BY DEF Conns, Phases
<1>4. /\ l.phase = (IF k.eof THEN "close" ELSE "head") /\ l.in = k.in /\ l.keep = k.keep
      /\ l.left = k.left /\ l.parsed = k.parsed /\ l.answered = k.answered
  BY DEF Conns
<1> HIDE DEF l
<1>5. InStep(script, l, unsent)
  <2>1. l.phase = k.phase \/ l.phase = "close"
    BY <1>2, <1>4
  <2> QED
    BY <1>1, <1>3, <1>4, <2>1, SameStep
<1> QED
  BY <1>1, <1>2, <1>3, <1>5, LeaveKeeps

LEMMA ParseHeadKeepsOrder ==
    ASSUME OrderInv, NEW c \in SConns, ParseHead(c)
    PROVE  OrderInv'
<1>1. PICK script \in Scripts, unsent \in Seq(Token), k \in Conns :
          /\ script = sScript[c] /\ unsent = sUnsent[c] /\ k = sConn[c]
          /\ InStep(script, k, unsent)
  BY AboutOne
<1>2. k.phase = "head" /\ HeadEnd(k) # {}
  BY <1>1 DEF ParseHead
<1> DEFINE m == Len(k.parsed) + 1
<1>3. /\ EndOfHead(k) = 2 /\ k.in[2] = <<"blank", m>>
      /\ SubSeq(k.in, 1, 2) = <<<<"line", m>>, <<"blank", m>>>>
  BY <1>1, <1>2, NextHead
<1>4. PICK rest : rest = Unparsed(k)
  OBVIOUS
<1>5. PICK head : head = Parsed(k)
  OBVIOUS
<1>6. PICK r : r = Asks(script, k)
  OBVIOUS
<1>7. /\ head \in Conns /\ Answering(head) /\ r.body \in Nat
      /\ UnreadBody(head, r) \in Conns /\ Open(script, UnreadBody(head, r), unsent)
      /\ UnreadBody(head, r).left = 0
      /\ WithBody(head, r) \in Conns /\ InStep(script, WithBody(head, r), unsent)
  BY <1>1, <1>2, <1>5, <1>6, HeadParsed
<1>8. r.pulls \in Nat
  <2>1. m \in 1..Len(script)
    BY <1>1, <1>2, NextHead
  <2>2. r \in Asked
    BY <1>6, <2>1, ElementOfSeq DEF Scripts, Asks
  <2> QED
    BY <2>2 DEF Asked
<1>9. \/ Round(c, Whole(UnreadBody(head, r)), sHeld)
      \/ Round(c, Streamed(UnreadBody(head, r), r.pulls), sHeld)
      \/ Round(c, Refusal(head), sHeld)
      \/ Round(c, WithBody(head, r), sHeld)
  <2> DEFINE end == EndOfHead(k)
             n == k.in[end][2]
             rest2 == [k EXCEPT !.in = SubSeq(@, end + 1, Len(@))]
             r2 == sScript[c][n]
             head2 == [rest2 EXCEPT !.parsed = Append(@, n)]
  <2>1. end = 2 /\ end + 1 = 3 /\ n = m
    BY <1>3
  <2>2. rest2 = rest
    <3> HIDE DEF end
    <3> QED
      BY <1>4, <2>1 DEF Unparsed
  <2>3. r2 = r /\ head2 = head
    <3> HIDE DEF n, rest2, m
    <3> QED
      BY <1>1, <1>4, <1>5, <1>6, <2>1, <2>2 DEF Parsed, Asks, m
  <2>4. SubSeq(k.in, 1, end) = <<<<"line", n>>, <<"blank", n>>>>
    <3> HIDE DEF end, n, m
    <3> QED
      BY <1>3, <2>1
  <2>5. IF SubSeq(k.in, 1, end) # <<<<"line", n>>, <<"blank", n>>>>
        THEN Round(c, Refusal([rest2 EXCEPT !.parsed = Append(@, 0)]), sHeld)
        ELSE CASE r2.plan = "respond" /\ r2.pulls = 0 ->
                    Round(c, Whole(UnreadBody(head2, r2)), sHeld)
               [] r2.plan = "respond" /\ r2.pulls > 0 ->
                    Round(c, Streamed(UnreadBody(head2, r2), r2.pulls), sHeld)
               [] r2.plan = "buffer" /\ r2.body > SBodyMax ->
                    Round(c, Refusal(head2), sHeld)
               [] OTHER ->
                    Round(c, WithBody(head2, r2), sHeld)
    BY <1>1, Zenon DEF ParseHead, WithBody
  <2> HIDE DEF end, n, rest2, r2, head2
  <2>6. \/ Round(c, Whole(UnreadBody(head2, r2)), sHeld)
        \/ Round(c, Streamed(UnreadBody(head2, r2), r2.pulls), sHeld)
        \/ Round(c, Refusal(head2), sHeld)
        \/ Round(c, WithBody(head2, r2), sHeld)
    BY <2>4, <2>5, Zenon
  <2> QED
    BY <2>3, <2>6, Zenon
<1>10. ASSUME NEW l \in Conns, InStep(script, l, unsent), Round(c, l, sHeld) PROVE OrderInv'
  BY <1>1, <1>10, RoundKeeps
<1>11. CASE Round(c, Whole(UnreadBody(head, r)), sHeld)
  BY <1>7, <1>10, <1>11, WholeInStep
<1>12. CASE Round(c, Streamed(UnreadBody(head, r), r.pulls), sHeld)
  BY <1>7, <1>8, <1>10, <1>12, StreamedInStep
<1>13. CASE Round(c, Refusal(head), sHeld)
  BY <1>7, <1>10, <1>13, RefusalInStep
<1>14. CASE Round(c, WithBody(head, r), sHeld)
  BY <1>7, <1>10, <1>14
<1> QED
  BY <1>9, <1>11, <1>12, <1>13, <1>14

LEMMA MisframedKeepsOrder ==
    ASSUME OrderInv, NEW c \in SConns, Misframed(c)
    PROVE  OrderInv'
<1>1. PICK script \in Scripts, unsent \in Seq(Token), k \in Conns :
          /\ script = sScript[c] /\ unsent = sUnsent[c] /\ k = sConn[c]
          /\ InStep(script, k, unsent)
  BY AboutOne
<1>2. Round(c, Refusal(k), sHeld - sConn[c].charge) /\ k.phase = "body"
  BY <1>1 DEF Misframed
<1>3. Answering(k)
  BY <1>1, <1>2, BodyOpen DEF Open
<1>4. PICK l \in Conns : l = Refusal(k) /\ InStep(script, l, unsent)
  BY <1>1, <1>3, RefusalInStep
<1> QED
  BY <1>1, <1>2, <1>4, RoundKeeps

\* The request that is being answered is one of the client's.
LEMMA RequestPulls ==
    ASSUME NEW c \in SConns, NEW script \in Scripts, NEW unsent, NEW k \in Conns,
           script = sScript[c], k = sConn[c], Open(script, k, unsent), k.keep
    PROVE  Request(c).pulls \in Nat
<1>1. k.parsed = [n \in 1..Len(k.parsed) |-> n] /\ Len(k.parsed) >= 1 /\ Len(k.parsed) <= Len(script)
  BY DEF Open, Answering, Counted, Behind
<1>2. Len(k.parsed) \in Nat /\ Len(script) \in Nat
  BY DEF Conns, Scripts
<1>3. Last(k.parsed) = Len(k.parsed) /\ Len(k.parsed) \in 1..Len(script)
  BY <1>1, <1>2 DEF Last
<1>4. script[Last(k.parsed)] \in Asked
  BY <1>3, ElementOfSeq DEF Scripts
<1> QED
  BY <1>4 DEF Request, Asked

LEMMA BufferBodyKeepsOrder ==
    ASSUME OrderInv, NEW c \in SConns, BufferBody(c)
    PROVE  OrderInv'
<1>1. PICK script \in Scripts, unsent \in Seq(Token), k \in Conns :
          /\ script = sScript[c] /\ unsent = sUnsent[c] /\ k = sConn[c]
          /\ InStep(script, k, unsent)
  BY AboutOne
<1>2. k.phase = "body"
  BY <1>1 DEF BufferBody, InBody
<1>3. Open(script, k, unsent) /\ k.keep
  BY <1>1, <1>2, BodyOpen
<1>4. PICK t \in Conns : t = Taken(k) /\ Open(script, t, unsent) /\ Came(k) \in Nat
  BY <1>3, TakenOpen
<1>5. t.phase = "body" /\ t.keep
  BY <1>2, <1>3, <1>4 DEF Taken, Conns
<1>6. PICK more : more = [t EXCEPT !.buf = @ + Came(k)]
  OBVIOUS
<1>7. /\ more \in Conns /\ more.phase = "body" /\ more.in = t.in /\ more.keep = t.keep
      /\ more.left = t.left /\ more.parsed = t.parsed /\ more.answered = t.answered
  <2>1. t.buf + Came(k) \in Nat
    <3>1. t.buf \in Nat
      BY DEF Conns
    <3> QED
      BY <1>4, <3>1
  <2> QED
    BY <1>5, <1>6, <2>1 DEF Conns
<1>8. Open(script, more, unsent)
  BY <1>4, <1>7, SameStep
<1>9. Request(c).pulls \in Nat
  BY <1>1, <1>3, RequestPulls
<1>10. \/ Round(c, Refusal(t), sHeld)
       \/ t.left = 0 /\ Round(c, Whole(more), sHeld)
       \/ t.left = 0 /\ Round(c, Streamed(more, Request(c).pulls), sHeld)
       \/ Leave(c, CutShort(more), sHeld)
       \/ Leave(c, more, sHeld)
  <2> DEFINE k2 == Taken(sConn[c])
             n == Came(sConn[c])
             more2 == [k2 EXCEPT !.buf = @ + n]
  <2>1. k2 = t /\ more2 = more
    BY <1>1, <1>4, <1>6, Zenon
  <2>2. \/ Round(c, Refusal(k2), sHeld)
        \/ CASE k2.left = 0 /\ Request(c).pulls = 0 -> Round(c, Whole(more2), sHeld)
             [] k2.left = 0 /\ Request(c).pulls > 0 ->
                    Round(c, Streamed(more2, Request(c).pulls), sHeld)
             [] k2.left > 0 /\ k2.eof -> Leave(c, CutShort(more2), sHeld)
             [] OTHER -> Leave(c, more2, sHeld)
    BY Zenon DEF BufferBody
  <2> HIDE DEF k2, more2
  <2>3. \/ Round(c, Refusal(k2), sHeld)
        \/ k2.left = 0 /\ Round(c, Whole(more2), sHeld)
        \/ k2.left = 0 /\ Round(c, Streamed(more2, Request(c).pulls), sHeld)
        \/ Leave(c, CutShort(more2), sHeld)
        \/ Leave(c, more2, sHeld)
    BY <2>2, Zenon
  <2> QED
    BY <2>1, <2>3, Zenon
<1>11. ASSUME NEW l \in Conns, InStep(script, l, unsent), Round(c, l, sHeld) \/ Leave(c, l, sHeld)
       PROVE  OrderInv'
  BY <1>1, <1>11, RoundKeeps, LeaveKeeps
<1>12. CASE Round(c, Refusal(t), sHeld)
  BY <1>4, <1>11, <1>12, RefusalInStep DEF Open
<1>13. CASE t.left = 0 /\ Round(c, Whole(more), sHeld)
  BY <1>7, <1>8, <1>11, <1>13, WholeInStep
<1>14. CASE t.left = 0 /\ Round(c, Streamed(more, Request(c).pulls), sHeld)
  <2>1. PICK pulls \in Nat : pulls = Request(c).pulls
    BY <1>9
  <2>2. PICK l \in Conns : l = Streamed(more, pulls) /\ InStep(script, l, unsent)
    BY <1>7, <1>8, <1>14, StreamedInStep
  <2>3. Round(c, l, sHeld)
    BY <1>14, <2>1, <2>2, Zenon
  <2> QED
    BY <1>11, <2>2, <2>3
<1>15. CASE Leave(c, CutShort(more), sHeld)
  BY <1>7, <1>8, <1>11, <1>15, CutShortInStep
<1>16. CASE Leave(c, more, sHeld)
  <2>1. InStep(script, more, unsent)
    BY <1>5, <1>7, <1>8, OpenBody
  <2> QED
    BY <1>7, <1>11, <1>16, <2>1
<1> QED
  BY <1>10, <1>12, <1>13, <1>14, <1>15, <1>16

LEMMA StreamBodyKeepsOrder ==
    ASSUME OrderInv, NEW c \in SConns, StreamBody(c)
    PROVE  OrderInv'
<1>1. PICK script \in Scripts, unsent \in Seq(Token), k \in Conns :
          /\ script = sScript[c] /\ unsent = sUnsent[c] /\ k = sConn[c]
          /\ InStep(script, k, unsent)
  BY AboutOne
<1>2. k.phase = "body"
  BY <1>1 DEF StreamBody, InBody
<1>3. Open(script, k, unsent) /\ k.keep
  BY <1>1, <1>2, BodyOpen
<1>4. PICK t \in Conns : t = Taken(k) /\ Open(script, t, unsent) /\ Came(k) \in Nat
  BY <1>3, TakenOpen
<1>5. t.phase = "body" /\ t.keep
  BY <1>2, <1>3, <1>4 DEF Taken, Conns
<1>6. PICK fits : fits = (Grown(sHeld, t.charge, t.charge + Came(k)) <= SPushCap)
  OBVIOUS
<1>7. PICK fed : fed = IF t.failed THEN t
                       ELSE IF fits THEN [t EXCEPT !.charge = t.charge + Came(k)]
                       ELSE [t EXCEPT !.failed = TRUE]
  OBVIOUS
<1>8. /\ fed \in Conns /\ fed.phase = "body" /\ fed.in = t.in /\ fed.keep = t.keep
      /\ fed.left = t.left /\ fed.parsed = t.parsed /\ fed.answered = t.answered
  <2>1. t.charge + Came(k) \in Nat
    <3>1. t.charge \in Nat
      BY DEF Conns
    <3> QED
      BY <1>4, <3>1
  <2>2. CASE t.failed
    BY <1>5, <1>7, <2>2
  <2>3. CASE ~t.failed /\ fits
    BY <1>5, <1>7, <2>1, <2>3 DEF Conns
  <2>4. CASE ~t.failed /\ ~fits
    BY <1>5, <1>7, <2>4 DEF Conns
  <2> QED
    BY <2>2, <2>3, <2>4
<1>9. Open(script, fed, unsent)
  BY <1>4, <1>8, SameStep
<1>10. Request(c).pulls \in Nat
  BY <1>1, <1>3, RequestPulls
<1> DEFINE held == IF ~t.failed /\ fits THEN Grown(sHeld, t.charge, t.charge + Came(k)) ELSE sHeld
<1>11. \/ fed.left = 0 /\ Round(c, Whole(fed), held - fed.charge)
       \/ fed.left = 0 /\ Round(c, Streamed(fed, Request(c).pulls), held)
       \/ Leave(c, CutShort(fed), held - fed.charge)
       \/ Leave(c, fed, held)
  <2> DEFINE k2 == Taken(sConn[c])
             n == Came(sConn[c])
             total == k2.charge + n
             fits2 == Grown(sHeld, k2.charge, total) <= SPushCap
             fed2 == IF k2.failed THEN k2
                     ELSE IF fits2 THEN [k2 EXCEPT !.charge = total]
                     ELSE [k2 EXCEPT !.failed = TRUE]
             held2 == IF ~k2.failed /\ fits2 THEN Grown(sHeld, k2.charge, total) ELSE sHeld
  <2>1. \/ FALSE
        \/ CASE k2.left = 0 /\ fed2.failed -> Round(c, Whole(fed2), held2 - fed2.charge)
             [] k2.left = 0 /\ ~fed2.failed -> Round(c, Streamed(fed2, Request(c).pulls), held2)
             [] k2.left > 0 /\ k2.eof -> Leave(c, CutShort(fed2), held2 - fed2.charge)
             [] OTHER -> Leave(c, fed2, held2)
    BY Zenon DEF StreamBody
  <2>2. k2 = t /\ n = Came(k)
    BY <1>1, <1>4, Zenon
  <2> HIDE DEF k2, n
  <2>3. fits2 = fits
    BY <1>6, <2>2, Zenon
  <2> HIDE DEF fits2
  <2>4. fed2 = fed
    BY <1>7, <2>2, <2>3, Zenon
  <2>5. held2 = held
    BY <2>2, <2>3, Zenon
  <2>6. fed.left = k2.left
    BY <1>8, <2>2
  <2> HIDE DEF fed2, held2, held
  <2>7. \/ k2.left = 0 /\ Round(c, Whole(fed2), held2 - fed2.charge)
        \/ k2.left = 0 /\ Round(c, Streamed(fed2, Request(c).pulls), held2)
        \/ Leave(c, CutShort(fed2), held2 - fed2.charge)
        \/ Leave(c, fed2, held2)
    BY <2>1, Zenon
  <2> QED
    BY <2>4, <2>5, <2>6, <2>7, Zenon
<1> HIDE DEF held
<1>12. CASE fed.left = 0 /\ Round(c, Whole(fed), held - fed.charge)
  <2>1. PICK l \in Conns : l = Whole(fed) /\ InStep(script, l, unsent)
    BY <1>8, <1>9, <1>12, WholeInStep
  <2> QED
    BY <1>1, <1>12, <2>1, RoundKeeps
<1>13. CASE fed.left = 0 /\ Round(c, Streamed(fed, Request(c).pulls), held)
  <2>1. PICK pulls \in Nat : pulls = Request(c).pulls
    BY <1>10
  <2>2. PICK l \in Conns : l = Streamed(fed, pulls) /\ InStep(script, l, unsent)
    BY <1>8, <1>9, <1>13, StreamedInStep
  <2>3. Round(c, l, held)
    BY <1>13, <2>1, <2>2, Zenon
  <2> QED
    BY <1>1, <2>2, <2>3, RoundKeeps
<1>14. CASE Leave(c, CutShort(fed), held - fed.charge)
  <2>1. PICK l \in Conns : l = CutShort(fed) /\ InStep(script, l, unsent)
    BY <1>8, <1>9, CutShortInStep
  <2> QED
    BY <1>1, <1>14, <2>1, LeaveKeeps
<1>15. CASE Leave(c, fed, held)
  <2>1. InStep(script, fed, unsent)
    BY <1>5, <1>8, <1>9, OpenBody
  <2> QED
    BY <1>1, <1>8, <1>15, <2>1, LeaveKeeps
<1> QED
  BY <1>11, <1>12, <1>13, <1>14, <1>15

LEMMA OutKeepsOrder ==
    ASSUME OrderInv, NEW c \in SConns, Out(c)
    PROVE  OrderInv'
<1>1. PICK script \in Scripts, unsent \in Seq(Token), k \in Conns :
          /\ script = sScript[c] /\ unsent = sUnsent[c] /\ k = sConn[c]
          /\ InStep(script, k, unsent)
  BY AboutOne
<1>2. k.phase = "out"
  BY <1>1 DEF Out
<1>3. PICK more : more = [k EXCEPT !.pulls = @ - 1, !.out = Append(@, FALSE)]
  OBVIOUS
<1>4. PICK last : last = [k EXCEPT !.phase = "done", !.pulls = 0, !.charge = 0,
                                   !.out = Append(@, TRUE), !.answered = @ + 1]
  OBVIOUS
<1>5. \/ Leave(c, k, sHeld)
      \/ k.pulls > 1 /\ Leave(c, more, sHeld)
      \/ Leave(c, last, sHeld - sConn[c].charge)
  BY <1>1, <1>3, <1>4, Zenon DEF Out
<1>6. Append(k.out, TRUE) \in Seq(BOOLEAN) /\ Append(k.out, FALSE) \in Seq(BOOLEAN)
  BY DEF Conns
<1>7. ASSUME k.pulls > 1, Leave(c, more, sHeld) PROVE OrderInv'
  <2>1. k.pulls - 1 \in Nat
    BY <1>7 DEF Conns
  <2>2. more \in Conns
    BY <1>3, <1>6, <2>1 DEF Conns
  <2>3. /\ more.phase = k.phase /\ more.in = k.in /\ more.keep = k.keep
        /\ more.left = k.left /\ more.parsed = k.parsed /\ more.answered = k.answered
    BY <1>3 DEF Conns
  <2>4. InStep(script, more, unsent)
    BY <1>1, <2>2, <2>3, SameStep
  <2> QED
    BY <1>1, <1>7, <2>2, <2>4, LeaveKeeps
<1>8. ASSUME Leave(c, last, sHeld - sConn[c].charge) PROVE OrderInv'
  <2>1. k.answered + 1 \in Nat /\ "done" \in Phases
    BY DEF Conns, Phases
  <2>2. last \in Conns
    BY <1>4, <1>6, <2>1 DEF Conns
  <2>3. /\ last.phase = "done" /\ last.in = k.in /\ last.keep = k.keep
        /\ last.left = k.left /\ last.parsed = k.parsed /\ last.answered = k.answered + 1
    BY <1>4 DEF Conns
  <2>4. /\ k.left = 0 /\ Counted(k) /\ k.answered = Len(k.parsed) - 1
        /\ k.keep => Behind(script, k, unsent)
    BY <1>1, <1>2 DEF InStep
  <2>5. last.answered = Len(last.parsed)
    <3>1. Len(k.parsed) \in Nat
      BY DEF Conns
    <3> QED
      BY <2>3, <2>4, <3>1
  <2>6. Counted(last) /\ (last.keep => Behind(script, last, unsent))
    BY <2>3, <2>4, Zenon DEF Counted, Behind
  <2>7. InStep(script, last, unsent)
    BY <2>3, <2>4, <2>5, <2>6 DEF InStep
  <2> QED
    BY <1>1, <1>8, <2>2, <2>7, LeaveKeeps
<1>9. CASE Leave(c, k, sHeld)
  BY <1>1, <1>9, LeaveKeeps
<1> QED
  BY <1>5, <1>7, <1>8, <1>9

LEMMA SourceFailsKeepsOrder ==
    ASSUME OrderInv, NEW c \in SConns, SourceFails(c)
    PROVE  OrderInv'
<1>1. PICK script \in Scripts, unsent \in Seq(Token), k \in Conns :
          /\ script = sScript[c] /\ unsent = sUnsent[c] /\ k = sConn[c]
          /\ InStep(script, k, unsent)
  BY AboutOne
<1>2. PICK l : l = [k EXCEPT !.phase = "close", !.keep = FALSE, !.charge = 0]
  OBVIOUS
<1>3. Leave(c, l, sHeld - sConn[c].charge)
  BY <1>1, <1>2, Zenon DEF SourceFails
<1>4. l \in Conns
  BY <1>2 DEF Conns, Phases
<1>5. l.phase = "close" /\ l.parsed = k.parsed /\ l.answered = k.answered
  BY <1>2 DEF Conns
<1>6. InStep(script, l, unsent)
  BY <1>1, <1>4, <1>5, EndedInStep
<1> QED
  BY <1>1, <1>3, <1>4, <1>6, LeaveKeeps

LEMMA DoneKeepsOrder ==
    ASSUME OrderInv, NEW c \in SConns, Done(c)
    PROVE  OrderInv'
<1>1. PICK script \in Scripts, unsent \in Seq(Token), k \in Conns :
          /\ script = sScript[c] /\ unsent = sUnsent[c] /\ k = sConn[c]
          /\ InStep(script, k, unsent)
  BY AboutOne
<1>2. k.phase = "done"
  BY <1>1 DEF Done
<1>3. PICK head : head = [k EXCEPT !.phase = "head"]
  OBVIOUS
<1>4. PICK l : l = [k EXCEPT !.phase = "close"]
  OBVIOUS
<1>5. \/ Leave(c, k, sHeld)
      \/ k.keep /\ (Round(c, head, sHeld) \/ Leave(c, head, sHeld))
      \/ Leave(c, l, sHeld)
  BY <1>1, <1>3, <1>4, Zenon DEF Done
<1>6. CASE Leave(c, k, sHeld)
  BY <1>1, <1>6, LeaveKeeps
<1>7. CASE k.keep /\ (Round(c, head, sHeld) \/ Leave(c, head, sHeld))
  <2>1. head \in Conns
    BY <1>3 DEF Conns, Phases
  <2>2. /\ head.phase = "head" /\ head.in = k.in /\ head.keep = k.keep
        /\ head.left = k.left /\ head.parsed = k.parsed /\ head.answered = k.answered
    BY <1>3 DEF Conns
  <2>3. /\ k.left = 0 /\ Counted(k) /\ k.answered = Len(k.parsed) /\ Behind(script, k, unsent)
    BY <1>1, <1>2, <1>7 DEF InStep
  <2>4. Counted(head) /\ Behind(script, head, unsent)
    BY <2>2, <2>3, Zenon DEF Counted, Behind
  <2>5. InStep(script, head, unsent)
    BY <1>7, <2>2, <2>3, <2>4 DEF InStep
  <2> QED
    BY <1>1, <1>7, <2>1, <2>5, LeaveKeeps, RoundKeeps
<1>8. CASE Leave(c, l, sHeld)
  <2>1. l \in Conns
    BY <1>4 DEF Conns, Phases
  <2>2. l.phase = "close" /\ l.parsed = k.parsed /\ l.answered = k.answered
    BY <1>4 DEF Conns
  <2>3. InStep(script, l, unsent)
    BY <1>1, <2>1, <2>2, EndedInStep
  <2> QED
    BY <1>1, <1>8, <2>1, <2>3, LeaveKeeps
<1> QED
  BY <1>5, <1>6, <1>7, <1>8

LEMMA CloseKeepsOrder ==
    ASSUME OrderInv, NEW c \in SConns, Close(c)
    PROVE  OrderInv'
<1>1. PICK script \in Scripts, unsent \in Seq(Token), k \in Conns :
          /\ script = sScript[c] /\ unsent = sUnsent[c] /\ k = sConn[c]
          /\ InStep(script, k, unsent)
  BY AboutOne
<1>2. Leave(c, k, sHeld)
  BY <1>1, Zenon DEF Close
<1> QED
  BY <1>1, <1>2, LeaveKeeps

\* What a connection takes for the head of a request is one: the requests of a
\* client are taken in the order it sent them, none from the body of another, and
\* each is answered before the next is looked at (Conn and service of serve.rs).
THEOREM TakenInOrder == SSpec => []InRequestOrder
<1>1. SInit => OrderInv
  BY ServeAssumption, InitKeepsOrder
<1>2. OrderInv /\ [SNext]_sVars => OrderInv'
  <2> SUFFICES ASSUME OrderInv, [SNext]_sVars PROVE OrderInv'
    OBVIOUS
  <2>1. CASE Step
    BY <2>1, StepKeepsOrder
  <2>2. ASSUME NEW c \in SConns, Service(c) \/ Reset(c) \/ SLoop(c) PROVE OrderInv'
    BY <2>2, ServiceKeepsOrder, ResetKeepsOrder, NoHeadKeepsOrder, ParseHeadKeepsOrder,
       MisframedKeepsOrder, BufferBodyKeepsOrder, StreamBodyKeepsOrder, OutKeepsOrder,
       SourceFailsKeepsOrder, DoneKeepsOrder, CloseKeepsOrder DEF SLoop
  <2>3. CASE UNCHANGED sVars
    BY <2>3 DEF sVars, OrderInv
  <2> QED
    BY <2>1, <2>2, <2>3 DEF SNext
<1>3. OrderInv => InRequestOrder
  BY OrderOfInv
<1> QED
  BY <1>1, <1>2, <1>3, PTL DEF SSpec
===============================================================================
