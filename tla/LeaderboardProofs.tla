-------------------------- MODULE LeaderboardProofs -------------------------
(***************************************************************************)
(* Proofs about the leaderboard, for any scores, any number of slots and   *)
(* lines, and whatever goes wrong how often: what its algorithms compute,  *)
(* and what highscores[] and the file have to do with each other.          *)
(***************************************************************************)
EXTENDS Leaderboard, FiniteSetTheorems, SequenceTheorems, WellFoundedInduction, TLAPS

(***************************************************************************)
(* The file, by how far a save has come: a save that finds no file means   *)
(* to write the header, and nothing is written to a file that is not open. *)
(***************************************************************************)
FileSound ==
  /\ file \in Seq(Int)
  /\ saving \in Nat /\ mishaps \in [MishapKind -> Nat]
  /\ step \in Step
  /\ step = "open" /\ file = NoFile => header
  /\ step = "header" => header
  /\ step \in {"header", "entry", "memory"} => file # NoFile

(***************************************************************************)
(* The headers of the file: a save that is about to write one to lines     *)
(* that are already there could not read them; and only a kill or a failed *)
(* write leaves an empty file, or an entry in place of the header.         *)
(***************************************************************************)
HeaderDue == step \in {"open", "header"} /\ header /\ file \notin {NoFile, << >>}

HeadersSound ==
  /\ Cardinality(LateHeaders(file)) + (IF HeaderDue THEN 1 ELSE 0) <= mishaps["test"]
  /\ mishaps["kill"] = 0 /\ mishaps["write"] = 0 =>
       /\ file = << >> => step = "header"
       /\ HeaderInPlace

(***************************************************************************)
(* The leaderboard of the entries e: what load_highscores_from_csv() makes *)
(* of them.                                                                *)
(***************************************************************************)
BoardOf(e) == sort_highscores(FirstN(e, MAX_HIGHSCORES))

(***************************************************************************)
(* A load reads every entry of a file that begins with the header, the     *)
(* last line too.                                                          *)
(***************************************************************************)
FileWhole ==
  file \notin {NoFile, << >>} =>
    /\ Head(file) = HeaderLine => Entries(file) = Entries(Tail(file))
    /\ Last(file) # HeaderLine => Entries(file) # << >> /\ Last(Entries(file)) = Last(file)

(***************************************************************************)
(* highscores[] is what a load of the file would give, but for the entry   *)
(* that is in the file and not yet in memory.                              *)
(***************************************************************************)
BoardInStep ==
  /\ step \in {"idle", "open", "header", "entry"} => highscores = load_highscores_from_csv
  /\ step = "memory" =>
       /\ file # << >>
       /\ \E e \in Seq(Int) : Entries(Tail(file)) = Append(e, saving) /\ highscores = BoardOf(e)

BoardInv ==
  /\ highscores \in Seq(Int)
  /\ BoardSorted
  /\ FileWhole
  /\ NoFailure /\ HeaderInPlace => BoardInStep

-----------------------------------------------------------------------------
(***************************************************************************)
(* The algorithms of the leaderboard: what sort_highscores() and           *)
(* load_highscores_from_csv() compute, for any entries.                    *)
(***************************************************************************)

(***************************************************************************)
(* A set of natural numbers that is not empty has a least one.             *)
(***************************************************************************)
LEMMA LeastNat ==
  ASSUME NEW T, T \subseteq Nat, T # {}
  PROVE  \E n \in T : \A m \in T : n <= m
<1> DEFINE Less == {p \in Nat \X Nat : p[1] < p[2]}
<1>1. IsWellFoundedOn(Less, Nat)
  BY NatLessThanWellFounded DEF OpToRel
<1>2. PICK n \in T : \A m \in T : << m, n >> \notin Less
  <2> HIDE DEF Less
  <2> QED
    BY <1>1, WFMin
<1>3. \A m \in T : ~(m < n)
  BY <1>2
<1> QED
  BY <1>3

(***************************************************************************)
(* What holds of 0, and of i + 1 when it holds of i, holds up to n: the    *)
(* induction that the proofs below are made with, over sets.               *)
(***************************************************************************)
LEMMA UpTo ==
  ASSUME NEW n \in Nat, NEW T, 0 \in T, \A i \in 0 .. n : i # n /\ i \in T => i + 1 \in T
  PROVE  \A i \in 0 .. n : i \in T
<1> SUFFICES ASSUME NEW k \in 0 .. n, k \notin T PROVE FALSE
  OBVIOUS
<1> DEFINE U == {i \in 0 .. n : i \notin T}
<1>1. PICK i \in U : \A j \in U : i <= j
  <2>1. U \subseteq Nat /\ U # {}
    OBVIOUS
  <2> HIDE DEF U
  <2> QED
    BY <2>1, LeastNat
<1>2. i \in Nat /\ i # 0 /\ i <= n
  BY <1>1
<1>3. i - 1 \in 0 .. n /\ i - 1 # n /\ i - 1 \notin U
  BY <1>1, <1>2
<1> QED
  BY <1>1, <1>2, <1>3

(***************************************************************************)
(* A loop of n turns over a state of S: turn i takes the state to F[i] of  *)
(* it. There is a function that records the state after every turn, which  *)
(* the recursive functions of module Leaderboard are.                      *)
(***************************************************************************)
StepsOf(n, S) == [1 .. n -> [S -> S]]

Iterates(f, n, S, a, F) ==
  f \in [0 .. n -> S] /\ f[0] = a /\ \A i \in 1 .. n : f[i] = F[i][f[i - 1]]

LEMMA Iteration ==
  ASSUME NEW n \in Nat, NEW S, NEW a \in S, NEW F \in StepsOf(n, S)
  PROVE  \E f : Iterates(f, n, S, a, F)
<1> DEFINE T == {k \in 0 .. n : \E f : Iterates(f, k, S, a, F)}
<1>1. 0 \in T
  <2> DEFINE g == [i \in 0 .. 0 |-> a]
  <2>1. Iterates(g, 0, S, a, F)
    BY DEF Iterates
  <2> HIDE DEF g
  <2> QED
    BY <2>1
<1>2. ASSUME NEW k \in 0 .. n, k # n, k \in T PROVE k + 1 \in T
  <2>1. PICK f : Iterates(f, k, S, a, F)
    BY <1>2
  <2> DEFINE g == [i \in 0 .. k + 1 |-> IF i = k + 1 THEN F[k + 1][f[k]] ELSE f[i]]
  <2>2. k \in Nat /\ k + 1 \in 1 .. n /\ f[k] \in S /\ f \in [0 .. k -> S]
    BY <1>2, <2>1 DEF Iterates
  <2>3. F[k + 1][f[k]] \in S
    BY <2>2 DEF StepsOf
  <2>4. g \in [0 .. k + 1 -> S] /\ g[0] = a
    BY <2>1, <2>2, <2>3 DEF Iterates
  <2>5. ASSUME NEW i \in 1 .. k + 1 PROVE g[i] = F[i][g[i - 1]]
    <3>1. CASE i = k + 1
      <4>1. g[i] = F[k + 1][f[k]] /\ g[i - 1] = f[k]
        BY <2>2, <3>1
      <4> HIDE DEF g
      <4> QED
        BY <3>1, <4>1
    <3>2. CASE i # k + 1
      <4>1. i \in 1 .. k
        BY <2>2, <2>5, <3>2
      <4>2. g[i] = f[i] /\ g[i - 1] = f[i - 1] /\ f[i] = F[i][f[i - 1]]
        BY <2>1, <2>2, <4>1 DEF Iterates
      <4> HIDE DEF g
      <4> QED
        BY <4>2
    <3> QED
      BY <3>1, <3>2
  <2> HIDE DEF g
  <2>6. Iterates(g, k + 1, S, a, F)
    BY <2>4, <2>5 DEF Iterates
  <2> QED
    BY <2>2, <2>6
<1>3. n \in T
  <2> HIDE DEF T
  <2>1. \A k \in 0 .. n : k # n /\ k \in T => k + 1 \in T
    BY <1>2
  <2>2. \A k \in 0 .. n : k \in T
    BY <1>1, <2>1, UpTo
  <2> QED
    BY <2>2
<1> QED
  BY <1>3

(***************************************************************************)
(* highscores[0 .. m - 1] as a function, and what the comparison of two    *)
(* neighbours leaves.                                                      *)
(***************************************************************************)
Sequence(n) == [1 .. n -> Int]

LEMMA SwappedType ==
  ASSUME NEW m \in Nat, NEW s \in Sequence(m), NEW j \in 1 .. m - 1
  PROVE  /\ Swapped(s, j) \in Sequence(m)
         /\ Swapped(s, j)[j] = IF s[j] < s[j + 1] THEN s[j + 1] ELSE s[j]
         /\ Swapped(s, j)[j + 1] = IF s[j] < s[j + 1] THEN s[j] ELSE s[j + 1]
         /\ \A i \in (1 .. m) \ {j, j + 1} : Swapped(s, j)[i] = s[i]
BY DEF Swapped, Sequence

(***************************************************************************)
(* Pass() turn by turn: the recursive function in its definition is the    *)
(* one that its equation describes.                                        *)
(***************************************************************************)
LEMMA PassSteps ==
  ASSUME NEW m \in Nat, NEW s \in Sequence(m), NEW n \in 1 .. m
  PROVE  \E f \in [0 .. n - 1 -> Sequence(m)] :
            /\ f[0] = s /\ Pass(s, n) = f[n - 1]
            /\ \A j \in 1 .. n - 1 : f[j] = Swapped(f[j - 1], j)
<1> DEFINE S == Sequence(m)
           F == [j \in 1 .. n - 1 |-> [t \in S |-> Swapped(t, j)]]
           Sweeps(f) == f = [j \in 0 .. n - 1 |-> IF j = 0 THEN s ELSE Swapped(f[j - 1], j)]
           swept == CHOOSE f : Sweeps(f)
<1>1. F \in StepsOf(n - 1, S)
  BY SwappedType DEF StepsOf
<1>2. n - 1 \in Nat
  OBVIOUS
<1>3. PICK f : Iterates(f, n - 1, S, s, F)
  <2>1. s \in S
    OBVIOUS
  <2> HIDE DEF F, S
  <2> QED
    BY <1>1, <1>2, <2>1, Iteration
<1>4. ASSUME NEW i \in 1 .. n - 1 PROVE f[i - 1] \in S /\ f[i] = Swapped(f[i - 1], i)
  <2>1. f[i - 1] \in S
    BY <1>2, <1>3 DEF Iterates
  <2> QED
    BY <1>3, <2>1 DEF Iterates
<1>5. Sweeps(f)
  <2>1. \A j \in 0 .. n - 1 : f[j] = IF j = 0 THEN s ELSE Swapped(f[j - 1], j)
    BY <1>2, <1>3, <1>4 DEF Iterates
  <2> QED
    BY <1>3, <2>1 DEF Iterates
<1>6. Sweeps(swept)
  <2> HIDE DEF Sweeps
  <2> QED
    BY <1>5
<1>7. Pass(s, n) = swept[n - 1]
  BY DEF Pass
<1> HIDE DEF swept
<1>8. swept[0] = s /\ \A j \in 1 .. n - 1 : swept[j] = Swapped(swept[j - 1], j)
  BY <1>2, <1>6
<1> DEFINE T == {j \in 0 .. n - 1 : swept[j] \in S}
<1>9. \A j \in 0 .. n - 1 : j \in T
  <2>1. 0 \in T
    BY <1>2, <1>8
  <2>2. ASSUME NEW j \in 0 .. n - 1, j # n - 1, j \in T PROVE j + 1 \in T
    <3>1. j + 1 \in 1 .. n - 1 /\ j + 1 \in 1 .. m - 1 /\ (j + 1) - 1 = j /\ swept[j] \in S
      BY <1>2, <2>2
    <3>2. swept[j + 1] = Swapped(swept[j], j + 1)
      BY <1>8, <3>1
    <3> QED
      BY <3>1, <3>2, SwappedType
  <2> HIDE DEF T
  <2> QED
    BY <1>2, <2>1, <2>2, UpTo
<1>10. swept \in [0 .. n - 1 -> S]
  BY <1>6, <1>9
<1> QED
  BY <1>7, <1>8, <1>10

(***************************************************************************)
(* t holds the entries of s, every one once, and has moved none behind     *)
(* place n.                                                                *)
(***************************************************************************)
Shuffle(m, n) ==
  {p \in [1 .. m -> 1 .. m] : /\ \A i, j \in 1 .. m : p[i] = p[j] => i = j
                             /\ \A i \in n + 1 .. m : p[i] = i}

Rearranged(m, n, s, t) == \E p \in Shuffle(m, n) : \A i \in 1 .. m : t[i] = s[p[i]]

LEMMA ShuffleKeeps ==
  ASSUME NEW m \in Nat, NEW n \in 0 .. m, NEW p \in Shuffle(m, n), NEW i \in 1 .. n
  PROVE  p[i] \in 1 .. n
<1>1. i \in 1 .. m /\ p[i] \in 1 .. m
  BY DEF Shuffle
<1>2. p[i] \in n + 1 .. m => p[p[i]] = p[i]
  BY DEF Shuffle
<1>3. p[i] \notin n + 1 .. m
  BY <1>1, <1>2 DEF Shuffle
<1> QED
  BY <1>1, <1>3

LEMMA RearrangedSame ==
  ASSUME NEW m \in Nat, NEW n \in 0 .. m, NEW s \in Sequence(m)
  PROVE  Rearranged(m, n, s, s)
<1> DEFINE p == [i \in 1 .. m |-> i]
<1>1. p \in Shuffle(m, n) /\ \A i \in 1 .. m : s[i] = s[p[i]]
  BY DEF Shuffle
<1> QED
  BY <1>1 DEF Rearranged

LEMMA RearrangedAgain ==
  ASSUME NEW m \in Nat, NEW n \in 0 .. m, NEW k \in 0 .. m, n <= k,
         NEW s \in Sequence(m), NEW t \in Sequence(m), NEW u \in Sequence(m),
         Rearranged(m, k, s, t), Rearranged(m, n, t, u)
  PROVE  Rearranged(m, k, s, u)
<1>1. PICK p \in Shuffle(m, k) : \A i \in 1 .. m : t[i] = s[p[i]]
  BY DEF Rearranged
<1>2. PICK q \in Shuffle(m, n) : \A i \in 1 .. m : u[i] = t[q[i]]
  BY DEF Rearranged
<1> DEFINE r == [i \in 1 .. m |-> p[q[i]]]
<1>3. p \in [1 .. m -> 1 .. m] /\ q \in [1 .. m -> 1 .. m]
  BY DEF Shuffle
<1>4. r \in [1 .. m -> 1 .. m] /\ \A i \in 1 .. m : r[i] = p[q[i]]
  BY <1>3
<1>5. \A i, j \in 1 .. m : p[q[i]] = p[q[j]] => i = j
  BY <1>3 DEF Shuffle
<1>6. \A i \in k + 1 .. m : i \in 1 .. m /\ i \in n + 1 .. m /\ q[i] = i /\ p[i] = i
  BY DEF Shuffle
<1>7. \A i \in 1 .. m : u[i] = s[p[q[i]]]
  BY <1>1, <1>2, <1>3
<1> HIDE DEF r
<1>8. r \in Shuffle(m, k)
  BY <1>4, <1>5, <1>6 DEF Shuffle
<1>9. \A i \in 1 .. m : u[i] = s[r[i]]
  BY <1>4, <1>7
<1> QED
  BY <1>8, <1>9 DEF Rearranged

LEMMA RearrangedSwap ==
  ASSUME NEW m \in Nat, NEW n \in 1 .. m, NEW j \in 1 .. n - 1, NEW s \in Sequence(m)
  PROVE  Rearranged(m, n, s, Swapped(s, j))
<1>1. CASE s[j] < s[j + 1]
  <2> DEFINE p == [i \in 1 .. m |-> IF i = j THEN j + 1 ELSE IF i = j + 1 THEN j ELSE i]
  <2>1. p \in Shuffle(m, n)
    BY DEF Shuffle
  <2>2. \A i \in 1 .. m : Swapped(s, j)[i] = s[p[i]]
    BY <1>1, SwappedType
  <2> HIDE DEF p
  <2> QED
    BY <2>1, <2>2 DEF Rearranged
<1>2. CASE ~(s[j] < s[j + 1])
  BY <1>2, RearrangedSame DEF Swapped
<1> QED
  BY <1>1, <1>2

(***************************************************************************)
(* One pass moves entries among the first n places only, and the lowest of *)
(* them to place n.                                                        *)
(***************************************************************************)
LEMMA PassResult ==
  ASSUME NEW m \in Nat, NEW s \in Sequence(m), NEW n \in 1 .. m
  PROVE  /\ Pass(s, n) \in Sequence(m)
         /\ Rearranged(m, n, s, Pass(s, n))
         /\ \A i \in 1 .. n : Pass(s, n)[n] <= Pass(s, n)[i]
<1>1. PICK f \in [0 .. n - 1 -> Sequence(m)] :
        /\ f[0] = s /\ Pass(s, n) = f[n - 1]
        /\ \A j \in 1 .. n - 1 : f[j] = Swapped(f[j - 1], j)
  BY PassSteps
<1> DEFINE T == {j \in 0 .. n - 1 : /\ Rearranged(m, n, s, f[j])
                                    /\ \A i \in 1 .. j + 1 : f[j][j + 1] <= f[j][i]}
<1>2. n - 1 \in Nat
  OBVIOUS
<1>3. 0 \in T
  <2>1. f[0][1] <= f[0][1]
    BY <1>1 DEF Sequence
  <2>2. \A i \in 1 .. 0 + 1 : i = 1
    OBVIOUS
  <2>3. Rearranged(m, n, s, f[0])
    BY <1>1, RearrangedSame
  <2> QED
    BY <1>2, <2>1, <2>2, <2>3
<1>4. ASSUME NEW j \in 0 .. n - 1, j # n - 1, j \in T PROVE j + 1 \in T
  <2> DEFINE t == f[j]
             u == f[j + 1]
  <2>1. /\ j + 1 \in 1 .. n - 1 /\ j + 1 \in 1 .. m - 1 /\ j + 1 \in 0 .. n - 1
        /\ (j + 1) - 1 = j /\ (j + 1) + 1 = j + 2 /\ j + 2 \in 1 .. m
    BY <1>2, <1>4
  <2>2. t \in Sequence(m) /\ u \in Sequence(m)
    BY <1>1, <2>1
  <2>3. u = Swapped(t, j + 1)
    BY <1>1, <2>1
  <2>4. Rearranged(m, n, s, t) /\ \A i \in 1 .. j + 1 : t[j + 1] <= t[i]
    BY <1>4
  <2> HIDE DEF t, u
  <2>5. Rearranged(m, n, s, u)
    BY <2>1, <2>2, <2>3, <2>4, RearrangedSwap, RearrangedAgain
  <2>6. ASSUME NEW i \in 1 .. (j + 1) + 1 PROVE u[(j + 1) + 1] <= u[i]
    <3>1. /\ u[j + 1] = IF t[j + 1] < t[j + 2] THEN t[j + 2] ELSE t[j + 1]
          /\ u[j + 2] = IF t[j + 1] < t[j + 2] THEN t[j + 1] ELSE t[j + 2]
          /\ \A k \in (1 .. m) \ {j + 1, j + 2} : u[k] = t[k]
      BY <2>1, <2>2, <2>3, SwappedType
    <3>2. t[j + 1] \in Int /\ t[j + 2] \in Int
      BY <2>1, <2>2 DEF Sequence
    <3>3. CASE i \in {j + 1, j + 2}
      BY <2>1, <3>1, <3>2, <3>3
    <3>4. CASE i \notin {j + 1, j + 2}
      <4>1. i \in 1 .. j + 1 /\ i \in 1 .. m
        BY <2>1, <2>6, <3>4
      <4>2. t[i] \in Int /\ u[i] = t[i] /\ t[j + 1] <= t[i]
        BY <2>2, <2>4, <3>1, <3>4, <4>1 DEF Sequence
      <4> QED
        BY <2>1, <3>1, <3>2, <4>2
    <3> QED
      BY <3>3, <3>4
  <2> QED
    BY <2>1, <2>5, <2>6 DEF u
<1>5. n - 1 \in T
  <2> HIDE DEF T
  <2>1. \A j \in 0 .. n - 1 : j # n - 1 /\ j \in T => j + 1 \in T
    BY <1>4
  <2>2. \A j \in 0 .. n - 1 : j \in T
    BY <1>2, <1>3, <2>1, UpTo
  <2> QED
    BY <1>2, <2>2
<1> QED
  BY <1>1, <1>2, <1>5

(***************************************************************************)
(* sort_highscores() pass by pass.                                         *)
(***************************************************************************)
LEMMA SortSteps ==
  ASSUME NEW m \in Nat, m > 1, NEW s \in Sequence(m)
  PROVE  \E f \in [0 .. m - 1 -> Sequence(m)] :
            /\ f[0] = s /\ sort_highscores(s) = f[m - 1]
            /\ \A i \in 1 .. m - 1 : f[i] = Pass(f[i - 1], m - i + 1)
<1> DEFINE S == Sequence(m)
           F == [i \in 1 .. m - 1 |-> [t \in S |-> Pass(t, m - i + 1)]]
           Sorts(f) == f = [i \in 0 .. m - 1 |-> IF i = 0 THEN s ELSE Pass(f[i - 1], m - i + 1)]
           sorted == CHOOSE f : Sorts(f)
<1>0. ASSUME NEW i \in 1 .. m - 1, NEW t \in S PROVE Pass(t, m - i + 1) \in S
  <2>1. m - i + 1 \in 1 .. m
    BY <1>0
  <2> QED
    BY <2>1, PassResult
<1>1. F \in StepsOf(m - 1, S)
  BY <1>0 DEF StepsOf
<1>2. m - 1 \in Nat
  OBVIOUS
<1>3. PICK f : Iterates(f, m - 1, S, s, F)
  <2>1. s \in S
    OBVIOUS
  <2> HIDE DEF F, S
  <2> QED
    BY <1>1, <1>2, <2>1, Iteration
<1>4. ASSUME NEW i \in 1 .. m - 1 PROVE f[i - 1] \in S /\ f[i] = Pass(f[i - 1], m - i + 1)
  <2>1. f[i - 1] \in S
    BY <1>2, <1>3 DEF Iterates
  <2> QED
    BY <1>3, <2>1 DEF Iterates
<1>5. Sorts(f)
  <2>1. \A i \in 0 .. m - 1 : f[i] = IF i = 0 THEN s ELSE Pass(f[i - 1], m - i + 1)
    BY <1>2, <1>3, <1>4 DEF Iterates
  <2> QED
    BY <1>3, <2>1 DEF Iterates
<1>6. Sorts(sorted)
  <2> HIDE DEF Sorts
  <2> QED
    BY <1>5
<1>7. Len(s) = m
  BY DEF Sequence
<1>8. sort_highscores(s) = sorted[m - 1]
  BY <1>7 DEF sort_highscores
<1> HIDE DEF sorted
<1>9. sorted[0] = s /\ \A i \in 1 .. m - 1 : sorted[i] = Pass(sorted[i - 1], m - i + 1)
  BY <1>2, <1>6
<1> DEFINE T == {i \in 0 .. m - 1 : sorted[i] \in S}
<1>10. \A i \in 0 .. m - 1 : i \in T
  <2>1. 0 \in T
    BY <1>2, <1>9
  <2>2. ASSUME NEW i \in 0 .. m - 1, i # m - 1, i \in T PROVE i + 1 \in T
    <3>1. i + 1 \in 1 .. m - 1 /\ (i + 1) - 1 = i /\ sorted[i] \in S
      BY <1>2, <2>2
    <3>2. sorted[i + 1] = Pass(sorted[i], m - (i + 1) + 1)
      BY <1>9, <3>1
    <3>3. sorted[i + 1] \in S
      BY <1>0, <3>1, <3>2
    <3> QED
      BY <3>1, <3>3
  <2> HIDE DEF T
  <2> QED
    BY <1>2, <2>1, <2>2, UpTo
<1>11. sorted \in [0 .. m - 1 -> S]
  BY <1>6, <1>10
<1> QED
  BY <1>8, <1>9, <1>11

(***************************************************************************)
(* Best first.                                                             *)
(***************************************************************************)
Descending(s) == \A i, j \in DOMAIN s : i < j => s[i] >= s[j]

LEMMA SequenceFacts ==
  ASSUME NEW m \in Nat
  PROVE  /\ \A s \in Sequence(m) : s \in Seq(Int) /\ Len(s) = m /\ DOMAIN s = 1 .. m
         /\ \A s \in Seq(Int) : Len(s) = m => s \in Sequence(m)
BY DEF Sequence

(***************************************************************************)
(* After i passes the last i places are settled: no entry before them is   *)
(* lower. So the result is sorted, and has the entries it had.             *)
(***************************************************************************)
LEMMA SortResult ==
  ASSUME NEW m \in Nat, NEW s \in Sequence(m)
  PROVE  /\ sort_highscores(s) \in Sequence(m)
         /\ Rearranged(m, m, s, sort_highscores(s))
         /\ Descending(sort_highscores(s))
<1>1. CASE m <= 1
  <2>1. sort_highscores(s) = s
    BY <1>1, SequenceFacts DEF sort_highscores
  <2>2. Descending(s)
    BY <1>1, SequenceFacts DEF Descending
  <2> QED
    BY <2>1, <2>2, RearrangedSame
<1>2. CASE m > 1
  <2>1. PICK f \in [0 .. m - 1 -> Sequence(m)] :
          /\ f[0] = s /\ sort_highscores(s) = f[m - 1]
          /\ \A i \in 1 .. m - 1 : f[i] = Pass(f[i - 1], m - i + 1)
    BY <1>2, SortSteps
  <2> DEFINE Settled(i) == \A k \in m - i + 1 .. m : \A j \in 1 .. k : f[i][k] <= f[i][j]
             T == {i \in 0 .. m - 1 : Rearranged(m, m, s, f[i]) /\ Settled(i)}
  <2>2. m - 1 \in Nat
    BY <1>2
  <2>3. 0 \in T
    <3>1. Rearranged(m, m, s, f[0])
      BY <2>1, RearrangedSame
    <3> QED
      BY <2>2, <3>1
  <2>4. ASSUME NEW i \in 0 .. m - 1, i # m - 1, i \in T PROVE i + 1 \in T
    <3> DEFINE t == f[i]
               u == f[i + 1]
               n == m - i
    <3>1. /\ i + 1 \in 1 .. m - 1 /\ i + 1 \in 0 .. m - 1 /\ (i + 1) - 1 = i
          /\ m - (i + 1) + 1 = n /\ n \in 1 .. m /\ m - i + 1 = n + 1
      BY <2>2, <2>4
    <3>2. t \in Sequence(m) /\ u \in Sequence(m)
      BY <2>1, <3>1
    <3>3. u = Pass(t, n)
      BY <2>1, <3>1
    <3>4. Rearranged(m, m, s, t) /\ \A k \in n + 1 .. m : \A j \in 1 .. k : t[k] <= t[j]
      BY <2>4, <3>1
    <3> HIDE DEF t, u, n
    <3>5. Rearranged(m, n, t, u) /\ \A j \in 1 .. n : u[n] <= u[j]
      BY <3>1, <3>2, <3>3, PassResult
    <3>6. Rearranged(m, m, s, u)
      <4>1. m \in 0 .. m /\ n \in 0 .. m /\ n <= m
        BY <3>1
      <4> QED
        BY <3>2, <3>4, <3>5, <4>1, RearrangedAgain
    <3>7. ASSUME NEW k \in n .. m, NEW j \in 1 .. k PROVE u[k] <= u[j]
      <4>1. CASE k = n
        BY <3>5, <3>7, <4>1
      <4>2. CASE k # n
        <5>1. PICK p \in Shuffle(m, n) : \A l \in 1 .. m : u[l] = t[p[l]]
          BY <3>5 DEF Rearranged
        <5>2. k \in n + 1 .. m /\ k \in 1 .. m /\ j \in 1 .. m
          BY <3>1, <3>7, <4>2
        <5>3. p[k] = k
          BY <5>2 DEF Shuffle
        <5>4. p[j] \in 1 .. k
          <6>1. CASE j \in 1 .. n
            BY <3>1, <5>2, <6>1, ShuffleKeeps
          <6>2. CASE j \notin 1 .. n
            BY <3>1, <3>7, <5>2, <6>2 DEF Shuffle
          <6> QED
            BY <6>1, <6>2
        <5> QED
          BY <3>4, <5>1, <5>2, <5>3, <5>4
      <4> QED
        BY <4>1, <4>2
    <3> QED
      BY <3>1, <3>6, <3>7 DEF u
  <2>5. m - 1 \in T
    <3> HIDE DEF T
    <3>1. \A i \in 0 .. m - 1 : i # m - 1 /\ i \in T => i + 1 \in T
      BY <2>4
    <3>2. \A i \in 0 .. m - 1 : i \in T
      BY <2>2, <2>3, <3>1, UpTo
    <3> QED
      BY <2>2, <3>2
  <2>6. f[m - 1] \in Sequence(m)
    BY <2>1, <2>2
  <2>7. Descending(f[m - 1])
    <3>1. \A k \in 2 .. m : \A j \in 1 .. k : f[m - 1][k] <= f[m - 1][j]
      BY <1>2, <2>5
    <3> QED
      BY <2>6, <3>1, SequenceFacts DEF Descending, Sequence
  <2> QED
    BY <2>1, <2>5, <2>6, <2>7
<1> QED
  BY <1>1, <1>2

(***************************************************************************)
(* sort_highscores() sorts, best first, and neither drops nor repeats an   *)
(* entry, however many there are.                                          *)
(***************************************************************************)
THEOREM SortSorts ==
  ASSUME NEW s \in Seq(Int)
  PROVE  /\ Descending(sort_highscores(s))
         /\ Len(sort_highscores(s)) = Len(s)
         /\ Rearranged(Len(s), Len(s), s, sort_highscores(s))
<1>1. Len(s) \in Nat /\ s \in Sequence(Len(s))
  BY SequenceFacts
<1> QED
  BY <1>1, SortResult, SequenceFacts

(***************************************************************************)
(* There is one way only to sort s: were place k higher in t than in u,    *)
(* then the first k entries of t and the last of u from k on would be more *)
(* entries of s than s has.                                                *)
(***************************************************************************)
LEMMA NoHigherElsewhere ==
  ASSUME NEW m \in Nat, NEW s \in Sequence(m), NEW t \in Sequence(m), NEW u \in Sequence(m),
         Rearranged(m, m, s, t), Rearranged(m, m, s, u), Descending(t), Descending(u),
         NEW k \in 1 .. m
  PROVE  ~(t[k] > u[k])
<1> SUFFICES ASSUME t[k] > u[k] PROVE FALSE
  OBVIOUS
<1>1. PICK p \in Shuffle(m, m) : \A i \in 1 .. m : t[i] = s[p[i]]
  BY DEF Rearranged
<1>2. PICK q \in Shuffle(m, m) : \A i \in 1 .. m : u[i] = s[q[i]]
  BY DEF Rearranged
<1> DEFINE g == [i \in 1 .. m + 1 |-> IF i <= k THEN p[i] ELSE q[i - 1]]
<1>3. p \in [1 .. m -> 1 .. m] /\ q \in [1 .. m -> 1 .. m]
  BY DEF Shuffle
<1>4. g \in [1 .. m + 1 -> 1 .. m]
  <2>1. ASSUME NEW i \in 1 .. m + 1
        PROVE  (IF i <= k THEN p[i] ELSE q[i - 1]) \in 1 .. m
    <3>1. i <= k => i \in 1 .. m
      OBVIOUS
    <3>2. ~(i <= k) => i - 1 \in 1 .. m
      OBVIOUS
    <3> QED
      BY <1>3, <3>1, <3>2
  <2> QED
    BY <2>1
<1>5. \A i \in 1 .. k : i \in 1 .. m /\ t[i] >= t[k] /\ t[i] \in Int /\ t[k] \in Int
  BY SequenceFacts DEF Descending, Sequence
<1>6. \A i \in k .. m : i \in 1 .. m /\ u[i] <= u[k] /\ u[i] \in Int /\ u[k] \in Int
  BY SequenceFacts DEF Descending, Sequence
<1>7. ASSUME NEW i \in 1 .. k, NEW j \in k .. m PROVE p[i] # q[j]
  <2>1. t[i] = s[p[i]] /\ u[j] = s[q[j]]
    BY <1>1, <1>2, <1>5, <1>6
  <2>2. t[i] > u[j]
    BY <1>5, <1>6
  <2> QED
    BY <1>5, <1>6, <2>1, <2>2
<1>8. ASSUME NEW i \in 1 .. m + 1, NEW j \in 1 .. m + 1, i < j PROVE g[i] # g[j]
  <2>1. CASE j <= k
    <3>1. i \in 1 .. m /\ j \in 1 .. m /\ i # j
      BY <1>8, <2>1
    <3>2. g[i] = p[i] /\ g[j] = p[j]
      BY <1>8, <2>1
    <3> HIDE DEF g
    <3> QED
      BY <3>1, <3>2 DEF Shuffle
  <2>2. CASE i <= k /\ ~(j <= k)
    <3>1. i \in 1 .. k /\ j - 1 \in k .. m /\ g[i] = p[i] /\ g[j] = q[j - 1]
      BY <1>8, <2>2
    <3> QED
      BY <1>7, <3>1
  <2>3. CASE ~(i <= k)
    <3>1. i - 1 \in 1 .. m /\ j - 1 \in 1 .. m /\ i - 1 # j - 1
      BY <1>8, <2>3
    <3>2. g[i] = q[i - 1] /\ g[j] = q[j - 1]
      BY <1>8, <2>3
    <3> QED
      BY <3>1, <3>2 DEF Shuffle
  <2> QED
    BY <2>1, <2>2, <2>3
<1>9. \A i, j \in 1 .. m + 1 : g[i] = g[j] => i = j
  <2> HIDE DEF g
  <2> QED
    BY <1>8
<1>10. /\ IsFiniteSet(1 .. m) /\ IsFiniteSet(1 .. m + 1)
       /\ Cardinality(1 .. m) = m /\ Cardinality(1 .. m + 1) = m + 1
  BY FS_Interval
<1>11. \E i, j \in 1 .. m + 1 : i # j /\ g[i] = g[j]
  <2> DEFINE A == 1 .. m + 1
             B == 1 .. m
  <2>a. g \in [A -> B]
    BY <1>4
  <2>1. IsFiniteSet(A) /\ IsFiniteSet(B) /\ Cardinality(B) < Cardinality(A)
    BY <1>10
  <2> HIDE DEF g, A, B
  <2>2. \E i, j \in A : i # j /\ g[i] = g[j]
    BY <2>a, <2>1, FS_PigeonHole
  <2> QED
    BY <2>2 DEF A
<1> QED
  BY <1>9, <1>11

LEMMA SortedOnce ==
  ASSUME NEW m \in Nat, NEW s \in Sequence(m), NEW t \in Sequence(m), NEW u \in Sequence(m),
         Rearranged(m, m, s, t), Rearranged(m, m, s, u), Descending(t), Descending(u)
  PROVE  t = u
<1>1. \A k \in 1 .. m : t[k] = u[k]
  <2> SUFFICES ASSUME NEW k \in 1 .. m PROVE t[k] = u[k]
    OBVIOUS
  <2>1. ~(t[k] > u[k]) /\ ~(u[k] > t[k])
    BY NoHigherElsewhere
  <2> QED
    BY <2>1 DEF Sequence
<1> QED
  BY <1>1 DEF Sequence

(***************************************************************************)
(* Entries that are rearranged stay so when one more joins both.           *)
(***************************************************************************)
LEMMA RearrangedAppend ==
  ASSUME NEW m \in Nat, NEW s \in Sequence(m), NEW t \in Sequence(m), Rearranged(m, m, s, t),
         NEW x \in Int
  PROVE  /\ Append(s, x) \in Sequence(m + 1) /\ Append(t, x) \in Sequence(m + 1)
         /\ Rearranged(m + 1, m + 1, Append(s, x), Append(t, x))
<1>1. PICK p \in Shuffle(m, m) : \A i \in 1 .. m : t[i] = s[p[i]]
  BY DEF Rearranged
<1>2. p \in [1 .. m -> 1 .. m] /\ \A i, j \in 1 .. m : p[i] = p[j] => i = j
  BY DEF Shuffle
<1> DEFINE q == [i \in 1 .. m + 1 |-> IF i = m + 1 THEN m + 1 ELSE p[i]]
<1>3. q \in [1 .. m + 1 -> 1 .. m + 1] /\ q[m + 1] = m + 1 /\ \A i \in 1 .. m : q[i] = p[i]
  BY <1>2
<1> HIDE DEF q
<1>4. \A i, j \in 1 .. m + 1 : q[i] = q[j] => i = j
  <2> SUFFICES ASSUME NEW i \in 1 .. m + 1, NEW j \in 1 .. m + 1, q[i] = q[j] PROVE i = j
    OBVIOUS
  <2>1. (i = m + 1 \/ i \in 1 .. m) /\ (j = m + 1 \/ j \in 1 .. m)
    OBVIOUS
  <2> QED
    BY <1>2, <1>3, <2>1
<1>5. q \in Shuffle(m + 1, m + 1)
  BY <1>3, <1>4 DEF Shuffle
<1>6. ASSUME NEW r \in Sequence(m)
      PROVE  /\ Append(r, x) \in Sequence(m + 1) /\ Append(r, x)[m + 1] = x
             /\ \A i \in 1 .. m : Append(r, x)[i] = r[i]
  <2>1. r \in Seq(Int) /\ Len(r) = m
    BY SequenceFacts
  <2>2. Append(r, x) \in Seq(Int) /\ Len(Append(r, x)) = m + 1
    BY <2>1
  <2>3. Append(r, x) \in Sequence(m + 1)
    <3> DEFINE v == Append(r, x)
    <3>1. v \in Seq(Int) /\ Len(v) = m + 1 /\ m + 1 \in Nat
      BY <2>2
    <3> HIDE DEF v
    <3>2. v \in Sequence(m + 1)
      BY <3>1, SequenceFacts
    <3> QED
      BY <3>2 DEF v
  <2>4. Append(r, x)[m + 1] = x /\ \A i \in 1 .. m : Append(r, x)[i] = r[i]
    BY <2>1
  <2> QED
    BY <2>3, <2>4
<1>7. ASSUME NEW i \in 1 .. m + 1 PROVE Append(t, x)[i] = Append(s, x)[q[i]]
  <2>1. CASE i = m + 1
    BY <1>3, <1>6, <2>1
  <2>2. CASE i \in 1 .. m
    <3>1. q[i] = p[i] /\ p[i] \in 1 .. m /\ t[i] = s[p[i]]
      BY <1>1, <1>2, <1>3, <2>2
    <3>2. Append(t, x)[i] = t[i] /\ Append(s, x)[p[i]] = s[p[i]]
      BY <1>6, <2>2, <3>1
    <3> QED
      BY <3>1, <3>2
  <2>3. i = m + 1 \/ i \in 1 .. m
    OBVIOUS
  <2> QED
    BY <2>1, <2>2, <2>3
<1> QED
  BY <1>5, <1>6, <1>7 DEF Rearranged

(***************************************************************************)
(* An entry that joins sorted entries ends where it would have ended had   *)
(* they been sorted together: save_highscore_to_csv() sorts what is sorted *)
(* already, load_highscores_from_csv() what is in the file.                *)
(***************************************************************************)
LEMMA SortSorted ==
  ASSUME NEW s \in Seq(Int), NEW x \in Int
  PROVE  sort_highscores(Append(sort_highscores(s), x)) = sort_highscores(Append(s, x))
<1> DEFINE m == Len(s)
           t == sort_highscores(s)
           v == Append(s, x)
           w == Append(t, x)
<1>1. m \in Nat /\ m + 1 \in Nat /\ s \in Sequence(m)
  BY SequenceFacts
<1> HIDE DEF m
<1>2. t \in Sequence(m) /\ Rearranged(m, m, s, t)
  BY <1>1, SortResult
<1> HIDE DEF t
<1>3. v \in Sequence(m + 1) /\ w \in Sequence(m + 1) /\ Rearranged(m + 1, m + 1, v, w)
  BY <1>1, <1>2, RearrangedAppend
<1> HIDE DEF v, w
<1>4. /\ sort_highscores(v) \in Sequence(m + 1) /\ Descending(sort_highscores(v))
      /\ Rearranged(m + 1, m + 1, v, sort_highscores(v))
  BY <1>1, <1>3, SortResult
<1>5. /\ sort_highscores(w) \in Sequence(m + 1) /\ Descending(sort_highscores(w))
      /\ Rearranged(m + 1, m + 1, w, sort_highscores(w))
  BY <1>1, <1>3, SortResult
<1>6. Rearranged(m + 1, m + 1, v, sort_highscores(w))
  <2>1. m + 1 \in 0 .. m + 1 /\ m + 1 <= m + 1
    BY <1>1
  <2> QED
    BY <1>1, <1>3, <1>5, <2>1, RearrangedAgain
<1>7. sort_highscores(w) = sort_highscores(v)
  BY <1>1, <1>3, <1>4, <1>5, <1>6, SortedOnce
<1> QED
  BY <1>7 DEF v, w, t

(***************************************************************************)
(* load_highscores_from_csv() line by line.                                *)
(***************************************************************************)
LEMMA EntriesSteps ==
  ASSUME NEW s \in Seq(Int)
  PROVE  \E f \in [0 .. Len(s) -> Seq(Int)] :
            /\ f[0] = << >> /\ Entries(s) = f[Len(s)]
            /\ \A i \in 1 .. Len(s) :
                 f[i] = IF s[i] = HeaderLine THEN f[i - 1] ELSE Append(f[i - 1], s[i])
<1> DEFINE n == Len(s)
           S == Seq(Int)
           Read(i, t) == IF s[i] = HeaderLine THEN t ELSE Append(t, s[i])
           F == [i \in 1 .. n |-> [t \in S |-> Read(i, t)]]
           Reads(f) ==
             f = [i \in 0 .. n |->
                    IF i = 0 THEN << >>
                    ELSE IF s[i] = HeaderLine THEN f[i - 1] ELSE Append(f[i - 1], s[i])]
           read == CHOOSE f : Reads(f)
<1>0. n \in Nat /\ << >> \in S
  OBVIOUS
<1>1. ASSUME NEW i \in 1 .. n, NEW t \in S PROVE Read(i, t) \in S
  <2>1. s[i] \in Int
    BY <1>1
  <2> QED
    BY <2>1
<1>2. F \in StepsOf(n, S)
  <2> HIDE DEF S, n, Read
  <2> QED
    BY <1>1 DEF StepsOf
<1>3. PICK f : Iterates(f, n, S, << >>, F)
  <2> HIDE DEF F, S, n
  <2> QED
    BY <1>0, <1>2, Iteration
<1> HIDE DEF S, n
<1>4. ASSUME NEW i \in 1 .. n PROVE f[i - 1] \in S /\ f[i] = Read(i, f[i - 1])
  <2>1. f[i - 1] \in S
    BY <1>0, <1>3 DEF Iterates
  <2> HIDE DEF Read
  <2> QED
    BY <1>3, <2>1 DEF Iterates
<1>5. Reads(f)
  <2>1. \A i \in 0 .. n :
          f[i] = IF i = 0 THEN << >>
                 ELSE IF s[i] = HeaderLine THEN f[i - 1] ELSE Append(f[i - 1], s[i])
    <3>1. f[0] = << >>
      BY <1>3 DEF Iterates
    <3>2. \A i \in 0 .. n : i = 0 \/ i \in 1 .. n
      BY <1>0
    <3> QED
      BY <1>4, <3>1, <3>2
  <2> QED
    BY <1>3, <2>1 DEF Iterates
<1>6. Reads(read)
  <2> HIDE DEF Reads
  <2> QED
    BY <1>5
<1>7. Entries(s) = read[n]
  BY DEF Entries, n
<1> HIDE DEF read
<1>8. read[0] = << >> /\ \A i \in 1 .. n : read[i] = Read(i, read[i - 1])
  <2>1. \A i \in 0 .. n :
          read[i] = IF i = 0 THEN << >>
                    ELSE IF s[i] = HeaderLine THEN read[i - 1] ELSE Append(read[i - 1], s[i])
    BY <1>6
  <2>2. 0 \in 0 .. n /\ \A i \in 1 .. n : i \in 0 .. n /\ i # 0
    BY <1>0
  <2> QED
    BY <2>1, <2>2
<1> DEFINE T == {i \in 0 .. n : read[i] \in S}
<1>9. \A i \in 0 .. n : i \in T
  <2>1. 0 \in T
    BY <1>0, <1>8
  <2>2. ASSUME NEW i \in 0 .. n, i # n, i \in T PROVE i + 1 \in T
    <3>1. i + 1 \in 1 .. n /\ i + 1 \in 0 .. n /\ (i + 1) - 1 = i /\ read[i] \in S
      BY <1>0, <2>2
    <3> HIDE DEF Read
    <3>2. read[i + 1] = Read(i + 1, read[i])
      BY <1>8, <3>1
    <3> QED
      BY <1>1, <3>1, <3>2
  <2> HIDE DEF T
  <2> QED
    BY <1>0, <2>1, <2>2, UpTo
<1>10. read \in [0 .. n -> S]
  BY <1>6, <1>9
<1> QED
  BY <1>7, <1>8, <1>10 DEF n, S

LEMMA EntriesType ==
  ASSUME NEW s \in Seq(Int)
  PROVE  Entries(s) \in Seq(Int)
<1>1. Len(s) \in 0 .. Len(s)
  OBVIOUS
<1> QED
  BY <1>1, EntriesSteps

LEMMA EntriesOfNone == Entries(<< >>) = << >>
<1>1. << >> \in Seq(Int) /\ Len(<< >>) = 0
  OBVIOUS
<1> QED
  BY <1>1, EntriesSteps

LEMMA EntriesAppend ==
  ASSUME NEW s \in Seq(Int), NEW x \in Int
  PROVE  Entries(Append(s, x)) =
           IF x = HeaderLine THEN Entries(s) ELSE Append(Entries(s), x)
<1> DEFINE n == Len(s)
           v == Append(s, x)
<1>1. v \in Seq(Int) /\ Len(v) = n + 1 /\ v[n + 1] = x /\ \A i \in 1 .. n : v[i] = s[i]
  OBVIOUS
<1>2. n \in Nat
  OBVIOUS
<1>3. PICK f \in [0 .. n -> Seq(Int)] :
        /\ f[0] = << >> /\ Entries(s) = f[n]
        /\ \A i \in 1 .. n : f[i] = IF s[i] = HeaderLine THEN f[i - 1] ELSE Append(f[i - 1], s[i])
  BY EntriesSteps
<1> HIDE DEF v, n
<1>4. PICK g \in [0 .. n + 1 -> Seq(Int)] :
        /\ g[0] = << >> /\ Entries(v) = g[n + 1]
        /\ \A i \in 1 .. n + 1 :
             g[i] = IF v[i] = HeaderLine THEN g[i - 1] ELSE Append(g[i - 1], v[i])
  <2>1. \E g \in [0 .. Len(v) -> Seq(Int)] :
          /\ g[0] = << >> /\ Entries(v) = g[Len(v)]
          /\ \A i \in 1 .. Len(v) :
               g[i] = IF v[i] = HeaderLine THEN g[i - 1] ELSE Append(g[i - 1], v[i])
    BY <1>1, EntriesSteps
  <2>2. Len(v) = n + 1
    BY <1>1
  <2> QED
    BY <2>1, <2>2
<1> DEFINE T == {i \in 0 .. n : f[i] = g[i]}
<1>5. n \in T
  <2>1. 0 \in T
    BY <1>2, <1>3, <1>4
  <2>2. ASSUME NEW i \in 0 .. n, i # n, i \in T PROVE i + 1 \in T
    <3>1. i + 1 \in 1 .. n /\ i + 1 \in 1 .. n + 1 /\ (i + 1) - 1 = i /\ f[i] = g[i]
      BY <1>2, <2>2
    <3>2. /\ f[i + 1] = IF s[i + 1] = HeaderLine THEN f[i] ELSE Append(f[i], s[i + 1])
          /\ g[i + 1] = IF v[i + 1] = HeaderLine THEN g[i] ELSE Append(g[i], v[i + 1])
          /\ v[i + 1] = s[i + 1]
      BY <1>1, <1>3, <1>4, <3>1
    <3> QED
      BY <1>2, <3>1, <3>2
  <2> HIDE DEF T
  <2>3. \A i \in 0 .. n : i \in T
    BY <1>2, <2>1, <2>2, UpTo
  <2> QED
    BY <1>2, <2>3
<1>6. g[n + 1] = IF x = HeaderLine THEN g[n] ELSE Append(g[n], x)
  <2>1. n + 1 \in 1 .. n + 1 /\ (n + 1) - 1 = n
    BY <1>2
  <2> QED
    BY <1>1, <1>4, <2>1
<1> QED
  BY <1>3, <1>4, <1>5, <1>6 DEF v

(***************************************************************************)
(* highscores[] is full: entries that come later are not read.             *)
(***************************************************************************)
LEMMA FirstNFacts ==
  ASSUME NEW s \in Seq(Int), NEW n \in Nat, NEW x \in Int
  PROVE  /\ FirstN(s, n) \in Seq(Int)
         /\ Len(FirstN(s, n)) = IF Len(s) < n THEN Len(s) ELSE n
         /\ Len(s) <= n => FirstN(s, n) = s
         /\ Len(s) >= n => FirstN(Append(s, x), n) = FirstN(s, n)
<1> DEFINE k == IF Len(s) < n THEN Len(s) ELSE n
<1>1. k \in 0 .. Len(s)
  OBVIOUS
<1>2. FirstN(s, n) \in Seq(Int) /\ Len(FirstN(s, n)) = k
  BY <1>1 DEF FirstN
<1>3. ASSUME Len(s) <= n PROVE FirstN(s, n) = s
  <2>1. k = Len(s)
    BY <1>3
  <2> QED
    BY <2>1 DEF FirstN
<1>4. ASSUME Len(s) >= n PROVE FirstN(Append(s, x), n) = FirstN(s, n)
  <2>1. FirstN(s, n) = SubSeq(s, 1, n)
    BY <1>4 DEF FirstN
  <2>2. FirstN(Append(s, x), n) = SubSeq(Append(s, x), 1, n)
    BY <1>4 DEF FirstN
  <2>3. SubSeq(Append(s, x), 1, n) = SubSeq(s, 1, n)
    BY <1>4
  <2> QED
    BY <2>1, <2>2, <2>3
<1> QED
  BY <1>2, <1>3, <1>4

(***************************************************************************)
(* Every entry that was there is still there after sorting.                *)
(***************************************************************************)
LEMMA SortKeepsEntries ==
  ASSUME NEW s \in Seq(Int), NEW k \in 1 .. Len(s)
  PROVE  \E i \in 1 .. Len(s) : sort_highscores(s)[i] = s[k]
<1> DEFINE m == Len(s)
           A == 1 .. m
           B == A \ {k}
<1>1. m \in Nat /\ s \in Sequence(m)
  BY SequenceFacts
<1>2. PICK p \in Shuffle(m, m) : \A i \in 1 .. m : sort_highscores(s)[i] = s[p[i]]
  <2> HIDE DEF m
  <2> QED
    BY <1>1, SortResult DEF Rearranged
<1>3. p \in [A -> A] /\ \A i, j \in A : p[i] = p[j] => i = j
  BY DEF Shuffle
<1>4. SUFFICES ASSUME \A i \in A : p[i] # k PROVE FALSE
  BY <1>2
<1>5. p \in [A -> B]
  BY <1>3, <1>4
<1>6. IsFiniteSet(A) /\ Cardinality(A) = m
  <2> HIDE DEF m
  <2> QED
    BY <1>1, FS_Interval
<1>7. IsFiniteSet(B) /\ Cardinality(B) = m - 1
  <2>1. k \in A
    OBVIOUS
  <2> HIDE DEF A
  <2> QED
    BY <1>6, <2>1, FS_RemoveElement
<1>8. Cardinality(B) < Cardinality(A)
  BY <1>1, <1>6, <1>7
<1> HIDE DEF A, B
<1>9. \E i, j \in A : i # j /\ p[i] = p[j]
  BY <1>5, <1>6, <1>7, <1>8, FS_PigeonHole
<1> QED
  BY <1>3, <1>9

LEMMA FirstSorted ==
  ASSUME NEW e \in Seq(Int), NEW n \in Nat
  PROVE  LET board == sort_highscores(FirstN(e, n))
         IN  /\ board \in Seq(Int) /\ Descending(board)
             /\ Len(board) = IF Len(e) < n THEN Len(e) ELSE n
<1> DEFINE f == FirstN(e, n)
           m == Len(f)
<1>1. f \in Seq(Int) /\ m = IF Len(e) < n THEN Len(e) ELSE n
  BY FirstNFacts
<1>2. m \in Nat /\ f \in Sequence(m)
  <2> HIDE DEF f
  <2> QED
    BY <1>1, SequenceFacts
<1> HIDE DEF f, m
<1>3. sort_highscores(f) \in Sequence(m) /\ Descending(sort_highscores(f))
  BY <1>2, SortResult
<1> QED
  BY <1>1, <1>2, <1>3, SequenceFacts DEF f

LEMMA BoardOfSorted ==
  ASSUME NEW e \in Seq(Int)
  PROVE  /\ BoardOf(e) \in Seq(Int) /\ Descending(BoardOf(e))
         /\ Len(BoardOf(e)) = IF Len(e) < MAX_HIGHSCORES THEN Len(e) ELSE MAX_HIGHSCORES
<1>1. MAX_HIGHSCORES \in Nat
  BY LeaderboardAssumption
<1> QED
  BY <1>1, FirstSorted DEF BoardOf

LEMMA BoardOfNone == BoardOf(<< >>) = << >>
<1> DEFINE e == << >>
<1>1. e \in Seq(Int) /\ Len(e) = 0 /\ MAX_HIGHSCORES \in Nat
  BY LeaderboardAssumption
<1> HIDE DEF e
<1>2. Len(BoardOf(e)) = 0 /\ BoardOf(e) \in Seq(Int)
  <2>1. /\ BoardOf(e) \in Seq(Int)
        /\ Len(BoardOf(e)) = IF Len(e) < MAX_HIGHSCORES THEN Len(e) ELSE MAX_HIGHSCORES
    BY <1>1, BoardOfSorted
  <2> QED
    BY <1>1, <2>1
<1>3. BoardOf(e) = << >>
  BY <1>2
<1> QED
  BY <1>3 DEF e

(***************************************************************************)
(* One more entry: it joins the leaderboard in memory as it would when the *)
(* file is loaded.                                                         *)
(***************************************************************************)
LEMMA BoardOfAppend ==
  ASSUME NEW e \in Seq(Int), NEW x \in Int
  PROVE  BoardOf(Append(e, x)) = IF Len(BoardOf(e)) < MAX_HIGHSCORES
                                   THEN sort_highscores(Append(BoardOf(e), x))
                                   ELSE BoardOf(e)
<1>1. MAX_HIGHSCORES \in Nat
  BY LeaderboardAssumption
<1>2. CASE Len(e) < MAX_HIGHSCORES
  <2> DEFINE v == Append(e, x)
  <2>1. v \in Seq(Int) /\ Len(v) <= MAX_HIGHSCORES
    BY <1>1, <1>2
  <2> HIDE DEF v
  <2>2. FirstN(e, MAX_HIGHSCORES) = e
    BY <1>1, <1>2, FirstNFacts
  <2>3. FirstN(v, MAX_HIGHSCORES) = v
    BY <1>1, <2>1, FirstNFacts
  <2>4. BoardOf(e) = sort_highscores(e) /\ BoardOf(v) = sort_highscores(v)
    BY <2>2, <2>3 DEF BoardOf
  <2>5. Len(BoardOf(e)) < MAX_HIGHSCORES
    BY <1>1, <1>2, BoardOfSorted
  <2> QED
    BY <2>4, <2>5, SortSorted DEF v
<1>3. CASE ~(Len(e) < MAX_HIGHSCORES)
  <2>1. FirstN(Append(e, x), MAX_HIGHSCORES) = FirstN(e, MAX_HIGHSCORES)
    BY <1>1, <1>3, FirstNFacts
  <2>2. ~(Len(BoardOf(e)) < MAX_HIGHSCORES)
    BY <1>1, <1>3, BoardOfSorted
  <2> QED
    BY <2>1, <2>2 DEF BoardOf
<1> QED
  BY <1>2, <1>3

-----------------------------------------------------------------------------
LEMMA BoardTypes == Scores \subseteq Nat /\ MAX_HIGHSCORES \in Nat
BY LeaderboardAssumption

LEMMA MishapCounted ==
  ASSUME mishaps \in [MishapKind -> Nat], NEW kind \in MishapKind, Mishap(kind)
  PROVE  /\ mishaps' \in [MishapKind -> Nat]
         /\ mishaps'[kind] = mishaps[kind] + 1 /\ mishaps'[kind] # 0
         /\ \A k \in MishapKind \ {kind} : mishaps'[k] = mishaps[k]
         /\ kind # "kill" => ~NoFailure'
<1>1. mishaps' = [mishaps EXCEPT ![kind] = @ + 1]
  BY DEF Mishap
<1>2. mishaps'[kind] = mishaps[kind] + 1 /\ mishaps[kind] \in Nat
  BY <1>1
<1>3. mishaps' \in [MishapKind -> Nat] /\ \A k \in MishapKind \ {kind} : mishaps'[k] = mishaps[k]
  BY <1>1, <1>2
<1>4. mishaps'[kind] # 0
  BY <1>2
<1> QED
  BY <1>2, <1>3, <1>4 DEF NoFailure

(***************************************************************************)
(* A line that is appended to a file: the file that has been created is a  *)
(* file, and the first line stays the first.                               *)
(***************************************************************************)
LEMMA NoFileIsLine == NoFile # << >> /\ << HeaderLine >> # NoFile /\ << HeaderLine >> # << >>
<1>1. NoFile[1] = -2 /\ << HeaderLine >>[1] = -1
  BY DEF NoFile, HeaderLine
<1> QED
  BY <1>1 DEF NoFile

LEMMA LineAppended ==
  ASSUME NEW f \in Seq(Int), NEW n \in Int, n # -2
  PROVE  /\ Append(f, n) \in Seq(Int) /\ Append(f, n) \notin {NoFile, << >>}
         /\ Last(Append(f, n)) = n
         /\ f = << >> => Head(Append(f, n)) = n /\ Tail(Append(f, n)) = << >>
         /\ f # << >> => /\ Head(Append(f, n)) = Head(f)
                         /\ Tail(Append(f, n)) = Append(Tail(f), n)
<1>1. Append(f, n) \in Seq(Int) /\ Len(Append(f, n)) = Len(f) + 1 /\ Append(f, n)[Len(f) + 1] = n
  OBVIOUS
<1>2. Append(f, n) # NoFile
  <2>1. SUFFICES ASSUME Append(f, n) = NoFile PROVE FALSE
    OBVIOUS
  <2>2. Len(f) + 1 = 1 /\ NoFile[1] = -2
    BY <1>1, <2>1 DEF NoFile
  <2> QED
    BY <1>1, <2>1, <2>2
<1>3. Last(Append(f, n)) = n /\ Append(f, n) # << >>
  BY <1>1 DEF Last
<1>4. f = << >> => Head(Append(f, n)) = n /\ Tail(Append(f, n)) = << >>
  OBVIOUS
<1>5. f # << >> => Head(Append(f, n)) = Head(f) /\ Tail(Append(f, n)) = Append(Tail(f), n)
  OBVIOUS
<1> QED
  BY <1>1, <1>2, <1>3, <1>4, <1>5

LEMMA LateHeadersFinite ==
  ASSUME NEW f \in Seq(Int)
  PROVE  IsFiniteSet(LateHeaders(f)) /\ Cardinality(LateHeaders(f)) \in Nat
<1>1. LateHeaders(f) \subseteq 1 .. Len(f) /\ Len(f) \in Nat
  BY DEF LateHeaders
<1>2. IsFiniteSet(1 .. Len(f))
  BY <1>1, FS_Interval
<1> QED
  BY <1>1, <1>2, FS_Subset, FS_CardinalityType

LEMMA LateHeadersAppended ==
  ASSUME NEW f \in Seq(Int), NEW n \in Int
  PROVE  Cardinality(LateHeaders(Append(f, n))) =
           Cardinality(LateHeaders(f)) + (IF n = HeaderLine /\ f # << >> THEN 1 ELSE 0)
<1> DEFINE v == Append(f, n)
<1>1. v \in Seq(Int) /\ DOMAIN v = 1 .. Len(f) + 1 /\ v[Len(f) + 1] = n /\ DOMAIN f = 1 .. Len(f)
  OBVIOUS
<1>2. \A i \in 1 .. Len(f) : v[i] = f[i]
  OBVIOUS
<1>3. Len(f) \in Nat /\ (f # << >> <=> Len(f) + 1 > 1)
  OBVIOUS
<1>4. IsFiniteSet(LateHeaders(f)) /\ Cardinality(LateHeaders(f)) \in Nat
  BY LateHeadersFinite
<1> HIDE DEF v
<1>5. CASE n = HeaderLine /\ f # << >>
  <2>1. LateHeaders(v) = LateHeaders(f) \cup {Len(f) + 1}
    BY <1>1, <1>2, <1>3, <1>5 DEF LateHeaders
  <2>2. Len(f) + 1 \notin LateHeaders(f)
    BY <1>1, <1>3 DEF LateHeaders
  <2> QED
    BY <1>4, <1>5, <2>1, <2>2, FS_AddElement DEF v
<1>6. CASE ~(n = HeaderLine /\ f # << >>)
  <2>1. LateHeaders(v) = LateHeaders(f)
    BY <1>1, <1>2, <1>3, <1>6 DEF LateHeaders
  <2> QED
    BY <1>4, <1>6, <2>1 DEF v
<1> QED
  BY <1>5, <1>6

LEMMA NoLateHeaders == Cardinality(LateHeaders(<< >>)) = 0 /\ Cardinality(LateHeaders(NoFile)) = 0
<1>1. LateHeaders(<< >>) = {} /\ LateHeaders(NoFile) = {}
  BY DEF LateHeaders, NoFile
<1> QED
  BY <1>1, FS_EmptySet

-----------------------------------------------------------------------------
LEMMA InitiallyFileSound == BoardInit => FileSound
BY DEF BoardInit, FileSound, Step, NoFile, MishapKind

LEMMA FileSoundKept == FileSound /\ [BoardNext]_boardVars => FileSound'
<1> SUFFICES ASSUME FileSound, [BoardNext]_boardVars PROVE FileSound'
  OBVIOUS
<1>0. FileSound
  OBVIOUS
<1>a. \A kind \in MishapKind : Mishap(kind) => mishaps' \in [MishapKind -> Nat]
  BY MishapCounted DEF FileSound
<1>b. {"kill", "test", "open", "write", "load"} \subseteq MishapKind
  BY DEF MishapKind
<1>1. CASE UNCHANGED boardVars
  BY <1>0, <1>1 DEF boardVars, FileSound
<1>2. CASE Load
  BY <1>0, <1>2 DEF Load, FileSound, Step
<1>3. CASE Save
  BY <1>0, <1>3, BoardTypes DEF Save, BeginSave, FileSound, Step
<1>4. CASE Open
  BY <1>0, <1>4, NoFileIsLine DEF Open, FileSound, Step
<1>5. CASE Header
  <2>1. file' \in Seq(Int) /\ file' # NoFile
    BY <1>0, <1>5, LineAppended DEF Header, FileSound, HeaderLine
  <2> QED
    BY <1>0, <1>5, <2>1 DEF Header, FileSound, Step
<1>6. CASE Entry
  <2>1. file' \in Seq(Int) /\ file' # NoFile
    BY <1>0, <1>6, LineAppended DEF Entry, FileSound
  <2> QED
    BY <1>0, <1>6, <2>1 DEF Entry, FileSound, Step
<1>7. CASE Remember
  BY <1>0, <1>7 DEF Remember, Idle, FileSound, Step
<1>8. CASE Quit
  BY <1>0, <1>8 DEF Quit, FileSound, Step
<1>9. CASE LoadFails
  BY <1>0, <1>9, <1>a, <1>b DEF LoadFails, FileSound, Step
<1>10. CASE SaveBlind
  BY <1>0, <1>10, <1>a, <1>b, BoardTypes DEF SaveBlind, BeginSave, FileSound, Step
<1>11. CASE OpenEmptied
  BY <1>0, <1>11, <1>a, <1>b, NoFileIsLine DEF OpenEmptied, FileSound, Step
<1>12. CASE OpenFails
  BY <1>0, <1>12, <1>a, <1>b DEF OpenFails, Idle, FileSound, Step
<1>13. CASE HeaderFails
  BY <1>0, <1>13, <1>a, <1>b DEF HeaderFails, FileSound, Step
<1>14. CASE EntryFails
  BY <1>0, <1>14, <1>a, <1>b DEF EntryFails, Idle, FileSound, Step
<1>15. CASE Kill
  BY <1>0, <1>15, <1>a, <1>b DEF Kill, FileSound, Step
<1> QED
  BY <1>1, <1>2, <1>3, <1>4, <1>5, <1>6, <1>7, <1>8, <1>9, <1>10, <1>11, <1>12, <1>13,
     <1>14, <1>15 DEF BoardNext

LEMMA InitiallyHeadersSound == BoardInit => HeadersSound
BY NoLateHeaders, NoFileIsLine DEF BoardInit, HeadersSound, HeaderDue, HeaderInPlace, MishapKind

(***************************************************************************)
(* A step that leaves the file and has no header more to write.            *)
(***************************************************************************)
LEMMA HeadersSoundSame ==
  ASSUME FileSound, HeadersSound, file' = file, HeaderDue' => HeaderDue,
         mishaps' \in [MishapKind -> Nat],
         \A kind \in MishapKind : mishaps'[kind] >= mishaps[kind],
         mishaps'["kill"] = 0 /\ mishaps'["write"] = 0 /\ step = "header" => step' = "header"
  PROVE  HeadersSound'
<1>1. mishaps["test"] \in Nat /\ mishaps["kill"] \in Nat /\ mishaps["write"] \in Nat
  BY DEF FileSound, MishapKind
<1>2. mishaps'["test"] \in Nat /\ mishaps'["kill"] \in Nat /\ mishaps'["write"] \in Nat
  BY DEF MishapKind
<1>3. /\ mishaps'["test"] >= mishaps["test"] /\ mishaps'["kill"] >= mishaps["kill"]
      /\ mishaps'["write"] >= mishaps["write"]
  BY DEF MishapKind
<1>4. Cardinality(LateHeaders(file)) \in Nat /\ LateHeaders(file)' = LateHeaders(file)
  BY LateHeadersFinite DEF FileSound, LateHeaders
<1>5. Cardinality(LateHeaders(file))' + (IF HeaderDue' THEN 1 ELSE 0) <= mishaps'["test"]
  <2>1. Cardinality(LateHeaders(file)) + (IF HeaderDue THEN 1 ELSE 0) <= mishaps["test"]
    BY DEF HeadersSound
  <2>2. Cardinality(LateHeaders(file))' = Cardinality(LateHeaders(file))
    BY <1>4
  <2> QED
    BY <1>1, <1>2, <1>3, <1>4, <2>1, <2>2
<1>6. HeaderInPlace' = HeaderInPlace
  BY DEF HeaderInPlace
<1>7. ASSUME mishaps'["kill"] = 0, mishaps'["write"] = 0
      PROVE  (file' = << >> => step' = "header") /\ HeaderInPlace'
  <2>1. mishaps["kill"] = 0 /\ mishaps["write"] = 0
    BY <1>1, <1>3, <1>7
  <2> QED
    BY <1>6, <1>7, <2>1 DEF HeadersSound
<1> QED
  BY <1>5, <1>7 DEF HeadersSound

LEMMA HeadersSoundKept == FileSound /\ HeadersSound /\ [BoardNext]_boardVars => HeadersSound'
<1> SUFFICES ASSUME FileSound, HeadersSound, [BoardNext]_boardVars PROVE HeadersSound'
  OBVIOUS
<1>0. FileSound /\ mishaps \in [MishapKind -> Nat] /\ file \in Seq(Int) /\ saving \in Nat
  BY DEF FileSound
<1>a. ASSUME mishaps' = mishaps
      PROVE  /\ mishaps' \in [MishapKind -> Nat]
             /\ \A kind \in MishapKind : mishaps'[kind] >= mishaps[kind]
  BY <1>0, <1>a
<1>b. ASSUME NEW k \in MishapKind, Mishap(k)
      PROVE  /\ mishaps' \in [MishapKind -> Nat]
             /\ \A kind \in MishapKind : mishaps'[kind] >= mishaps[kind]
             /\ mishaps'[k] = mishaps[k] + 1 /\ mishaps'[k] # 0
             /\ \A kind \in MishapKind \ {k} : mishaps'[kind] = mishaps[kind]
  <2>1. /\ mishaps' \in [MishapKind -> Nat]
        /\ mishaps'[k] = mishaps[k] + 1 /\ mishaps'[k] # 0
        /\ \A kind \in MishapKind \ {k} : mishaps'[kind] = mishaps[kind]
    BY <1>0, <1>b, MishapCounted
  <2>2. \A kind \in MishapKind : mishaps'[kind] >= mishaps[kind]
    BY <1>0, <2>1
  <2> QED
    BY <2>1, <2>2
<1>c. {"kill", "test", "open", "write", "load"} \subseteq MishapKind
  BY DEF MishapKind
<1>d. /\ mishaps["test"] \in Nat /\ Cardinality(LateHeaders(file)) \in Nat
      /\ Cardinality(LateHeaders(file)) + (IF HeaderDue THEN 1 ELSE 0) <= mishaps["test"]
  BY <1>0, <1>c, LateHeadersFinite DEF HeadersSound
<1>1. CASE UNCHANGED boardVars
  BY <1>0, <1>1, <1>a, HeadersSoundSame DEF boardVars, HeaderDue
<1>2. CASE Load \/ Quit \/ Remember
  BY <1>0, <1>2, <1>a, HeadersSoundSame DEF Load, Quit, Remember, Idle, HeaderDue
<1>3. CASE Save
  BY <1>0, <1>3, <1>a, HeadersSoundSame DEF Save, BeginSave, HeaderDue
<1>4. CASE Open
  <2>1. CASE file = NoFile
    <3>1. step' = "header" /\ file' = << >> /\ mishaps' = mishaps /\ ~HeaderDue'
      BY <1>4, <2>1 DEF Open, FileSound, HeaderDue
    <3> QED
      BY <1>0, <1>d, <3>1, NoLateHeaders DEF HeadersSound, HeaderInPlace
  <2>2. CASE file # NoFile
    BY <1>0, <1>4, <1>a, <2>2, HeadersSoundSame DEF Open, HeaderDue
  <2> QED
    BY <2>1, <2>2
<1>5. CASE Header
  <2>1. /\ step = "header" /\ step' = "entry" /\ header /\ file # NoFile /\ mishaps' = mishaps
        /\ file' = Append(file, HeaderLine)
    BY <1>5 DEF Header, FileSound
  <2>2. /\ file' \notin {NoFile, << >>}
        /\ file = << >> => Head(file') = HeaderLine
        /\ file # << >> => Head(file') = Head(file)
    BY <1>0, <2>1, LineAppended DEF HeaderLine
  <2>3. Cardinality(LateHeaders(file'))
          = Cardinality(LateHeaders(file)) + (IF file # << >> THEN 1 ELSE 0)
    BY <1>0, <2>1, LateHeadersAppended DEF HeaderLine
  <2>4. (HeaderDue <=> file # << >>) /\ ~HeaderDue'
    BY <2>1 DEF HeaderDue
  <2>5. Cardinality(LateHeaders(file')) + (IF HeaderDue' THEN 1 ELSE 0) <= mishaps'["test"]
    BY <1>d, <2>1, <2>3, <2>4
  <2>6. HeaderInPlace => HeaderInPlace'
    BY <2>1, <2>2 DEF HeaderInPlace
  <2> QED
    BY <2>1, <2>2, <2>5, <2>6 DEF HeadersSound
<1>6. CASE Entry
  <2>1. /\ step = "entry" /\ step' = "memory" /\ file # NoFile /\ mishaps' = mishaps
        /\ file' = Append(file, saving) /\ ~HeaderDue'
    BY <1>6 DEF Entry, FileSound, HeaderDue
  <2>2. file' \notin {NoFile, << >>} /\ (file # << >> => Head(file') = Head(file))
    BY <1>0, <2>1, LineAppended
  <2>3. Cardinality(LateHeaders(file')) = Cardinality(LateHeaders(file))
    <3>1. saving \in Int /\ saving # HeaderLine
      BY <1>0 DEF HeaderLine
    <3>2. Cardinality(LateHeaders(file')) = Cardinality(LateHeaders(file)) + 0
      BY <1>0, <2>1, <3>1, LateHeadersAppended
    <3> QED
      BY <1>d, <3>2
  <2>4. Cardinality(LateHeaders(file')) + (IF HeaderDue' THEN 1 ELSE 0) <= mishaps'["test"]
    BY <1>d, <2>1, <2>3
  <2>5. HeaderInPlace /\ file # << >> => HeaderInPlace'
    BY <2>1, <2>2 DEF HeaderInPlace
  <2> QED
    BY <2>1, <2>2, <2>4, <2>5 DEF HeadersSound
<1>7. CASE LoadFails
  <2>1. Mishap("load") /\ step = "off" /\ file' = file /\ ~HeaderDue'
    BY <1>7 DEF LoadFails, HeaderDue
  <2> QED
    BY <1>0, <1>b, <1>c, <2>1, HeadersSoundSame
<1>8. CASE SaveBlind
  <2>1. Mishap("test") /\ step = "idle" /\ file' = file
    BY <1>8 DEF SaveBlind, BeginSave
  <2>2. /\ mishaps'["test"] = mishaps["test"] + 1
        /\ mishaps'["kill"] = mishaps["kill"] /\ mishaps'["write"] = mishaps["write"]
    <3>1. \A kind \in MishapKind \ {"test"} : mishaps'[kind] = mishaps[kind]
      BY <1>b, <1>c, <2>1
    <3> QED
      BY <1>b, <1>c, <2>1, <3>1
  <2>3. ~HeaderDue
    BY <2>1 DEF HeaderDue
  <2>4. Cardinality(LateHeaders(file')) = Cardinality(LateHeaders(file))
    BY <2>1
  <2>5. Cardinality(LateHeaders(file')) + (IF HeaderDue' THEN 1 ELSE 0) <= mishaps'["test"]
    BY <1>d, <2>2, <2>3, <2>4
  <2>6. HeaderInPlace' = HeaderInPlace
    BY <2>1 DEF HeaderInPlace
  <2> QED
    BY <2>1, <2>2, <2>5, <2>6 DEF HeadersSound
<1>9. CASE OpenEmptied
  <2>1. Mishap("open") /\ step' = "header" /\ file' = << >> /\ ~HeaderDue'
    BY <1>9 DEF OpenEmptied, HeaderDue
  <2>2. mishaps'["test"] = mishaps["test"]
    <3>1. \A kind \in MishapKind \ {"open"} : mishaps'[kind] = mishaps[kind]
      BY <1>b, <1>c, <2>1
    <3> QED
      BY <1>c, <3>1
  <2> QED
    BY <1>d, <2>1, <2>2, NoLateHeaders DEF HeadersSound, HeaderInPlace
<1>10. CASE OpenFails
  <2>1. Mishap("open") /\ step = "open" /\ file' = file /\ ~HeaderDue'
    BY <1>10 DEF OpenFails, Idle, HeaderDue
  <2> QED
    BY <1>0, <1>b, <1>c, <2>1, HeadersSoundSame
<1>11. CASE HeaderFails \/ EntryFails
  <2>1. Mishap("write") /\ file' = file /\ ~HeaderDue'
    BY <1>11 DEF HeaderFails, EntryFails, Idle, HeaderDue
  <2> QED
    BY <1>0, <1>b, <1>c, <2>1, HeadersSoundSame
<1>12. CASE Kill
  <2>1. Mishap("kill") /\ file' = file /\ ~HeaderDue'
    BY <1>12 DEF Kill, HeaderDue
  <2> QED
    BY <1>0, <1>b, <1>c, <2>1, HeadersSoundSame
<1> QED
  BY <1>1, <1>2, <1>3, <1>4, <1>5, <1>6, <1>7, <1>8, <1>9, <1>10, <1>11, <1>12 DEF BoardNext

-----------------------------------------------------------------------------
LEMMA LoadIsBoard ==
  ASSUME file \in Seq(Int)
  PROVE  /\ file \in {NoFile, << >>} => load_highscores_from_csv = << >>
         /\ file \notin {NoFile, << >>} => /\ load_highscores_from_csv = BoardOf(Entries(Tail(file)))
                                           /\ Entries(Tail(file)) \in Seq(Int)
         /\ load_highscores_from_csv \in Seq(Int) /\ Descending(load_highscores_from_csv)
         /\ Len(load_highscores_from_csv) <= MAX_HIGHSCORES
<1>1. MAX_HIGHSCORES \in Nat
  BY LeaderboardAssumption
<1>2. CASE file \in {NoFile, << >>}
  <2>1. load_highscores_from_csv = << >>
    BY <1>2 DEF load_highscores_from_csv
  <2> QED
    BY <1>1, <1>2, <2>1 DEF Descending
<1>3. CASE file \notin {NoFile, << >>}
  <2>1. Tail(file) \in Seq(Int)
    BY <1>3
  <2>2. Entries(Tail(file)) \in Seq(Int)
    BY <2>1, EntriesType
  <2>3. load_highscores_from_csv = BoardOf(Entries(Tail(file)))
    BY <1>3 DEF load_highscores_from_csv, BoardOf
  <2> QED
    BY <1>1, <1>3, <2>2, <2>3, BoardOfSorted
<1> QED
  BY <1>2, <1>3

LEMMA EmptyBoardSorted ==
  ASSUME highscores = << >>
  PROVE  highscores \in Seq(Int) /\ BoardSorted
<1>1. Len(<< >>) = 0 /\ MAX_HIGHSCORES \in Nat
  BY LeaderboardAssumption
<1> QED
  BY <1>1 DEF BoardSorted

LEMMA InitiallyBoardInv == BoardInit => BoardInv
<1> SUFFICES ASSUME BoardInit PROVE BoardInv
  OBVIOUS
<1>1. highscores = << >> /\ file = NoFile /\ step = "off"
  BY DEF BoardInit
<1> QED
  BY <1>1, EmptyBoardSorted DEF BoardInv, BoardInStep, FileWhole

(***************************************************************************)
(* The lines that a save appends, the header and the entry.                *)
(***************************************************************************)
LEMMA WholeWithLine ==
  ASSUME file \in Seq(Int), file # NoFile, FileWhole,
         NEW n \in Int, n # -2, file' = Append(file, n)
  PROVE  FileWhole'
<1> DEFINE v == Entries(file)
<1>1. v \in Seq(Int) /\ Last(file') = n
  BY EntriesType, LineAppended
<1>2. Entries(file') = IF n = HeaderLine THEN v ELSE Append(v, n)
  BY EntriesAppend
<1>3. n # HeaderLine => Entries(file') # << >> /\ Last(Entries(file')) = n
  <2> HIDE DEF v
  <2> QED
    BY <1>1, <1>2 DEF Last
<1>4. ASSUME Head(file') = HeaderLine PROVE Entries(file') = Entries(Tail(file'))
  <2>1. CASE file = << >>
    <3>1. n = HeaderLine /\ Tail(file') = << >>
      BY <1>4, <2>1, LineAppended
    <3> QED
      BY <1>2, <2>1, <3>1
  <2>2. CASE file # << >>
    <3>1. /\ Head(file) = HeaderLine /\ Tail(file') = Append(Tail(file), n)
          /\ Tail(file) \in Seq(Int)
      BY <1>4, <2>2, LineAppended
    <3>2. Entries(Tail(file)) = v
      BY <2>2, <3>1 DEF FileWhole
    <3>3. Entries(Tail(file')) = IF n = HeaderLine THEN v ELSE Append(v, n)
      BY <3>1, <3>2, EntriesAppend
    <3> QED
      BY <1>2, <3>3
  <2> QED
    BY <2>1, <2>2
<1> QED
  BY <1>1, <1>3, <1>4 DEF FileWhole

LEMMA HeaderKeepsStep ==
  ASSUME FileSound, BoardInStep, Header
  PROVE  BoardInStep'
<1>1. /\ step = "header" /\ step' = "entry" /\ highscores' = highscores
      /\ file' = Append(file, HeaderLine) /\ HeaderLine \in Int /\ HeaderLine # -2
  BY DEF Header, HeaderLine
<1>2. file \in Seq(Int) /\ file # NoFile /\ highscores = load_highscores_from_csv
  BY <1>1 DEF FileSound, BoardInStep
<1>3. file' \notin {NoFile, << >>}
  BY <1>1, <1>2, LineAppended
<1>4. load_highscores_from_csv' = BoardOf(Entries(Tail(file')))
  BY <1>3 DEF load_highscores_from_csv, BoardOf
<1>5. CASE file = << >>
  <2>1. Tail(file') = << >>
    BY <1>1, <1>2, <1>5, LineAppended
  <2>2. load_highscores_from_csv' = << >> /\ highscores = << >>
    BY <1>2, <1>4, <1>5, <2>1, EntriesOfNone, BoardOfNone, LoadIsBoard
  <2> QED
    BY <1>1, <2>2 DEF BoardInStep
<1>6. CASE file # << >>
  <2>1. Tail(file') = Append(Tail(file), HeaderLine) /\ Tail(file) \in Seq(Int)
    BY <1>1, <1>2, <1>6, LineAppended
  <2>2. Entries(Tail(file')) = Entries(Tail(file))
    BY <1>1, <2>1, EntriesAppend
  <2>3. load_highscores_from_csv' = load_highscores_from_csv
    BY <1>2, <1>4, <1>6, <2>2, LoadIsBoard
  <2> QED
    BY <1>1, <1>2, <2>3 DEF BoardInStep
<1> QED
  BY <1>5, <1>6

LEMMA EntryKeepsStep ==
  ASSUME FileSound, BoardInStep, Entry, file # << >>
  PROVE  BoardInStep'
<1>1. /\ step = "entry" /\ step' = "memory" /\ highscores' = highscores /\ saving' = saving
      /\ file' = Append(file, saving)
  BY DEF Entry
<1>2. /\ file \in Seq(Int) /\ saving \in Int /\ saving # HeaderLine /\ saving # -2
      /\ file \notin {NoFile, << >>}
  BY <1>1 DEF FileSound, HeaderLine
<1>3. Tail(file') = Append(Tail(file), saving) /\ Tail(file) \in Seq(Int) /\ file' # << >>
  BY <1>1, <1>2, LineAppended
<1>4. /\ Entries(Tail(file')) = Append(Entries(Tail(file)), saving)
      /\ Entries(Tail(file)) \in Seq(Int)
  BY <1>2, <1>3, EntriesAppend, EntriesType
<1>5. highscores = BoardOf(Entries(Tail(file)))
  BY <1>1, <1>2, LoadIsBoard DEF BoardInStep
<1> QED
  BY <1>1, <1>3, <1>4, <1>5 DEF BoardInStep

(***************************************************************************)
(* save_highscore_to_csv() puts the entry where a load would.              *)
(***************************************************************************)
LEMMA RememberKeepsBoard ==
  ASSUME FileSound, BoardInv, Remember
  PROVE  BoardInv'
<1>1. /\ step = "memory" /\ step' = "idle" /\ UNCHANGED <<file, mishaps>>
      /\ highscores' = IF Len(highscores) < MAX_HIGHSCORES
                         THEN sort_highscores(Append(highscores, saving))
                         ELSE highscores
  BY DEF Remember, Idle
<1>2. saving \in Int /\ file \in Seq(Int) /\ file # NoFile /\ mishaps' = mishaps
  BY <1>1 DEF FileSound
<1>3. highscores' \in Seq(Int) /\ BoardSorted'
  <2>1. CASE Len(highscores) < MAX_HIGHSCORES
    <3> DEFINE v == Append(highscores, saving)
               m == Len(v)
    <3>1. v \in Seq(Int) /\ m \in Nat /\ m <= MAX_HIGHSCORES /\ MAX_HIGHSCORES \in Nat
      BY <1>2, <2>1, LeaderboardAssumption DEF BoardInv
    <3>2. highscores' = sort_highscores(v)
      BY <1>1, <2>1
    <3> HIDE DEF v
    <3>3. v \in Sequence(m)
      BY <3>1, SequenceFacts
    <3> HIDE DEF m
    <3>4. highscores' \in Sequence(m) /\ Descending(highscores')
      BY <3>1, <3>2, <3>3, SortResult
    <3>5. highscores' \in Seq(Int) /\ Len(highscores') <= MAX_HIGHSCORES
      BY <3>1, <3>4, SequenceFacts
    <3> QED
      BY <3>4, <3>5 DEF BoardSorted, Descending
  <2>2. CASE ~(Len(highscores) < MAX_HIGHSCORES)
    BY <1>1, <2>2 DEF BoardInv, BoardSorted
  <2> QED
    BY <2>1, <2>2
<1>4. ASSUME NoFailure, HeaderInPlace PROVE BoardInStep'
  <2>1. BoardInStep
    BY <1>4 DEF BoardInv
  <2>2. PICK e \in Seq(Int) :
          Entries(Tail(file)) = Append(e, saving) /\ highscores = BoardOf(e)
    BY <1>1, <2>1 DEF BoardInStep
  <2>3. highscores' = BoardOf(Append(e, saving))
    BY <1>1, <1>2, <2>2, BoardOfAppend
  <2>4. load_highscores_from_csv = BoardOf(Append(e, saving))
    <3>1. file # << >>
      BY <1>1, <2>1 DEF BoardInStep
    <3> QED
      BY <1>2, <2>2, <3>1, LoadIsBoard
  <2>5. load_highscores_from_csv' = load_highscores_from_csv
    BY <1>1 DEF load_highscores_from_csv
  <2> QED
    BY <1>1, <2>3, <2>4, <2>5 DEF BoardInStep
<1> QED
  BY <1>1, <1>2, <1>3, <1>4 DEF BoardInv, FileWhole, NoFailure, HeaderInPlace

LEMMA BoardInvKept == FileSound /\ BoardInv /\ [BoardNext]_boardVars => BoardInv'
<1> SUFFICES ASSUME FileSound, BoardInv, [BoardNext]_boardVars PROVE BoardInv'
  OBVIOUS
<1>0. /\ highscores \in Seq(Int) /\ BoardSorted /\ FileWhole
      /\ file \in Seq(Int) /\ saving \in Nat /\ mishaps \in [MishapKind -> Nat]
  BY DEF BoardInv, FileSound
<1>a. highscores' = highscores => highscores' \in Seq(Int) /\ BoardSorted'
  BY <1>0 DEF BoardSorted
<1>b. highscores' = << >> => highscores' \in Seq(Int) /\ BoardSorted'
  <2>1. Len(<< >>) = 0 /\ MAX_HIGHSCORES \in Nat
    BY BoardTypes
  <2> QED
    BY <2>1 DEF BoardSorted
<1>c. file' = file => /\ load_highscores_from_csv' = load_highscores_from_csv
                      /\ FileWhole' /\ HeaderInPlace' = HeaderInPlace
  BY <1>0 DEF load_highscores_from_csv, FileWhole, HeaderInPlace
<1>d. mishaps' = mishaps => NoFailure' = NoFailure
  BY DEF NoFailure
<1>e. \A kind \in {"test", "open", "write", "load"} : Mishap(kind) => ~NoFailure'
  <2>1. \A kind \in {"test", "open", "write", "load"} : kind \in MishapKind /\ kind # "kill"
    BY DEF MishapKind
  <2> QED
    BY <1>0, <2>1, MishapCounted
<1>1. CASE Load
  <2>1. highscores' \in Seq(Int) /\ BoardSorted'
    BY <1>0, <1>1, LoadIsBoard DEF Load, BoardSorted, Descending
  <2> QED
    BY <1>1, <1>c, <2>1 DEF Load, BoardInv, BoardInStep
<1>2. CASE Save
  BY <1>2, <1>a, <1>c, <1>d DEF Save, BeginSave, BoardInv, BoardInStep
<1>3. CASE Open
  <2>1. /\ step = "open" /\ step' \in {"header", "entry"} /\ highscores' = highscores
        /\ mishaps' = mishaps /\ file' = IF file = NoFile THEN << >> ELSE file
    BY <1>3 DEF Open
  <2>2. CASE file = NoFile
    <3>1. file' = << >> /\ FileWhole' /\ HeaderInPlace /\ load_highscores_from_csv' = << >>
      BY <2>1, <2>2 DEF FileWhole, HeaderInPlace, load_highscores_from_csv
    <3>2. BoardInStep => highscores = << >>
      BY <1>0, <2>1, <2>2, LoadIsBoard DEF BoardInStep
    <3> QED
      BY <1>a, <1>d, <2>1, <3>1, <3>2 DEF BoardInv, BoardInStep
  <2>3. CASE file # NoFile
    BY <1>a, <1>c, <1>d, <2>1, <2>3 DEF BoardInv, BoardInStep
  <2> QED
    BY <2>2, <2>3
<1>4. CASE Header
  <2>1. /\ step = "header" /\ highscores' = highscores /\ mishaps' = mishaps /\ file # NoFile
        /\ file' = Append(file, HeaderLine) /\ HeaderLine \in Int /\ HeaderLine # -2
    BY <1>4 DEF Header, HeaderLine, FileSound
  <2>2. FileWhole'
    BY <1>0, <2>1, WholeWithLine
  <2>3. HeaderInPlace' => HeaderInPlace
    BY <1>0, <2>1, LineAppended DEF HeaderInPlace
  <2> QED
    BY <1>4, <1>a, <1>d, <2>1, <2>2, <2>3, HeaderKeepsStep DEF BoardInv
<1>5. CASE Entry
  <2>1. /\ step = "entry" /\ highscores' = highscores /\ mishaps' = mishaps /\ file # NoFile
        /\ file' = Append(file, saving) /\ saving \in Int /\ saving # -2 /\ saving # HeaderLine
    BY <1>0, <1>5 DEF Entry, HeaderLine, FileSound
  <2>2. FileWhole'
    BY <1>0, <2>1, WholeWithLine
  <2>3. HeaderInPlace' => HeaderInPlace /\ file # << >>
    BY <1>0, <2>1, LineAppended DEF HeaderInPlace
  <2> QED
    BY <1>5, <1>a, <1>d, <2>1, <2>2, <2>3, EntryKeepsStep DEF BoardInv
<1>6. CASE Remember
  BY <1>6, RememberKeepsBoard
<1>7. CASE Quit
  BY <1>7, <1>b, <1>c DEF Quit, BoardInv, BoardInStep
<1>8. CASE Kill
  BY <1>8, <1>b, <1>c DEF Kill, BoardInv, BoardInStep
<1>9. CASE LoadFails
  <2>1. /\ ~NoFailure' /\ file' = file /\ file # << >>
        /\ \E n \in 0 .. MAX_HIGHSCORES :
             highscores' = sort_highscores(FirstN(Entries(Tail(file)), n))
    BY <1>9, <1>e DEF LoadFails
  <2>2. Entries(Tail(file)) \in Seq(Int)
    <3>1. Tail(file) \in Seq(Int)
      BY <1>0, <2>1
    <3> QED
      BY <3>1, EntriesType
  <2>3. PICK n \in 0 .. MAX_HIGHSCORES :
          highscores' = sort_highscores(FirstN(Entries(Tail(file)), n))
    BY <2>1
  <2>4. /\ highscores' \in Seq(Int) /\ Descending(highscores')
        /\ Len(highscores') = IF Len(Entries(Tail(file))) < n THEN Len(Entries(Tail(file))) ELSE n
    BY <2>2, <2>3, BoardTypes, FirstSorted
  <2>5. BoardSorted'
    BY <2>2, <2>4, BoardTypes DEF BoardSorted, Descending
  <2> QED
    BY <1>c, <2>1, <2>4, <2>5 DEF BoardInv
<1>10. CASE SaveBlind \/ OpenFails \/ HeaderFails \/ EntryFails
  <2>1. ~NoFailure' /\ file' = file /\ highscores' = highscores
    BY <1>10, <1>e DEF SaveBlind, BeginSave, OpenFails, HeaderFails, EntryFails
  <2> QED
    BY <1>a, <1>c, <2>1 DEF BoardInv
<1>11. CASE OpenEmptied
  <2>1. ~NoFailure' /\ FileWhole' /\ highscores' = highscores
    BY <1>11, <1>e DEF OpenEmptied, FileWhole
  <2> QED
    BY <1>a, <2>1 DEF BoardInv
<1>12. CASE UNCHANGED boardVars
  BY <1>12, <1>a, <1>c, <1>d DEF boardVars, BoardInv, BoardInStep
<1> QED
  BY <1>1, <1>2, <1>3, <1>4, <1>5, <1>6, <1>7, <1>8, <1>9, <1>10, <1>11, <1>12 DEF BoardNext

(***************************************************************************)
(* The invariant of the leaderboard, over any number of runs, kills and    *)
(* failing calls.                                                          *)
(***************************************************************************)
THEOREM BoardInvariant == BoardSpec => [](FileSound /\ HeadersSound /\ BoardInv)
BY InitiallyFileSound, FileSoundKept, InitiallyHeadersSound, HeadersSoundKept,
   InitiallyBoardInv, BoardInvKept, PTL DEF BoardSpec

(***************************************************************************)
(* What the invariant says of the headers is what the properties say.      *)
(***************************************************************************)
LEMMA HeadersAreCounted ==
  ASSUME FileSound, HeadersSound
  PROVE  HeadersCounted /\ FirstLineIsHeader
<1>1. mishaps["test"] \in Nat /\ mishaps["kill"] \in Nat /\ mishaps["write"] \in Nat
  BY DEF FileSound, MishapKind
<1>2. Cardinality(LateHeaders(file)) \in Nat
  BY LateHeadersFinite DEF FileSound
<1>3. HeadersCounted
  BY <1>1, <1>2 DEF HeadersSound, HeadersCounted
<1>4. mishaps["kill"] + mishaps["write"] > 0 \/ (mishaps["kill"] = 0 /\ mishaps["write"] = 0)
  BY <1>1
<1>5. FirstLineIsHeader
  BY <1>4 DEF HeadersSound, HeaderInPlace, FirstLineIsHeader
<1> QED
  BY <1>3, <1>5

(***************************************************************************)
(* The last line of the file is on the leaderboard if there was room.      *)
(***************************************************************************)
LEMMA LastLineListed ==
  ASSUME FileSound, BoardInv, NoFailure, HeaderInPlace, step = "idle",
         file \notin {NoFile, << >>}, Last(file) # HeaderLine,
         Len(Entries(file)) <= MAX_HIGHSCORES
  PROVE  Last(file) \in Range(highscores)
<1> DEFINE e == Entries(file)
           m == Len(e)
<1>1. BoardInStep /\ FileWhole /\ file \in Seq(Int) /\ MAX_HIGHSCORES \in Nat
  BY BoardTypes DEF BoardInv, FileSound
<1>2. Head(file) = HeaderLine
  BY DEF HeaderInPlace
<1>3. e \in Seq(Int) /\ e = Entries(Tail(file)) /\ e # << >> /\ Last(e) = Last(file)
  BY <1>1, <1>2, EntriesType DEF FileWhole
<1>4. highscores = BoardOf(e)
  BY <1>1, <1>2, <1>3, LoadIsBoard DEF BoardInStep
<1>5. highscores = sort_highscores(e)
  BY <1>1, <1>3, <1>4, FirstNFacts DEF BoardOf
<1> HIDE DEF e
<1>6. m \in 1 .. m /\ e[m] = Last(file) /\ m \in Nat
  BY <1>3 DEF Last
<1>7. PICK i \in 1 .. m : highscores[i] = Last(file)
  <2>1. \A k \in 1 .. Len(e) : \E i \in 1 .. Len(e) : sort_highscores(e)[i] = e[k]
    BY <1>3, SortKeepsEntries
  <2> QED
    BY <1>5, <1>6, <2>1
<1>8. DOMAIN highscores = 1 .. m
  <2>1. e \in Sequence(m)
    BY <1>3, SequenceFacts
  <2> HIDE DEF m
  <2> QED
    BY <1>5, <1>6, <2>1, SortResult, SequenceFacts
<1> QED
  BY <1>7, <1>8 DEF Range

=============================================================================
