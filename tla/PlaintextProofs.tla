--------------------------- MODULE PlaintextProofs ---------------------------
(***************************************************************************)
(* Proofs about Plaintext.  The first sections are about the codec alone:  *)
(* what ImportFromFile makes of a beginning of what WriteFile wrote.  The  *)
(* last one applies that to the commands.                                  *)
(*                                                                         *)
(* T is an alphabet, Y that of the values, Ks the keys; X is the text that *)
(* is read, v a value, k a key, e the vault exported, w the one imported   *)
(* to; at[j] is the place in a text behind its part j.                     *)
(***************************************************************************)
EXTENDS Plaintext, WellFoundedInduction, NaturalsInduction, SequenceTheorems,
        FiniteSetTheorems, TLAPS

-----------------------------------------------------------------------------
(* Numbers, runs and concatenations                                         *)

\* A set of numbers that is not empty has a least member, and with it
LEMMA Least ==
  ASSUME NEW T \in SUBSET Nat, T # {}
  PROVE  \E x \in T : \A y \in T : x <= y
<1> DEFINE R == {ss \in Nat \X Nat : ss[1] < ss[2]}
<1>1. IsWellFoundedOn(R, Nat)
  BY NatLessThanWellFounded DEF OpToRel
<1>2. \E x \in T : \A y \in T : ~(<<y, x>> \in R)
  <2> HIDE DEF R
  <2> QED BY <1>1, WFMin, Zenon
<1>3. PICK x \in T : \A y \in T : ~(<<y, x>> \in R)
  BY <1>2
<1>4. \A y \in T : ~(y < x)
  BY <1>3
<1> QED BY <1>4

\* induction,
LEMMA Induction ==
  ASSUME NEW S, 0 \in S, \A n \in Nat : n \in S => n + 1 \in S
  PROVE  \A n \in Nat : n \in S
<1> SUFFICES ASSUME Nat \ S # {} PROVE FALSE
  OBVIOUS
<1>1. PICK x \in Nat \ S : \A y \in Nat \ S : x <= y
  BY Least
<1>2. x # 0 /\ x - 1 \in Nat /\ ~(x <= x - 1)
  BY <1>1
<1> QED BY <1>1, <1>2

\* induction up to a bound: this is how the loops below are followed.
LEMMA UpTo ==
  ASSUME NEW N \in Nat, NEW S, 0 \in S, \A n \in 1..N : n - 1 \in S => n \in S
  PROVE  0..N \subseteq S
<1> DEFINE T == {n \in Nat : n <= N => n \in S}
<1>1. 0 \in T
  OBVIOUS
<1>2. ASSUME NEW n \in Nat, n \in T PROVE n + 1 \in T
  <2>1. (n + 1) - 1 = n /\ n + 1 \in Nat
    OBVIOUS
  <2>2. CASE n + 1 <= N
    <3>1. n + 1 \in 1..N /\ n \in S
      BY <1>2, <2>2
    <3>2. n + 1 \in S
      BY <2>1, <3>1
    <3> QED BY <2>1, <3>2
  <2> QED BY <2>1, <2>2
<1>3. \A n \in Nat : n \in T
  <2> HIDE DEF T
  <2> QED BY <1>1, <1>2, Induction
<1> QED BY <1>3

\* A bounded set of numbers has a greatest one.
LEMMA Greatest ==
  ASSUME NEW N \in Nat, NEW T \in SUBSET (0..N), T # {}
  PROVE  \E x \in T : \A y \in T : y <= x
<1>1. {N - y : y \in T} \in SUBSET Nat /\ {N - y : y \in T} # {}
  <2>1. PICK y \in T : TRUE
    OBVIOUS
  <2>2. N - y \in {N - z : z \in T}
    BY <2>1
  <2>3. \A z \in T : N - z \in Nat
    OBVIOUS
  <2> QED BY <2>2, <2>3
<1>2. PICK z \in {N - y : y \in T} : \A u \in {N - y : y \in T} : z <= u
  BY <1>1, Least
<1>3. PICK x \in T : z = N - x
  BY <1>2
<1>4. ASSUME NEW y \in T PROVE y <= x
  <2>1. N - x <= N - y
    BY <1>2, <1>3
  <2>2. x \in 0..N /\ y \in 0..N
    OBVIOUS
  <2> QED BY <2>1, <2>2
<1> QED BY <1>4

\* Min and Max find them.
LEMMA MinIsLeast ==
  ASSUME NEW T \in SUBSET Nat, T # {}
  PROVE  Min(T) \in T /\ \A y \in T : Min(T) <= y
BY Least DEF Min

LEMMA MaxIsGreatest ==
  ASSUME NEW N \in Nat, NEW T \in SUBSET (0..N), T # {}
  PROVE  Max(T) \in T /\ \A y \in T : y <= Max(T)
<1>1. PICK x \in T : \A y \in T : y <= x
  BY Greatest
<1> QED BY <1>1 DEF Max

\* f is a run of N steps from start, step i being next[i]
Runs(f, N, D, start, next) ==
  /\ f \in [0..N -> D]
  /\ f[0] = start
  /\ \A i \in 1..N : f[i] = next[i][f[i - 1]]

\* A function given by its start and its steps exists: the after of each loop does.
LEMMA Recursion ==
  ASSUME NEW N \in Nat, NEW D, NEW start \in D, NEW next \in [1..N -> [D -> D]]
  PROVE  \E f : Runs(f, N, D, start, next)
<1> DEFINE Partial(f, n) == f[0] = start /\ \A i \in 1..n : f[i] = next[i][f[i - 1]]
           S == {n \in 0..N : \E f \in [0..n -> D] : Partial(f, n)}
<1>1. 0 \in S
  <2>1. [i \in 0..0 |-> start] \in [0..0 -> D] /\ Partial([i \in 0..0 |-> start], 0)
    OBVIOUS
  <2>2. \E f \in [0..0 -> D] : Partial(f, 0)
    BY <2>1, Zenon
  <2>3. 0 \in 0..N
    OBVIOUS
  <2> HIDE DEF Partial
  <2> QED BY <2>2, <2>3
<1>2. ASSUME NEW m \in 1..N, m - 1 \in S PROVE m \in S
  <2> DEFINE n == m - 1
  <2>0. n \in 0..N - 1 /\ n + 1 = m
    OBVIOUS
  <2>1. PICK f \in [0..n -> D] : Partial(f, n)
    BY <1>2
  <2> DEFINE g == [i \in 0..n + 1 |-> IF i <= n THEN f[i] ELSE next[n + 1][f[n]]]
  <2>2. next[n + 1][f[n]] \in D
    OBVIOUS
  <2>3. g \in [0..n + 1 -> D]
    BY <2>2
  <2>4. g[0] = start
    BY <2>1
  <2>5. ASSUME NEW i \in 1..n + 1 PROVE g[i] = next[i][g[i - 1]]
    <3>1. g[i - 1] = f[i - 1]
      OBVIOUS
    <3>2. CASE i <= n
      BY <2>1, <3>1, <3>2
    <3>3. CASE ~(i <= n)
      <4>1. i = n + 1 /\ i - 1 = n
        BY <3>3
      <4>2. g[i] = next[n + 1][f[n]]
        BY <3>3
      <4> HIDE DEF g
      <4> QED BY <3>1, <4>1, <4>2
    <3> QED BY <3>2, <3>3
  <2>6. \E h \in [0..n + 1 -> D] : Partial(h, n + 1)
    <3> HIDE DEF g
    <3> QED BY <2>3, <2>4, <2>5
  <2>7. n + 1 \in 0..N
    OBVIOUS
  <2> HIDE DEF Partial
  <2> QED BY <2>6, <2>7
<1>3. 0..N \subseteq S
  <2> HIDE DEF S
  <2> QED BY <1>1, <1>2, UpTo
<1>4. PICK f \in [0..N -> D] : Partial(f, N)
  BY <1>3
<1>5. Runs(f, N, D, start, next)
  BY <1>4 DEF Runs
<1> QED BY <1>5, Zenon

\* t[i] is the concatenation of the first i texts of s
Flattens(s, T, t) ==
  /\ t \in [0..Len(s) -> Seq(T)]
  /\ t[0] = <<>>
  /\ \A i \in 1..Len(s) : t[i] = t[i - 1] \o s[i]

\* FlattenSeq is a sequence of concatenations.
LEMMA Flattening ==
  ASSUME NEW T, NEW s \in Seq(Seq(T))
  PROVE  \E t : Flattens(s, T, t) /\ FlattenSeq(s) = t[Len(s)]
<1> DEFINE N == Len(s)
           next == [i \in 1..N |-> [x \in Seq(T) |-> x \o s[i]]]
           Is(h) == h = [i \in 1..N |-> IF i = 1 THEN s[i] ELSE h[i - 1] \o s[i]]
<1>1. N \in Nat /\ \A i \in 1..N : s[i] \in Seq(T)
  OBVIOUS
<1>2. \A i \in 1..N, x \in Seq(T) : next[i][x] = x \o s[i]
  OBVIOUS
<1>3. PICK t \in [0..N -> Seq(T)] : t[0] = <<>> /\ \A i \in 1..N : t[i] = next[i][t[i - 1]]
  <2>1. <<>> \in Seq(T) /\ next \in [1..N -> [Seq(T) -> Seq(T)]]
    BY <1>1
  <2>2. PICK t : Runs(t, N, Seq(T), <<>>, next)
    <3> HIDE DEF N, next
    <3> QED BY <1>1, <2>1, Recursion
  <2> QED BY <2>2 DEF Runs
<1>4. \A i \in 1..N : t[i] = t[i - 1] \o s[i]
  <2> SUFFICES ASSUME NEW i \in 1..N PROVE t[i] = t[i - 1] \o s[i]
    OBVIOUS
  <2>1. i - 1 \in 0..N
    BY <1>1
  <2>2. t[i - 1] \in Seq(T)
    BY <2>1
  <2> HIDE DEF next
  <2> QED BY <1>2, <1>3, <2>2
<1>5. N # 0 => t[1] = s[1]
  <2> SUFFICES ASSUME N # 0 PROVE t[1] = s[1]
    OBVIOUS
  <2>1. 1 \in 1..N /\ 1 - 1 = 0
    BY <1>1
  <2>2. t[1] = t[0] \o s[1] /\ s[1] \in Seq(T)
    BY <1>1, <1>4, <2>1
  <2> QED BY <1>3, <2>2
<1> DEFINE f == [i \in 1..N |-> t[i]]
<1>6. Is(f)
  <2> DEFINE g == [i \in 1..N |-> IF i = 1 THEN s[i] ELSE f[i - 1] \o s[i]]
  <2>1. ASSUME NEW i \in 1..N PROVE g[i] = f[i]
    <3>1. CASE i = 1
      BY <1>5, <3>1
    <3>2. CASE i # 1
      <4>1. f[i - 1] = t[i - 1]
        BY <1>1, <3>2
      <4> QED BY <1>4, <3>2, <4>1
    <3> QED BY <3>1, <3>2
  <2>2. f = g
    BY <2>1
  <2> QED BY <2>2, Zenon
<1>7. ASSUME NEW h, Is(h), N # 0 PROVE h[N] = t[N]
  <2>1. \A i \in 1..N : h[i] = IF i = 1 THEN s[i] ELSE h[i - 1] \o s[i]
    BY <1>7, Zenon
  <2> DEFINE U == {i \in 0..N : i = 0 \/ h[i] = t[i]}
  <2>2. 0 \in U
    BY <1>1
  <2>3. ASSUME NEW i \in 1..N, i - 1 \in U PROVE i \in U
    <3>1. CASE i = 1
      BY <1>5, <2>1, <3>1
    <3>2. CASE i # 1
      <4>1. h[i] = h[i - 1] \o s[i] /\ t[i] = t[i - 1] \o s[i]
        BY <1>4, <2>1, <3>2
      <4>2. h[i - 1] = t[i - 1]
        BY <2>3, <3>2
      <4>3. h[i] = t[i]
        BY <4>1, <4>2, Zenon
      <4> QED BY <4>3
    <3> QED BY <3>1, <3>2
  <2>4. 0..N \subseteq U
    <3> HIDE DEF U, N
    <3> QED BY <1>1, <2>2, <2>3, UpTo
  <2>5. N \in U
    BY <1>1, <2>4
  <2> QED BY <1>7, <2>5, Zenon
<1>8. FlattenSeq(s) = t[N]
  <2>1. CASE N = 0
    BY <1>3, <2>1 DEF FlattenSeq
  <2>2. CASE N # 0
    <3> DEFINE h == CHOOSE h : Is(h)
    <3>1. Is(h)
      BY <1>6, Zenon
    <3>2. FlattenSeq(s) = h[N]
      BY <2>2 DEF FlattenSeq
    <3> HIDE DEF h, Is
    <3> QED BY <1>7, <2>2, <3>1, <3>2
  <2> QED BY <2>1, <2>2
<1> QED BY <1>3, <1>4, <1>8 DEF Flattens

-----------------------------------------------------------------------------
(* The loop of SplitImportLines, and the layout of texts                    *)

\* Two functions with the same start and the same steps end alike.
LEMMA SameRun ==
  ASSUME NEW N \in Nat, NEW f, NEW h, h[0] = f[0], \A i \in 1..N : h[i - 1] = f[i - 1] => h[i] = f[i]
  PROVE  h[N] = f[N]
<1> DEFINE U == {i \in 0..N : h[i] = f[i]}
<1>1. 0 \in U
  OBVIOUS
<1>2. ASSUME NEW i \in 1..N, i - 1 \in U PROVE i \in U
  <2>1. h[i] = f[i]
    BY <1>2
  <2> QED BY <2>1
<1>3. 0..N \subseteq U
  <2> HIDE DEF U
  <2> QED BY <1>1, <1>2, UpTo
<1>4. N \in U
  BY <1>3
<1> QED BY <1>4

\* The loop of SplitImportLines: its states and its runs
SplitStart == [lines |-> <<>>, line |-> <<>>, open |-> FALSE, skip |-> 0]
SplitStates(T) == [lines : Seq(Seq(T)), line : Seq(T), open : BOOLEAN, skip : 0..3]
SplitRun(X, T, f) ==
  /\ f \in [0..Len(X) -> SplitStates(T)]
  /\ f[0] = SplitStart
  /\ \A i \in 1..Len(X) : f[i] = SplitSymbol(f[i - 1], X, i)

\* SplitSymbol keeps the state of the loop of its type.
LEMMA SplitSymbolType ==
  ASSUME NEW T, NEW X \in Seq(T), NEW s \in SplitStates(T), NEW i \in 1..Len(X)
  PROVE  SplitSymbol(s, X, i) \in SplitStates(T)
<1>1. X[i] \in T
  OBVIOUS
<1>2. s.lines \in Seq(Seq(T)) /\ s.line \in Seq(T) /\ s.open \in BOOLEAN /\ s.skip \in 0..3
  BY DEF SplitStates
<1>3. Append(s.line, X[i]) \in Seq(T) /\ Append(s.lines, s.line) \in Seq(Seq(T)) /\ <<>> \in Seq(T)
  BY <1>1, <1>2
<1>4. s = [lines |-> s.lines, line |-> s.line, open |-> s.open, skip |-> s.skip]
  BY DEF SplitStates
<1> DEFINE copied == [s EXCEPT !.line = Append(@, X[i])]
<1>5. copied \in SplitStates(T) /\ copied.skip = s.skip /\ copied.open = s.open
  BY <1>2, <1>3 DEF SplitStates
<1>6. CASE s.skip > 0
  <2>1. SplitSymbol(s, X, i) = [copied EXCEPT !.skip = copied.skip - 1]
    BY <1>6 DEF SplitSymbol
  <2>2. copied.skip - 1 \in 0..3
    BY <1>2, <1>5, <1>6
  <2>3. [copied EXCEPT !.skip = copied.skip - 1] \in SplitStates(T)
    <3> HIDE DEF copied
    <3> QED BY <1>5, <2>2 DEF SplitStates
  <2> HIDE DEF copied
  <2> QED BY <2>1, <2>3, Zenon
<1>7. CASE s.skip = 0 /\ s.open /\ EscapeAt(X, i)
  <2>1. SplitSymbol(s, X, i) = [copied EXCEPT !.skip = 3]
    BY <1>2, <1>7 DEF SplitSymbol
  <2> HIDE DEF copied
  <2>2. 3 \in 0..3
    OBVIOUS
  <2> QED BY <1>5, <2>1, <2>2 DEF SplitStates
<1>8. CASE s.skip = 0 /\ ~s.open /\ X[i] = "nl"
  <2>1. SplitSymbol(s, X, i) = [s EXCEPT !.lines = Append(@, s.line), !.line = <<>>]
    BY <1>8 DEF SplitSymbol
  <2> QED BY <1>2, <1>3, <2>1 DEF SplitStates
<1>9. CASE s.skip = 0 /\ ~(s.open /\ EscapeAt(X, i)) /\ ~(~s.open /\ X[i] = "nl")
  <2>1. SplitSymbol(s, X, i) = [copied EXCEPT !.open = @ # (X[i] = "'")]
    BY <1>9 DEF SplitSymbol
  <2> HIDE DEF copied
  <2> QED BY <1>5, <2>1 DEF SplitStates
<1> QED BY <1>2, <1>6, <1>7, <1>8, <1>9

\* SplitImportLines is the end of a run.
LEMMA Splitting ==
  ASSUME NEW T, NEW X \in Seq(T)
  PROVE  \E f : /\ SplitRun(X, T, f)
                /\ SplitImportLines(X) = LET end == f[Len(X)] IN
                                         IF end.line = <<>> THEN end.lines ELSE Append(end.lines, end.line)
<1> DEFINE N == Len(X)
           D == SplitStates(T)
           next == [i \in 1..N |-> [s \in D |-> SplitSymbol(s, X, i)]]
           Is(h) == h = [i \in 0..N |-> IF i = 0 THEN SplitStart ELSE SplitSymbol(h[i - 1], X, i)]
<1>1. N \in Nat /\ SplitStart \in D
  BY DEF SplitStart, SplitStates
<1>2. next \in [1..N -> [D -> D]]
  <2> HIDE DEF D
  <2> QED BY SplitSymbolType DEF D
<1>3. PICK f : Runs(f, N, D, SplitStart, next)
  <2> HIDE DEF N, D, next
  <2> QED BY <1>1, <1>2, Recursion
<1>4. /\ f \in [0..N -> D] /\ f[0] = SplitStart
      /\ \A i \in 1..N : i - 1 \in 0..N /\ f[i] = SplitSymbol(f[i - 1], X, i)
  <2>1. f \in [0..N -> D] /\ f[0] = SplitStart /\ \A i \in 1..N : f[i] = next[i][f[i - 1]]
    BY <1>3 DEF Runs
  <2> HIDE DEF D
  <2> QED BY <1>1, <2>1
<1>5. Is(f)
  <2> DEFINE g == [i \in 0..N |-> IF i = 0 THEN SplitStart ELSE SplitSymbol(f[i - 1], X, i)]
  <2> HIDE DEF D, N
  <2>1. \A i \in 0..N : f[i] = g[i]
    BY <1>1, <1>4
  <2>2. f = g
    BY <1>4, <2>1
  <2> QED BY <2>2, Zenon
<1> DEFINE h == CHOOSE h : Is(h)
<1>6. Is(h)
  BY <1>5, Zenon
<1>7. h[N] = f[N]
  <2> HIDE DEF h, D, N, next
  <2>1. h[0] = SplitStart /\ \A i \in 1..N : h[i] = SplitSymbol(h[i - 1], X, i)
    BY <1>1, <1>6
  <2>2. h[0] = f[0] /\ \A i \in 1..N : h[i - 1] = f[i - 1] => h[i] = f[i]
    BY <1>4, <2>1
  <2> QED BY <1>1, <2>2, SameRun
<1>8. SplitImportLines(X) = LET end == h[N] IN
                            IF end.line = <<>> THEN end.lines ELSE Append(end.lines, end.line)
  BY DEF SplitImportLines, SplitStart
<1>9. SplitRun(X, T, f)
  BY <1>4 DEF SplitRun
<1> HIDE DEF h
<1> QED BY <1>7, <1>8, <1>9

\* Where the symbols of a concatenation stand.
LEMMA Concat ==
  ASSUME NEW T, NEW a \in Seq(T), NEW b \in Seq(T), NEW c, c = a \o b
  PROVE  /\ c \in Seq(T)
         /\ Len(a) \in Nat /\ Len(b) \in Nat /\ Len(c) = Len(a) + Len(b)
         /\ \A q \in 1..Len(a) : c[q] = a[q]
         /\ \A d \in 1..Len(b) : Len(a) + d \in 1..Len(c) /\ c[Len(a) + d] = b[d]
OBVIOUS

\* F is the first n texts of s, one after the other, each ending at its at
Laid(s, n, F, at) ==
  /\ at[0] = 0 /\ Len(F) = at[n]
  /\ \A j \in 0..n : at[j] \in Nat /\ at[j] <= at[n]
  /\ \A j \in 1..n : /\ at[j] = at[j - 1] + Len(s[j])
                     /\ \A d \in 1..Len(s[j]) : F[at[j - 1] + d] = s[j][d]

\* Flattened texts are laid out one after the other.
LEMMA Layout ==
  ASSUME NEW T, NEW s \in Seq(Seq(T)), NEW t, Flattens(s, T, t)
  PROVE  \E at : Laid(s, Len(s), t[Len(s)], at)
<1> DEFINE N == Len(s)
           at == [j \in 0..N |-> Len(t[j])]
           U == {n \in 0..N : Laid(s, n, t[n], at)}
<1>1. /\ N \in Nat /\ \A i \in 1..N : s[i] \in Seq(T)
      /\ \A i \in 1..N : i - 1 \in 0..N /\ t[i] = t[i - 1] \o s[i]
      /\ t[0] = <<>> /\ \A i \in 0..N : t[i] \in Seq(T)
  BY DEF Flattens
<1>2. \A j \in 0..N : at[j] = Len(t[j]) /\ at[j] \in Nat
  <2> HIDE DEF N
  <2>1. \A j \in 0..N : Len(t[j]) \in Nat
    BY <1>1
  <2> QED BY <2>1
<1> HIDE DEF N, at
<1>3. 0 \in U
  <2>1. 0 \in 0..N /\ Len(t[0]) = 0
    BY <1>1
  <2>2. Laid(s, 0, t[0], at)
    BY <1>2, <2>1 DEF Laid
  <2> QED BY <2>1, <2>2
<1>4. ASSUME NEW n \in 1..N, n - 1 \in U PROVE n \in U
  <2> DEFINE a == t[n - 1]
             b == s[n]
             c == t[n]
  <2>0. n \in 0..N /\ n - 1 \in 0..N /\ Laid(s, n - 1, a, at)
    BY <1>1, <1>4
  <2>1. a \in Seq(T) /\ b \in Seq(T) /\ c = a \o b
    BY <1>1, <2>0
  <2>2. at[n - 1] = Len(a) /\ at[n] = Len(c)
    BY <1>2, <2>0
  <2> HIDE DEF a, b, c
  <2>3. /\ Len(a) \in Nat /\ Len(b) \in Nat /\ Len(c) = Len(a) + Len(b)
        /\ \A q \in 1..Len(a) : c[q] = a[q]
        /\ \A d \in 1..Len(b) : c[Len(a) + d] = b[d]
    BY <2>1, Concat
  <2>4. /\ at[0] = 0
        /\ \A j \in 0..n - 1 : at[j] \in Nat /\ at[j] <= at[n - 1]
        /\ \A j \in 1..n - 1 : /\ at[j] = at[j - 1] + Len(s[j])
                               /\ \A d \in 1..Len(s[j]) : a[at[j - 1] + d] = s[j][d]
    BY <2>0 DEF Laid
  <2>5. ASSUME NEW j \in 0..n PROVE at[j] \in Nat /\ at[j] <= at[n]
    <3>1. CASE j = n
      BY <1>2, <2>0, <3>1
    <3>2. CASE j # n
      <4>1. j \in 0..n - 1
        BY <3>2
      <4> QED BY <2>2, <2>3, <2>4, <4>1
    <3> QED BY <3>1, <3>2
  <2>6. ASSUME NEW j \in 1..n
        PROVE  at[j] = at[j - 1] + Len(s[j]) /\ \A d \in 1..Len(s[j]) : c[at[j - 1] + d] = s[j][d]
    <3>1. CASE j = n
      BY <2>2, <2>3, <3>1 DEF b
    <3>2. CASE j # n
      <4>1. j \in 1..n - 1 /\ j \in 0..n - 1 /\ j - 1 \in 0..n - 1
        BY <3>2
      <4>2. at[j] = at[j - 1] + Len(s[j]) /\ at[j - 1] \in Nat /\ at[j] <= Len(a)
        BY <2>2, <2>4, <4>1
      <4>3. ASSUME NEW d \in 1..Len(s[j]) PROVE c[at[j - 1] + d] = s[j][d]
        <5>1. Len(s[j]) \in Nat
          BY <1>1
        <5>2. at[j - 1] + d \in 1..Len(a)
          BY <2>3, <4>2, <5>1
        <5>3. a[at[j - 1] + d] = s[j][d]
          BY <2>4, <4>1
        <5> QED BY <2>3, <5>2, <5>3
      <4> QED BY <4>2, <4>3
    <3> QED BY <3>1, <3>2
  <2>7. Laid(s, n, c, at)
    BY <2>2, <2>4, <2>5, <2>6 DEF Laid
  <2> QED BY <2>0, <2>7 DEF c
<1>5. 0..N \subseteq U
  <2> HIDE DEF U
  <2> QED BY <1>1, <1>3, <1>4, UpTo
<1>6. Laid(s, N, t[N], at)
  BY <1>1, <1>5
<1> QED BY <1>6 DEF N

\* A flattened sequence of texts is a text, laid out
LEMMA FlattenedLayout ==
  ASSUME NEW T, NEW s \in Seq(Seq(T))
  PROVE  FlattenSeq(s) \in Seq(T) /\ \E at : Laid(s, Len(s), FlattenSeq(s), at)
<1>1. PICK t : Flattens(s, T, t) /\ FlattenSeq(s) = t[Len(s)]
  BY Flattening
<1>2. t[Len(s)] \in Seq(T)
  <2>1. Len(s) \in 0..Len(s)
    OBVIOUS
  <2> QED BY <1>1, <2>1 DEF Flattens
<1>3. \E at : Laid(s, Len(s), t[Len(s)], at)
  BY <1>1, Layout
<1> QED BY <1>1, <1>2, <1>3

\* The symbols of the escaped quote.
LEMMA EscapeIs ==
  /\ Escape \in Seq(Marks) /\ Len(Escape) = 4
  /\ Escape[1] = "'" /\ Escape[2] = "\\" /\ Escape[3] = "'" /\ Escape[4] = "'"
BY DEF Escape, Marks

\* at[j]: the number of symbols of ShellQuote(v) that stand for the first j of v,
\* with the opening quote
Offsets(v, at) ==
  LET Q == ShellQuote(v) IN
  /\ at \in [0..Len(v) -> Nat \ {0}]
  /\ at[0] = 1 /\ Len(Q) = at[Len(v)] + 1
  /\ Q[1] = "'" /\ Q[Len(Q)] = "'"
  /\ \A j \in 0..Len(v) : at[j] <= at[Len(v)]
  /\ \A j \in 1..Len(v) :
       IF v[j] = "'" THEN at[j] = at[j - 1] + 4 /\ \A d \in 0..3 : Q[at[j - 1] + 1 + d] = Escape[d + 1]
       ELSE at[j] = at[j - 1] + 1 /\ Q[at[j]] = v[j]

\* ShellQuote writes a text, with each symbol of the value at its place.
LEMMA Quoting ==
  ASSUME NEW T, Marks \subseteq T, NEW v \in Seq(T)
  PROVE  ShellQuote(v) \in Seq(T) /\ \E at : Offsets(v, at)
<1> DEFINE s == [i \in DOMAIN v |-> IF v[i] = "'" THEN Escape ELSE <<v[i]>>]
           N == Len(v)
           Q == ShellQuote(v)
<1>1. N \in Nat /\ DOMAIN v = 1..N /\ \A i \in 1..N : v[i] \in T
  OBVIOUS
<1>2. \A i \in 1..N : s[i] \in Seq(T)
  <2>1. Escape \in Seq(T)
    <3>1. "'" \in T /\ "\\" \in T
      BY DEF Marks
    <3> QED BY <3>1 DEF Escape
  <2> QED BY <1>1, <2>1
<1>3. s \in Seq(Seq(T)) /\ Len(s) = N
  BY <1>1, <1>2
<1> DEFINE F == FlattenSeq(s)
<1> HIDE DEF F
<1>4. F \in Seq(T) /\ \E p : Laid(s, N, F, p)
  <2> HIDE DEF s, N
  <2> QED BY <1>3, FlattenedLayout DEF F
<1>5. PICK p : Laid(s, N, F, p)
  BY <1>4
<1>6. /\ p[0] = 0 /\ Len(F) = p[N]
      /\ \A j \in 0..N : p[j] \in Nat /\ p[j] <= p[N]
      /\ \A j \in 1..N : p[j] = p[j - 1] + Len(s[j]) /\ \A d \in 1..Len(s[j]) : F[p[j - 1] + d] = s[j][d]
  <2> HIDE DEF s, N
  <2> QED BY <1>5 DEF Laid
<1>7. Q = <<"'">> \o F \o <<"'">> /\ "'" \in T
  BY DEF ShellQuote, F, Marks
<1>8. Q \in Seq(T) /\ Len(Q) = Len(F) + 2 /\ Q[1] = "'" /\ Q[Len(Q)] = "'" /\ Len(F) \in Nat
      /\ \A q \in 1..Len(F) : Q[q + 1] = F[q]
  <2> HIDE DEF Q
  <2> QED BY <1>4, <1>7
<1> DEFINE at == [j \in 0..N |-> p[j] + 1]
<1>9. /\ at \in [0..N -> Nat \ {0}] /\ at[0] = 1 /\ Len(Q) = at[N] + 1
      /\ \A j \in 0..N : at[j] = p[j] + 1 /\ at[j] <= at[N]
  <2> HIDE DEF Q
  <2> QED BY <1>1, <1>6, <1>8
<1>10. ASSUME NEW j \in 1..N
       PROVE  IF v[j] = "'" THEN at[j] = at[j - 1] + 4 /\ \A d \in 0..3 : Q[at[j - 1] + 1 + d] = Escape[d + 1]
              ELSE at[j] = at[j - 1] + 1 /\ Q[at[j]] = v[j]
  <2> DEFINE b == p[j - 1]
             piece == s[j]
  <2>1. p[j] = b + Len(piece) /\ b \in Nat /\ p[j] <= Len(F) /\ \A d \in 1..Len(piece) : F[b + d] = piece[d]
    <3>1. j \in 0..N /\ j - 1 \in 0..N
      BY <1>1
    <3> HIDE DEF N, s
    <3> QED BY <1>6, <3>1
  <2>2. at[j] = p[j] + 1 /\ at[j - 1] = b + 1
    <3>1. j \in 0..N /\ j - 1 \in 0..N
      BY <1>1
    <3> HIDE DEF N, at
    <3> QED BY <1>9, <3>1
  <2>3. CASE v[j] = "'"
    <3>1. piece = Escape
      BY <1>1, <2>3
    <3> HIDE DEF b, piece, at, Q, s, N
    <3>2. at[j] = at[j - 1] + 4
      BY <2>1, <2>2, <3>1, EscapeIs
    <3>3. ASSUME NEW d \in 0..3 PROVE Q[at[j - 1] + 1 + d] = Escape[d + 1]
      <4>1. d + 1 \in 1..Len(piece) /\ b + (d + 1) \in 1..Len(F)
        BY <1>8, <2>1, <3>1, EscapeIs
      <4>2. F[b + (d + 1)] = Escape[d + 1]
        BY <2>1, <3>1, <4>1
      <4>3. at[j - 1] + 1 + d = (b + (d + 1)) + 1
        BY <2>1, <2>2
      <4> QED BY <1>8, <4>1, <4>2, <4>3
    <3> QED BY <2>3, <3>2, <3>3
  <2>4. CASE v[j] # "'"
    <3>1. piece = <<v[j]>>
      BY <1>1, <2>4
    <3>2. 1 \in 1..Len(piece) /\ piece[1] = v[j] /\ Len(piece) = 1
      <4> HIDE DEF piece
      <4> QED BY <3>1
    <3> HIDE DEF b, piece, at, Q, s, N
    <3>3. at[j] = at[j - 1] + 1 /\ at[j] = (b + 1) + 1 /\ b + 1 \in 1..Len(F)
      BY <1>8, <2>1, <2>2, <3>2
    <3>4. F[b + 1] = v[j]
      BY <2>1, <3>2
    <3>5. Q[at[j]] = v[j]
      BY <1>8, <3>3, <3>4
    <3> QED BY <2>4, <3>3, <3>5
  <2> QED BY <2>3, <2>4
<1>11. Offsets(v, at)
  <2> HIDE DEF at, Q
  <2> QED BY <1>8, <1>9, <1>10 DEF Offsets, Q
<1> QED BY <1>8, <1>11

-----------------------------------------------------------------------------
(* Quoted values are read as they were written                              *)

\* Whether a quote is open, and how much of an escape is to be passed, after each
\* symbol of X: what SplitImportLines and ParseImportValue have in common
ModeRun(X, o, k) ==
  /\ o \in [0..Len(X) -> BOOLEAN]
  /\ \A i \in 1..Len(X) :
       IF k[i - 1] > 0 THEN k[i] = k[i - 1] - 1 /\ o[i] = o[i - 1]
       ELSE IF o[i - 1] /\ EscapeAt(X, i) THEN k[i] = 3 /\ o[i] = o[i - 1]
       ELSE k[i] = 0 /\ o[i] = (o[i - 1] # (X[i] = "'"))

\* text Q stands in X after position p, as far as X goes
Shows(X, p, Q) == \A q \in 1..Len(Q) : p + q <= Len(X) => X[p + q] = Q[q]

\* Escape j of value v, after position p of X, is read as one when it is all there
EscapeRead(X, o, k, p, b) ==
  IF p + b + 4 <= Len(X) THEN EscapeAt(X, p + b + 1) /\ \A d \in 1..3 : o[p + b + d] /\ k[p + b + d] = 4 - d
  ELSE \A d \in 1..3 : p + b + d <= Len(X) => k[p + b + d] = 0 /\ o[p + b + d] = (d = 3)

\* The text of value v is read, after position p of X, as far as X goes
QuoteRead(X, o, k, p, v, at) ==
  /\ \A j \in 0..Len(v) : p + at[j] <= Len(X) => o[p + at[j]] /\ k[p + at[j]] = 0
  /\ \A j \in 1..Len(v) : v[j] = "'" => EscapeRead(X, o, k, p, at[j - 1])
  /\ p + Len(ShellQuote(v)) <= Len(X) =>
       ~o[p + Len(ShellQuote(v))] /\ k[p + Len(ShellQuote(v))] = 0

\* An escape that is found is passed whole.
LEMMA EscapeSteps ==
  ASSUME NEW T, NEW X \in Seq(T), NEW o, NEW k, ModeRun(X, o, k), NEW i \in 1..Len(X),
         o[i - 1], k[i - 1] = 0, EscapeAt(X, i)
  PROVE  /\ i + 3 <= Len(X)
         /\ \A d \in 0..2 : o[i + d] /\ k[i + d] = 3 - d
         /\ o[i + 3] /\ k[i + 3] = 0
<1>1. i + 3 <= Len(X) /\ i \in Nat /\ Len(X) \in Nat
  BY DEF EscapeAt
<1>2. k[i] = 3 /\ o[i]
  BY DEF ModeRun
<1>3. k[i + 1] = 2 /\ o[i + 1]
  <2>1. i + 1 \in 1..Len(X) /\ (i + 1) - 1 = i
    BY <1>1
  <2> QED BY <1>2, <2>1 DEF ModeRun
<1>4. k[i + 2] = 1 /\ o[i + 2]
  <2>1. i + 2 \in 1..Len(X) /\ (i + 2) - 1 = i + 1
    BY <1>1
  <2> QED BY <1>3, <2>1 DEF ModeRun
<1>5. k[i + 3] = 0 /\ o[i + 3]
  <2>1. i + 3 \in 1..Len(X) /\ (i + 3) - 1 = i + 2
    BY <1>1
  <2> QED BY <1>4, <2>1 DEF ModeRun
<1>6. ASSUME NEW d \in 0..2 PROVE o[i + d] /\ k[i + d] = 3 - d
  <2>1. d = 0 \/ d = 1 \/ d = 2
    OBVIOUS
  <2> QED BY <1>1, <1>2, <1>3, <1>4, <2>1
<1> QED BY <1>1, <1>5, <1>6

\* Any other symbol opens or closes a quote, or does neither.
LEMMA PlainStep ==
  ASSUME NEW T, NEW X \in Seq(T), NEW o, NEW k, ModeRun(X, o, k), NEW i \in 1..Len(X),
         k[i - 1] = 0, ~(o[i - 1] /\ EscapeAt(X, i))
  PROVE  k[i] = 0 /\ o[i] = (o[i - 1] # (X[i] = "'"))
BY DEF ModeRun

\* The heart of the codec: reading a beginning of what ShellQuote wrote, the
\* quote stays open up to its last symbol, whatever quotes, backslashes and
\* newlines are in the value.
LEMMA QuoteIsRead ==
  ASSUME NEW T, Marks \subseteq T, NEW X \in Seq(T), NEW o, NEW k, ModeRun(X, o, k),
         NEW p \in Nat, ~o[p], k[p] = 0, NEW v \in Seq(T), NEW at, Offsets(v, at),
         Shows(X, p, ShellQuote(v)),
         p + Len(ShellQuote(v)) + 1 <= Len(X) => X[p + Len(ShellQuote(v)) + 1] # "\\"
  PROVE  QuoteRead(X, o, k, p, v, at)
<1> DEFINE N == Len(v)
           Q == ShellQuote(v)
           L == Len(X)
           U == {j \in 0..N : p + at[j] <= L => o[p + at[j]] /\ k[p + at[j]] = 0}
<1>1. N \in Nat /\ L \in Nat /\ Q \in Seq(T) /\ Len(Q) \in Nat
  BY Quoting
<1>2. /\ \A j \in 0..N : at[j] \in Nat \ {0} /\ at[j] <= at[N]
      /\ at[0] = 1 /\ Len(Q) = at[N] + 1 /\ Q[1] = "'" /\ Q[Len(Q)] = "'"
      /\ \A j \in 1..N :
           IF v[j] = "'" THEN at[j] = at[j - 1] + 4 /\ \A d \in 0..3 : Q[at[j - 1] + 1 + d] = Escape[d + 1]
           ELSE at[j] = at[j - 1] + 1 /\ Q[at[j]] = v[j]
  BY DEF Offsets
<1>3. \A q \in 1..Len(Q) : p + q <= L => X[p + q] = Q[q]
  BY DEF Shows
<1>m. \A i \in 1..L : k[i - 1] = 0 /\ ~(o[i - 1] /\ EscapeAt(X, i)) =>
                        k[i] = 0 /\ o[i] = (o[i - 1] # (X[i] = "'"))
  BY PlainStep
<1>e. \A i \in 1..L : o[i - 1] /\ k[i - 1] = 0 /\ EscapeAt(X, i) =>
         /\ i + 3 <= L
         /\ \A d \in 0..2 : o[i + d] /\ k[i + d] = 3 - d
         /\ o[i + 3] /\ k[i + 3] = 0
  BY EscapeSteps
<1>b. \A i \in 1..L : o[i] \in BOOLEAN
  BY DEF ModeRun
<1>q. p + Len(Q) + 1 <= L => X[p + Len(Q) + 1] # "\\"
  OBVIOUS
<1>x. \A i \in Nat : EscapeAt(X, i) <=> i + 3 <= L /\ \A d \in 0..3 : X[i + d] = Escape[d + 1]
  BY DEF EscapeAt
<1> HIDE DEF N, Q, L
<1>n. N \in 0..N /\ at[N] \in Nat \ {0} /\ Len(Q) >= 2 /\ Len(Q) = at[N] + 1
  BY <1>1, <1>2
<1>4. ASSUME NEW i \in 1..L, X[i] # "'" PROVE ~EscapeAt(X, i)
  <2>1. i + 0 = i /\ i \in Nat /\ 0 + 1 = 1 /\ 0 \in 0..3
    BY <1>1
  <2> QED BY <1>4, <1>x, <2>1, EscapeIs
<1>5. 0 \in U
  <2> DEFINE i == p + 1
  <2>1. i <= L => i \in 1..L /\ i - 1 = p
    BY <1>1
  <2>2. i <= L => X[i] = "'"
    <3>1. 1 \in 1..Len(Q)
      BY <1>1, <1>n
    <3> QED BY <1>2, <1>3, <3>1
  <2>3. at[0] = 1 /\ 0 \in 0..N
    BY <1>1, <1>2
  <2>4. p + at[0] = i
    BY <2>3
  <2> HIDE DEF i
  <2>5. i <= L => o[i] /\ k[i] = 0
    BY <1>m, <1>b, <2>1, <2>2
  <2> QED BY <2>3, <2>4, <2>5
<1>6. ASSUME NEW j \in 1..N
      PROVE  j \in 0..N /\ j - 1 \in 0..N /\ at[j] \in Nat /\ at[j - 1] \in Nat /\ at[j] < Len(Q)
  <2>1. j \in 0..N /\ j - 1 \in 0..N
    BY <1>1
  <2> QED BY <1>2, <1>n, <2>1
<1>v. ASSUME NEW j \in 1..N, v[j] = "'"
      PROVE  at[j] = at[j - 1] + 4 /\ \A d \in 0..3 : Q[at[j - 1] + 1 + d] = Escape[d + 1]
  BY <1>2, <1>v
<1>w. ASSUME NEW j \in 1..N, v[j] # "'"
      PROVE  at[j] = at[j - 1] + 1 /\ Q[at[j]] = v[j]
  BY <1>2, <1>w
\* An escape of the value, as far as X shows it
<1>s. ASSUME NEW j \in 1..N, v[j] = "'", NEW d \in 0..3, p + at[j - 1] + 1 + d <= L
      PROVE  p + at[j - 1] + 1 + d \in 1..L /\ X[p + at[j - 1] + 1 + d] = Escape[d + 1]
  <2> DEFINE b == at[j - 1]
             q == b + 1 + d
  <2>1. b \in Nat /\ b + 4 < Len(Q)
    BY <1>6, <1>v, <1>s
  <2> HIDE DEF b
  <2>2. q \in 1..Len(Q) /\ p + b + 1 + d = p + q
    BY <1>1, <2>1
  <2>5. p + b + 1 + d <= L
    BY <1>s DEF b
  <2>3. p + b + 1 + d \in 1..L
    BY <1>1, <2>1, <2>5
  <2>4. Q[q] = Escape[d + 1]
    BY <1>v, <1>s DEF b
  <2> HIDE DEF q
  <2>6. X[p + q] = Escape[d + 1]
    BY <1>3, <2>2, <2>4, <2>5, Zenon
  <2> QED BY <2>2, <2>3, <2>6 DEF b
<1>7. ASSUME NEW j \in 1..N, v[j] = "'", p + at[j] <= L
      PROVE  EscapeAt(X, p + at[j - 1] + 1)
  <2> DEFINE b == at[j - 1]
             i == p + b + 1
  <2>0. b \in Nat /\ p + (b + 4) <= L
    BY <1>6, <1>7, <1>v
  <2>s. \A d \in 0..3 : p + b + 1 + d <= L => X[p + b + 1 + d] = Escape[d + 1]
    BY <1>s, <1>7
  <2> HIDE DEF b
  <2>1. i \in Nat /\ i + 3 <= L /\ \A d \in 0..3 : p + b + 1 + d <= L
    BY <1>1, <2>0
  <2>2. EscapeAt(X, i)
    <3>1. \A d \in 0..3 : X[i + d] = Escape[d + 1]
      BY <2>s, <2>1
    <3> HIDE DEF i
    <3> QED BY <1>x, <2>1, <3>1
  <2> QED BY <2>2 DEF b
<1>8. ASSUME NEW j \in 1..N, j - 1 \in U PROVE j \in U
  <2> SUFFICES ASSUME p + at[j] <= L PROVE o[p + at[j]] /\ k[p + at[j]] = 0
    BY <1>6
  <2> DEFINE b == at[j - 1]
             c == at[j]
             i == p + b + 1
  <2>1. b \in Nat /\ c \in Nat /\ (c = b + 1 \/ c = b + 4) /\ p + c <= L
    BY <1>6, <1>v, <1>w
  <2>2. p + b <= L => o[p + b] /\ k[p + b] = 0
    BY <1>8
  <2>v. v[j] = "'" => c = b + 4 /\ EscapeAt(X, i)
    BY <1>v, <1>7
  <2>w. v[j] # "'" => c = b + 1 /\ Q[c] = v[j] /\ c < Len(Q)
    BY <1>w, <1>6
  <2> HIDE DEF b, c
  <2>3. i \in 1..L /\ i - 1 = p + b
    BY <1>1, <2>1
  <2>4. o[i - 1] /\ k[i - 1] = 0
    <3>1. p + b <= L
      BY <1>1, <2>1
    <3> HIDE DEF i
    <3> QED BY <2>2, <2>3, <3>1
  <2>5. CASE v[j] = "'"
    <3>1. EscapeAt(X, i) /\ i + 3 = p + c
      BY <2>1, <2>v, <2>5
    <3> HIDE DEF i
    <3>2. o[i + 3] /\ k[i + 3] = 0
      BY <1>e, <2>3, <2>4, <3>1
    <3> QED BY <3>1, <3>2 DEF c
  <2>6. CASE v[j] # "'"
    <3>1. i = p + c /\ c \in 1..Len(Q) /\ Q[c] = v[j]
      BY <1>1, <2>1, <2>w, <2>6
    <3> HIDE DEF i
    <3>2. X[i] # "'"
      BY <1>3, <2>1, <2>6, <3>1
    <3>3. ~EscapeAt(X, i)
      BY <1>4, <2>3, <3>2
    <3>4. k[i] = 0 /\ o[i]
      BY <1>m, <1>b, <2>3, <2>4, <3>2, <3>3
    <3> QED BY <3>1, <3>4 DEF c
  <2> QED BY <2>5, <2>6
<1>9. 0..N \subseteq U
  <2> HIDE DEF U
  <2> QED BY <1>1, <1>5, <1>8, UpTo
<1>10. \A j \in 0..N : p + at[j] <= L => o[p + at[j]] /\ k[p + at[j]] = 0
  BY <1>9
<1>11. ASSUME NEW j \in 1..N, v[j] = "'" PROVE EscapeRead(X, o, k, p, at[j - 1])
  <2> DEFINE b == at[j - 1]
             i == p + b + 1
  <2>0. at[j] = b + 4 /\ b \in Nat
    BY <1>6, <1>v, <1>11
  <2>a. p + b <= L => o[p + b] /\ k[p + b] = 0
    BY <1>6, <1>10
  <2>x. p + (b + 4) <= L => EscapeAt(X, i)
    BY <1>7, <1>11, <2>0
  <2>s. \A d \in 0..3 : p + b + 1 + d <= L => p + b + 1 + d \in 1..L /\ X[p + b + 1 + d] = Escape[d + 1]
    BY <1>s, <1>11
  <2> HIDE DEF b
  <2>1. CASE p + b + 4 <= L
    <3>1. i \in 1..L /\ i - 1 = p + b /\ p + b <= L /\ p + (b + 4) <= L
      BY <1>1, <2>0, <2>1
    <3>2. o[i - 1] /\ k[i - 1] = 0 /\ EscapeAt(X, i)
      <4>1. EscapeAt(X, i)
        BY <2>x, <3>1
      <4> HIDE DEF i
      <4> QED BY <2>a, <3>1, <4>1
    <3>3. \A d \in 0..2 : o[i + d] /\ k[i + d] = 3 - d
      <4> HIDE DEF i
      <4> QED BY <1>e, <3>1, <3>2
    <3>4. ASSUME NEW d \in 1..3 PROVE o[p + b + d] /\ k[p + b + d] = 4 - d
      <4> DEFINE dd == d - 1
      <4>1. dd \in 0..2 /\ i + dd = p + b + d /\ 3 - dd = 4 - d
        BY <2>0
      <4> HIDE DEF i, dd
      <4>2. o[i + dd] /\ k[i + dd] = 3 - dd
        BY <3>3, <4>1
      <4> QED BY <4>1, <4>2
    <3>5. EscapeRead(X, o, k, p, b)
      BY <2>1, <3>2, <3>4 DEF EscapeRead, L
    <3> QED BY <3>5 DEF b
  <2>2. CASE ~(p + b + 4 <= L)
    <3>1. ~EscapeAt(X, i)
      <4>1. i + 3 = p + b + 4 /\ i \in Nat
        BY <2>0
      <4> HIDE DEF i
      <4> QED BY <1>x, <2>2, <4>1
    <3>4. ASSUME p + b + 1 <= L PROVE k[p + b + 1] = 0 /\ ~o[p + b + 1]
      <4>1. i \in 1..L /\ i - 1 = p + b /\ p + b <= L /\ i = i + 0
        BY <1>1, <2>0, <3>4
      <4>2. X[i] = "'"
        <5>1. 0 \in 0..3 /\ p + b + 1 + 0 = i /\ 0 + 1 = 1 /\ i <= L
          BY <2>0, <3>4
        <5>2. X[p + b + 1 + 0] = Escape[0 + 1]
          BY <2>s, <5>1
        <5> QED BY <5>1, <5>2, EscapeIs
      <4> HIDE DEF i
      <4>3. k[i] = 0 /\ o[i] = (o[i - 1] # (X[i] = "'"))
        BY <1>m, <2>a, <3>1, <4>1
      <4>4. k[i] = 0 /\ ~o[i]
        BY <2>a, <4>1, <4>2, <4>3
      <4> QED BY <4>4 DEF i
    <3>5. ASSUME p + b + 2 <= L PROVE k[p + b + 2] = 0 /\ ~o[p + b + 2]
      <4> DEFINE c == p + b + 2
      <4>1. c \in 1..L /\ c - 1 = p + b + 1 /\ p + b + 1 <= L
        BY <1>1, <2>0, <3>5
      <4>2. X[c] = "\\"
        <5>1. 1 \in 0..3 /\ p + b + 1 + 1 = c /\ 1 + 1 = 2 /\ c <= L
          BY <2>0, <3>5
        <5>2. X[p + b + 1 + 1] = Escape[1 + 1]
          BY <2>s, <5>1
        <5> QED BY <5>1, <5>2, EscapeIs
      <4> HIDE DEF c
      <4>3. k[c - 1] = 0 /\ ~o[c - 1]
        BY <3>4, <4>1
      <4>5. X[c] # "'"
        BY <4>2
      <4>6. k[c] = 0 /\ o[c] = (o[c - 1] # (X[c] = "'"))
        BY <1>m, <4>1, <4>3
      <4>7. c - 1 \in 1..L
        BY <1>1, <2>0, <4>1
      <4>8. o[c - 1] = FALSE /\ (X[c] = "'") = FALSE
        BY <1>b, <4>3, <4>5, <4>7
      <4>4. k[c] = 0 /\ ~o[c]
        BY <4>6, <4>8
      <4> QED BY <4>4 DEF c
    <3>6. ASSUME p + b + 3 <= L PROVE k[p + b + 3] = 0 /\ o[p + b + 3]
      <4> DEFINE c == p + b + 3
      <4>1. c \in 1..L /\ c - 1 = p + b + 2 /\ p + b + 2 <= L
        BY <1>1, <2>0, <3>6
      <4>2. X[c] = "'"
        <5>1. 2 \in 0..3 /\ p + b + 1 + 2 = c /\ 2 + 1 = 3 /\ c <= L
          BY <2>0, <3>6
        <5>2. X[p + b + 1 + 2] = Escape[2 + 1]
          BY <2>s, <5>1
        <5> QED BY <5>1, <5>2, EscapeIs
      <4> HIDE DEF c
      <4>3. k[c - 1] = 0 /\ ~o[c - 1]
        BY <3>5, <4>1
      <4>4. k[c] = 0 /\ o[c]
        BY <1>m, <1>b, <4>1, <4>2, <4>3
      <4> QED BY <4>4 DEF c
    <3>7. ASSUME NEW d \in 1..3, p + b + d <= L PROVE k[p + b + d] = 0 /\ o[p + b + d] = (d = 3)
      <4>b. o[p + b + d] \in BOOLEAN
        <5>1. p + b + d \in 1..L
          BY <1>1, <2>0, <3>7
        <5> QED BY <1>b, <5>1
      <4>1. CASE d = 1
        BY <3>4, <3>7, <4>1, <4>b
      <4>2. CASE d = 2
        BY <3>5, <3>7, <4>2, <4>b
      <4>3. CASE d = 3
        BY <3>6, <3>7, <4>3, <4>b
      <4> QED BY <4>1, <4>2, <4>3
    <3>8. EscapeRead(X, o, k, p, b)
      <4> HIDE DEF i
      <4> QED BY <2>2, <3>7 DEF EscapeRead, L
    <3> QED BY <3>8 DEF b
  <2> QED BY <2>1, <2>2
<1>12. ASSUME p + Len(Q) <= L PROVE ~o[p + Len(Q)] /\ k[p + Len(Q)] = 0
  <2> DEFINE i == p + Len(Q)
  <2>1. i \in 1..L /\ i - 1 = p + at[N] /\ p + at[N] <= L /\ i \in Nat
    BY <1>1, <1>n, <1>12
  <2>2. X[i] = "'"
    <3>1. Len(Q) \in 1..Len(Q)
      BY <1>1, <1>n
    <3> QED BY <1>2, <1>3, <1>12, <3>1
  <2>3. i + 1 <= L => X[i + 1] # "\\"
    BY <1>q
  <2> HIDE DEF i
  <2>4. o[i - 1] /\ k[i - 1] = 0
    BY <1>10, <1>n, <2>1
  <2>5. ~EscapeAt(X, i)
    <3> SUFFICES ASSUME EscapeAt(X, i) PROVE FALSE
      OBVIOUS
    <3>1. i + 3 <= L /\ X[i + 1] = Escape[1 + 1]
      <4>1. 1 \in 0..3
        OBVIOUS
      <4> QED BY <1>x, <2>1, <4>1
    <3>2. i + 1 <= L /\ 1 + 1 = 2
      BY <1>1, <2>1, <3>1
    <3> QED BY <2>3, <3>1, <3>2, EscapeIs
  <2>6. k[i] = 0 /\ ~o[i]
    BY <1>m, <1>b, <2>1, <2>2, <2>4, <2>5
  <2> QED BY <2>6 DEF i
<1> QED BY <1>10, <1>11, <1>12 DEF QuoteRead, N, Q, L

\* The loop of ParseImportValue: its states and its runs
UnquoteStart == [parsed |-> <<>>, open |-> FALSE, skip |-> 0, ok |-> TRUE]
UnquoteStates(T) == [parsed : Seq(T), open : BOOLEAN, skip : 0..3, ok : BOOLEAN]
UnquoteRun(X, T, f) ==
  /\ f \in [0..Len(X) -> UnquoteStates(T)]
  /\ f[0] = UnquoteStart
  /\ \A i \in 1..Len(X) : f[i] = UnquoteSymbol(f[i - 1], X, i)

\* An escape begins with a quote.
LEMMA EscapeStart ==
  ASSUME NEW X, NEW i \in Nat, EscapeAt(X, i)
  PROVE  X[i] = "'"
<1>1. 0 \in 0..3 /\ i + 0 = i /\ 0 + 1 = 1
  OBVIOUS
<1>2. X[i + 0] = Escape[0 + 1]
  BY <1>1 DEF EscapeAt
<1> QED BY <1>1, <1>2, EscapeIs

\* UnquoteSymbol keeps the state of the loop of its type.
LEMMA UnquoteSymbolType ==
  ASSUME NEW T, "'" \in T, NEW X \in Seq(T), NEW s \in UnquoteStates(T), NEW i \in 1..Len(X)
  PROVE  UnquoteSymbol(s, X, i) \in UnquoteStates(T)
<1>1. X[i] \in T
  OBVIOUS
<1>2. s.parsed \in Seq(T) /\ s.open \in BOOLEAN /\ s.skip \in 0..3 /\ s.ok \in BOOLEAN
  BY DEF UnquoteStates
<1>3. Append(s.parsed, X[i]) \in Seq(T) /\ Append(s.parsed, "'") \in Seq(T)
  BY <1>1, <1>2
<1>6. CASE s.skip > 0
  <2>1. UnquoteSymbol(s, X, i) = [s EXCEPT !.skip = s.skip - 1]
    BY <1>6 DEF UnquoteSymbol
  <2>2. s.skip - 1 \in 0..3
    BY <1>2, <1>6
  <2> QED BY <2>1, <2>2 DEF UnquoteStates
<1>7. CASE s.skip = 0 /\ s.open /\ EscapeAt(X, i)
  <2>1. UnquoteSymbol(s, X, i) = [s EXCEPT !.parsed = Append(@, "'"), !.skip = 3]
    BY <1>7, EscapeStart DEF UnquoteSymbol
  <2>2. 3 \in 0..3
    OBVIOUS
  <2> QED BY <1>3, <2>1, <2>2 DEF UnquoteStates
<1>8. CASE s.skip = 0 /\ X[i] = "'" /\ ~(s.open /\ EscapeAt(X, i))
  <2>1. UnquoteSymbol(s, X, i) = [s EXCEPT !.open = ~s.open]
    BY <1>8 DEF UnquoteSymbol
  <2> QED BY <2>1 DEF UnquoteStates
<1>9. CASE s.skip = 0 /\ X[i] # "'" /\ s.open /\ ~EscapeAt(X, i)
  <2>1. UnquoteSymbol(s, X, i) = [s EXCEPT !.parsed = Append(s.parsed, X[i])]
    BY <1>9 DEF UnquoteSymbol
  <2> QED BY <1>3, <2>1 DEF UnquoteStates
<1>10. CASE s.skip = 0 /\ X[i] # "'" /\ ~s.open
  <2>1. UnquoteSymbol(s, X, i) = [s EXCEPT !.ok = s.ok /\ X[i] \in White]
    BY <1>10 DEF UnquoteSymbol
  <2>2. (s.ok /\ X[i] \in White) \in BOOLEAN
    OBVIOUS
  <2> QED BY <2>1, <2>2 DEF UnquoteStates
<1> QED BY <1>2, <1>6, <1>7, <1>8, <1>9, <1>10

\* Unquote is the end of a run.
LEMMA Unquoting ==
  ASSUME NEW T, "'" \in T, NEW X \in Seq(T)
  PROVE  \E f : /\ UnquoteRun(X, T, f)
                /\ Unquote(X) = LET end == f[Len(X)] IN
                                IF end.ok /\ ~end.open THEN {end.parsed} ELSE {}
<1> DEFINE N == Len(X)
           D == UnquoteStates(T)
           next == [i \in 1..N |-> [s \in D |-> UnquoteSymbol(s, X, i)]]
           Is(h) == h = [i \in 0..N |-> IF i = 0 THEN UnquoteStart ELSE UnquoteSymbol(h[i - 1], X, i)]
<1>1. N \in Nat /\ UnquoteStart \in D
  BY DEF UnquoteStart, UnquoteStates
<1>2. next \in [1..N -> [D -> D]]
  <2> HIDE DEF D
  <2> QED BY UnquoteSymbolType DEF D
<1>3. PICK f : Runs(f, N, D, UnquoteStart, next)
  <2> HIDE DEF N, D, next
  <2> QED BY <1>1, <1>2, Recursion
<1>4. /\ f \in [0..N -> D] /\ f[0] = UnquoteStart
      /\ \A i \in 1..N : i - 1 \in 0..N /\ f[i] = UnquoteSymbol(f[i - 1], X, i)
  <2>1. f \in [0..N -> D] /\ f[0] = UnquoteStart /\ \A i \in 1..N : f[i] = next[i][f[i - 1]]
    BY <1>3 DEF Runs
  <2> HIDE DEF D
  <2> QED BY <1>1, <2>1
<1>5. Is(f)
  <2> DEFINE g == [i \in 0..N |-> IF i = 0 THEN UnquoteStart ELSE UnquoteSymbol(f[i - 1], X, i)]
  <2> HIDE DEF D, N
  <2>1. \A i \in 0..N : f[i] = g[i]
    BY <1>1, <1>4
  <2>2. f = g
    BY <1>4, <2>1
  <2> QED BY <2>2, Zenon
<1> DEFINE h == CHOOSE h : Is(h)
<1>6. Is(h)
  BY <1>5, Zenon
<1>7. h[N] = f[N]
  <2> HIDE DEF h, D, N, next
  <2>1. h[0] = UnquoteStart /\ \A i \in 1..N : h[i] = UnquoteSymbol(h[i - 1], X, i)
    BY <1>1, <1>6
  <2>2. h[0] = f[0] /\ \A i \in 1..N : h[i - 1] = f[i - 1] => h[i] = f[i]
    BY <1>4, <2>1
  <2> QED BY <1>1, <2>2, SameRun
<1>8. Unquote(X) = LET end == h[N] IN IF end.ok /\ ~end.open THEN {end.parsed} ELSE {}
  BY DEF Unquote, UnquoteStart
<1>9. UnquoteRun(X, T, f)
  BY <1>4 DEF UnquoteRun
<1> HIDE DEF h
<1> QED BY <1>7, <1>8, <1>9

\* What one symbol does
Passes(s, t)  == /\ t.skip = s.skip - 1 /\ t.open = s.open
                 /\ t.parsed = s.parsed /\ t.ok = s.ok
Escapes(s, t) == /\ t.skip = 3 /\ t.open = s.open
                 /\ t.parsed = Append(s.parsed, "'") /\ t.ok = s.ok
Toggles(s, t) == /\ t.skip = 0 /\ t.open = ~s.open
                 /\ t.parsed = s.parsed /\ t.ok = s.ok
Takes(s, t, c)   == /\ t.skip = 0 /\ t.open = s.open
                    /\ t.parsed = Append(s.parsed, c) /\ t.ok = s.ok
Refuses(s, t, c) == /\ t.skip = 0 /\ t.open = s.open
                    /\ t.parsed = s.parsed /\ t.ok = (s.ok /\ c \in White)

\* What a step of the loop does, by the symbol it reads.
LEMMA UnquoteStep ==
  ASSUME NEW T, NEW X \in Seq(T), NEW f, UnquoteRun(X, T, f), NEW i \in 1..Len(X)
  PROVE  /\ f[i - 1].skip > 0 => Passes(f[i - 1], f[i])
         /\ f[i - 1].skip = 0 /\ f[i - 1].open /\ EscapeAt(X, i) => Escapes(f[i - 1], f[i])
         /\ f[i - 1].skip = 0 /\ X[i] = "'" /\ ~(f[i - 1].open /\ EscapeAt(X, i)) => Toggles(f[i - 1], f[i])
         /\ f[i - 1].skip = 0 /\ X[i] # "'" /\ f[i - 1].open /\ ~EscapeAt(X, i) => Takes(f[i - 1], f[i], X[i])
         /\ f[i - 1].skip = 0 /\ X[i] # "'" /\ ~f[i - 1].open => Refuses(f[i - 1], f[i], X[i])
<1> DEFINE s == f[i - 1]
<1>1. f[i] = UnquoteSymbol(s, X, i) /\ s \in UnquoteStates(T)
  BY DEF UnquoteRun
<1> HIDE DEF s
<1>2. /\ s.skip \in 0..3 /\ s.open \in BOOLEAN
      /\ DOMAIN s = {"parsed", "open", "skip", "ok"}
  BY <1>1 DEF UnquoteStates
<1>3. s.skip > 0 => f[i] = [s EXCEPT !.skip = s.skip - 1]
  BY <1>1, <1>2 DEF UnquoteSymbol
<1>4. s.skip = 0 /\ s.open /\ EscapeAt(X, i) => f[i] = [s EXCEPT !.parsed = Append(@, "'"), !.skip = 3]
  BY <1>1, <1>2, EscapeStart DEF UnquoteSymbol
<1>5. s.skip = 0 /\ X[i] = "'" /\ ~(s.open /\ EscapeAt(X, i)) => f[i] = [s EXCEPT !.open = ~s.open]
  BY <1>1, <1>2 DEF UnquoteSymbol
<1>6. s.skip = 0 /\ X[i] # "'" /\ s.open /\ ~EscapeAt(X, i) => f[i] = [s EXCEPT !.parsed = Append(s.parsed, X[i])]
  BY <1>1, <1>2 DEF UnquoteSymbol
<1>7. s.skip = 0 /\ X[i] # "'" /\ ~s.open => f[i] = [s EXCEPT !.ok = s.ok /\ X[i] \in White]
  BY <1>1, <1>2 DEF UnquoteSymbol
<1>8. s \in UnquoteStates(T)
  BY <1>1
<1>13. s.skip > 0 => Passes(s, f[i])
  BY <1>8, <1>3 DEF UnquoteStates, Passes
<1>14. s.skip = 0 /\ s.open /\ EscapeAt(X, i) => Escapes(s, f[i])
  BY <1>8, <1>4 DEF UnquoteStates, Escapes
<1>15. s.skip = 0 /\ X[i] = "'" /\ ~(s.open /\ EscapeAt(X, i)) => Toggles(s, f[i])
  BY <1>8, <1>5 DEF UnquoteStates, Toggles
<1>16. s.skip = 0 /\ X[i] # "'" /\ s.open /\ ~EscapeAt(X, i) => Takes(s, f[i], X[i])
  BY <1>8, <1>6 DEF UnquoteStates, Takes
<1>17. s.skip = 0 /\ X[i] # "'" /\ ~s.open => Refuses(s, f[i], X[i])
  BY <1>8, <1>7 DEF UnquoteStates, Refuses
<1> QED BY <1>13, <1>14, <1>15, <1>16, <1>17 DEF s

\* The quotes and escapes of ParseImportValue,
LEMMA UnquoteModes ==
  ASSUME NEW T, NEW X \in Seq(T), NEW f, UnquoteRun(X, T, f)
  PROVE  ModeRun(X, [i \in 0..Len(X) |-> f[i].open], [i \in 0..Len(X) |-> f[i].skip])
<1> DEFINE N == Len(X)
           o == [i \in 0..N |-> f[i].open]
           k == [i \in 0..N |-> f[i].skip]
<1>1. N \in Nat
  OBVIOUS
<1>2. \A i \in 0..N : f[i].open \in BOOLEAN /\ f[i].skip \in 0..3
  BY DEF UnquoteRun, UnquoteStates
<1>3. o \in [0..N -> BOOLEAN]
  BY <1>2
<1>4. ASSUME NEW i \in 1..N
      PROVE IF k[i - 1] > 0 THEN k[i] = k[i - 1] - 1 /\ o[i] = o[i - 1]
            ELSE IF o[i - 1] /\ EscapeAt(X, i) THEN k[i] = 3 /\ o[i] = o[i - 1]
            ELSE k[i] = 0 /\ o[i] = (o[i - 1] # (X[i] = "'"))
  <2>1. i \in 0..N /\ i - 1 \in 0..N
    BY <1>1
  <2>2. k[i - 1] = f[i - 1].skip /\ k[i] = f[i].skip /\ o[i - 1] = f[i - 1].open /\ o[i] = f[i].open
    BY <2>1
  <2>3. f[i - 1].skip \in 0..3 /\ f[i - 1].open \in BOOLEAN
    BY <1>2, <2>1
  <2> HIDE DEF o, k
  <2>4. CASE f[i - 1].skip > 0
    <3>1. Passes(f[i - 1], f[i])
      BY <2>4, UnquoteStep
    <3> QED BY <2>2, <2>4, <3>1 DEF Passes
  <2>5. CASE f[i - 1].skip = 0 /\ f[i - 1].open /\ EscapeAt(X, i)
    <3>1. Escapes(f[i - 1], f[i])
      BY <2>5, UnquoteStep
    <3> QED BY <2>2, <2>5, <3>1 DEF Escapes
  <2>6. CASE f[i - 1].skip = 0 /\ ~(f[i - 1].open /\ EscapeAt(X, i))
    <3>1. CASE X[i] = "'"
      <4>1. Toggles(f[i - 1], f[i])
        BY <2>6, <3>1, UnquoteStep
      <4> QED BY <2>2, <2>3, <2>6, <3>1, <4>1 DEF Toggles
    <3>2. CASE X[i] # "'"
      <4>1. Takes(f[i - 1], f[i], X[i]) \/ Refuses(f[i - 1], f[i], X[i])
        BY <2>3, <2>6, <3>2, UnquoteStep
      <4> QED BY <2>2, <2>3, <2>6, <3>2, <4>1 DEF Takes, Refuses
    <3> QED BY <3>1, <3>2
  <2> QED BY <2>3, <2>4, <2>5, <2>6
<1> HIDE DEF o, k
<1> QED BY <1>3, <1>4 DEF ModeRun, o, k, N

\* A beginning that is one symbol longer.
LEMMA OneMore ==
  ASSUME NEW T, NEW v \in Seq(T), NEW j \in 1..Len(v)
  PROVE  Append(SubSeq(v, 1, j - 1), v[j]) = SubSeq(v, 1, j)
<1> DEFINE a == SubSeq(v, 1, j - 1)
           b == SubSeq(v, 1, j)
<1>1. /\ Len(v) \in Nat /\ j \in Nat /\ a \in Seq(T) /\ Len(a) = j - 1
      /\ \A i \in 1..j - 1 : a[i] = v[i]
  OBVIOUS
<1>2. b \in Seq(T) /\ Len(b) = j /\ \A i \in 1..j : b[i] = v[i]
  OBVIOUS
<1>3. v[j] \in T
  OBVIOUS
<1> DEFINE c == Append(a, v[j])
<1> HIDE DEF a, b
<1>4. c \in Seq(T) /\ Len(c) = j /\ c[j] = v[j] /\ \A i \in 1..j - 1 : c[i] = v[i]
  <2> DEFINE y == v[j]
  <2>1. y \in T
    BY <1>3
  <2> HIDE DEF y
  <2>2. Append(a, y) \in Seq(T) /\ Len(Append(a, y)) = j /\ Append(a, y)[j] = y
        /\ \A i \in 1..j - 1 : Append(a, y)[i] = v[i]
    BY <1>1, <2>1
  <2> QED BY <2>2 DEF y
<1> HIDE DEF c
<1>5. \A i \in 1..j : c[i] = b[i]
  BY <1>1, <1>2, <1>4
<1>6. c = b
  BY <1>1, <1>2, <1>4, <1>5
<1> QED BY <1>6 DEF a, b, c

\* What is read of a value is a beginning of it, and all of it from the whole text
LEMMA UnquoteCut ==
  ASSUME NEW T, Marks \subseteq T, NEW v \in Seq(T), NEW m \in 1..Len(ShellQuote(v))
  PROVE  /\ Unquote(SubSeq(ShellQuote(v), 1, m)) \subseteq {SubSeq(v, 1, j) : j \in 0..Len(v)}
         /\ m = Len(ShellQuote(v)) => Unquote(SubSeq(ShellQuote(v), 1, m)) = {v}
<1> DEFINE Q == ShellQuote(v)
           N == Len(v)
           X == SubSeq(Q, 1, m)
<1>1. N \in Nat /\ Q \in Seq(T) /\ Len(Q) \in Nat /\ m \in Nat /\ m >= 1 /\ m <= Len(Q) /\ "'" \in T
  <2>1. Q \in Seq(T)
    BY Quoting
  <2>2. "'" \in T
    BY DEF Marks
  <2>3. Len(Q) \in Nat /\ m \in 1..Len(Q)
    BY <2>1
  <2> HIDE DEF Q
  <2> QED BY <2>1, <2>2, <2>3
<1> HIDE DEF Q
<1>2. X \in Seq(T) /\ Len(X) = m /\ \A q \in 1..m : X[q] = Q[q]
  BY <1>1
<1> HIDE DEF X
<1>3. PICK f : /\ UnquoteRun(X, T, f)
               /\ Unquote(X) = LET end == f[Len(X)] IN IF end.ok /\ ~end.open THEN {end.parsed} ELSE {}
  BY <1>1, <1>2, Unquoting
<1> DEFINE o == [i \in 0..Len(X) |-> f[i].open]
           k == [i \in 0..Len(X) |-> f[i].skip]
<1>4. /\ \A i \in 0..m : o[i] = f[i].open /\ k[i] = f[i].skip
      /\ \A i \in 0..m : f[i].open \in BOOLEAN /\ f[i].skip \in 0..3 /\ f[i].parsed \in Seq(T)
      /\ f[0] = UnquoteStart
  BY <1>2, <1>3 DEF UnquoteRun, UnquoteStates
<1>5. ModeRun(X, o, k)
  BY <1>2, <1>3, UnquoteModes
<1> HIDE DEF o, k
<1>6. PICK at : Offsets(v, at)
  BY Quoting
<1>7. QuoteRead(X, o, k, 0, v, at)
  <2>1. ~o[0] /\ k[0] = 0
    BY <1>1, <1>4 DEF UnquoteStart
  <2>2. Shows(X, 0, Q)
    BY <1>1, <1>2 DEF Shows
  <2>3. ~(0 + Len(Q) + 1 <= Len(X)) /\ 0 \in Nat
    BY <1>1, <1>2
  <2> QED BY <1>2, <1>5, <1>6, <2>1, <2>2, <2>3, QuoteIsRead DEF Q
<1>8. /\ \A j \in 0..N : at[j] \in Nat \ {0} /\ at[j] <= at[N]
      /\ at[0] = 1 /\ Len(Q) = at[N] + 1 /\ Q[1] = "'" /\ Q[Len(Q)] = "'"
      /\ \A j \in 1..N :
           IF v[j] = "'" THEN at[j] = at[j - 1] + 4 /\ \A d \in 0..3 : Q[at[j - 1] + 1 + d] = Escape[d + 1]
           ELSE at[j] = at[j - 1] + 1 /\ Q[at[j]] = v[j]
  BY <1>6 DEF Offsets, Q
<1>9. /\ N \in 0..N /\ Len(Q) = at[N] + 1 /\ at[N] \in Nat /\ at[N] >= 1
      /\ \A j \in 1..N : j \in 0..N /\ j - 1 \in 0..N /\ at[j] \in Nat /\ at[j - 1] \in Nat /\ at[j - 1] >= 1
  <2>1. N \in 0..N /\ \A j \in 1..N : j \in 0..N /\ j - 1 \in 0..N
    BY <1>1
  <2>2. \A j \in 0..N : at[j] \in Nat \ {0}
    BY <1>8
  <2>3. Len(Q) = at[N] + 1
    BY <1>8
  <2> HIDE DEF N
  <2>4. \A j \in 0..N : at[j] \in Nat /\ at[j] >= 1
    BY <2>2
  <2> QED BY <2>1, <2>3, <2>4
<1>10. \A j \in 0..N : at[j] <= m => f[at[j]].open /\ f[at[j]].skip = 0
  <2> SUFFICES ASSUME NEW j \in 0..N, at[j] <= m PROVE f[at[j]].open /\ f[at[j]].skip = 0
    OBVIOUS
  <2> DEFINE b == at[j]
  <2>1. b \in 0..m /\ 0 + b = b
    BY <1>1, <1>8
  <2>2. 0 + b <= Len(X) => o[0 + b] /\ k[0 + b] = 0
    BY <1>7 DEF QuoteRead
  <2> HIDE DEF b
  <2>3. f[b].open /\ f[b].skip = 0
    BY <1>2, <1>4, <2>1, <2>2
  <2> QED BY <2>3 DEF b
<1>11. ASSUME NEW j \in 1..N, v[j] = "'"
       PROVE  LET b == at[j - 1] IN
              IF b + 4 <= m THEN EscapeAt(X, b + 1) /\ \A d \in 1..3 : f[b + d].open /\ f[b + d].skip = 4 - d
              ELSE \A d \in 1..3 : b + d <= m => f[b + d].skip = 0 /\ f[b + d].open = (d = 3)
  <2> DEFINE b == at[j - 1]
  <2>1. EscapeRead(X, o, k, 0, b)
    BY <1>7, <1>11 DEF QuoteRead
  <2>2. b \in Nat
    BY <1>9
  <2> HIDE DEF b
  <2>3. 0 + b + 4 = b + 4 /\ 0 + b + 1 = b + 1 /\ \A d \in 1..3 : 0 + b + d = b + d
    BY <2>2
  <2>4. CASE b + 4 <= m
    <3>1. EscapeAt(X, b + 1) /\ \A d \in 1..3 : o[b + d] /\ k[b + d] = 4 - d
      BY <1>2, <2>1, <2>3, <2>4 DEF EscapeRead
    <3>2. \A d \in 1..3 : b + d \in 0..m
      BY <1>1, <2>2, <2>4
    <3> QED BY <1>4, <2>4, <3>1, <3>2 DEF b
  <2>5. CASE ~(b + 4 <= m)
    <3>1. \A d \in 1..3 : b + d <= m => k[b + d] = 0 /\ o[b + d] = (d = 3)
      BY <1>2, <2>1, <2>3, <2>5 DEF EscapeRead
    <3>2. \A d \in 1..3 : b + d <= m => b + d \in 0..m
      BY <1>1, <2>2
    <3>3. \A d \in 1..3 : b + d <= m => f[b + d].skip = 0 /\ f[b + d].open = (d = 3)
      BY <1>4, <3>1, <3>2
    <3> QED BY <2>5, <3>3 DEF b
  <2> QED BY <2>4, <2>5
<1>p. \A i \in 1..m : f[i - 1].skip > 0 => Passes(f[i - 1], f[i])
  BY <1>2, <1>3, UnquoteStep
<1>e. \A i \in 1..m : f[i - 1].skip = 0 /\ f[i - 1].open /\ EscapeAt(X, i) => Escapes(f[i - 1], f[i])
  BY <1>2, <1>3, UnquoteStep
<1>t. \A i \in 1..m : f[i - 1].skip = 0 /\ X[i] = "'" /\ ~(f[i - 1].open /\ EscapeAt(X, i)) => Toggles(f[i - 1], f[i])
  BY <1>2, <1>3, UnquoteStep
<1>k. \A i \in 1..m : f[i - 1].skip = 0 /\ X[i] # "'" /\ f[i - 1].open /\ ~EscapeAt(X, i) => Takes(f[i - 1], f[i], X[i])
  BY <1>2, <1>3, UnquoteStep
<1>r. \A i \in 1..m : f[i - 1].skip = 0 /\ X[i] # "'" /\ ~f[i - 1].open => Refuses(f[i - 1], f[i], X[i])
  BY <1>2, <1>3, UnquoteStep
<1> DEFINE U == {j \in 0..N : at[j] <= m => f[at[j]].parsed = SubSeq(v, 1, j) /\ f[at[j]].ok}
<1>12. 0 \in U
  <2>1. 1 \in 1..m /\ 1 - 1 = 0 /\ X[1] = "'" /\ 0 \in 0..N
    BY <1>1, <1>2, <1>8
  <2>2. f[0].skip = 0 /\ f[0].open = FALSE /\ f[0].parsed = <<>> /\ f[0].ok
    BY <1>4 DEF UnquoteStart
  <2>3. Toggles(f[0], f[1])
    BY <1>t, <2>1, <2>2
  <2>4. SubSeq(v, 1, 0) = <<>>
    OBVIOUS
  <2>5. f[1].parsed = <<>> /\ f[1].ok
    BY <2>2, <2>3 DEF Toggles
  <2> QED BY <1>8, <2>1, <2>4, <2>5
<1>13. ASSUME NEW j \in 1..N, j - 1 \in U PROVE j \in U
  <2> SUFFICES ASSUME at[j] <= m PROVE f[at[j]].parsed = SubSeq(v, 1, j) /\ f[at[j]].ok
    BY <1>9
  <2> DEFINE b == at[j - 1]
             c == at[j]
  <2>1. b \in Nat /\ c \in Nat /\ c <= m
    BY <1>9
  <2>2. IF v[j] = "'" THEN c = b + 4 ELSE c = b + 1 /\ Q[c] = v[j]
    BY <1>8
  <2>3. b <= m => f[b].parsed = SubSeq(v, 1, j - 1) /\ f[b].ok
    BY <1>13
  <2>4. b <= m => f[b].open /\ f[b].skip = 0
    BY <1>9, <1>10
  <2>5. v[j] = "'" => IF b + 4 <= m THEN EscapeAt(X, b + 1) /\ \A d \in 1..3 : f[b + d].open /\ f[b + d].skip = 4 - d
              ELSE \A d \in 1..3 : b + d <= m => f[b + d].skip = 0 /\ f[b + d].open = (d = 3)
    BY <1>11
  <2> HIDE DEF b, c
  <2>6. b + 1 \in 1..m /\ (b + 1) - 1 = b /\ b <= m
    BY <1>1, <2>1, <2>2
  <2>7. CASE v[j] = "'"
    <3>1. /\ c = b + 4 /\ EscapeAt(X, b + 1) /\ f[b + 1].skip = 3 /\ f[b + 2].skip = 2 /\ f[b + 3].skip = 1
      <4>1. b + 4 <= m /\ 1 \in 1..3 /\ 2 \in 1..3 /\ 3 \in 1..3 /\ 4 - 1 = 3 /\ 4 - 2 = 2 /\ 4 - 3 = 1
        BY <2>1, <2>2, <2>7
      <4> QED BY <2>2, <2>5, <2>7, <4>1
    <3>2. Escapes(f[b], f[b + 1])
      BY <1>e, <2>4, <2>6, <3>1
    <3>3. b + 2 \in 1..m /\ (b + 2) - 1 = b + 1 /\ b + 3 \in 1..m /\ (b + 3) - 1 = b + 2
          /\ b + 4 \in 1..m /\ (b + 4) - 1 = b + 3
      BY <1>1, <2>1, <3>1
    <3>4. Passes(f[b + 1], f[b + 2])
      BY <1>p, <3>1, <3>3
    <3>5. Passes(f[b + 2], f[b + 3])
      BY <1>p, <3>1, <3>3
    <3>6. Passes(f[b + 3], f[b + 4])
      BY <1>p, <3>1, <3>3
    <3>7. f[c].parsed = Append(f[b].parsed, "'") /\ f[c].ok = f[b].ok
      BY <3>1, <3>2, <3>4, <3>5, <3>6 DEF Passes, Escapes
    <3>8. f[c].parsed = Append(SubSeq(v, 1, j - 1), v[j]) /\ f[c].ok
      BY <2>3, <2>6, <2>7, <3>7
    <3> QED BY <3>8, OneMore DEF c
  <2>8. CASE v[j] # "'"
    <3>1. c = b + 1 /\ X[c] = v[j]
      BY <1>2, <2>2, <2>6, <2>8
    <3>2. ~EscapeAt(X, c) /\ X[c] # "'"
      BY <2>1, <2>8, <3>1, EscapeStart
    <3>3. Takes(f[b], f[c], X[c])
      BY <1>k, <2>4, <2>6, <3>1, <3>2
    <3>4. f[c].parsed = Append(SubSeq(v, 1, j - 1), v[j]) /\ f[c].ok
      BY <2>3, <2>6, <3>1, <3>3 DEF Takes
    <3> QED BY <3>4, OneMore DEF c
  <2> QED BY <2>7, <2>8
<1>14. 0..N \subseteq U
  <2> HIDE DEF U
  <2> QED BY <1>1, <1>12, <1>13, UpTo
<1>15. \A j \in 0..N : at[j] <= m => f[at[j]].parsed = SubSeq(v, 1, j) /\ f[at[j]].ok
  BY <1>14
<1>16. \A i \in 1..m : EscapeAt(X, i) => i + 3 <= m
  BY <1>2 DEF EscapeAt
<1>17. CASE m = Len(Q)
  <2> DEFINE b == at[N]
  <2>1. b \in Nat /\ m = b + 1 /\ f[b].parsed = SubSeq(v, 1, N) /\ f[b].ok /\ f[b].open /\ f[b].skip = 0
    <3>1. b \in Nat /\ m = b + 1 /\ b <= m
      BY <1>9, <1>17
    <3> QED BY <1>9, <1>10, <1>15, <3>1
  <2> HIDE DEF b
  <2>2. m \in 1..m /\ m - 1 = b /\ X[m] = "'" /\ ~(m + 3 <= m)
    BY <1>1, <1>2, <1>8, <1>17, <2>1
  <2>3. Toggles(f[b], f[m])
    BY <1>t, <1>16, <2>1, <2>2
  <2>4. SubSeq(v, 1, N) = v
    OBVIOUS
  <2>5. f[m].parsed = v /\ f[m].ok /\ ~f[m].open
    BY <2>1, <2>3, <2>4 DEF Toggles
  <2>6. Unquote(X) = {v}
    BY <1>2, <1>3, <2>5
  <2> QED BY <1>1, <2>4, <2>6 DEF X, Q
<1>18. CASE m # Len(Q)
  <2>1. PICK j \in 0..N : at[j] <= m /\ \A i \in 0..N : at[i] <= m => i <= j
    <3> DEFINE K == {i \in 0..N : at[i] <= m}
    <3>1. 0 \in K /\ K \in SUBSET (0..N)
      BY <1>1, <1>8
    <3>2. PICK j \in K : \A i \in K : i <= j
      <4> HIDE DEF K
      <4> QED BY <1>1, <3>1, Greatest
    <3> QED BY <3>2
  <2> DEFINE b == at[j]
             Good == {SubSeq(v, 1, i) : i \in 0..N}
  <2>2. /\ b \in Nat /\ b <= m /\ f[b].parsed = SubSeq(v, 1, j) /\ f[b].ok /\ f[b].open /\ f[b].skip = 0
        /\ SubSeq(v, 1, j) \in Good
    BY <1>8, <1>10, <1>15, <2>1
  <2> SUFFICES ASSUME f[m].ok, ~f[m].open PROVE f[m].parsed \in Good
    BY <1>2, <1>3, <1>18 DEF X, Q
  <2>3. b < m
    BY <1>1, <2>2
  <2>4. j + 1 \in 1..N /\ (j + 1) - 1 = j
    <3>1. j # N
      BY <1>1, <1>9, <1>18, <2>3
    <3> QED BY <1>1, <3>1
  <2>5. ~(at[j + 1] <= m) /\ at[j + 1] \in Nat
    <3>1. ~(j + 1 <= j) /\ j + 1 \in 0..N
      BY <2>4
    <3> QED BY <1>8, <2>1, <3>1
  <2>6. v[j + 1] = "'" /\ at[j + 1] = b + 4 /\ Q[b + 1 + 1] = "\\" /\ Q[b + 1 + 0] = "'"
    <3>1. IF v[j + 1] = "'" THEN at[j + 1] = b + 4 /\ \A d \in 0..3 : Q[b + 1 + d] = Escape[d + 1]
          ELSE at[j + 1] = b + 1
      BY <1>8, <2>4
    <3>2. at[j + 1] # b + 1 /\ 0 \in 0..3 /\ 1 \in 0..3 /\ 0 + 1 = 1 /\ 1 + 1 = 2
      BY <1>1, <2>2, <2>3, <2>5
    <3> QED BY <3>1, <3>2, EscapeIs
  <2>7. ~(b + 4 <= m) /\ \A d \in 1..3 : b + d <= m => f[b + d].skip = 0 /\ f[b + d].open = (d = 3)
    BY <1>11, <2>4, <2>5, <2>6
  <2> HIDE DEF b, Good
  <2>8. m = b + 1 \/ m = b + 2 \/ m = b + 3
    BY <1>1, <2>2, <2>3, <2>7
  <2>9. CASE m = b + 1
    <3>1. m \in 1..m /\ m - 1 = b /\ X[m] = "'" /\ ~(m + 3 <= m)
      <4>1. b + 1 + 0 = m
        BY <2>2, <2>9
      <4> QED BY <1>1, <1>2, <2>2, <2>6, <2>9, <4>1
    <3>2. Toggles(f[b], f[m])
      BY <1>t, <1>16, <2>2, <3>1
    <3> QED BY <2>2, <3>2 DEF Toggles
  <2>10. CASE m = b + 2
    <3>1. m \in 1..m /\ m - 1 = b + 1 /\ b + 1 <= m /\ X[m] = "\\"
      <4>1. b + 1 + 1 = m
        BY <2>2, <2>10
      <4> QED BY <1>1, <1>2, <2>2, <2>6, <2>10, <4>1
    <3>2. f[b + 1].skip = 0 /\ f[b + 1].open = FALSE
      <4>1. 1 \in 1..3 /\ (1 = 3) = FALSE
        OBVIOUS
      <4> QED BY <2>7, <3>1, <4>1
    <3>3. Refuses(f[b + 1], f[m], "\\")
      BY <1>r, <3>1, <3>2
    <3>4. ~f[m].ok
      BY <3>3 DEF Refuses, White
    <3> QED BY <3>4
  <2>11. CASE m = b + 3
    <3>1. f[m].open
      <4>1. 3 \in 1..3 /\ b + 3 <= m /\ (3 = 3) = TRUE
        BY <1>1, <2>11
      <4> QED BY <2>7, <2>11, <4>1
    <3> QED BY <3>1
  <2> QED BY <2>8, <2>9, <2>10, <2>11
<1> QED BY <1>17, <1>18

-----------------------------------------------------------------------------
(* The lines of an export                                                   *)

\* A text that begins with no white space is cut short by TrimSpace, or not
LEMMA TrimEnd ==
  ASSUME NEW T, NEW a \in Seq(T), a # <<>>, a[1] \notin White
  PROVE  \E n \in 1..Len(a) : TrimSpace(a) = SubSeq(a, 1, n) /\ (a[Len(a)] \notin White => n = Len(a))
<1> DEFINE kept == {i \in DOMAIN a : a[i] \notin White}
           N == Len(a)
<1>1. N \in Nat /\ 1 \in kept /\ DOMAIN a = 1..N
  OBVIOUS
<1>2. kept \in SUBSET (0..N) /\ kept \in SUBSET Nat /\ kept # {} /\ \A i \in kept : i \in 1..N
  BY <1>1
<1>3. TrimSpace(a) = SubSeq(a, Min(kept), Max(kept))
  BY <1>1, Zenon DEF TrimSpace, Trim
<1>4. N \in kept <=> a[N] \notin White
  BY <1>1
<1> HIDE DEF kept, N
<1>5. Min(kept) \in kept /\ \A y \in kept : Min(kept) <= y
  BY <1>2, MinIsLeast
<1>6. Max(kept) \in kept /\ \A y \in kept : y <= Max(kept)
  BY <1>1, <1>2, MaxIsGreatest
<1>7. Min(kept) = 1
  <2>1. Min(kept) <= 1 /\ Min(kept) \in 1..N
    BY <1>1, <1>2, <1>5
  <2> QED BY <1>1, <2>1
<1>8. a[N] \notin White => Max(kept) = N
  <2> SUFFICES ASSUME a[N] \notin White PROVE Max(kept) = N
    OBVIOUS
  <2>1. N \in kept
    BY <1>4
  <2>2. N <= Max(kept) /\ Max(kept) \in 1..N
    BY <1>2, <1>6, <2>1
  <2> QED BY <1>1, <2>2
<1> QED BY <1>2, <1>3, <1>6, <1>7, <1>8 DEF N

\* A beginning of a beginning.
LEMMA SubSub ==
  ASSUME NEW T, NEW a \in Seq(T), NEW m \in 0..Len(a), NEW n \in 0..m
  PROVE  SubSeq(SubSeq(a, 1, m), 1, n) = SubSeq(a, 1, n)
OBVIOUS

\* Texts of one symbol.
LEMMA OneSymbol ==
  ASSUME NEW T, NEW x \in T
  PROVE  <<x>> \in Seq(T) /\ Len(<<x>>) = 1 /\ <<x>>[1] = x
OBVIOUS

LEMMA OneLong ==
  ASSUME NEW T, NEW a \in Seq(T), Len(a) = 1
  PROVE  a = <<a[1]>>
<1> DEFINE x == a[1]
           b == <<x>>
<1>1. x \in T
  OBVIOUS
<1>2. b \in Seq(T) /\ Len(b) = 1 /\ b[1] = x
  <2> HIDE DEF x
  <2> QED BY <1>1, OneSymbol
<1> HIDE DEF b
<1>3. a = b
  BY <1>2
<1> QED BY <1>3 DEF b

LEMMA FirstOf ==
  ASSUME NEW T, NEW a \in Seq(T), Len(a) >= 1
  PROVE  SubSeq(a, 1, 1) = <<a[1]>>
<1> DEFINE b == SubSeq(a, 1, 1)
<1>1. b \in Seq(T) /\ Len(b) = 1 /\ \A q \in 1..1 : b[q] = a[q]
  <2>1. 1 \in 0..Len(a)
    OBVIOUS
  <2>2. \A n \in 0..Len(a) : /\ SubSeq(a, 1, n) \in Seq(T) /\ Len(SubSeq(a, 1, n)) = n
                             /\ \A q \in 1..n : SubSeq(a, 1, n)[q] = a[q]
    OBVIOUS
  <2> QED BY <2>1, <2>2
<1> HIDE DEF b
<1>2. b = <<b[1]>>
  BY <1>1, OneLong
<1>3. b[1] = a[1]
  <2>1. 1 \in 1..1
    OBVIOUS
  <2> QED BY <1>1, <2>1
<1> QED BY <1>2, <1>3 DEF b

\* c is a and then b
Joint(a, b, c) ==
  /\ Len(a) \in Nat /\ Len(b) \in Nat /\ Len(c) = Len(a) + Len(b)
  /\ \A q \in 1..Len(a) : c[q] = a[q]
  /\ \A q \in 1..Len(b) : c[Len(a) + q] = b[q]

\* Concatenation, as one predicate.
LEMMA Joining ==
  ASSUME NEW T, NEW a \in Seq(T), NEW b \in Seq(T)
  PROVE  a \o b \in Seq(T) /\ Joint(a, b, a \o b)
BY DEF Joint

\* E is the line of key k and quoted value Q
LineIs(E, k, Q) ==
  /\ Len(E) = Len(k) + Len(Q) + 3
  /\ E[1] = "export " /\ E[Len(k) + 2] = "=" /\ E[Len(E)] = "nl"
  /\ \A q \in 1..Len(k) : E[1 + q] = k[q]
  /\ \A q \in 1..Len(Q) : E[Len(k) + 2 + q] = Q[q]

\* Where the parts of a line of an export stand.
LEMMA LineLayout ==
  ASSUME NEW T, Marks \subseteq T, NEW k \in Seq(T), NEW v \in Seq(T)
  PROVE  ExportLine(k, v) \in Seq(T) /\ LineIs(ExportLine(k, v), k, ShellQuote(v))
<1> DEFINE Q == ShellQuote(v)
           E == ExportLine(k, v)
           K == Len(k)
           M == Len(Q)
           e == <<"export ">>
           g == <<"=">>
           z == <<"nl">>
           a == e \o k
           b == a \o g
           c == b \o Q
           d == c \o z
<1>1. Q \in Seq(T) /\ E = d
  BY Quoting DEF ExportLine
<1>2. /\ e \in Seq(T) /\ Len(e) = 1 /\ e[1] = "export "
      /\ g \in Seq(T) /\ Len(g) = 1 /\ g[1] = "="
      /\ z \in Seq(T) /\ Len(z) = 1 /\ z[1] = "nl"
  <2>1. "export " \in T /\ "=" \in T /\ "nl" \in T
    BY DEF Marks
  <2> QED BY <2>1, OneSymbol
<1> HIDE DEF Q, E, e, g, z
<1>3. K \in Nat /\ M \in Nat
  BY <1>1
<1>4. a \in Seq(T) /\ Len(a) = K + 1 /\ a[1] = "export " /\ \A q \in 1..K : a[1 + q] = k[q]
  <2>1. /\ a \in Seq(T) /\ Len(a) = 1 + K
        /\ \A q \in 1..1 : a[q] = e[q]
        /\ \A q \in 1..K : a[1 + q] = k[q]
    <3>1. a \in Seq(T) /\ Joint(e, k, a)
      BY <1>2, Joining
    <3> HIDE DEF a
    <3> QED BY <1>2, <3>1 DEF Joint
  <2>2. 1 \in 1..1 /\ 1 + K = K + 1
    BY <1>3
  <2> HIDE DEF a, K
  <2> QED BY <1>2, <2>1, <2>2
<1> HIDE DEF a
<1>5. b \in Seq(T) /\ Len(b) = K + 2 /\ b[K + 2] = "=" /\ \A q \in 1..K + 1 : b[q] = a[q]
  <2>1. /\ b \in Seq(T) /\ Len(b) = (K + 1) + 1
        /\ \A q \in 1..K + 1 : b[q] = a[q]
        /\ \A q \in 1..1 : b[(K + 1) + q] = g[q]
    <3>1. b \in Seq(T) /\ Joint(a, g, b)
      BY <1>2, <1>4, Joining
    <3> HIDE DEF b, K
    <3> QED BY <1>2, <1>4, <3>1 DEF Joint
  <2>2. 1 \in 1..1 /\ (K + 1) + 1 = K + 2
    BY <1>3
  <2> HIDE DEF b, K
  <2> QED BY <1>2, <2>1, <2>2
<1> HIDE DEF b
<1>6. c \in Seq(T) /\ Len(c) = K + 2 + M /\ (\A q \in 1..K + 2 : c[q] = b[q]) /\ \A q \in 1..M : c[K + 2 + q] = Q[q]
  <2>1. c \in Seq(T) /\ Joint(b, Q, c)
    BY <1>1, <1>5, Joining
  <2> HIDE DEF c, K
  <2> QED BY <1>5, <2>1 DEF Joint
<1> HIDE DEF c
<1>7. d \in Seq(T) /\ Len(d) = K + 2 + M + 1 /\ d[K + 2 + M + 1] = "nl" /\ \A q \in 1..K + 2 + M : d[q] = c[q]
  <2>1. /\ d \in Seq(T) /\ Len(d) = (K + 2 + M) + 1
        /\ \A q \in 1..K + 2 + M : d[q] = c[q]
        /\ \A q \in 1..1 : d[(K + 2 + M) + q] = z[q]
    <3>1. d \in Seq(T) /\ Joint(c, z, d)
      BY <1>2, <1>6, Joining
    <3> HIDE DEF d, K, M
    <3> QED BY <1>2, <1>6, <3>1 DEF Joint
  <2>2. 1 \in 1..1
    OBVIOUS
  <2> HIDE DEF d, K, M
  <2> QED BY <1>2, <2>1, <2>2
<1> HIDE DEF K, M
<1> HIDE DEF d
<1>8. d[1] = "export " /\ d[K + 2] = "=" /\ Len(d) = K + M + 3
  <2>1. 1 \in 1..K + 1 /\ 1 \in 1..K + 2 /\ 1 \in 1..K + 2 + M /\ K + 2 \in 1..K + 2 /\ K + 2 \in 1..K + 2 + M
    BY <1>3
  <2>2. d[1] = a[1] /\ d[K + 2] = b[K + 2]
    BY <1>5, <1>6, <1>7, <2>1
  <2>3. Len(d) = K + M + 3
    BY <1>3, <1>7
  <2> QED BY <1>4, <1>5, <2>2, <2>3
<1>9. \A q \in 1..K : d[1 + q] = k[q]
  <2> SUFFICES ASSUME NEW q \in 1..K PROVE d[1 + q] = k[q]
    OBVIOUS
  <2>1. 1 + q \in 1..K + 1 /\ 1 + q \in 1..K + 2 /\ 1 + q \in 1..K + 2 + M
    BY <1>3
  <2>2. d[1 + q] = a[1 + q]
    BY <1>5, <1>6, <1>7, <2>1
  <2> QED BY <1>4, <2>2
<1>10. \A q \in 1..M : d[K + 2 + q] = Q[q]
  <2> SUFFICES ASSUME NEW q \in 1..M PROVE d[K + 2 + q] = Q[q]
    OBVIOUS
  <2>1. K + 2 + q \in 1..K + 2 + M
    BY <1>3
  <2> QED BY <1>6, <1>7, <2>1
<1>11. d[Len(d)] = "nl"
  BY <1>7
<1> QED BY <1>1, <1>7, <1>8, <1>9, <1>10, <1>11 DEF LineIs, Q, E, K, M

\* IndexOf finds the "=" behind the key, which has none (ValidateKey).
LEMMA FirstEquals ==
  ASSUME NEW T, NEW b \in Seq(T), NEW n \in 1..Len(b), b[n] = "=", \A q \in 1..n - 1 : b[q] # "="
  PROVE  IndexOf(b, "=") = n
<1> DEFINE P == {i \in DOMAIN b : b[i] = "="}
<1>1. n \in P /\ P \in SUBSET Nat /\ \A i \in P : n <= i
  OBVIOUS
<1>2. "=" \in ToSet(b)
  BY DEF ToSet
<1>3. IndexOf(b, "=") = Min(P)
  BY <1>2 DEF IndexOf
<1> HIDE DEF P
<1>4. Min(P) \in P /\ \A y \in P : Min(P) <= y
  BY <1>1, MinIsLeast
<1>5. Min(P) <= n /\ n <= Min(P) /\ Min(P) \in Nat /\ n \in Nat
  BY <1>1, <1>4
<1>6. Min(P) = n
  BY <1>5
<1> QED BY <1>3, <1>6

\* What a line of an export, or its beginning, sets
LEMMA EntryOfCut ==
  ASSUME NEW T, Marks \subseteq T, NEW k \in Seq(T), ValidKey(k), NEW v \in Seq(T),
         NEW m \in 1..Len(ExportLine(k, v)) - 1
  PROVE  LET got == Entry(SubSeq(ExportLine(k, v), 1, m)) IN
         /\ got \subseteq {[key |-> TrimSpace(k), value |-> SubSeq(v, 1, j)] : j \in 0..Len(v)}
         /\ got # {} => ValidKey(TrimSpace(k))
         /\ m = Len(ExportLine(k, v)) - 1 /\ ValidKey(TrimSpace(k)) =>
              got = {[key |-> TrimSpace(k), value |-> v]}
<1> DEFINE E == ExportLine(k, v)
           Q == ShellQuote(v)
           K == Len(k)
           M == Len(Q)
           text == SubSeq(E, 1, m)
           line == TrimSpace(text)
           body == IF IsPrefix(<<"export ">>, line) THEN Tail(line) ELSE line
           eq   == IndexOf(body, "=")
           key  == TrimSpace(SubSeq(body, 1, eq - 1))
           val  == TrimSpace(SubSeq(body, eq + 1, Len(body)))
           Prefixes_ == {SubSeq(v, 1, j) : j \in 0..Len(v)}
<1>1. E \in Seq(T) /\ LineIs(E, k, Q) /\ Q \in Seq(T)
  BY LineLayout, Quoting
<1>2. /\ K \in Nat /\ M \in Nat /\ M >= 2 /\ Len(E) = K + M + 3 /\ m \in 1..K + M + 2
      /\ E[1] = "export " /\ E[K + 2] = "="
      /\ \A q \in 1..K : E[1 + q] = k[q]
      /\ \A q \in 1..M : E[K + 2 + q] = Q[q]
      /\ Q[1] = "'" /\ Q[M] = "'"
  <2>1. PICK at : Offsets(v, at)
    BY Quoting
  <2>2. Len(v) \in 0..Len(v) /\ K \in Nat /\ M \in Nat
    BY <1>1
  <2>3. M = at[Len(v)] + 1 /\ at[Len(v)] \in Nat \ {0} /\ Q[1] = "'" /\ Q[M] = "'"
    BY <2>1, <2>2 DEF Offsets
  <2>4. Len(E) = K + M + 3 /\ m \in 1..Len(E) - 1
    BY <1>1 DEF LineIs
  <2> HIDE DEF K, M, E, Q
  <2>5. m \in 1..K + M + 2 /\ M >= 2
    <3> DEFINE aN == at[Len(v)]
    <3>1. M = aN + 1 /\ aN \in Nat /\ aN >= 1
      BY <2>3
    <3> HIDE DEF aN
    <3> QED BY <2>2, <2>4, <3>1
  <2> QED BY <1>1, <2>2, <2>3, <2>4, <2>5 DEF LineIs, K, M
<1>10. \A q \in 1..K : k[q] # "="
  <2>1. \A q \in 1..K : k[q] \in ToSet(k)
    BY DEF ToSet
  <2>2. "=" \notin ToSet(k)
    BY DEF ValidKey, KeyForbids
  <2> QED BY <2>1, <2>2, Zenon
<1>z. \A i \in 0..K : i \in Nat
  OBVIOUS
<1>y. SubSeq(k, 1, K) = k /\ \A x \in Seq(T) : Len(x) = K /\ (\A q \in 1..K : x[q] = k[q]) => x = k
  OBVIOUS
<1> HIDE DEF E, Q, K, M
<1>a. K \in Nat /\ M \in Nat /\ M >= 2 /\ Len(E) = K + M + 3 /\ m \in 1..K + M + 2
  BY <1>2
<1>b. m = K + M + 2 => E[m] = Q[M]
  <2>1. M \in 1..M /\ (K + 2) + M = K + M + 2
    BY <1>a
  <2>2. E[K + 2 + M] = Q[M]
    BY <1>2, <2>1
  <2> QED BY <1>a, <2>1, <2>2
<1>c. E[1] = "export " /\ E[K + 2] = "=" /\ Q[1] = "'" /\ Q[M] = "'" /\ Len(Q) = M
  BY <1>2 DEF M
<1>3. text \in Seq(T) /\ Len(text) = m /\ \A q \in 1..m : text[q] = E[q]
  BY <1>1, <1>a
<1>4. PICK n \in 1..m : line = SubSeq(E, 1, n) /\ (E[m] \notin White => n = m)
  <2>1. text # <<>> /\ text[1] \notin White
    <3>1. 1 \in 1..m
      BY <1>a
    <3>2. text[1] = "export "
      BY <1>c, <1>3, <3>1
    <3> HIDE DEF text
    <3>3. text # <<>>
      BY <1>3, <1>a
    <3> QED BY <3>2, <3>3 DEF White
  <2>2. m \in 0..Len(E) /\ \A n \in 1..m : n \in 0..m
    BY <1>1, <1>a
  <2> HIDE DEF text
  <2>3. PICK n \in 1..m : TrimSpace(text) = SubSeq(text, 1, n) /\ (text[m] \notin White => n = m)
    BY <1>3, <2>1, TrimEnd
  <2>4. SubSeq(SubSeq(E, 1, m), 1, n) = SubSeq(E, 1, n)
    BY <1>1, <2>2, SubSub
  <2>5. text[m] = E[m]
    BY <1>3
  <2> QED BY <2>3, <2>4, <2>5 DEF text
<1>5. n \in Nat /\ n >= 1 /\ n <= K + M + 2 /\ m \in Nat /\ n <= Len(E)
  BY <1>a
<1> HIDE DEF line, text
<1>6. line \in Seq(T) /\ Len(line) = n /\ \A q \in 1..n : line[q] = E[q]
  BY <1>1, <1>4, <1>5
<1>7. line # <<>> /\ line[1] = "export " /\ line[1] # "#"
  <2>1. 1 \in 1..n
    BY <1>5
  <2>2. line[1] = "export "
    BY <1>c, <1>6, <2>1
  <2>3. line # <<>>
    BY <1>5, <1>6
  <2> QED BY <2>2, <2>3
<1>8. body = Tail(line)
  <2>1. IsPrefix(<<"export ">>, line)
    <3>0. Len(line) >= 1 /\ "export " \in T
      BY <1>5, <1>6 DEF Marks
    <3>3. SubSeq(line, 1, 1) = <<"export ">>
      BY <1>6, <1>7, <3>0, FirstOf
    <3> DEFINE e == <<"export ">>
    <3>4. e \in Seq(T) /\ Len(e) = 1 /\ e[1] = "export "
      BY <3>0, OneSymbol
    <3> HIDE DEF e
    <3>6. SubSeq(e, 1, 1) = <<"export ">>
      <4>1. SubSeq(e, 1, 1) = <<e[1]>>
        <5>1. Len(e) = 1
          BY <3>4, Zenon
        <5>2. Len(e) >= 1
          BY <5>1
        <5> QED BY <3>4, <5>2, FirstOf
      <4> QED BY <3>4, <4>1
    <3>7. IsPrefix(e, line)
      BY <3>0, <3>3, <3>4, <3>6 DEF IsPrefix
    <3> QED BY <3>7 DEF e
  <2> QED BY <2>1
<1> HIDE DEF body
<1>9. body \in Seq(T) /\ Len(body) = n - 1 /\ \A q \in 1..n - 1 : body[q] = E[q + 1]
  <2>1. Tail(line) \in Seq(T) /\ Len(Tail(line)) = n - 1 /\ \A q \in 1..n - 1 : Tail(line)[q] = line[q + 1]
    BY <1>5, <1>6
  <2>2. \A q \in 1..n - 1 : q + 1 \in 1..n
    BY <1>5
  <2> QED BY <1>6, <1>8, <2>1, <2>2
<1>11. \A q \in 1..n - 1 : q <= K => body[q] = k[q]
  <2> SUFFICES ASSUME NEW q \in 1..n - 1, q <= K PROVE body[q] = k[q]
    OBVIOUS
  <2>1. q \in 1..K /\ q + 1 = 1 + q
    BY <1>a, <1>5
  <2> QED BY <1>2, <1>9, <2>1
<1> DEFINE got == Entry(text)
<1>12. got = IF eq = 0 \/ ~ValidKey(key) THEN {} ELSE {[key |-> key, value |-> x] : x \in ParseImportValue(val)}
  <2>1. \/ line = <<>> \/ line[1] = "#" \/ eq = 0 \/ ~ValidKey(key)
        <=> eq = 0 \/ ~ValidKey(key)
    BY <1>7
  <2> QED BY <2>1 DEF Entry, line, body
<1>13. CASE n < K + 2
  <2>1. "=" \notin ToSet(body)
    <3> SUFFICES ASSUME NEW q \in DOMAIN body, body[q] = "=" PROVE FALSE
      BY DEF ToSet
    <3>1. q \in 1..n - 1
      BY <1>9
    <3>2. q \in 1..K
      BY <1>a, <1>5, <1>13, <3>1
    <3>3. body[q] = k[q]
      BY <1>11, <3>1, <3>2
    <3> QED BY <1>10, <3>2, <3>3
  <2>2. eq = 0
    BY <2>1 DEF IndexOf
  <2>3. got = {}
    BY <1>12, <2>2
  <2>4. m # K + M + 2
    <3> SUFFICES ASSUME m = K + M + 2 PROVE FALSE
      OBVIOUS
    <3>2. n = m
      BY <1>b, <1>c, <1>4 DEF White
    <3> QED BY <1>a, <1>5, <1>13, <3>2
  <2>5. Len(E) - 1 = K + M + 2
    BY <1>a
  <2> QED BY <2>3, <2>4, <2>5 DEF text, E
<1>14. CASE ~(n < K + 2)
  <2>1. eq = K + 1
    <3>1. K + 1 \in 1..Len(body) /\ K + 1 \in 1..n - 1 /\ (K + 1) + 1 = K + 2
      BY <1>a, <1>5, <1>9, <1>14
    <3>2. body[K + 1] = "="
      BY <1>c, <1>9, <3>1
    <3>3. \A q \in 1..(K + 1) - 1 : body[q] # "="
      <4> SUFFICES ASSUME NEW q \in 1..(K + 1) - 1 PROVE body[q] # "="
        OBVIOUS
      <4>1. q \in 1..K /\ q \in 1..n - 1 /\ q <= K
        BY <1>a, <1>5, <1>14
      <4> QED BY <1>10, <1>11, <4>1
    <3> QED BY <1>9, <3>1, <3>2, <3>3, FirstEquals
  <2>2. key = TrimSpace(k)
    <3>1. SubSeq(body, 1, K) = k
      <4> DEFINE sub == SubSeq(body, 1, K)
      <4>1. sub \in Seq(T) /\ Len(sub) = K /\ \A q \in 1..K : sub[q] = body[q]
        BY <1>a, <1>5, <1>9, <1>14
      <4>2. \A q \in 1..K : q \in 1..n - 1 /\ q <= K
        BY <1>a, <1>5, <1>14
      <4>3. \A q \in 1..K : sub[q] = k[q]
        BY <1>11, <4>1, <4>2
      <4> HIDE DEF sub
      <4>4. sub = k
        BY <1>y, <4>1, <4>3
      <4> QED BY <4>4 DEF sub
    <3>2. eq - 1 = K
      <4> HIDE DEF eq
      <4> QED BY <1>a, <2>1
    <3> QED BY <3>1, <3>2
  <2> DEFINE r == n - K - 2
  <2>3. r \in 0..M /\ n = K + 2 + r
    BY <1>a, <1>5, <1>14
  <2>4. SubSeq(body, eq + 1, Len(body)) = SubSeq(Q, 1, r)
    <3> DEFINE sub == SubSeq(body, K + 2, n - 1)
               cut == SubSeq(Q, 1, r)
    <3>1. sub \in Seq(T) /\ Len(sub) = r /\ \A q \in 1..r : sub[q] = body[K + 1 + q]
      <4>1. K + 2 \in Nat /\ K + 2 >= 1 /\ n - 1 = Len(body) /\ K + 2 <= n /\ (n - 1) - (K + 2) + 1 = r
        BY <1>a, <1>5, <1>9, <1>14
      <4>2. sub \in Seq(T) /\ Len(sub) = r
        BY <1>9, <2>3, <4>1, <1>5
      <4>3. \A q \in 1..r : sub[q] = body[(K + 2) + q - 1] /\ (K + 2) + q - 1 = K + 1 + q
        BY <1>9, <2>3, <4>1, <1>5, <1>a
      <4> QED BY <4>2, <4>3
    <3>2. cut \in Seq(T) /\ Len(cut) = r /\ \A q \in 1..r : cut[q] = Q[q]
      <4>1. r \in 0..Len(Q)
        BY <1>c, <2>3
      <4> HIDE DEF r
      <4> QED BY <1>1, <4>1
    <3>3. ASSUME NEW q \in 1..r PROVE body[K + 1 + q] = Q[q]
      <4>1. K + 1 + q \in 1..n - 1 /\ (K + 1 + q) + 1 = K + 2 + q /\ q \in 1..M
        <5> HIDE DEF r
        <5> QED BY <1>a, <1>5, <2>3
      <4>2. body[K + 1 + q] = E[K + 2 + q]
        BY <1>9, <4>1
      <4> QED BY <1>2, <4>1, <4>2
    <3> HIDE DEF sub, cut, r
    <3>4. sub = cut
      BY <2>3, <3>1, <3>2, <3>3
    <3>5. eq + 1 = K + 2 /\ Len(body) = n - 1
      <4> HIDE DEF eq
      <4> QED BY <1>a, <1>9, <2>1
    <3> QED BY <3>4, <3>5 DEF sub, cut
  <2> HIDE DEF r
  <2>p. r \in 0..Len(Q) /\ r \in Nat
    <3>1. Len(Q) = M
      BY DEF M
    <3>2. r \in 0..M
      BY <2>3
    <3> QED BY <1>a, <3>1, <3>2
  <2>5. ParseImportValue(val) \subseteq Prefixes_ /\ (m = K + M + 2 => ParseImportValue(val) = {v})
    <3>1. CASE r = 0
      <4>1. val = <<>>
        <5>1. SubSeq(Q, 1, 0) = <<>>
          BY <1>1
        <5>2. TrimSpace(<<>>) = <<>>
          BY DEF TrimSpace, Trim
        <5> QED BY <2>4, <3>1, <5>1, <5>2
      <4>2. ParseImportValue(val) = {<<>>}
        <5>1. ParseImportValue(val) = Unquote(<<>>)
          BY <4>1 DEF ParseImportValue
        <5>2. <<>> \in Seq(T) /\ "'" \in T
          <6>1. "'" \in T
            BY DEF Marks
          <6> QED BY <6>1
        <5>3. PICK f : /\ UnquoteRun(<<>>, T, f)
                       /\ Unquote(<<>>) = LET end == f[Len(<<>>)] IN IF end.ok /\ ~end.open THEN {end.parsed} ELSE {}
          BY <5>2, Unquoting
        <5>4. Len(<<>>) = 0 /\ f[0] = UnquoteStart
          BY <5>3 DEF UnquoteRun
        <5> QED BY <5>1, <5>3, <5>4 DEF UnquoteStart
      <4>3. <<>> \in Prefixes_
        <5>1. SubSeq(v, 1, 0) = <<>> /\ 0 \in 0..Len(v)
          OBVIOUS
        <5> QED BY <5>1
      <4>4. m # K + M + 2
        <5> SUFFICES ASSUME m = K + M + 2 PROVE FALSE
          OBVIOUS
        <5>2. n = m
          BY <1>b, <1>c, <1>4 DEF White
        <5> QED BY <1>a, <1>5, <3>1, <5>2 DEF r
      <4> QED BY <4>2, <4>3, <4>4
    <3>2. CASE r # 0
      <4> DEFINE cut == SubSeq(Q, 1, r)
      <4>1. cut \in Seq(T) /\ Len(cut) = r /\ cut # <<>> /\ cut[1] = "'" /\ cut[r] = Q[r]
        <5>1. /\ cut \in Seq(T) /\ Len(cut) = r /\ r \in 1..r /\ 1 \in 1..r
              /\ \A q \in 1..r : cut[q] = Q[q]
          BY <1>1, <2>p, <3>2
        <5> HIDE DEF cut
        <5>2. cut[1] = Q[1] /\ cut[r] = Q[r] /\ cut # <<>>
          BY <2>p, <3>2, <5>1
        <5>3. Q[1] = "'"
          BY <1>c
        <5> QED BY <5>1, <5>2, <5>3
      <4>2. PICK s \in 1..r : TrimSpace(cut) = SubSeq(cut, 1, s) /\ (cut[r] \notin White => s = r)
        <5> HIDE DEF cut
        <5>1. cut[1] \notin White
          BY <4>1 DEF White
        <5> QED BY <4>1, <5>1, TrimEnd
      <4>3. s \in 1..M /\ s \in 0..r /\ r \in 0..Len(Q) /\ s \in 1..Len(Q)
        <5>1. r \in 0..M
          BY <2>3
        <5> QED BY <1>a, <2>p, <5>1
      <4>4. val = SubSeq(Q, 1, s)
        BY <1>1, <2>4, <4>2, <4>3, SubSub
      <4>5. val # <<>> /\ val[1] = "'"
        <5> HIDE DEF val
        <5>1. SubSeq(Q, 1, s) # <<>> /\ SubSeq(Q, 1, s)[1] = Q[1]
          BY <1>1, <4>3
        <5> QED BY <1>c, <4>4, <5>1
      <4>6. ParseImportValue(val) = Unquote(SubSeq(Q, 1, s))
        <5> HIDE DEF val
        <5> QED BY <4>4, <4>5 DEF ParseImportValue
      <4>7. m = K + M + 2 => s = M
        <5> SUFFICES ASSUME m = K + M + 2 PROVE s = M
          OBVIOUS
        <5>2. n = m
          BY <1>b, <1>c, <1>4 DEF White
        <5>3. r = M
          BY <1>a, <1>5, <5>2 DEF r
        <5> QED BY <1>c, <4>1, <4>2, <5>3 DEF White
      <4> HIDE DEF val
      <4>8. /\ Unquote(SubSeq(Q, 1, s)) \subseteq Prefixes_
            /\ s = M => Unquote(SubSeq(Q, 1, s)) = {v}
        BY <4>3, UnquoteCut DEF Q, M
      <4> QED BY <4>6, <4>7, <4>8
    <3> QED BY <3>1, <3>2
  <2>6. eq # 0 /\ Len(E) - 1 = K + M + 2
    <3> HIDE DEF eq
    <3> QED BY <1>a, <2>1
  <2> HIDE DEF key, val, eq
  <2>7. got = IF ~ValidKey(TrimSpace(k)) THEN {} ELSE {[key |-> TrimSpace(k), value |-> x] : x \in ParseImportValue(val)}
    BY <1>12, <2>2, <2>6
  <2> HIDE DEF got
  <2>8. got \subseteq {[key |-> TrimSpace(k), value |-> SubSeq(v, 1, j)] : j \in 0..Len(v)}
    BY <2>5, <2>7
  <2>9. got # {} => ValidKey(TrimSpace(k))
    BY <2>7
  <2>10. m = Len(E) - 1 /\ ValidKey(TrimSpace(k)) => got = {[key |-> TrimSpace(k), value |-> v]}
    BY <2>5, <2>6, <2>7
  <2> QED BY <2>8, <2>9, <2>10 DEF got, text, E
<1> QED BY <1>13, <1>14

\* A newline of a quoted value is one of the value itself, inside its quotes
LEMMA QuotedNewline ==
  ASSUME NEW T, Marks \subseteq T, NEW v \in Seq(T), NEW at, Offsets(v, at),
         NEW r \in 1..Len(ShellQuote(v)), ShellQuote(v)[r] = "nl"
  PROVE  \E j \in 0..Len(v) : r = at[j] + 1 /\ at[j] <= at[Len(v)]
<1> DEFINE Q == ShellQuote(v)
           N == Len(v)
           J == {j \in 0..N : at[j] < r}
<1>1. N \in Nat /\ Q \in Seq(T) /\ Len(Q) \in Nat /\ N \in 0..N /\ r \in Nat
  BY Quoting
<1>2. /\ \A j \in 0..N : at[j] \in Nat \ {0} /\ at[j] <= at[N]
      /\ at[0] = 1 /\ Len(Q) = at[N] + 1 /\ Q[1] = "'" /\ Q[Len(Q)] = "'"
      /\ \A j \in 1..N :
           IF v[j] = "'" THEN at[j] = at[j - 1] + 4 /\ \A d \in 0..3 : Q[at[j - 1] + 1 + d] = Escape[d + 1]
           ELSE at[j] = at[j - 1] + 1 /\ Q[at[j]] = v[j]
  BY DEF Offsets
<1>3. r # 1 /\ r # Len(Q) /\ r \in 1..Len(Q) /\ Q[r] = "nl"
  BY <1>2
<1> HIDE DEF Q, N
<1>4. Len(Q) = at[N] + 1 /\ at[N] \in Nat
  BY <1>1, <1>2
<1>5. r <= at[N] /\ r > 1
  BY <1>1, <1>3, <1>4
<1>6. 0 \in J /\ J \in SUBSET (0..N)
  <2>1. at[0] = 1
    BY <1>2
  <2> QED BY <1>1, <1>5, <2>1
<1>7. PICK j \in J : \A y \in J : y <= j
  <2> HIDE DEF J
  <2> QED BY <1>1, <1>6, Greatest
<1>8. j \in 0..N /\ at[j] < r /\ at[j] \in Nat /\ at[j] <= at[N]
  BY <1>2, <1>7
<1>9. j # N
  BY <1>4, <1>5, <1>8
<1>10. j + 1 \in 1..N /\ j + 1 \in 0..N /\ (j + 1) - 1 = j /\ ~(j + 1 <= j)
  BY <1>1, <1>8, <1>9
<1> DEFINE b == at[j]
           c == at[j + 1]
<1>11. ~(c < r) /\ c \in Nat
  BY <1>2, <1>7, <1>10
<1>12. IF v[j + 1] = "'" THEN c = b + 4 /\ \A d \in 0..3 : Q[b + 1 + d] = Escape[d + 1] ELSE c = b + 1
  BY <1>2, <1>10
<1>13. b < r /\ b \in Nat /\ b <= at[N]
  BY <1>8
<1> HIDE DEF b, c
<1>14. CASE v[j + 1] = "'"
  <2> DEFINE d == r - b - 1
  <2>1. d \in 0..3 /\ b + 1 + d = r /\ (d = 0 \/ d = 1 \/ d = 2 \/ d = 3)
    BY <1>1, <1>11, <1>12, <1>13, <1>14
  <2> HIDE DEF d
  <2>2. Q[r] = Escape[d + 1]
    BY <1>12, <1>14, <2>1
  <2>3. Escape[d + 1] # "nl"
    BY <2>1, EscapeIs
  <2> QED BY <1>3, <2>2, <2>3
<1>15. CASE v[j + 1] # "'"
  <2>1. r = b + 1
    BY <1>1, <1>11, <1>12, <1>13, <1>15
  <2> QED BY <1>8, <1>13, <2>1 DEF b, N
<1> QED BY <1>14, <1>15

\* What one symbol does to the lines
Ends(s, t)      == t.lines = Append(s.lines, s.line) /\ t.line = <<>> /\ t.open = s.open /\ t.skip = s.skip
Extends(s, t, c) == t.lines = s.lines /\ t.line = Append(s.line, c)
Modes(s, t, escape, quote) ==
  IF s.skip > 0 THEN t.skip = s.skip - 1 /\ t.open = s.open
  ELSE IF s.open /\ escape THEN t.skip = 3 /\ t.open = s.open
  ELSE t.skip = 0 /\ t.open = (s.open # quote)

\* What a step of SplitImportLines does, by the symbol it reads.
LEMMA SplitStep ==
  ASSUME NEW T, NEW X \in Seq(T), NEW f, SplitRun(X, T, f), NEW i \in 1..Len(X)
  PROVE  /\ f[i - 1].skip = 0 /\ ~f[i - 1].open /\ X[i] = "nl" => Ends(f[i - 1], f[i])
         /\ ~(f[i - 1].skip = 0 /\ ~f[i - 1].open /\ X[i] = "nl") => Extends(f[i - 1], f[i], X[i])
         /\ Modes(f[i - 1], f[i], EscapeAt(X, i), X[i] = "'")
<1> DEFINE s == f[i - 1]
           copied == [s EXCEPT !.line = Append(@, X[i])]
<1>1. f[i] = SplitSymbol(s, X, i) /\ s \in SplitStates(T)
  BY DEF SplitRun
<1> HIDE DEF s
<1>2. s.skip \in 0..3 /\ s.open \in BOOLEAN
  BY <1>1 DEF SplitStates
<1>3. /\ copied.skip = s.skip /\ copied.open = s.open /\ copied.lines = s.lines
      /\ copied.line = Append(s.line, X[i])
      /\ DOMAIN copied = {"lines", "line", "open", "skip"}
  BY <1>1 DEF SplitStates
<1>6. CASE s.skip > 0
  <2>1. f[i] = [copied EXCEPT !.skip = copied.skip - 1]
    BY <1>1, <1>6 DEF SplitSymbol
  <2> HIDE DEF copied
  <2>2. f[i].skip = s.skip - 1 /\ f[i].open = s.open /\ f[i].lines = s.lines /\ f[i].line = Append(s.line, X[i])
    BY <1>3, <2>1
  <2>3. ~(s.skip = 0)
    BY <1>6
  <2> QED BY <1>6, <2>2, <2>3 DEF Extends, Modes, s
<1>7. CASE s.skip = 0 /\ s.open /\ EscapeAt(X, i)
  <2>1. f[i] = [copied EXCEPT !.skip = 3]
    BY <1>1, <1>2, <1>7 DEF SplitSymbol
  <2> HIDE DEF copied
  <2>2. f[i].skip = 3 /\ f[i].open = s.open /\ f[i].lines = s.lines /\ f[i].line = Append(s.line, X[i])
    BY <1>3, <2>1
  <2>3. ~(s.skip > 0)
    BY <1>7
  <2> QED BY <1>7, <2>2, <2>3 DEF Extends, Modes, s
<1>8. CASE s.skip = 0 /\ ~s.open /\ X[i] = "nl"
  <2>1. f[i] = [s EXCEPT !.lines = Append(@, s.line), !.line = <<>>]
    BY <1>1, <1>8 DEF SplitSymbol
  <2>2. f[i].skip = s.skip /\ f[i].open = s.open /\ f[i].lines = Append(s.lines, s.line) /\ f[i].line = <<>>
    BY <1>1, <2>1 DEF SplitStates
  <2>3. ~(s.skip > 0) /\ s.open = (s.open # (X[i] = "'"))
    BY <1>2, <1>8
  <2> QED BY <1>8, <2>2, <2>3 DEF Ends, Modes, s
<1>9. CASE s.skip = 0 /\ ~(s.open /\ EscapeAt(X, i)) /\ ~(~s.open /\ X[i] = "nl")
  <2>1. f[i] = [copied EXCEPT !.open = copied.open # (X[i] = "'")]
    BY <1>1, <1>9 DEF SplitSymbol
  <2> HIDE DEF copied
  <2>2. f[i].skip = s.skip /\ f[i].open = (s.open # (X[i] = "'")) /\ f[i].lines = s.lines
        /\ f[i].line = Append(s.line, X[i])
    BY <1>3, <2>1
  <2>3. ~(s.skip > 0)
    BY <1>9
  <2> QED BY <1>9, <2>2, <2>3 DEF Extends, Modes, s
<1> QED BY <1>2, <1>6, <1>7, <1>8, <1>9

\* and those of SplitImportLines, are the same.
LEMMA SplitModes ==
  ASSUME NEW T, NEW X \in Seq(T), NEW f, SplitRun(X, T, f)
  PROVE  ModeRun(X, [i \in 0..Len(X) |-> f[i].open], [i \in 0..Len(X) |-> f[i].skip])
<1> DEFINE N == Len(X)
           o == [i \in 0..N |-> f[i].open]
           k == [i \in 0..N |-> f[i].skip]
<1>1. N \in Nat
  OBVIOUS
<1>2. \A i \in 0..N : f[i].open \in BOOLEAN /\ f[i].skip \in 0..3
  BY DEF SplitRun, SplitStates
<1>3. o \in [0..N -> BOOLEAN]
  BY <1>2
<1>4. ASSUME NEW i \in 1..N
      PROVE IF k[i - 1] > 0 THEN k[i] = k[i - 1] - 1 /\ o[i] = o[i - 1]
            ELSE IF o[i - 1] /\ EscapeAt(X, i) THEN k[i] = 3 /\ o[i] = o[i - 1]
            ELSE k[i] = 0 /\ o[i] = (o[i - 1] # (X[i] = "'"))
  <2>1. i \in 0..N /\ i - 1 \in 0..N
    BY <1>1
  <2>2. k[i - 1] = f[i - 1].skip /\ k[i] = f[i].skip /\ o[i - 1] = f[i - 1].open /\ o[i] = f[i].open
    BY <2>1
  <2> HIDE DEF o, k
  <2>3. Modes(f[i - 1], f[i], EscapeAt(X, i), X[i] = "'")
    BY SplitStep
  <2> QED BY <2>2, <2>3 DEF Modes
<1> HIDE DEF o, k
<1> QED BY <1>3, <1>4 DEF ModeRun, o, k, N

\* Between two lines, with those of L read
Between(s, L) == s.lines = L /\ s.line = <<>> /\ ~s.open /\ s.skip = 0

\* E is read as one line, as far as X goes
EntryRead(X, f, P, E, L) ==
  /\ \A m \in 0..Len(E) - 1 : P + m <= Len(X) => f[P + m].lines = L /\ f[P + m].line = SubSeq(E, 1, m)
  /\ P + Len(E) <= Len(X) => Between(f[P + Len(E)], Append(L, SubSeq(E, 1, Len(E) - 1)))

\* SplitImportLines reads a line of an export as one line, whatever newlines are
\* in its value.
LEMMA SplitEntry ==
  ASSUME NEW T, Marks \subseteq T, NEW X \in Seq(T), NEW f, SplitRun(X, T, f),
         NEW k \in Seq(T), ValidKey(k), NEW v \in Seq(T),
         NEW P \in Nat, Shows(X, P, ExportLine(k, v)), NEW L, Between(f[P], L)
  PROVE  EntryRead(X, f, P, ExportLine(k, v), L)
<1> DEFINE E == ExportLine(k, v)
           Q == ShellQuote(v)
           K == Len(k)
           M == Len(Q)
           N == Len(v)
           Z == Len(X)
           p == P + K + 2
<1>1. E \in Seq(T) /\ LineIs(E, k, Q) /\ Q \in Seq(T)
  BY LineLayout, Quoting
<1>2. PICK at : Offsets(v, at)
  BY Quoting
<1>3. K \in Nat /\ M \in Nat /\ N \in Nat /\ Z \in Nat /\ Len(E) = K + M + 3
      /\ N \in 0..N /\ M = at[N] + 1 /\ at[N] \in Nat \ {0}
  <2>1. K \in Nat /\ M \in Nat /\ N \in Nat /\ Z \in Nat /\ N \in 0..N
    BY <1>1
  <2>2. M = at[N] + 1 /\ at[N] \in Nat \ {0}
    BY <1>2, <2>1 DEF Offsets
  <2> QED BY <1>1, <2>1, <2>2 DEF LineIs
<1>4. /\ E[1] = "export " /\ E[K + 2] = "=" /\ E[Len(E)] = "nl"
      /\ \A q \in 1..K : E[1 + q] = k[q]
      /\ \A q \in 1..M : E[K + 2 + q] = Q[q]
  BY <1>1 DEF LineIs
<1>5. \A q \in 1..K : k[q] # "'" /\ k[q] # "nl"
  <2>1. \A q \in 1..K : k[q] \in ToSet(k)
    BY DEF ToSet
  <2>2. "'" \notin ToSet(k) /\ "nl" \notin ToSet(k)
    BY DEF ValidKey, KeyForbids
  <2> QED BY <2>1, <2>2, Zenon
<1>6. \A q \in 1..Len(E) : P + q <= Z => X[P + q] = E[q]
  BY DEF Shows
<1> DEFINE o == [i \in 0..Z |-> f[i].open]
           sk == [i \in 0..Z |-> f[i].skip]
<1>7. \A i \in 0..Z : o[i] = f[i].open /\ sk[i] = f[i].skip /\ f[i].open \in BOOLEAN /\ f[i].skip \in 0..3
  BY DEF SplitRun, SplitStates
<1>8. ModeRun(X, o, sk)
  BY SplitModes
<1>9. \A i \in 1..Z : /\ f[i - 1].skip = 0 /\ ~f[i - 1].open /\ X[i] = "nl" => Ends(f[i - 1], f[i])
                      /\ ~(f[i - 1].skip = 0 /\ ~f[i - 1].open /\ X[i] = "nl") => Extends(f[i - 1], f[i], X[i])
                      /\ Modes(f[i - 1], f[i], EscapeAt(X, i), X[i] = "'")
  BY SplitStep
<1>10. /\ f[P].lines = L /\ f[P].line = <<>> /\ ~f[P].open /\ f[P].skip = 0
  BY DEF Between
<1>n. \A r \in 1..M : Q[r] = "nl" => \E j \in 0..N : r = at[j] + 1 /\ at[j] <= at[N]
  BY <1>2, QuotedNewline
<1>o. \A j \in 0..N : at[j] \in Nat
  BY <1>2 DEF Offsets
<1> HIDE DEF E, Q, K, M, N, Z, o, sk
<1>a. K \in Nat /\ M \in Nat /\ Z \in Nat /\ Len(E) \in Nat /\ Len(E) = K + M + 3
  BY <1>3
\* The key is read with no quote open
<1>11. \A q \in 1..K + 2 : E[q] # "'" /\ E[q] # "nl"
  <2> SUFFICES ASSUME NEW q \in 1..K + 2 PROVE E[q] # "'" /\ E[q] # "nl"
    OBVIOUS
  <2>1. CASE q = 1
    BY <1>4, <2>1
  <2>2. CASE q = K + 2
    BY <1>4, <2>2
  <2>3. CASE q # 1 /\ q # K + 2
    <3>1. q - 1 \in 1..K /\ 1 + (q - 1) = q
      BY <1>a, <2>3
    <3>2. E[q] = k[q - 1]
      BY <1>4, <3>1
    <3> QED BY <1>5, <3>1, <3>2
  <2> QED BY <2>1, <2>2, <2>3
<1> DEFINE H == {q \in 0..K + 2 : P + q <= Z => ~f[P + q].open /\ f[P + q].skip = 0}
<1>12. 0 \in H
  <2>1. P + 0 = P /\ 0 \in 0..K + 2
    BY <1>a
  <2> QED BY <1>10, <2>1
<1>13. ASSUME NEW q \in 1..K + 2, q - 1 \in H PROVE q \in H
  <2> SUFFICES ASSUME P + q <= Z PROVE ~f[P + q].open /\ f[P + q].skip = 0
    BY <1>a
  <2> DEFINE i == P + q
  <2>1. i \in 1..Z /\ i - 1 = P + (q - 1) /\ P + (q - 1) <= Z /\ q \in 1..Len(E)
    BY <1>a
  <2>2. ~f[i - 1].open /\ f[i - 1].skip = 0
    BY <1>13, <2>1
  <2>3. X[i] # "'"
    BY <1>6, <1>11, <2>1
  <2> HIDE DEF i
  <2>4. Modes(f[i - 1], f[i], EscapeAt(X, i), X[i] = "'")
    BY <1>9, <2>1
  <2>5. (X[i] = "'") = FALSE /\ f[i - 1].open = FALSE
    <3>1. i - 1 \in 0..Z
      BY <1>a, <2>1
    <3> QED BY <1>7, <2>2, <2>3, <3>1
  <2>7. f[i].skip = 0 /\ f[i].open = (f[i - 1].open # (X[i] = "'"))
    BY <2>2, <2>4 DEF Modes
  <2>6. f[i].skip = 0 /\ ~f[i].open
    BY <2>5, <2>7
  <2> QED BY <2>6 DEF i
<1>14. \A q \in 0..K + 2 : P + q <= Z => ~f[P + q].open /\ f[P + q].skip = 0
  <2>1. K + 2 \in Nat
    BY <1>a
  <2>2. 0..K + 2 \subseteq H
    <3> HIDE DEF H
    <3> QED BY <1>12, <1>13, <2>1, UpTo
  <2> QED BY <2>2
\* The value is read inside its quotes
<1>15. p \in Nat /\ p = P + (K + 2) /\ K + 2 \in 0..K + 2
  BY <1>a
<1>16. p <= Z => /\ \A j \in 0..N : p + at[j] <= Z => f[p + at[j]].open /\ f[p + at[j]].skip = 0
                 /\ p + M <= Z => ~f[p + M].open /\ f[p + M].skip = 0
  <2> SUFFICES ASSUME p <= Z
               PROVE  /\ \A j \in 0..N : p + at[j] <= Z => f[p + at[j]].open /\ f[p + at[j]].skip = 0
                      /\ p + M <= Z => ~f[p + M].open /\ f[p + M].skip = 0
    OBVIOUS
  <2>1. ~o[p] /\ sk[p] = 0
    <3>1. ~f[p].open /\ f[p].skip = 0 /\ p \in 0..Z
      <4>1. P + (K + 2) <= Z /\ p \in 0..Z
        BY <1>a, <1>15
      <4> HIDE DEF p
      <4> QED BY <1>14, <1>15, <4>1
    <3> HIDE DEF p
    <3> QED BY <1>7, <3>1
  <2>2. Shows(X, p, Q)
    <3> SUFFICES ASSUME NEW q \in 1..M, p + q <= Z PROVE X[p + q] = Q[q]
      BY DEF Shows, M, Z
    <3>1. p + q = P + (K + 2 + q) /\ K + 2 + q \in 1..Len(E) /\ P + (K + 2 + q) <= Z
      BY <1>a
    <3>2. X[P + (K + 2 + q)] = E[K + 2 + q]
      BY <1>6, <3>1
    <3> HIDE DEF p
    <3> QED BY <1>4, <3>1, <3>2
  <2>3. p + M + 1 <= Z => X[p + M + 1] # "\\"
    <3> SUFFICES ASSUME p + M + 1 <= Z PROVE X[p + M + 1] # "\\"
      OBVIOUS
    <3>1. p + M + 1 = P + Len(E) /\ Len(E) \in 1..Len(E)
      BY <1>a
    <3> HIDE DEF p
    <3>2. X[P + Len(E)] = E[Len(E)]
      BY <1>6, <3>1
    <3>3. X[p + M + 1] = "nl"
      BY <1>4, <3>1, <3>2
    <3> QED BY <3>3
  <2> HIDE DEF p
  <2>4. QuoteRead(X, o, sk, p, v, at)
    BY <1>2, <1>8, <1>15, <2>1, <2>2, <2>3, QuoteIsRead DEF Q, M, Z
  <2>5. /\ \A j \in 0..N : p + at[j] <= Z => o[p + at[j]] /\ sk[p + at[j]] = 0
        /\ p + M <= Z => ~o[p + M] /\ sk[p + M] = 0
    BY <2>4 DEF QuoteRead, Q, M, Z, N
  <2>6. \A j \in 0..N : p + at[j] <= Z => p + at[j] \in 0..Z
    <3> HIDE DEF p
    <3> QED BY <1>a, <1>o, <1>15
  <2>7. p + M <= Z => p + M \in 0..Z
    <3> HIDE DEF p
    <3> QED BY <1>a, <1>15
  <2> QED BY <1>7, <2>5, <2>6, <2>7
\* No newline before the last one ends the line
<1>17. ASSUME NEW q \in 1..Len(E) - 1, P + q <= Z, E[q] = "nl"
       PROVE  f[P + q - 1].open
  <2>1. q > K + 2
    <3>1. q \in 1..K + 2 \/ q > K + 2
      BY <1>a
    <3> QED BY <1>11, <1>17, <3>1
  <2> DEFINE r == q - (K + 2)
  <2>2. r \in 1..M /\ K + 2 + r = q
    BY <1>a, <2>1
  <2> HIDE DEF r
  <2>3. Q[r] = "nl"
    BY <1>4, <1>17, <2>2
  <2>4. PICK j \in 0..N : r = at[j] + 1 /\ at[j] <= at[N]
    BY <1>n, <2>2, <2>3
  <2>5. at[j] \in Nat
    BY <1>o
  <2> DEFINE b == at[j]
  <2>6. p + b = P + q - 1 /\ p + b <= Z /\ p <= Z
    <3>1. r = b + 1 /\ b \in Nat
      BY <2>4, <2>5
    <3> HIDE DEF b
    <3> QED BY <1>a, <1>17, <2>2, <3>1
  <2> HIDE DEF p
  <2>7. f[p + b].open
    BY <1>16, <2>6
  <2> QED BY <2>6, <2>7
<1> DEFINE U == {q \in 0..Len(E) - 1 : P + q <= Z => f[P + q].lines = L /\ f[P + q].line = SubSeq(E, 1, q)}
<1>18. 0 \in U
  <2>1. P + 0 = P /\ 0 \in 0..Len(E) - 1
    BY <1>a
  <2>2. SubSeq(E, 1, 0) = <<>>
    BY <1>1
  <2> QED BY <1>10, <2>1, <2>2
<1>19. ASSUME NEW q \in 1..Len(E) - 1, q - 1 \in U PROVE q \in U
  <2> SUFFICES ASSUME P + q <= Z PROVE f[P + q].lines = L /\ f[P + q].line = SubSeq(E, 1, q)
    BY <1>a
  <2> DEFINE i == P + q
  <2>1. i \in 1..Z /\ i - 1 = P + (q - 1) /\ P + (q - 1) <= Z /\ q \in 1..Len(E) /\ i - 1 = P + q - 1
    BY <1>a
  <2>2. f[i - 1].lines = L /\ f[i - 1].line = SubSeq(E, 1, q - 1)
    BY <1>19, <2>1
  <2>3. X[i] = E[q]
    BY <1>6, <2>1
  <2>4. ~(f[i - 1].skip = 0 /\ ~f[i - 1].open /\ X[i] = "nl")
    BY <1>17, <2>1, <2>3
  <2> HIDE DEF i
  <2>5. Extends(f[i - 1], f[i], X[i])
    BY <1>9, <2>1, <2>4
  <2>6. f[i].lines = L /\ f[i].line = Append(SubSeq(E, 1, q - 1), E[q])
    BY <2>2, <2>3, <2>5 DEF Extends
  <2>7. Append(SubSeq(E, 1, q - 1), E[q]) = SubSeq(E, 1, q)
    BY <1>1, <2>1, OneMore
  <2> QED BY <2>6, <2>7 DEF i
<1>20. \A q \in 0..Len(E) - 1 : P + q <= Z => f[P + q].lines = L /\ f[P + q].line = SubSeq(E, 1, q)
  <2>1. Len(E) - 1 \in Nat
    BY <1>a
  <2>2. 0..Len(E) - 1 \subseteq U
    <3> HIDE DEF U
    <3> QED BY <1>18, <1>19, <2>1, UpTo
  <2> QED BY <2>2
<1>21. ASSUME P + Len(E) <= Z PROVE Between(f[P + Len(E)], Append(L, SubSeq(E, 1, Len(E) - 1)))
  <2> DEFINE i == P + Len(E)
  <2>1. i \in 1..Z /\ i - 1 = P + (Len(E) - 1) /\ i - 1 = p + M /\ p <= Z /\ p + M <= Z
        /\ Len(E) - 1 \in 0..Len(E) - 1 /\ P + (Len(E) - 1) <= Z /\ Len(E) \in 1..Len(E)
    BY <1>a, <1>21
  <2>2. f[i - 1].lines = L /\ f[i - 1].line = SubSeq(E, 1, Len(E) - 1)
    BY <1>20, <2>1
  <2>3. ~f[i - 1].open /\ f[i - 1].skip = 0
    <3> HIDE DEF p, i
    <3> QED BY <1>16, <2>1
  <2>4. X[i] = "nl"
    BY <1>4, <1>6, <1>21, <2>1
  <2> HIDE DEF i
  <2>5. Ends(f[i - 1], f[i])
    BY <1>9, <2>1, <2>3, <2>4
  <2>6. Between(f[i], Append(L, SubSeq(E, 1, Len(E) - 1)))
    BY <2>2, <2>3, <2>5 DEF Ends, Between
  <2> QED BY <2>6 DEF i
<1> QED BY <1>20, <1>21 DEF EntryRead, E, Z

-----------------------------------------------------------------------------
(* Imports                                                                  *)

\* ImportLines is the end of a run,
LEMMA ImportRun ==
  ASSUME NEW w, NEW T, NEW lines \in Seq(T)
  PROVE  \E h : /\ h[0] = w /\ \A i \in 1..Len(lines) : h[i] = ImportLine(h[i - 1], lines[i])
                /\ ImportLines(w, lines) = h[Len(lines)]
<1> DEFINE N == Len(lines)
           Is(h, n) == h = [i \in 0..n |-> IF i = 0 THEN w ELSE ImportLine(h[i - 1], lines[i])]
           U == {n \in 0..N : \E h : Is(h, n)}
<1>1. N \in Nat
  OBVIOUS
<1> HIDE DEF N
<1>2. 0 \in U
  <2> DEFINE h == [i \in 0..0 |-> w]
  <2>1. Is(h, 0)
    <3> DEFINE g == [i \in 0..0 |-> IF i = 0 THEN w ELSE ImportLine(h[i - 1], lines[i])]
    <3>1. g = h
      OBVIOUS
    <3> QED BY <3>1, Zenon
  <2>2. \E x : Is(x, 0)
    <3> HIDE DEF Is
    <3> QED BY <2>1
  <2> QED BY <1>1, <2>2
<1>3. ASSUME NEW m \in 1..N, m - 1 \in U PROVE m \in U
  <2> DEFINE n == m - 1
  <2>1. n \in Nat /\ n + 1 = m /\ m \in 0..N
    BY <1>1
  <2>2. PICK h : Is(h, n)
    BY <1>3
  <2>3. /\ \A i \in 0..n : h[i] = IF i = 0 THEN w ELSE ImportLine(h[i - 1], lines[i])
    BY <2>2, Zenon
  <2> HIDE DEF n, Is
  <2> DEFINE g == [i \in 0..m |-> IF i <= n THEN h[i] ELSE ImportLine(h[n], lines[m])]
             gg == [i \in 0..m |-> IF i = 0 THEN w ELSE ImportLine(g[i - 1], lines[i])]
  <2>4. ASSUME NEW i \in 0..m PROVE g[i] = gg[i]
    <3>1. CASE i = 0
      <4>1. 0 \in 0..n /\ 0 <= n
        BY <2>1
      <4>2. h[0] = w
        BY <2>3, <4>1
      <4> QED BY <3>1, <4>1, <4>2
    <3>2. CASE i # 0
      <4>1. i - 1 \in 0..m /\ i - 1 <= n /\ i \in 1..m
        BY <2>1, <3>2
      <4>2. g[i - 1] = h[i - 1]
        BY <4>1
      <4>3. gg[i] = ImportLine(h[i - 1], lines[i])
        <5> HIDE DEF g
        <5> QED BY <3>2, <4>2
      <4>4. CASE i <= n
        <5>1. i \in 0..n
          BY <4>1, <4>4
        <5>2. h[i] = ImportLine(h[i - 1], lines[i])
          BY <2>3, <3>2, <5>1
        <5>3. g[i] = h[i]
          BY <4>4
        <5> HIDE DEF g, gg
        <5> QED BY <4>3, <5>2, <5>3
      <4>5. CASE ~(i <= n)
        <5>1. i = m /\ i - 1 = n
          BY <2>1, <4>1, <4>5
        <5>2. g[i] = ImportLine(h[n], lines[m])
          BY <4>5
        <5> HIDE DEF g, gg
        <5> QED BY <4>3, <5>1, <5>2
      <4> QED BY <4>4, <4>5
    <3> QED BY <3>1, <3>2
  <2>5. g = gg
    <3>1. DOMAIN g = 0..m /\ DOMAIN gg = 0..m
      OBVIOUS
    <3>2. g = [i \in 0..m |-> g[i]] /\ gg = [i \in 0..m |-> gg[i]]
      OBVIOUS
    <3> HIDE DEF g, gg
    <3> QED BY <2>4, <3>2
  <2>6. Is(g, m)
    BY <2>5, Zenon DEF Is
  <2> HIDE DEF g
  <2> QED BY <2>1, <2>6
<1>4. 0..N \subseteq U
  <2> HIDE DEF U
  <2> QED BY <1>1, <1>2, <1>3, UpTo
<1>5. PICK f : Is(f, N)
  <2>1. N \in 0..N
    BY <1>1
  <2>2. N \in U
    BY <1>4, <2>1, Zenon
  <2> HIDE DEF Is
  <2> QED BY <2>2
<1> DEFINE h == CHOOSE h : Is(h, N)
<1>6. Is(h, N)
  BY <1>5, Zenon
<1>7. ImportLines(w, lines) = h[N]
  BY DEF ImportLines, N
<1>8. \A i \in 0..N : h[i] = IF i = 0 THEN w ELSE ImportLine(h[i - 1], lines[i])
  <2> HIDE DEF h
  <2> QED BY <1>6, Zenon
<1> HIDE DEF h, Is
<1>9. h[0] = w /\ \A i \in 1..N : h[i] = ImportLine(h[i - 1], lines[i])
  BY <1>1, <1>8
<1> QED BY <1>7, <1>9 DEF N

\* which may have no steps,
LEMMA ImportNone ==
  ASSUME NEW w
  PROVE  ImportLines(w, <<>>) = w
<1>1. <<>> \in Seq({}) /\ Len(<<>>) = 0
  OBVIOUS
<1> DEFINE e == <<>>
<1> HIDE DEF e
<1>2. PICK h : /\ h[0] = w /\ \A i \in 1..Len(e) : h[i] = ImportLine(h[i - 1], e[i])
               /\ ImportLines(w, e) = h[Len(e)]
  <2>1. e \in Seq({})
    BY <1>1 DEF e
  <2> QED BY <2>1, ImportRun
<1>3. Len(e) = 0
  BY <1>1 DEF e
<1>4. ImportLines(w, e) = w
  BY <1>2, <1>3
<1> QED BY <1>4 DEF e

\* or one more.
LEMMA ImportOneMore ==
  ASSUME NEW w, NEW T, NEW lines \in Seq(T), NEW x \in T
  PROVE  ImportLines(w, Append(lines, x)) = ImportLine(ImportLines(w, lines), x)
<1> DEFINE more == Append(lines, x)
           N == Len(lines)
<1>1. more \in Seq(T) /\ Len(more) = N + 1 /\ N \in Nat /\ more[N + 1] = x /\ \A i \in 1..N : more[i] = lines[i]
  OBVIOUS
<1> HIDE DEF more
<1>2. PICK f : /\ f[0] = w /\ \A i \in 1..N : f[i] = ImportLine(f[i - 1], lines[i])
               /\ ImportLines(w, lines) = f[N]
  BY ImportRun
<1>3. PICK h : /\ h[0] = w /\ \A i \in 1..Len(more) : h[i] = ImportLine(h[i - 1], more[i])
               /\ ImportLines(w, more) = h[Len(more)]
  BY <1>1, ImportRun
<1> HIDE DEF N
<1>4. h[N] = f[N]
  <2>1. \A i \in 1..N : i \in 1..Len(more)
    BY <1>1
  <2>2. h[0] = f[0] /\ \A i \in 1..N : h[i - 1] = f[i - 1] => h[i] = f[i]
    BY <1>1, <1>2, <1>3, <2>1
  <2> QED BY <1>1, <2>2, SameRun
<1>5. N + 1 \in 1..Len(more) /\ (N + 1) - 1 = N
  BY <1>1
<1>6. h[N + 1] = ImportLine(h[N], x)
  BY <1>1, <1>3, <1>5
<1> QED BY <1>1, <1>2, <1>3, <1>4, <1>6 DEF more

\* The vaults with keys of Ks and values made of Y
Stores(Ks, Y) == UNION {[ks -> Seq(Y)] : ks \in SUBSET Ks}

\* A vault is a function with allowed keys and values.
LEMMA StoreIs ==
  ASSUME NEW Ks, NEW Y, NEW g
  PROVE  g \in Stores(Ks, Y) <=> /\ g = [k \in DOMAIN g |-> g[k]] /\ DOMAIN g \subseteq Ks
                                 /\ \A k \in DOMAIN g : g[k] \in Seq(Y)
<1>1. ASSUME g \in Stores(Ks, Y)
      PROVE  g = [k \in DOMAIN g |-> g[k]] /\ DOMAIN g \subseteq Ks /\ \A k \in DOMAIN g : g[k] \in Seq(Y)
  <2>1. PICK ks \in SUBSET Ks : g \in [ks -> Seq(Y)]
    BY <1>1 DEF Stores
  <2> QED BY <2>1
<1>2. ASSUME g = [k \in DOMAIN g |-> g[k]], DOMAIN g \subseteq Ks, \A k \in DOMAIN g : g[k] \in Seq(Y)
      PROVE  g \in Stores(Ks, Y)
  <2>1. g \in [DOMAIN g -> Seq(Y)]
    BY <1>2
  <2> QED BY <1>2, <2>1 DEF Stores
<1> QED BY <1>1, <1>2

\* What Over is made of.
LEMMA OverIs ==
  ASSUME NEW f, NEW g
  PROVE  /\ Over(f, g) = [k \in DOMAIN Over(f, g) |-> Over(f, g)[k]]
         /\ DOMAIN Over(f, g) = DOMAIN f \cup DOMAIN g
         /\ \A k \in DOMAIN f : Over(f, g)[k] = f[k]
         /\ \A k \in DOMAIN g : k \notin DOMAIN f => Over(f, g)[k] = g[k]
BY DEF Over

\* A vault over a vault is one.
LEMMA OverStore ==
  ASSUME NEW Ks, NEW Y, NEW f \in Stores(Ks, Y), NEW g \in Stores(Ks, Y)
  PROVE  Over(f, g) \in Stores(Ks, Y)
<1>1. DOMAIN f \subseteq Ks /\ \A k \in DOMAIN f : f[k] \in Seq(Y)
  BY StoreIs
<1>2. DOMAIN g \subseteq Ks /\ \A k \in DOMAIN g : g[k] \in Seq(Y)
  BY StoreIs
<1> DEFINE h == Over(f, g)
<1>3. /\ h = [k \in DOMAIN h |-> h[k]] /\ DOMAIN h = DOMAIN f \cup DOMAIN g
      /\ \A k \in DOMAIN f : h[k] = f[k]
      /\ \A k \in DOMAIN g : k \notin DOMAIN f => h[k] = g[k]
  <2>1. h = [k \in DOMAIN h |-> h[k]]
    BY OverIs
  <2> QED BY <2>1 DEF Over
<1> HIDE DEF h
<1>4. DOMAIN h \subseteq Ks /\ \A k \in DOMAIN h : h[k] \in Seq(Y)
  BY <1>1, <1>2, <1>3
<1>5. h \in Stores(Ks, Y)
  BY <1>3, <1>4, StoreIs
<1> QED BY <1>5 DEF h

\* Nothing over a vault leaves it.
LEMMA OverNone ==
  ASSUME NEW Ks, NEW Y, NEW f, DOMAIN f = {}, NEW g \in Stores(Ks, Y)
  PROVE  Over(f, g) = g
<1>1. g = [k \in DOMAIN g |-> g[k]]
  BY StoreIs
<1>2. Over(f, g) = [k \in DOMAIN g |-> g[k]]
  BY DEF Over
<1> QED BY <1>1, <1>2, Zenon

\* The vault of one key
One(k, v) == [x \in {k} |-> v]

\* Line k of what was exported, over the lines before it
LEMMA OverOne ==
  ASSUME NEW e, NEW ks \in SUBSET DOMAIN e, NEW k \in DOMAIN e, NEW w
  PROVE  Over(One(k, e[k]), Over(Restrict(e, ks), w)) = Over(Restrict(e, ks \cup {k}), w)
<1> DEFINE a == Over(One(k, e[k]), Over(Restrict(e, ks), w))
           b == Over(Restrict(e, ks \cup {k}), w)
<1>1. DOMAIN a = DOMAIN b
  BY DEF Over, One, Restrict
<1>2. ASSUME NEW x \in DOMAIN a PROVE a[x] = b[x]
  <2>1. x = k \/ x \in ks \/ x \in DOMAIN w
    BY DEF Over, One, Restrict
  <2> QED BY <2>1 DEF Over, One, Restrict
<1>3. a = [x \in DOMAIN a |-> a[x]] /\ b = [x \in DOMAIN b |-> b[x]]
  BY OverIs
<1> HIDE DEF a, b
<1>4. a = b
  BY <1>1, <1>2, <1>3
<1> QED BY <1>4 DEF a, b

\* A line of an export, or a beginning of one, sets its key to a beginning of its value
LineImported(g, k, v, m) ==
  LET after == ImportLine(g, SubSeq(ExportLine(k, v), 1, m)) IN
  /\ after = g \/ \E j \in 0..Len(v) : after = Over(One(TrimSpace(k), SubSeq(v, 1, j)), g) /\ ValidKey(TrimSpace(k))
  /\ m = Len(ExportLine(k, v)) - 1 /\ ValidKey(TrimSpace(k)) => after = Over(One(TrimSpace(k), v), g)

\* What ImportLine makes of a beginning of a line of an export.
LEMMA ImportedLine ==
  ASSUME NEW T, Marks \subseteq T, NEW Ks, NEW Y, NEW g \in Stores(Ks, Y),
         NEW k \in Seq(T), ValidKey(k), NEW v \in Seq(T), NEW m \in 1..Len(ExportLine(k, v)) - 1
  PROVE  LineImported(g, k, v, m)
<1> DEFINE text == SubSeq(ExportLine(k, v), 1, m)
           got == Entry(text)
           t == TrimSpace(k)
           first == CHOOSE e \in got : TRUE
           val == first.value
           after == ImportLine(g, text)
<1>1. /\ got \subseteq {[key |-> t, value |-> SubSeq(v, 1, j)] : j \in 0..Len(v)}
      /\ got # {} => ValidKey(t)
      /\ m = Len(ExportLine(k, v)) - 1 /\ ValidKey(t) => got = {[key |-> t, value |-> v]}
  BY EntryOfCut
<1>2. after = Over([x \in {e.key : e \in got} |-> val], g)
  BY DEF ImportLine
<1> HIDE DEF got, t, after
<1>3. CASE got = {}
  <2> DEFINE none == [x \in {e.key : e \in got} |-> val]
  <2>1. DOMAIN none = {}
    BY <1>3
  <2> HIDE DEF none
  <2>2. after = g
    BY <1>2, <2>1, OverNone DEF none
  <2>3. ~(m = Len(ExportLine(k, v)) - 1 /\ ValidKey(t))
    BY <1>1, <1>3
  <2> QED BY <2>2, <2>3 DEF LineImported, after, t
<1>4. CASE got # {}
  <2>1. first \in got
    BY <1>4
  <2> HIDE DEF first
  <2>2. PICK j \in 0..Len(v) : first = [key |-> t, value |-> SubSeq(v, 1, j)]
    BY <1>1, <2>1
  <2>3. val = SubSeq(v, 1, j)
    BY <2>2
  <2>4. {e.key : e \in got} = {t}
    <3>1. \A e \in got : e.key = t
      BY <1>1
    <3> QED BY <1>4, <3>1
  <2>5. m = Len(ExportLine(k, v)) - 1 => val = v
    <3> SUFFICES ASSUME m = Len(ExportLine(k, v)) - 1 PROVE val = v
      OBVIOUS
    <3>1. got = {[key |-> t, value |-> v]}
      BY <1>1, <1>4
    <3>2. first = [key |-> t, value |-> v]
      BY <2>1, <3>1
    <3> QED BY <3>2
  <2> HIDE DEF val
  <2>6. after = Over(One(t, val), g)
    BY <1>2, <2>4 DEF One
  <2> QED BY <1>1, <1>4, <2>3, <2>5, <2>6 DEF LineImported, after, t
<1> QED BY <1>3, <1>4

\* What the import of a beginning of an export leaves
Imported(w, e, ks, g) ==
  LET h == Over(Restrict(e, ks), w)
  IN g = h \/ \E k \in DOMAIN e : \E j \in 0..Len(e[k]) : g = Over(One(k, SubSeq(e[k], 1, j)), h)

\* and of the first c symbols, of all in particular
ImportedCut(w, e, S, Ks, Y, c) ==
  LET R == RenderExport(e, S)
      g == Import(w, SubSeq(R, 1, c))
  IN /\ g \in Stores(Ks, Y)
     /\ Importable(e) => \E ks \in SUBSET DOMAIN e : Imported(w, e, ks, g)
     /\ Importable(e) /\ c = Len(R) => g = Over(Restrict(e, DOMAIN e \cap ToSet(S)), w)

\* A vault of one key.
LEMMA OneStore ==
  ASSUME NEW Ks, NEW Y, NEW k \in Ks, NEW v \in Seq(Y)
  PROVE  One(k, v) \in Stores(Ks, Y)
<1> DEFINE g == One(k, v)
<1>1. g = [x \in DOMAIN g |-> g[x]] /\ DOMAIN g = {k} /\ g[k] = v
  BY DEF One
<1> HIDE DEF g
<1>2. DOMAIN g \subseteq Ks /\ \A x \in DOMAIN g : g[x] \in Seq(Y)
  BY <1>1
<1>3. g \in Stores(Ks, Y)
  BY <1>1, <1>2, StoreIs
<1> QED BY <1>3 DEF g

\* What the first m symbols of the line of k and v leave of vault g
Stored(g, k, v, m, Ks, Y) ==
  LET after == ImportLine(g, SubSeq(ExportLine(k, v), 1, m)) IN
  /\ after \in Stores(Ks, Y)
  /\ TrimSpace(k) = k => \/ after = g
                         \/ \E j \in 0..Len(v) : after = Over(One(k, SubSeq(v, 1, j)), g)
  /\ TrimSpace(k) = k /\ m = Len(ExportLine(k, v)) - 1 => after = Over(One(k, v), g)

\* An imported line leaves a store, and sets its key when importing keeps its name
LEMMA LineStored ==
  ASSUME NEW T, Marks \subseteq T, NEW Ks \in SUBSET Seq(T), NEW Y, Y \subseteq T,
         \A x \in Ks : ValidKey(x) /\ (ValidKey(TrimSpace(x)) => TrimSpace(x) \in Ks),
         NEW g \in Stores(Ks, Y), NEW k \in Ks, NEW v \in Seq(Y), NEW m \in 1..Len(ExportLine(k, v)) - 1
  PROVE  Stored(g, k, v, m, Ks, Y)
<1> DEFINE after == ImportLine(g, SubSeq(ExportLine(k, v), 1, m))
           t == TrimSpace(k)
<1>1. k \in Seq(T) /\ ValidKey(k) /\ v \in Seq(T) /\ (ValidKey(t) => t \in Ks)
  OBVIOUS
<1>2. LineImported(g, k, v, m)
  BY <1>1, ImportedLine
<1>3. /\ after = g \/ \E j \in 0..Len(v) : after = Over(One(t, SubSeq(v, 1, j)), g) /\ ValidKey(t)
      /\ m = Len(ExportLine(k, v)) - 1 /\ ValidKey(t) => after = Over(One(t, v), g)
  BY <1>2 DEF LineImported
<1> HIDE DEF after, t
<1>4. ASSUME NEW j \in 0..Len(v), ValidKey(t), after = Over(One(t, SubSeq(v, 1, j)), g)
      PROVE  after \in Stores(Ks, Y)
  <2> DEFINE x == SubSeq(v, 1, j)
  <2>1. x \in Seq(Y) /\ t \in Ks
    BY <1>1, <1>4
  <2> HIDE DEF x
  <2>2. One(t, x) \in Stores(Ks, Y)
    BY <2>1, OneStore
  <2>3. Over(One(t, x), g) \in Stores(Ks, Y)
    BY <2>2, OverStore
  <2> QED BY <1>4, <2>3 DEF x
<1>5. after \in Stores(Ks, Y)
  BY <1>3, <1>4
<1>6. t = k => \/ after = g
               \/ \E j \in 0..Len(v) : after = Over(One(k, SubSeq(v, 1, j)), g)
  BY <1>3
<1>7. t = k /\ m = Len(ExportLine(k, v)) - 1 => after = Over(One(k, v), g)
  BY <1>1, <1>3
<1> QED BY <1>5, <1>6, <1>7 DEF Stored, after, t

\* The lines of an export, nothing for a key that the vault does not hold
ExportLines(e, S) ==
  [i \in DOMAIN S |-> IF S[i] \in DOMAIN e THEN ExportLine(S[i], e[S[i]]) ELSE <<>>]

\* An export is a text, its lines laid out in the order of the keys.
LEMMA ExportLayout ==
  ASSUME NEW T, Marks \subseteq T, NEW Ks \in SUBSET Seq(T), NEW Y, Y \subseteq T,
         NEW S \in Seq(Ks), NEW e \in Stores(Ks, Y)
  PROVE  LET s == ExportLines(e, S)
             R == RenderExport(e, S)
         IN  /\ R \in Seq(T) /\ \E at : Laid(s, Len(S), R, at)
             /\ \A i \in 1..Len(S) : /\ s[i] \in Seq(T)
                                     /\ S[i] \in DOMAIN e => s[i] = ExportLine(S[i], e[S[i]])
                                     /\ S[i] \notin DOMAIN e => s[i] = <<>>
<1> DEFINE N == Len(S)
           s == ExportLines(e, S)
           R == RenderExport(e, S)
<1>1. /\ N \in Nat /\ DOMAIN S = 1..N
      /\ \A i \in 1..N : S[i] \in Seq(T)
      /\ \A k \in DOMAIN e : e[k] \in Seq(T)
  <2>1. \A k \in DOMAIN e : e[k] \in Seq(Y)
    BY StoreIs
  <2>2. Seq(Y) \subseteq Seq(T)
    OBVIOUS
  <2>3. N \in Nat /\ DOMAIN S = 1..N /\ \A i \in 1..N : S[i] \in Ks
    OBVIOUS
  <2> HIDE DEF N
  <2> QED BY <2>1, <2>2, <2>3
<1>2. \A i \in 1..N : /\ s[i] \in Seq(T)
                      /\ S[i] \in DOMAIN e => s[i] = ExportLine(S[i], e[S[i]])
                      /\ S[i] \notin DOMAIN e => s[i] = <<>>
  <2> SUFFICES ASSUME NEW i \in 1..N
               PROVE  /\ s[i] \in Seq(T)
                      /\ S[i] \in DOMAIN e => s[i] = ExportLine(S[i], e[S[i]])
                      /\ S[i] \notin DOMAIN e => s[i] = <<>>
    OBVIOUS
  <2>1. s[i] = IF S[i] \in DOMAIN e THEN ExportLine(S[i], e[S[i]]) ELSE <<>>
    BY <1>1 DEF ExportLines
  <2> HIDE DEF s
  <2>2. S[i] \in DOMAIN e => ExportLine(S[i], e[S[i]]) \in Seq(T)
    BY <1>1, LineLayout
  <2> QED BY <2>1, <2>2
<1>3. s \in Seq(Seq(T)) /\ Len(s) = N
  <2>1. s \in [1..N -> Seq(T)]
    <3>1. DOMAIN s = 1..N /\ s = [i \in 1..N |-> s[i]]
      BY <1>1 DEF ExportLines
    <3> HIDE DEF s
    <3> QED BY <1>2, <3>1
  <2> HIDE DEF s, N
  <2> QED BY <1>1, <2>1
<1>4. R = FlattenSeq(s)
  BY DEF RenderExport, ExportLines
<1> HIDE DEF s, R, N
<1>5. R \in Seq(T) /\ \E at : Laid(s, N, R, at)
  BY <1>3, <1>4, FlattenedLayout
<1> QED BY <1>2, <1>5 DEF s, R, N

\* The import of a beginning of an export, line by line: vaults stay vaults, all
\* lines before the cut set their keys, the one that is cut at most its own.
LEMMA ImportOfCut ==
  ASSUME NEW T, Marks \subseteq T, NEW Ks \in SUBSET Seq(T), NEW Y, Y \subseteq T,
         \A x \in Ks : ValidKey(x) /\ (ValidKey(TrimSpace(x)) => TrimSpace(x) \in Ks),
         NEW S \in Seq(Ks), NEW e \in Stores(Ks, Y), NEW w \in Stores(Ks, Y),
         NEW c \in 0..Len(RenderExport(e, S))
  PROVE  ImportedCut(w, e, S, Ks, Y, c)
<1> DEFINE N == Len(S)
           s == ExportLines(e, S)
           R == RenderExport(e, S)
           X == SubSeq(R, 1, c)
           Done(i) == {k \in DOMAIN e : \E j \in 1..i : S[j] = k}
<1>1. /\ N \in Nat /\ DOMAIN S = 1..N
      /\ \A i \in 1..N : S[i] \in Ks /\ S[i] \in Seq(T) /\ ValidKey(S[i])
      /\ \A k \in DOMAIN e : e[k] \in Seq(Y) /\ e[k] \in Seq(T)
  <2>1. \A k \in DOMAIN e : e[k] \in Seq(Y)
    BY StoreIs
  <2>2. Seq(Y) \subseteq Seq(T)
    OBVIOUS
  <2>3. \A k \in DOMAIN e : e[k] \in Seq(Y) /\ e[k] \in Seq(T)
    BY <2>1, <2>2
  <2>4. N \in Nat /\ DOMAIN S = 1..N /\ \A i \in 1..N : S[i] \in Ks
    OBVIOUS
  <2>5. \A k \in Ks : k \in Seq(T) /\ ValidKey(k)
    OBVIOUS
  <2> HIDE DEF N
  <2>6. \A i \in 1..N : S[i] \in Ks /\ S[i] \in Seq(T) /\ ValidKey(S[i])
    BY <2>4, <2>5
  <2> QED BY <2>3, <2>4, <2>6
<1>2. \A i \in 1..N : /\ s[i] \in Seq(T)
                      /\ S[i] \in DOMAIN e => s[i] = ExportLine(S[i], e[S[i]])
                      /\ S[i] \notin DOMAIN e => s[i] = <<>>
  BY ExportLayout
<1>5. R \in Seq(T) /\ \E at : Laid(s, N, R, at)
  BY ExportLayout
<1> HIDE DEF s, R, N
<1>6. PICK at : Laid(s, N, R, at)
  BY <1>5
<1>7. /\ at[0] = 0 /\ Len(R) = at[N]
      /\ \A j \in 0..N : at[j] \in Nat /\ at[j] <= at[N]
      /\ \A j \in 1..N : at[j] = at[j - 1] + Len(s[j]) /\ \A d \in 1..Len(s[j]) : R[at[j - 1] + d] = s[j][d]
  BY <1>6 DEF Laid
<1>8. c \in Nat /\ c <= Len(R) /\ X \in Seq(T) /\ Len(X) = c /\ \A q \in 1..c : X[q] = R[q]
  <2>1. c \in 0..Len(R)
    BY DEF R
  <2> QED BY <1>5, <2>1
<1> HIDE DEF X
<1>9. PICK f : /\ SplitRun(X, T, f)
               /\ SplitImportLines(X) = LET end == f[Len(X)] IN
                                        IF end.line = <<>> THEN end.lines ELSE Append(end.lines, end.line)
  BY <1>8, Splitting
<1>10. f[0] = SplitStart /\ \A i \in 0..c : f[i].lines \in Seq(Seq(T)) /\ f[i].line \in Seq(T)
  BY <1>8, <1>9 DEF SplitRun, SplitStates
<1> DEFINE Read(g, i) == g \in Stores(Ks, Y) /\ (Importable(e) => g = Over(Restrict(e, Done(i)), w))
           U == {i \in 0..N : at[i] <= c =>
                    /\ Between(f[at[i]], f[at[i]].lines)
                    /\ Read(ImportLines(w, f[at[i]].lines), i)}
<1>11. 0 \in U
  <2>1. 0 \in 0..N /\ at[0] = 0
    BY <1>1, <1>7
  <2>2. f[0].lines = <<>> /\ Between(f[0], f[0].lines)
    BY <1>10 DEF SplitStart, Between
  <2>3. ImportLines(w, f[0].lines) = w
    BY <2>2, ImportNone
  <2>4. Over(Restrict(e, Done(0)), w) = w
    <3> DEFINE none == Restrict(e, Done(0))
    <3>1. DOMAIN none = {}
      BY DEF Restrict
    <3> HIDE DEF none
    <3> QED BY <3>1, OverNone DEF none
  <2>5. Read(ImportLines(w, f[0].lines), 0)
    BY <2>3, <2>4
  <2> HIDE DEF Read
  <2> QED BY <2>1, <2>2, <2>5
\* Lines sets of the next key
<1>12. ASSUME NEW i \in 1..N, i - 1 \in U, at[i - 1] <= c, S[i] \in DOMAIN e
       PROVE  LET L == f[at[i - 1]].lines
                  E == ExportLine(S[i], e[S[i]])
              IN  EntryRead(X, f, at[i - 1], E, L) /\ L \in Seq(Seq(T)) /\ Read(ImportLines(w, L), i - 1)
                  /\ at[i] = at[i - 1] + Len(E) /\ E \in Seq(T) /\ LineIs(E, S[i], ShellQuote(e[S[i]]))
  <2> DEFINE P == at[i - 1]
             L == f[P].lines
             k == S[i]
             v == e[k]
             E == ExportLine(k, v)
  <2>1. k \in Seq(T) /\ ValidKey(k) /\ v \in Seq(T) /\ s[i] = E
    BY <1>1, <1>2, <1>12
  <2>2. P \in Nat /\ at[i] = P + Len(s[i]) /\ (\A d \in 1..Len(s[i]) : R[P + d] = s[i][d]) /\ P \in 0..c
    <3>1. i - 1 \in 0..N
      BY <1>1
    <3> QED BY <1>7, <1>8, <1>12, <3>1
  <2>3. Between(f[P], L) /\ Read(ImportLines(w, L), i - 1)
    <3> HIDE DEF Read
    <3> QED BY <1>12
  <2>4. E \in Seq(T) /\ LineIs(E, k, ShellQuote(v))
    BY <2>1, LineLayout
  <2>5. L \in Seq(Seq(T))
    <3> HIDE DEF P
    <3> QED BY <1>10, <2>2
  <2> HIDE DEF P, L, E, k, v, Read
  <2>6. Shows(X, P, E)
    <3> SUFFICES ASSUME NEW q \in 1..Len(E), P + q <= Len(X) PROVE X[P + q] = E[q]
      BY DEF Shows
    <3>1. P + q \in 1..c /\ Len(E) \in Nat
      BY <1>8, <2>2, <2>4
    <3> QED BY <1>8, <2>1, <2>2, <3>1
  <2>7. EntryRead(X, f, P, E, L)
    BY <1>8, <1>9, <2>1, <2>2, <2>3, <2>6, SplitEntry DEF E
  <2> QED BY <2>1, <2>2, <2>3, <2>4, <2>5, <2>7 DEF P, L, E, k, v
<1>13. ASSUME NEW i \in 1..N, i - 1 \in U PROVE i \in U
  <2> SUFFICES ASSUME at[i] <= c
               PROVE  Between(f[at[i]], f[at[i]].lines) /\ Read(ImportLines(w, f[at[i]].lines), i)
    BY <1>1
  <2>1. i \in 0..N /\ i - 1 \in 0..N /\ i \in Nat
    BY <1>1
  <2> DEFINE P == at[i - 1]
             L == f[P].lines
             k == S[i]
             v == e[k]
             E == ExportLine(k, v)
             G == ImportLines(w, L)
  <2>2. P \in Nat /\ at[i] = P + Len(s[i]) /\ Len(s[i]) \in Nat /\ P <= c
    <3>1. at[i - 1] \in Nat /\ at[i] = at[i - 1] + Len(s[i]) /\ Len(s[i]) \in Nat
      BY <1>2, <1>7, <2>1
    <3> QED BY <1>8, <3>1
  <2>3. CASE k \notin DOMAIN e
    <3>1. at[i] = P
      <4>1. s[i] = <<>>
        BY <1>2, <2>3
      <4>2. Len(s[i]) = 0
        BY <4>1
      <4> HIDE DEF P
      <4> QED BY <2>2, <4>2
    <3>2. Done(i) = Done(i - 1)
      <4>1. \A j \in 1..i : j = i \/ j \in 1..i - 1
        BY <2>1
      <4>2. \A j \in 1..i - 1 : j \in 1..i
        BY <2>1
      <4> QED BY <2>3, <4>1, <4>2
    <3>3. Between(f[P], L) /\ Read(G, i - 1)
      <4> HIDE DEF Read
      <4> QED BY <1>13, <2>2
    <3>4. Read(G, i)
      <4> HIDE DEF Done, G
      <4> QED BY <3>2, <3>3
    <3> HIDE DEF Read
    <3> QED BY <3>1, <3>3, <3>4
  <2>4. CASE k \in DOMAIN e
    <3>1. /\ EntryRead(X, f, P, E, L) /\ L \in Seq(Seq(T)) /\ Read(G, i - 1)
          /\ at[i] = P + Len(E) /\ E \in Seq(T) /\ LineIs(E, k, ShellQuote(v))
      <4> HIDE DEF Read
      <4> QED BY <1>12, <1>13, <2>2, <2>4
    <3>2. k \in Ks /\ ValidKey(k) /\ v \in Seq(Y) /\ k \in Seq(T) /\ v \in Seq(T)
      BY <1>1, <2>4
    <3> DEFINE m == Len(E) - 1
               x == SubSeq(E, 1, m)
    <3>3. m \in 1..Len(E) - 1 /\ Len(E) \in Nat
      <4>1. ShellQuote(v) \in Seq(T)
        BY <3>2, Quoting
      <4>2. Len(ShellQuote(v)) \in Nat /\ Len(k) \in Nat
        BY <3>2, <4>1
      <4>3. Len(E) = Len(k) + Len(ShellQuote(v)) + 3
        BY <3>1 DEF LineIs
      <4> DEFINE a == Len(k)
                 b == Len(ShellQuote(v))
                 l == Len(E)
      <4>4. a \in Nat /\ b \in Nat /\ l = a + b + 3
        BY <4>2, <4>3
      <4> HIDE DEF a, b, l
      <4>5. l \in Nat /\ l - 1 \in 1..l - 1
        BY <4>4
      <4> QED BY <4>5 DEF l
    <3> DEFINE after == ImportLine(G, x)
    <3>4. Between(f[at[i]], Append(L, x))
      <4> HIDE DEF L, P, E
      <4> QED BY <1>8, <3>1 DEF EntryRead
    <3>5. f[at[i]].lines = Append(L, x)
      BY <3>4 DEF Between
    <3>6. x \in Seq(T)
      BY <3>1, <3>3
    <3>7. ImportLines(w, f[at[i]].lines) = after
      <4> HIDE DEF x
      <4> QED BY <3>1, <3>5, <3>6, ImportOneMore
    <3>8. after \in Stores(Ks, Y) /\ (TrimSpace(k) = k => after = Over(One(k, v), G))
      <4>1. G \in Stores(Ks, Y)
        BY <3>1
      <4>2. Stored(G, k, v, m, Ks, Y)
        <5> HIDE DEF G, k, v, m
        <5> QED BY <3>2, <3>3, <4>1, LineStored
      <4> HIDE DEF G, k, v
      <4> QED BY <4>2 DEF Stored
    <3>9. Importable(e) => after = Over(Restrict(e, Done(i)), w)
      <4> SUFFICES ASSUME Importable(e) PROVE after = Over(Restrict(e, Done(i)), w)
        OBVIOUS
      <4>1. TrimSpace(k) = k
        BY <2>4 DEF Importable
      <4>2. G = Over(Restrict(e, Done(i - 1)), w)
        BY <3>1
      <4>3. after = Over(One(k, v), Over(Restrict(e, Done(i - 1)), w))
        BY <3>8, <4>1, <4>2
      <4>4. Done(i) = Done(i - 1) \cup {k}
        <5>1. \A j \in 1..i : j = i \/ j \in 1..i - 1
          BY <2>1
        <5>2. i \in 1..i /\ \A j \in 1..i - 1 : j \in 1..i
          BY <2>1
        <5> QED BY <2>4, <5>1, <5>2
      <4>5. Done(i - 1) \in SUBSET DOMAIN e
        OBVIOUS
      <4> HIDE DEF Done, after, k
      <4> QED BY <2>4, <4>3, <4>4, <4>5, OverOne
    <3>10. Read(after, i)
      <4> HIDE DEF Done, after
      <4> QED BY <3>8, <3>9
    <3> HIDE DEF Read, x
    <3> QED BY <3>4, <3>5, <3>7, <3>10
  <2> QED BY <2>3, <2>4
<1>14. 0..N \subseteq U
  <2> HIDE DEF U
  <2> QED BY <1>1, <1>11, <1>13, UpTo
<1>15. \A i \in 0..N : at[i] <= c => /\ Between(f[at[i]], f[at[i]].lines)
                                     /\ Read(ImportLines(w, f[at[i]].lines), i)
  <2> HIDE DEF Read
  <2> QED BY <1>14
<1> DEFINE g == Import(w, X)
<1>16. PICK i \in 0..N : at[i] <= c /\ \A j \in 0..N : at[j] <= c => j <= i
  <2> DEFINE J == {j \in 0..N : at[j] <= c}
  <2>1. 0 \in J /\ J \in SUBSET (0..N)
    BY <1>1, <1>7, <1>8
  <2>2. PICK j \in J : \A y \in J : y <= j
    <3> HIDE DEF J
    <3> QED BY <1>1, <2>1, Greatest
  <2> QED BY <2>2
<1> DEFINE P == at[i]
           L == f[P].lines
           G == ImportLines(w, L)
<1>17. /\ P \in Nat /\ P <= c /\ P \in 0..c /\ f[P].line = <<>> /\ L \in Seq(Seq(T))
       /\ G \in Stores(Ks, Y) /\ (Importable(e) => G = Over(Restrict(e, Done(i)), w))
  <2>1. P \in Nat /\ P <= c /\ P \in 0..c
    BY <1>7, <1>8, <1>16
  <2>2. L \in Seq(Seq(T))
    <3> HIDE DEF P
    <3> QED BY <1>10, <2>1
  <2>3. Between(f[P], L) /\ Read(G, i)
    <3> HIDE DEF Read
    <3> QED BY <1>15, <1>16
  <2> QED BY <2>1, <2>2, <2>3 DEF Between
<1>18. Done(i) \in SUBSET DOMAIN e
  OBVIOUS
<1>19. Import(w, X) = ImportLines(w, SplitImportLines(X))
  BY DEF Import
<1>20. CASE P = c
  <2>1. SplitImportLines(X) = L
    <3> HIDE DEF P
    <3> QED BY <1>8, <1>9, <1>17, <1>20
  <2>2. g = G
    BY <1>19, <2>1
  <2>3. ASSUME c = Len(R) PROVE Done(i) = DOMAIN e \cap ToSet(S)
    <3>1. i = N
      <4>1. N \in 0..N /\ at[N] <= c
        BY <1>1, <1>7, <2>3, <1>8
      <4>2. N <= i
        BY <1>16, <4>1
      <4> QED BY <1>1, <4>2
    <3> QED BY <1>1, <3>1 DEF ToSet
  <2> HIDE DEF G, Done
  <2>4. g \in Stores(Ks, Y)
    BY <1>17, <2>2
  <2>5. Importable(e) => g = Over(Restrict(e, Done(i)), w)
    BY <1>17, <2>2
  <2>6. Importable(e) => \E ks \in SUBSET DOMAIN e : Imported(w, e, ks, g)
    <3> HIDE DEF g
    <3> QED BY <1>18, <2>5 DEF Imported
  <2>7. Importable(e) /\ c = Len(R) => g = Over(Restrict(e, DOMAIN e \cap ToSet(S)), w)
    BY <2>3, <2>5
  <2> QED BY <2>4, <2>6, <2>7 DEF ImportedCut, R, X
<1>21. CASE P # c
  <2>1. P < c /\ i # N /\ c # Len(R)
    <3>1. P < c
      <4> HIDE DEF P
      <4> QED BY <1>8, <1>17, <1>21
    <3>2. c # Len(R)
      <4> SUFFICES ASSUME c = Len(R) PROVE FALSE
        OBVIOUS
      <4>1. N \in 0..N /\ at[N] <= c
        BY <1>1, <1>7, <1>8
      <4>2. N <= i
        BY <1>16, <4>1
      <4>3. i = N
        BY <1>1, <4>2
      <4> QED BY <1>7, <1>21, <4>3
    <3>3. i # N
      BY <1>7, <1>8, <3>1
    <3> QED BY <3>1, <3>2, <3>3
  <2>2. i + 1 \in 1..N /\ (i + 1) - 1 = i /\ i \in U
    <3>1. i + 1 \in 1..N /\ (i + 1) - 1 = i
      BY <1>1, <2>1
    <3> HIDE DEF U
    <3> QED BY <1>14, <3>1
  <2>3. ~(at[i + 1] <= c) /\ at[i + 1] \in Nat
    <3>1. i + 1 \in 0..N /\ ~(i + 1 <= i)
      BY <2>2
    <3> QED BY <1>7, <1>16, <3>1
  <2> DEFINE k == S[i + 1]
             v == e[k]
             E == ExportLine(k, v)
             m == c - P
             x == SubSeq(E, 1, m)
             after == ImportLine(G, x)
  <2>4. k \in DOMAIN e
    <3> SUFFICES ASSUME k \notin DOMAIN e PROVE FALSE
      OBVIOUS
    <3>1. s[i + 1] = <<>>
      BY <1>2, <2>2
    <3>2. at[i + 1] = P + Len(s[i + 1])
      BY <1>7, <2>2
    <3>3. Len(s[i + 1]) = 0
      BY <3>1
    <3> HIDE DEF P
    <3> QED BY <1>17, <2>3, <3>2, <3>3
  <2>5. /\ EntryRead(X, f, P, E, L) /\ at[i + 1] = P + Len(E) /\ E \in Seq(T)
    <3> HIDE DEF U, Read
    <3> QED BY <1>12, <1>16, <2>2, <2>4
  <2>6. k \in Ks /\ ValidKey(k) /\ v \in Seq(Y) /\ k \in Seq(T) /\ v \in Seq(T)
    BY <1>1, <2>2, <2>4
  <2>7. m \in 1..Len(E) - 1 /\ P + m = c /\ Len(E) \in Nat /\ m \in 0..Len(E) - 1
    <3>1. Len(E) \in Nat
      BY <2>5
    <3> HIDE DEF P, E
    <3> QED BY <1>8, <1>17, <2>1, <2>3, <2>5, <3>1
  <2>8. f[c].lines = L /\ f[c].line = x
    <3> HIDE DEF P, L, E, m
    <3>1. P + m <= Len(X)
      BY <1>8, <2>7
    <3>2. f[P + m].lines = L /\ f[P + m].line = SubSeq(E, 1, m)
      BY <2>5, <2>7, <3>1 DEF EntryRead
    <3> QED BY <2>7, <3>2
  <2>9. x \in Seq(T) /\ x # <<>>
    <3>1. Len(x) = m /\ x \in Seq(T)
      <4> HIDE DEF E, m
      <4> QED BY <2>5, <2>7
    <3> HIDE DEF x, m, E
    <3> QED BY <2>7, <3>1
  <2>10. SplitImportLines(X) = Append(L, x)
    <3> HIDE DEF x, L
    <3> QED BY <1>8, <1>9, <2>8, <2>9
  <2>11. g = after
    <3> HIDE DEF x, L
    <3> QED BY <1>17, <1>19, <2>9, <2>10, ImportOneMore
  <2>12. /\ after \in Stores(Ks, Y)
         /\ TrimSpace(k) = k => after = G \/ \E j \in 0..Len(v) : after = Over(One(k, SubSeq(v, 1, j)), G)
    <3>1. G \in Stores(Ks, Y)
      BY <1>17
    <3>2. Stored(G, k, v, m, Ks, Y)
      <4> HIDE DEF G, k, v, m
      <4> QED BY <2>6, <2>7, <3>1, LineStored
    <3> HIDE DEF G, k, v, m
    <3> QED BY <3>2 DEF Stored
  <2>13. Importable(e) => TrimSpace(k) = k /\ G = Over(Restrict(e, Done(i)), w)
    BY <1>17, <2>4 DEF Importable
  <2> HIDE DEF after, G, Done, g, k
  <2>14. Importable(e) => Imported(w, e, Done(i), g)
    BY <2>4, <2>11, <2>12, <2>13 DEF Imported
  <2>15. Importable(e) => \E ks \in SUBSET DOMAIN e : Imported(w, e, ks, g)
    BY <1>18, <2>14
  <2>16. g \in Stores(Ks, Y)
    BY <2>11, <2>12
  <2> QED BY <2>1, <2>15, <2>16 DEF ImportedCut, R, X, g
<1> QED BY <1>20, <1>21
-----------------------------------------------------------------------------
(* The state machine                                                        *)

\* The inductive invariant, for what is saved and exported: the export file is a
\* beginning of the export of the vault that it was opened for.
ExportText == RenderExport(exported, SortedKeys)

FileInv ==
  /\ \E n \in 0..Len(ExportText) : file = SubSeq(ExportText, 1, n)
  /\ complete => file = ExportText
  /\ pc = "exporting" => exported = vault /\ ~complete

Inv == TypeOK /\ FileInv

\* The alphabet suits the lemmas above.
LEMMA AlphabetIs ==
  /\ Marks \subseteq Alphabet /\ Symbols \subseteq Alphabet /\ Keys \in SUBSET Seq(Alphabet)
  /\ \A v \in Values : v \in Seq(Symbols)
<1>1. ASSUME NEW k \in Keys PROVE k \in Seq(Alphabet)
  <2>1. k \in Seq(ToSet(k))
    BY KeysAssumption
  <2>2. ToSet(k) \in {ToSet(x) : x \in Keys}
    OBVIOUS
  <2>3. ToSet(k) \subseteq Alphabet
    BY <2>2, Zenon DEF Alphabet
  <2> QED BY <2>1, <2>3
<1>2. ASSUME NEW v \in Values PROVE v \in Seq(Symbols)
  <2>1. v \in Seq(ToSet(v)) /\ ToSet(v) \subseteq Symbols
    BY ValuesAssumption DEF Symbols
  <2> QED BY <2>1
<1> QED BY <1>1, <1>2 DEF Alphabet

\* IsVault is what the lemmas call a store.
LEMMA VaultIsStore ==
  ASSUME NEW v
  PROVE  IsVault(v) <=> v \in Stores(Keys, Symbols)
<1>1. v \in [DOMAIN v -> Seq(Symbols)] <=>
        v = [k \in DOMAIN v |-> v[k]] /\ \A k \in DOMAIN v : v[k] \in Seq(Symbols)
  OBVIOUS
<1> QED BY <1>1, StoreIs DEF IsVault

\* The export of a vault is a text of the alphabet.
LEMMA ExportIsText ==
  ASSUME NEW e, IsVault(e)
  PROVE  RenderExport(e, SortedKeys) \in Seq(Alphabet)
<1>1. e \in Stores(Keys, Symbols)
  BY VaultIsStore
<1> QED BY <1>1, AlphabetIs, ExportLayout, KeysAssumption

\* What an import makes of a vault, from any beginning of any export.
LEMMA ImportIs ==
  ASSUME NEW e, NEW w, IsVault(e), IsVault(w), NEW n \in 0..Len(RenderExport(e, SortedKeys))
  PROVE  LET R == RenderExport(e, SortedKeys)
             got == Import(w, SubSeq(R, 1, n))
         IN  /\ IsVault(got)
             /\ Importable(e) => \E ks \in SUBSET DOMAIN e : Imported(w, e, ks, got)
             /\ Importable(e) /\ n = Len(R) => got = Over(Restrict(e, DOMAIN e), w)
<1>1. e \in Stores(Keys, Symbols) /\ w \in Stores(Keys, Symbols)
  BY VaultIsStore
<1>2. /\ Marks \subseteq Alphabet /\ Keys \in SUBSET Seq(Alphabet) /\ Symbols \subseteq Alphabet
      /\ \A x \in Keys : ValidKey(x) /\ (ValidKey(TrimSpace(x)) => TrimSpace(x) \in Keys)
      /\ SortedKeys \in Seq(Keys)
  BY AlphabetIs, KeysAssumption
<1>3. ImportedCut(w, e, SortedKeys, Keys, Symbols, n)
  BY <1>1, <1>2, ImportOfCut
<1>4. DOMAIN e \cap ToSet(SortedKeys) = DOMAIN e
  BY DEF IsVault, Keys
<1> QED BY <1>3, <1>4, VaultIsStore DEF ImportedCut

\* `set` and `delete` leave a vault.
LEMMA SetIsVault ==
  ASSUME NEW w, IsVault(w), NEW k \in Keys, NEW v \in Values
  PROVE  IsVault([x \in DOMAIN w \cup {k} |-> IF x = k THEN v ELSE w[x]])
<1> DEFINE g == [x \in DOMAIN w \cup {k} |-> IF x = k THEN v ELSE w[x]]
<1>1. v \in Seq(Symbols)
  BY AlphabetIs
<1>2. DOMAIN w \subseteq Keys /\ \A x \in DOMAIN w : w[x] \in Seq(Symbols)
  BY DEF IsVault
<1>3. DOMAIN g = DOMAIN w \cup {k}
  OBVIOUS
<1>4. g \in [DOMAIN w \cup {k} -> Seq(Symbols)]
  BY <1>1, <1>2
<1> QED BY <1>2, <1>3, <1>4 DEF IsVault

LEMMA DeleteIsVault ==
  ASSUME NEW w, IsVault(w), NEW k
  PROVE  IsVault([x \in DOMAIN w \ {k} |-> w[x]])
BY DEF IsVault

\* The empty vault is one, whose export is empty.
LEMMA EmptyIsVault == IsVault(Empty)
BY DEF IsVault, Empty

\* The invariant holds at the start,
LEMMA InitInv == ASSUME Init PROVE Inv
<1>1. TypeOK
  <2>1. <<>> \in Seq(Alphabet) /\ 0 \in 0..MaxSets
    BY MaxSetsAssumption
  <2> QED BY <2>1, EmptyIsVault DEF Init, TypeOK, Texts
<1>2. ExportText \in Seq(Alphabet) /\ file = <<>>
  BY EmptyIsVault, ExportIsText DEF Init, ExportText
<1>3. 0 \in 0..Len(ExportText) /\ file = SubSeq(ExportText, 1, 0)
  BY <1>2
<1> QED BY <1>1, <1>3 DEF Inv, FileInv, Init

\* and every step keeps it.
LEMMA StepInv == ASSUME Inv, [Next]_vars PROVE Inv'
<1> USE DEF Inv
<1>1. /\ IsVault(vault) /\ IsVault(exported) /\ file \in Seq(Alphabet)
      /\ complete \in BOOLEAN /\ raced \in BOOLEAN /\ clip \in Texts /\ read \in Texts
      /\ pc \in {"idle", "exporting", "sleeping", "comparing"} /\ sets \in 0..MaxSets
  BY DEF TypeOK
<1> DEFINE Same == UNCHANGED <<file, exported, complete>>
\* A step that leaves the export alone
<1>2. ASSUME Same, pc' = "exporting" => pc = pc' /\ vault' = vault PROVE FileInv'
  <2>1. ExportText' = ExportText
    BY <1>2 DEF ExportText
  <2> QED BY <1>2, <2>1 DEF FileInv
<1>3. CASE SetKey
  <2>1. PICK k \in Keys, v \in Values :
          vault' = [x \in DOMAIN vault \cup {k} |-> IF x = k THEN v ELSE vault[x]]
    BY <1>3 DEF SetKey
  <2>2. IsVault(vault)'
    <3>1. IsVault([x \in DOMAIN vault \cup {k} |-> IF x = k THEN v ELSE vault[x]])
      BY <1>1, SetIsVault
    <3> QED BY <2>1, <3>1 DEF IsVault
  <2>3. sets' \in 0..MaxSets
    BY <1>1, <1>3, MaxSetsAssumption DEF SetKey
  <2>4. TypeOK'
    BY <1>1, <1>3, <2>2, <2>3 DEF SetKey, TypeOK, export, clipboard, IsVault, Texts
  <2>5. FileInv'
    BY <1>2, <1>3 DEF SetKey, export
  <2> QED BY <2>4, <2>5
<1>4. CASE DeleteKey
  <2>1. PICK k \in DOMAIN vault : vault' = [x \in DOMAIN vault \ {k} |-> vault[x]]
    BY <1>4 DEF DeleteKey
  <2>2. IsVault(vault)'
    BY <1>1, <2>1, DeleteIsVault
  <2>3. TypeOK'
    BY <1>1, <1>4, <2>2 DEF DeleteKey, TypeOK, export, clipboard, IsVault, Texts
  <2>4. FileInv'
    BY <1>2, <1>4 DEF DeleteKey, export
  <2> QED BY <2>3, <2>4
<1>5. CASE Clear
  <2>1. IsVault(vault)'
    BY <1>5, EmptyIsVault DEF Clear
  <2>2. TypeOK'
    BY <1>1, <1>5, <2>1 DEF Clear, TypeOK, export, clipboard, IsVault, Texts
  <2>3. FileInv'
    BY <1>2, <1>5 DEF Clear, export
  <2> QED BY <2>2, <2>3
<1>6. CASE OpenExport
  <2>1. file' = <<>> /\ exported' = vault /\ complete' = FALSE /\ pc' = "exporting" /\ vault' = vault
    BY <1>6 DEF OpenExport, Goto, data
  <2>2. TypeOK'
    <3>1. IsVault(vault)' /\ IsVault(exported)'
      BY <1>1, <2>1 DEF IsVault
    <3>2. <<>> \in Seq(Alphabet)
      OBVIOUS
    <3> QED BY <1>1, <1>6, <2>1, <3>1, <3>2 DEF OpenExport, TypeOK, data, clipboard, Texts
  <2>3. ExportText' = RenderExport(vault, SortedKeys) /\ RenderExport(vault, SortedKeys) \in Seq(Alphabet)
    BY <1>1, <2>1, ExportIsText DEF ExportText
  <2>4. 0 \in 0..Len(ExportText') /\ file' = SubSeq(ExportText', 1, 0)
    BY <2>1, <2>3
  <2>5. FileInv'
    BY <2>1, <2>4 DEF FileInv
  <2> QED BY <2>2, <2>5
<1>7. CASE WriteExport
  <2>1. /\ file' = RenderExport(vault, SortedKeys) /\ complete' = TRUE /\ pc' = "idle" /\ pc = "exporting"
        /\ UNCHANGED <<vault, sets, exported, clip, read, raced>>
    BY <1>7 DEF WriteExport, Goto, data, clipboard
  <2>2. exported = vault /\ ExportText' = RenderExport(vault, SortedKeys)
    BY <2>1 DEF FileInv, ExportText
  <2>3. file' = ExportText' /\ file' \in Seq(Alphabet)
    BY <1>1, <2>1, <2>2, ExportIsText
  <2>4. TypeOK'
    BY <1>1, <2>1, <2>3 DEF TypeOK, IsVault, Texts
  <2>5. Len(ExportText') \in 0..Len(ExportText') /\ file' = SubSeq(ExportText', 1, Len(ExportText'))
    BY <2>3
  <2>6. FileInv'
    BY <2>1, <2>3, <2>5 DEF FileInv
  <2> QED BY <2>4, <2>6
<1>8. CASE InterruptExport
  <2>1. /\ \E n \in 0..Len(RenderExport(vault, SortedKeys)) :
             file' = SubSeq(RenderExport(vault, SortedKeys), 1, n)
        /\ pc' = "idle" /\ pc = "exporting"
        /\ UNCHANGED <<vault, sets, exported, complete, clip, read, raced>>
    BY <1>8 DEF InterruptExport, Goto, data, clipboard
  <2>2. exported = vault /\ ~complete /\ ExportText' = RenderExport(vault, SortedKeys)
    BY <2>1 DEF FileInv, ExportText
  <2>3. file' \in Seq(Alphabet)
    <3>1. RenderExport(vault, SortedKeys) \in Seq(Alphabet)
      BY <1>1, ExportIsText
    <3> QED BY <2>1, <3>1
  <2>4. TypeOK'
    BY <1>1, <2>1, <2>3 DEF TypeOK, IsVault, Texts
  <2>5. FileInv'
    BY <2>1, <2>2 DEF FileInv
  <2> QED BY <2>4, <2>5
<1>9. CASE ImportFile
  <2>1. PICK n \in 0..Len(ExportText) : file = SubSeq(ExportText, 1, n)
    BY DEF FileInv
  <2>2. IsVault(Import(vault, file))
    BY <1>1, <2>1, ImportIs DEF ExportText
  <2>3. IsVault(vault)'
    BY <1>9, <2>2 DEF ImportFile
  <2>4. TypeOK'
    BY <1>1, <1>9, <2>3 DEF ImportFile, TypeOK, export, clipboard, IsVault, Texts
  <2>5. FileInv'
    BY <1>2, <1>9 DEF ImportFile, export
  <2> QED BY <2>4, <2>5
\* The other steps leave vault and export alone.
<1>10. CASE Copy \/ ReadClipboard \/ ClearIfUnchanged \/ CopyAborts \/ OtherCopies \/ UNCHANGED vars
  <2>1. UNCHANGED <<vault, sets, file, exported, complete>>
    BY <1>10 DEF Copy, ReadClipboard, ClearIfUnchanged, CopyAborts, OtherCopies, data, export, vars
  <2>2. /\ clip' \in Texts /\ read' \in Texts /\ raced' \in BOOLEAN
        /\ pc' \in {"idle", "exporting", "sleeping", "comparing"}
        /\ pc' = "exporting" => pc = pc'
    BY <1>1, <1>10 DEF Copy, ReadClipboard, ClearIfUnchanged, CopyAborts, OtherCopies, Finish, Goto,
                       Texts, clipboard, vars
  <2>3. TypeOK'
    BY <1>1, <2>1, <2>2 DEF TypeOK, IsVault, Texts
  <2>4. FileInv'
    BY <1>2, <2>1, <2>2
  <2> QED BY <2>3, <2>4
<1> QED BY <1>3, <1>4, <1>5, <1>6, <1>7, <1>8, <1>9, <1>10 DEF Next

LEMMA Invariance == Spec => []Inv
BY InitInv, StepInv, PTL DEF Spec

\* Vaults and export files stay what the code takes them for, whatever part of an
\* export is imported (TypeOK).
THEOREM TypeCorrect == Spec => []TypeOK
<1>1. Inv => TypeOK
  BY DEF Inv
<1> QED BY <1>1, Invariance, PTL

\* The import of a complete export brings back what was exported (RoundTrip).
LEMMA InvRoundTrip == ASSUME Inv PROVE RoundTrip
<1> SUFFICES ASSUME complete, Importable(exported)
             PROVE  Import(vault, file) = Over(exported, vault)
  BY DEF RoundTrip
<1>1. IsVault(vault) /\ IsVault(exported) /\ file = ExportText
  BY DEF Inv, TypeOK, FileInv
<1> DEFINE n == Len(ExportText)
<1>2. ExportText \in Seq(Alphabet)
  BY <1>1, ExportIsText DEF ExportText
<1>3. n \in 0..Len(ExportText) /\ file = SubSeq(ExportText, 1, n)
  BY <1>1, <1>2
<1>4. Import(vault, file) = Over(Restrict(exported, DOMAIN exported), vault)
  BY <1>1, <1>3, ImportIs DEF ExportText
<1>5. Restrict(exported, DOMAIN exported) = exported
  BY <1>1 DEF Restrict, IsVault
<1> QED BY <1>4, <1>5

THEOREM RoundTrips == Spec => []RoundTrip
BY InvRoundTrip, Invariance, PTL

\* A beginning of a text is a prefix of it.
LEMMA Beginning ==
  ASSUME NEW T, NEW a \in Seq(T), NEW j \in 0..Len(a)
  PROVE  IsPrefix(SubSeq(a, 1, j), a) /\ IsPrefix(a, a)
<1>1. Len(SubSeq(a, 1, j)) = j /\ SubSeq(SubSeq(a, 1, j), 1, j) = SubSeq(a, 1, j)
  OBVIOUS
<1>2. SubSeq(a, 1, Len(a)) = a /\ Len(a) \in Nat /\ j <= Len(a)
  OBVIOUS
<1> QED BY <1>1, <1>2 DEF IsPrefix

\* A key of got has its value of w or that of e, but k has a beginning of the latter
GoodBut(w, e, got, k) ==
  \A x \in DOMAIN got :
    \/ x \in DOMAIN w /\ got[x] = w[x]
    \/ x \in DOMAIN e /\ IsPrefix(got[x], e[x]) /\ (got[x] = e[x] \/ x = k)

\* What Imported says, key by key: it leaves one key damaged at most.
LEMMA OneDamaged ==
  ASSUME NEW w, NEW e, IsVault(e), NEW ks \in SUBSET DOMAIN e, NEW got, Imported(w, e, ks, got)
  PROVE  DOMAIN w \subseteq DOMAIN got /\ \E k : GoodBut(w, e, got, k)
<1> DEFINE h == Over(Restrict(e, ks), w)
           f == Restrict(e, ks)
<1>1. /\ DOMAIN h = ks \cup DOMAIN w
      /\ \A x \in ks : h[x] = e[x] /\ x \in DOMAIN e /\ IsPrefix(e[x], e[x])
      /\ \A x \in DOMAIN h : x \notin ks => x \in DOMAIN w /\ h[x] = w[x]
  <2>1. ASSUME NEW x \in ks PROVE x \in DOMAIN e /\ IsPrefix(e[x], e[x])
    <3>1. x \in DOMAIN e /\ e[x] \in Seq(Symbols)
      BY DEF IsVault
    <3>2. 0 \in 0..Len(e[x])
      BY <3>1
    <3> QED BY <3>1, <3>2, Beginning
  <2>2. DOMAIN f = ks /\ \A x \in ks : f[x] = e[x]
    BY DEF Restrict
  <2>3. /\ DOMAIN h = ks \cup DOMAIN w
        /\ \A x \in ks : h[x] = e[x]
        /\ \A x \in DOMAIN w : x \notin ks => h[x] = w[x]
    <3>1. h = Over(f, w)
      OBVIOUS
    <3> HIDE DEF f, h
    <3> QED BY <2>2, <3>1 DEF Over
  <2> HIDE DEF h
  <2> QED BY <2>1, <2>3
<1>2. CASE got = h
  <2> HIDE DEF h
  <2>1. GoodBut(w, e, got, ks)
    BY <1>1, <1>2 DEF GoodBut
  <2> QED BY <1>1, <1>2, <2>1
<1>3. CASE \E k \in DOMAIN e : \E j \in 0..Len(e[k]) : got = Over(One(k, SubSeq(e[k], 1, j)), h)
  <2>0. PICK k \in DOMAIN e : \E j \in 0..Len(e[k]) : got = Over(One(k, SubSeq(e[k], 1, j)), h)
    BY <1>3
  <2>1. PICK j \in 0..Len(e[k]) : got = Over(One(k, SubSeq(e[k], 1, j)), h)
    BY <2>0
  <2>2. e[k] \in Seq(Symbols)
    BY DEF IsVault
  <2>3. IsPrefix(SubSeq(e[k], 1, j), e[k])
    BY <2>2, Beginning
  <2> DEFINE p == SubSeq(e[k], 1, j)
  <2> HIDE DEF p, h
  <2>4. DOMAIN One(k, p) = {k} /\ One(k, p)[k] = p
    BY DEF One
  <2>5. /\ DOMAIN got = {k} \cup DOMAIN h /\ got[k] = p
        /\ \A x \in DOMAIN h : x # k => got[x] = h[x]
    <3> DEFINE o == One(k, p)
    <3>1. got = Over(o, h)
      BY <2>1 DEF p
    <3>2. DOMAIN o = {k} /\ o[k] = p
      BY <2>4
    <3> HIDE DEF o
    <3> QED BY <3>1, <3>2 DEF Over
  <2>6. GoodBut(w, e, got, k)
    <3> SUFFICES ASSUME NEW x \in DOMAIN got
                 PROVE  \/ x \in DOMAIN w /\ got[x] = w[x]
                        \/ x \in DOMAIN e /\ IsPrefix(got[x], e[x]) /\ (got[x] = e[x] \/ x = k)
      BY DEF GoodBut
    <3>1. CASE x = k
      BY <2>3, <2>5, <3>1 DEF p
    <3>2. CASE x # k
      BY <1>1, <2>5, <3>2
    <3> QED BY <3>1, <3>2
  <2>7. DOMAIN w \subseteq DOMAIN got
    BY <1>1, <2>5
  <2> QED BY <2>6, <2>7
<1> QED BY <1>2, <1>3 DEF Imported

\* The import of an interrupted export damages one key at most, and that one is
\* left a beginning of its value (InterruptedExport).
LEMMA InvInterrupted == ASSUME Inv PROVE InterruptedExport
<1> DEFINE got == Import(vault, file)
           Kept(k) == k \in DOMAIN vault /\ got[k] = vault[k]
           Cut(k) == k \in DOMAIN exported /\ IsPrefix(got[k], exported[k])
           Damaged == {k \in DOMAIN got : ~Kept(k) /\ ~(Cut(k) /\ got[k] = exported[k])}
<1> SUFFICES ASSUME Importable(exported)
             PROVE  /\ DOMAIN vault \subseteq DOMAIN got
                    /\ Cardinality(Damaged) <= 1
                    /\ \A k \in Damaged : Cut(k)
  BY DEF InterruptedExport
<1>1. IsVault(vault) /\ IsVault(exported)
  BY DEF Inv, TypeOK
<1>2. PICK n \in 0..Len(ExportText) : file = SubSeq(ExportText, 1, n)
  BY DEF Inv, FileInv
<1>3. PICK ks \in SUBSET DOMAIN exported : Imported(vault, exported, ks, got)
  BY <1>1, <1>2, ImportIs DEF ExportText
<1> HIDE DEF got
<1>4. DOMAIN vault \subseteq DOMAIN got
  BY <1>1, <1>3, OneDamaged
<1>5. PICK k : GoodBut(vault, exported, got, k)
  BY <1>1, <1>3, OneDamaged
<1>6. Damaged \subseteq {k} /\ \A x \in Damaged : Cut(x)
  BY <1>5 DEF GoodBut
<1> HIDE DEF Damaged, Cut
<1>7. Cardinality(Damaged) <= 1
  <2>1. IsFiniteSet({k}) /\ Cardinality({k}) = 1
    BY FS_Singleton
  <2>2. Cardinality(Damaged) <= Cardinality({k})
    BY <1>6, <2>1, FS_Subset
  <2> QED BY <2>1, <2>2
<1> QED BY <1>4, <1>6, <1>7

THEOREM InterruptionsAreContained == Spec => []InterruptedExport
BY InvInterrupted, Invariance, PTL

-----------------------------------------------------------------------------
(* The clipboard                                                            *)

\* Another program's text is not taken for the secret, unless it came after the read
ClipInv == pc = "comparing" /\ read = "secret" /\ clip = "other" => raced

LEMMA ClipInvariance == Spec => []ClipInv
<1>1. Init => ClipInv
  BY DEF Init, ClipInv
<1>2. ClipInv /\ [Next]_vars => ClipInv'
  <2> SUFFICES ASSUME ClipInv, [Next]_vars PROVE ClipInv'
    OBVIOUS
  <2> USE DEF ClipInv
  <2>1. CASE SetKey \/ DeleteKey \/ Clear \/ OpenExport \/ WriteExport \/ InterruptExport \/ ImportFile
    BY <2>1 DEF SetKey, DeleteKey, Clear, OpenExport, WriteExport, InterruptExport, ImportFile,
                Goto, clipboard
  <2>2. CASE Copy
    BY <2>2 DEF Copy
  <2>3. CASE ReadClipboard
    BY <2>3 DEF ReadClipboard, Goto
  <2>4. CASE ClearIfUnchanged \/ CopyAborts
    BY <2>4 DEF ClearIfUnchanged, CopyAborts, Finish
  <2>5. CASE OtherCopies
    BY <2>5 DEF OtherCopies
  <2>6. CASE UNCHANGED vars
    BY <2>6 DEF vars, clipboard
  <2> QED BY <2>1, <2>2, <2>3, <2>4, <2>5, <2>6 DEF Next
<1> QED BY <1>1, <1>2, PTL DEF Spec

\* `copy` clears no text of another program that it has read (ClearsOwnText).
THEOREM ClipboardHolds == Spec => ClearsOwnText
<1>1. ClipInv /\ [Next]_vars => [clip = "other" /\ clip' = "empty" => raced]_vars
  <2> SUFFICES ASSUME ClipInv, Next, clip = "other", clip' = "empty" PROVE raced
    OBVIOUS
  <2>1. ClearIfUnchanged
    BY DEF Next, SetKey, DeleteKey, Clear, OpenExport, WriteExport, InterruptExport, ImportFile,
           Copy, ReadClipboard, CopyAborts, OtherCopies, clipboard
  <2>2. pc = "comparing" /\ read = "secret"
    BY <2>1 DEF ClearIfUnchanged
  <2> QED BY <2>2 DEF ClipInv
<1> QED BY <1>1, ClipInvariance, PTL DEF Spec, ClearsOwnText
==============================================================================
