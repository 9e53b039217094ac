--------------------------- MODULE LogStreamProofs ---------------------------
(***************************************************************************)
(* The log of a task, for every number of pipes, clients, archives and     *)
(* lines and every size: the files together are an end of what was         *)
(* written, no file outgrows the limit, and what a client reads or is sent *)
(* live is in order.                                                       *)
(*                                                                         *)
(* The invariant is about cuts: file[i] holds the lines from cut[i + 1] to *)
(* cut[i] of what was written. A rename raises a cut, a write the first    *)
(* one, and a client has read what lies behind the cut of the file it      *)
(* reads next.                                                             *)
(***************************************************************************)
EXTENDS LogStream, SequenceTheorems, WellFoundedInduction, FiniteSetTheorems, TLAPS

(* A set of numbers has a least element. *)
LEMMA NatWellOrdered ==
    \A T \in SUBSET Nat : T # {} => \E x \in T : \A y \in T : x <= y
  <1> DEFINE R == OpToRel(<, Nat)
  <1>1. \A y, x \in Nat : <<y, x>> \in R <=> y < x
    BY DEF OpToRel
  <1>2. IsWellFoundedOn(R, Nat)
    BY NatLessThanWellFounded
  <1> HIDE DEF R
  <1> SUFFICES ASSUME NEW T \in SUBSET Nat, T # {}
               PROVE  \E x \in T : \A y \in T : x <= y
    OBVIOUS
  <1>3. PICK x \in T : \A y \in T : ~ (<<y, x>> \in R)
    BY <1>2, WFMin
  <1>4. \A y \in T : ~(y < x)
    BY <1>1, <1>3
  <1> QED
    BY <1>4

-----------------------------------------------------------------------------
(* Parts of a sequence: the elements m + 1 to n.                           *)

Part(s, m, n) == SubSeq(s, m + 1, n)

LEMMA PartIs ==
    ASSUME NEW S, NEW s \in Seq(S), NEW n \in 0..Len(s), NEW m \in 0..n
    PROVE  /\ Part(s, m, n) \in Seq(S)
           /\ Len(Part(s, m, n)) = n - m
           /\ \A i \in 1..(n - m) : Part(s, m, n)[i] = s[m + i]
  <1>1. Len(s) \in Nat /\ m \in Int /\ n \in Int
    BY LenProperties
  <1>2. \A i \in (m + 1)..n : s[i] \in S
    BY <1>1, ElementOfSeq
  <1>3. /\ SubSeq(s, m + 1, n) \in Seq(S)
        /\ Len(SubSeq(s, m + 1, n)) = IF m + 1 <= n THEN n - (m + 1) + 1 ELSE 0
        /\ \A i \in 1..(n - (m + 1) + 1) : SubSeq(s, m + 1, n)[i] = s[(m + 1) + i - 1]
    BY <1>1, <1>2, SubSeqProperties
  <1> QED
    BY <1>1, <1>3 DEF Part

LEMMA PartEmpty ==
    ASSUME NEW S, NEW s \in Seq(S), NEW n \in 0..Len(s), NEW m \in 0..n
    PROVE  Part(s, m, n) = <<>> <=> m = n
  <1>1. Part(s, m, n) \in Seq(S) /\ Len(Part(s, m, n)) = n - m /\ m \in Int /\ n \in Int
    BY PartIs, LenProperties
  <1>2. Len(<<>>) = 0 /\ <<>> \in Seq(S)
    BY EmptySeq
  <1>3. ASSUME m = n PROVE Part(s, m, n) = <<>>
    BY <1>1, <1>2, <1>3, SeqEqual
  <1> QED
    BY <1>1, <1>2, <1>3

LEMMA PartsJoin ==
    ASSUME NEW S, NEW s \in Seq(S),
           NEW n \in 0..Len(s), NEW k \in 0..n, NEW m \in 0..k
    PROVE  Part(s, m, k) \o Part(s, k, n) = Part(s, m, n)
  <1> DEFINE a == Part(s, m, k)
             b == Part(s, k, n)
             c == Part(s, m, n)
  <1>0. Len(s) \in Nat /\ k \in 0..Len(s) /\ m \in 0..n /\ m \in Int /\ n \in Int /\ k \in Int
    BY LenProperties
  <1>1. a \in Seq(S) /\ Len(a) = k - m /\ \A i \in 1..(k - m) : a[i] = s[m + i]
    BY <1>0, PartIs
  <1>2. b \in Seq(S) /\ Len(b) = n - k /\ \A i \in 1..(n - k) : b[i] = s[k + i]
    BY <1>0, PartIs
  <1>3. c \in Seq(S) /\ Len(c) = n - m /\ \A i \in 1..(n - m) : c[i] = s[m + i]
    BY <1>0, PartIs
  <1> HIDE DEF a, b, c
  <1>4. /\ a \o b \in Seq(S)
        /\ Len(a \o b) = Len(a) + Len(b)
        /\ \A i \in 1..(Len(a) + Len(b)) :
              (a \o b)[i] = IF i <= Len(a) THEN a[i] ELSE b[i - Len(a)]
    BY <1>1, <1>2, ConcatProperties
  <1>5. Len(a \o b) = Len(c)
    BY <1>0, <1>1, <1>2, <1>3, <1>4
  <1>6. ASSUME NEW i \in 1..Len(c) PROVE (a \o b)[i] = c[i]
    <2>1. i \in Int /\ i \in 1..(n - m)
      BY <1>0, <1>3
    <2>2. CASE i <= k - m
      BY <1>0, <1>1, <1>2, <1>3, <1>4, <2>1, <2>2
    <2>3. CASE ~(i <= k - m)
      <3>1. i - (k - m) \in 1..(n - k)
        BY <1>0, <2>1, <2>3
      <3>2. (a \o b)[i] = b[i - (k - m)]
        BY <1>0, <1>1, <1>2, <1>4, <2>1, <2>3
      <3>3. b[i - (k - m)] = s[k + (i - (k - m))]
        BY <1>2, <3>1
      <3>4. k + (i - (k - m)) = m + i
        BY <1>0, <2>1
      <3> QED
        BY <1>3, <2>1, <3>2, <3>3, <3>4
    <2> QED
      BY <2>2, <2>3
  <1> QED
    BY <1>3, <1>4, <1>5, <1>6, SeqEqual DEF a, b, c

LEMMA PartWhole ==
    ASSUME NEW S, NEW s \in Seq(S)
    PROVE  Part(s, 0, Len(s)) = s
  BY SubSeqFull DEF Part

(* What follows the part does not matter. *)
LEMMA PartKept ==
    ASSUME NEW S, NEW s \in Seq(S), NEW x \in S, NEW n \in 0..Len(s), NEW m \in 0..n
    PROVE  Part(s \o <<x>>, m, n) = Part(s, m, n)
  <1>1. Len(s) \in Nat /\ m \in Int /\ n \in Int
    BY LenProperties
  <1>2. <<x>> \in Seq(S) /\ Len(<<x>>) = 1
    OBVIOUS
  <1>3. /\ s \o <<x>> \in Seq(S) /\ Len(s \o <<x>>) = Len(s) + 1
        /\ \A i \in 1..Len(s) : (s \o <<x>>)[i] = s[i]
    BY <1>1, <1>2, ConcatProperties
  <1>4. n \in 0..Len(s \o <<x>>)
    BY <1>1, <1>3
  <1>5. /\ Part(s, m, n) \in Seq(S) /\ Len(Part(s, m, n)) = n - m
        /\ \A i \in 1..(n - m) : Part(s, m, n)[i] = s[m + i]
    BY PartIs
  <1>6. /\ Part(s \o <<x>>, m, n) \in Seq(S) /\ Len(Part(s \o <<x>>, m, n)) = n - m
        /\ \A i \in 1..(n - m) : Part(s \o <<x>>, m, n)[i] = (s \o <<x>>)[m + i]
    BY <1>3, <1>4, PartIs
  <1>7. \A i \in 1..(n - m) : m + i \in 1..Len(s)
    BY <1>1
  <1>8. \A i \in 1..(n - m) : Part(s \o <<x>>, m, n)[i] = Part(s, m, n)[i]
    BY <1>3, <1>5, <1>6, <1>7
  <1> QED
    BY <1>5, <1>6, <1>8, SeqEqual

LEMMA SingleAdded ==
    ASSUME NEW S, NEW s \in Seq(S), NEW x \in S
    PROVE  /\ s \o <<x>> \in Seq(S)
           /\ Len(s \o <<x>>) = Len(s) + 1
           /\ \A i \in 1..Len(s) : (s \o <<x>>)[i] = s[i]
           /\ (s \o <<x>>)[Len(s) + 1] = x
           /\ s \o <<x>> # <<>>
  <1>1. Len(s) \in Nat
    BY LenProperties
  <1>2. <<x>> \in Seq(S) /\ Len(<<x>>) = 1 /\ <<x>>[1] = x
    OBVIOUS
  <1>3. /\ s \o <<x>> \in Seq(S) /\ Len(s \o <<x>>) = Len(s) + 1
        /\ \A i \in 1..(Len(s) + 1) : (s \o <<x>>)[i] = IF i <= Len(s) THEN s[i] ELSE <<x>>[i - Len(s)]
    BY <1>1, <1>2, ConcatProperties
  <1>4. (s \o <<x>>)[Len(s) + 1] = <<x>>[Len(s) + 1 - Len(s)]
    BY <1>1, <1>3
  <1>5. Len(s) + 1 - Len(s) = 1
    BY <1>1
  <1>6. Len(<<>>) = 0
    BY EmptySeq
  <1> QED
    BY <1>1, <1>2, <1>3, <1>4, <1>5, <1>6

LEMMA PartAdded ==
    ASSUME NEW S, NEW s \in Seq(S), NEW x \in S, NEW m \in 0..Len(s)
    PROVE  Part(s \o <<x>>, m, Len(s) + 1) = Part(s, m, Len(s)) \o <<x>>
  <1> DEFINE t == s \o <<x>>
             p == Part(s, m, Len(s))
  <1>1. Len(s) \in Nat /\ m \in Int /\ Len(s) \in 0..Len(s)
    BY LenProperties
  <1>2. /\ t \in Seq(S) /\ Len(t) = Len(s) + 1 /\ t[Len(s) + 1] = x
        /\ \A i \in 1..Len(s) : t[i] = s[i]
    BY SingleAdded
  <1>3. p \in Seq(S) /\ Len(p) = Len(s) - m /\ \A i \in 1..(Len(s) - m) : p[i] = s[m + i]
    BY <1>1, PartIs
  <1> HIDE DEF t, p
  <1>4. PICK n \in 0..Len(t) : n = Len(s) + 1
    BY <1>1, <1>2
  <1>5. /\ Part(t, m, Len(s) + 1) \in Seq(S) /\ Len(Part(t, m, Len(s) + 1)) = Len(s) + 1 - m
        /\ \A i \in 1..(Len(s) + 1 - m) : Part(t, m, Len(s) + 1)[i] = t[m + i]
    <2>1. m \in 0..n
      BY <1>1, <1>4
    <2>2. /\ Part(t, m, n) \in Seq(S) /\ Len(Part(t, m, n)) = n - m
          /\ \A i \in 1..(n - m) : Part(t, m, n)[i] = t[m + i]
      BY <1>2, <2>1, PartIs
    <2> QED
      BY <1>4, <2>2
  <1>6. /\ p \o <<x>> \in Seq(S) /\ Len(p \o <<x>>) = Len(p) + 1
        /\ (p \o <<x>>)[Len(p) + 1] = x /\ \A i \in 1..Len(p) : (p \o <<x>>)[i] = p[i]
    BY <1>3, SingleAdded
  <1>7. ASSUME NEW i \in 1..(Len(s) + 1 - m)
        PROVE  Part(t, m, Len(s) + 1)[i] = (p \o <<x>>)[i]
    <2>1. CASE i = Len(s) + 1 - m
      <3>1. m + i = Len(s) + 1 /\ i = Len(p) + 1
        BY <1>1, <1>3, <2>1
      <3> QED
        BY <1>2, <1>5, <1>6, <3>1
    <2>2. CASE i # Len(s) + 1 - m
      <3>1. i \in 1..(Len(s) - m) /\ m + i \in 1..Len(s) /\ i \in 1..Len(p)
        BY <1>1, <1>3, <2>2
      <3> QED
        BY <1>2, <1>3, <1>5, <1>6, <3>1
    <2> QED
      BY <2>1, <2>2
  <1>8. Len(p \o <<x>>) = Len(Part(t, m, Len(s) + 1)) /\ Len(Part(t, m, Len(s) + 1)) = Len(s) + 1 - m
    BY <1>1, <1>3, <1>5, <1>6
  <1>9. Part(t, m, Len(s) + 1) = p \o <<x>>
    BY <1>5, <1>6, <1>7, <1>8, SeqEqual
  <1> QED
    BY <1>9 DEF t, p

(* The elements of a part are those of the sequence. *)
LEMMA RangeIs ==
    ASSUME NEW S, NEW s \in Seq(S)
    PROVE  Range(s) = {s[i] : i \in 1..Len(s)} /\ Range(s) \subseteq S
  BY LenProperties, ElementOfSeq DEF Range

-----------------------------------------------------------------------------
(* The bytes of a file, line by line: the sums exist, there is one for     *)
(* each length, and one more line adds its size.                           *)

LEMMA Counting ==
    ASSUME NEW n \in Nat, NEW T \in SUBSET (0..n), 0 \in T,
           \A k \in 1..n : k - 1 \in T => k \in T
    PROVE  \A k \in 0..n : k \in T
  <1> DEFINE Bad == {k \in 0..n : k \notin T}
  <1> SUFFICES ASSUME Bad # {} PROVE FALSE
    OBVIOUS
  <1>1. Bad \in SUBSET Nat
    OBVIOUS
  <1>2. PICK k \in Bad : \A j \in Bad : k <= j
    BY <1>1, NatWellOrdered
  <1>3. k \in 1..n /\ k - 1 \in 0..n /\ ~(k <= k - 1)
    OBVIOUS
  <1>4. k - 1 \in T
    BY <1>2, <1>3
  <1> QED
    BY <1>3, <1>4

IsSum(f, lines) ==
    f = [i \in 0..Len(lines) |-> IF i = 0 THEN 0 ELSE f[i - 1] + lines[i].size]

LEMMA LinesAreSized == \A x \in Line : x.size \in Nat
  <1> SUFFICES ASSUME NEW x \in Line PROVE x.size \in Nat
    OBVIOUS
  <1>1. x.size \in UNION Range(Sizes)
    BY DEF Line
  <1>2. PICK i \in 1..MaxLines : x.size \in Sizes[i]
    BY <1>1, LogSizesAssumption DEF Range
  <1> QED
    BY <1>2, LogSizesAssumption

Extends(more, lines) ==
    Len(lines) <= Len(more) /\ \A i \in 1..Len(lines) : lines[i] = more[i]

LEMMA SumsExist ==
    ASSUME NEW lines \in Seq(Line)
    PROVE  \E f \in [0..Len(lines) -> Nat] : IsSum(f, lines)
  <1> DEFINE n == Len(lines)
             Good(k, f) == /\ f \in [0..k -> Nat] /\ f[0] = 0
                           /\ \A i \in 1..k : f[i] = f[i - 1] + lines[i].size
             T == {k \in 0..n : \E f : Good(k, f)}
  <1>1. n \in Nat /\ \A i \in 1..n : lines[i].size \in Nat
    BY LenProperties, ElementOfSeq, LinesAreSized
  <1>2. 0 \in T
    <2>1. Good(0, [i \in 0..0 |-> 0])
      OBVIOUS
    <2> HIDE DEF Good
    <2>2. \E f : Good(0, f)
      BY <2>1
    <2> QED
      BY <1>1, <2>2
  <1>3. ASSUME NEW k \in 1..n, k - 1 \in T PROVE k \in T
    <2>1. PICK f : Good(k - 1, f)
      BY <1>3
    <2>2. k \in Nat /\ k \in 0..n /\ k - 1 \in Nat /\ k - 1 \in 0..(k - 1)
      BY <1>1
    <2> DEFINE g == [i \in 0..k |-> IF i = k THEN f[k - 1] + lines[k].size ELSE f[i]]
    <2>3. f[k - 1] \in Nat /\ lines[k].size \in Nat
      BY <1>1, <2>1, <2>2
    <2>4. ASSUME NEW i \in 0..k PROVE g[i] \in Nat
      <3>1. i # k => i \in 0..(k - 1)
        BY <2>2
      <3> QED
        BY <2>1, <2>3, <3>1
    <2>5. g \in [0..k -> Nat] /\ g[0] = 0
      BY <2>1, <2>2, <2>4
    <2>6. ASSUME NEW i \in 1..k PROVE g[i] = g[i - 1] + lines[i].size
      <3>1. CASE i = k
        BY <2>2, <3>1
      <3>2. CASE i # k
        <4>1. i \in 1..(k - 1) /\ i \in 0..k /\ i - 1 \in 0..k /\ i - 1 # k
          BY <2>2, <3>2
        <4> QED
          BY <2>1, <3>2, <4>1
      <3> QED
        BY <3>1, <3>2
    <2> HIDE DEF g
    <2>7. Good(k, g)
      BY <2>5, <2>6
    <2> HIDE DEF Good
    <2>8. \E f_ : Good(k, f_)
      BY <2>7
    <2> QED
      BY <2>2, <2>8
  <1>5. n \in T
    <2>1. T \in SUBSET (0..n) /\ n \in 0..n
      BY <1>1
    <2> HIDE DEF T
    <2> QED
      BY <1>1, <1>2, <1>3, <2>1, Counting
  <1>6. PICK f : Good(n, f)
    BY <1>5
  <1>4. IsSum(f, lines)
    <2> DEFINE h == [i \in 0..n |-> IF i = 0 THEN 0 ELSE f[i - 1] + lines[i].size]
    <2>1. ASSUME NEW i \in 0..n PROVE f[i] = h[i]
      BY <1>1, <1>6
    <2>2. f = h
      BY <1>6, <2>1
    <2> QED
      BY <2>2 DEF IsSum
  <1> QED
    BY <1>4, <1>6

LEMMA SumStep ==
    ASSUME NEW lines \in Seq(Line), NEW f, IsSum(f, lines)
    PROVE  f[0] = 0 /\ \A i \in 1..Len(lines) : f[i] = f[i - 1] + lines[i].size
  <1>1. Len(lines) \in Nat
    BY LenProperties
  <1> DEFINE h == [i \in 0..Len(lines) |-> IF i = 0 THEN 0 ELSE f[i - 1] + lines[i].size]
  <1>2. f = h
    BY DEF IsSum
  <1>3. h[0] = 0 /\ \A i \in 1..Len(lines) : h[i] = f[i - 1] + lines[i].size
    BY <1>1
  <1> HIDE DEF h
  <1> QED
    BY <1>2, <1>3

(* Two sums over lines that begin alike agree there. *)
LEMMA SumsAgree ==
    ASSUME NEW lines \in Seq(Line), NEW f, IsSum(f, lines),
           NEW more \in Seq(Line), NEW g, IsSum(g, more), Extends(more, lines)
    PROVE  \A i \in 0..Len(lines) : f[i] = g[i]
  <1>1. Len(lines) \in Nat /\ Len(more) \in Nat
    BY LenProperties
  <1>2. f[0] = 0 /\ \A i \in 1..Len(lines) : f[i] = f[i - 1] + lines[i].size
    BY SumStep
  <1>3. g[0] = 0 /\ \A i \in 1..Len(more) : g[i] = g[i - 1] + more[i].size
    BY SumStep
  <1> DEFINE T == {i \in 0..Len(lines) : f[i] = g[i]}
  <1>4. T \in SUBSET (0..Len(lines)) /\ 0 \in T
    BY <1>1, <1>2, <1>3
  <1>5. ASSUME NEW k \in 1..Len(lines), k - 1 \in T PROVE k \in T
    <2>1. k \in 1..Len(more) /\ k \in 0..Len(lines)
      BY <1>1 DEF Extends
    <2> QED
      BY <1>2, <1>3, <1>5, <2>1 DEF Extends
  <1>6. \A k \in 0..Len(lines) : k \in T
    <2> HIDE DEF T
    <2> QED
      BY <1>1, <1>4, <1>5, Counting
  <1> QED
    BY <1>6

LEMMA BytesIs ==
    ASSUME NEW lines \in Seq(Line)
    PROVE  \E f \in [0..Len(lines) -> Nat] : IsSum(f, lines) /\ Bytes(lines) = f[Len(lines)]
  <1> DEFINE f == CHOOSE f : IsSum(f, lines)
  <1>0. Len(lines) \in Nat
    BY LenProperties
  <1>1. PICK g \in [0..Len(lines) -> Nat] : IsSum(g, lines)
    BY SumsExist
  <1>2. IsSum(f, lines)
    BY <1>1
  <1>3. Bytes(lines) = f[Len(lines)]
    BY DEF Bytes, IsSum
  <1> HIDE DEF f
  <1>4. \A i \in 0..Len(lines) : f[i] = g[i]
    <2>1. Extends(lines, lines)
      BY <1>0 DEF Extends
    <2> QED
      BY <1>1, <1>2, <2>1, SumsAgree
  <1>5. f[Len(lines)] = g[Len(lines)]
    BY <1>0, <1>4
  <1> QED
    BY <1>1, <1>3, <1>5

LEMMA BytesEmpty == Bytes(<<>>) = 0
  <1>1. <<>> \in Seq(Line) /\ Len(<<>>) = 0
    BY EmptySeq
  <1>2. PICK f \in [0..Len(<<>>) -> Nat] : IsSum(f, <<>>) /\ Bytes(<<>>) = f[Len(<<>>)]
    BY <1>1, BytesIs
  <1>3. f[0] = 0
    BY <1>1, <1>2, SumStep
  <1> QED
    BY <1>1, <1>2, <1>3

LEMMA BytesAdded ==
    ASSUME NEW lines \in Seq(Line), NEW x \in Line
    PROVE  /\ Bytes(lines) \in Nat
           /\ Bytes(lines \o <<x>>) = Bytes(lines) + x.size
  <1> DEFINE more == lines \o <<x>>
  <1>1. /\ more \in Seq(Line) /\ Len(more) = Len(lines) + 1 /\ Len(lines) \in Nat
        /\ more[Len(lines) + 1] = x /\ \A i \in 1..Len(lines) : more[i] = lines[i]
    BY SingleAdded, LenProperties
  <1> HIDE DEF more
  <1>2. PICK f \in [0..Len(lines) -> Nat] : IsSum(f, lines) /\ Bytes(lines) = f[Len(lines)]
    BY BytesIs
  <1>3. PICK g \in [0..Len(more) -> Nat] : IsSum(g, more) /\ Bytes(more) = g[Len(more)]
    BY <1>1, BytesIs
  <1>4. \A i \in 0..Len(lines) : f[i] = g[i]
    <2>1. Extends(more, lines)
      BY <1>1 DEF Extends
    <2>2. more \in Seq(Line) /\ IsSum(f, lines) /\ IsSum(g, more)
      BY <1>1, <1>2, <1>3
    <2> QED
      BY <2>1, <2>2, SumsAgree
  <1>5. f[Len(lines)] = g[Len(lines)] /\ f[Len(lines)] \in Nat
    BY <1>1, <1>2, <1>4
  <1>6. g[Len(lines) + 1] = g[Len(lines) + 1 - 1] + more[Len(lines) + 1].size
    <2>1. more \in Seq(Line) /\ IsSum(g, more) /\ Len(lines) + 1 \in 1..Len(more)
      BY <1>1, <1>3
    <2>2. \A i \in 1..Len(more) : g[i] = g[i - 1] + more[i].size
      BY <2>1, SumStep
    <2> QED
      BY <2>1, <2>2
  <1>7. Len(lines) + 1 - 1 = Len(lines)
    BY <1>1
  <1>8. Bytes(more) = Bytes(lines) + x.size
    BY <1>1, <1>2, <1>3, <1>5, <1>6, <1>7
  <1> QED
    BY <1>2, <1>5, <1>8 DEF more

-----------------------------------------------------------------------------
(* The files one after the other are one part of what was written.         *)

Falling(cut) == \A i, j \in 0..(Backups + 1) : i <= j => cut[j] <= cut[i]

(* file[i] holds the lines cut[i + 1] + 1 to cut[i] of what was written.   *)
CutInv(cut) ==
    /\ cut[0] = Len(written)
    /\ \A i \in 0..Backups : file[i] = Part(written, cut[i + 1], cut[i])
    /\ Falling(cut)

IsFlat(f, seqs) ==
    f = [i \in 1..Len(seqs) |-> IF i = 1 THEN seqs[i] ELSE f[i - 1] \o seqs[i]]

LEMMA FlatStep ==
    ASSUME NEW n \in Nat \ {0}, NEW seqs, Len(seqs) = n, NEW f, IsFlat(f, seqs)
    PROVE  f[1] = seqs[1] /\ \A i \in 2..n : f[i] = f[i - 1] \o seqs[i]
  <1> DEFINE h == [i \in 1..n |-> IF i = 1 THEN seqs[i] ELSE f[i - 1] \o seqs[i]]
  <1>1. f = h
    BY DEF IsFlat
  <1>2. h[1] = seqs[1]
    OBVIOUS
  <1>3. ASSUME NEW i \in 2..n PROVE h[i] = f[i - 1] \o seqs[i]
    <2>1. i \in 1..n /\ i # 1
      OBVIOUS
    <2> QED
      BY <2>1
  <1> HIDE DEF h
  <1> QED
    BY <1>1, <1>2, <1>3

LEMMA StoredIs ==
    ASSUME written \in Seq(Line), NEW cut \in [0..(Backups + 1) -> Nat], CutInv(cut)
    PROVE  Stored = Part(written, cut[Backups + 1], Len(written))
  <1> DEFINE n == Backups + 1
             seqs == [i \in 1..n |-> file[n - i]]
             flat(i) == Part(written, cut[n], cut[n - i])
             g == [i \in 1..n |-> flat(i)]
             f == CHOOSE f : IsFlat(f, seqs)
  <1>0. n \in Nat \ {0} /\ Backups \in Nat /\ n - 1 = Backups
    BY BackupsAssumption
  <1>1. Len(seqs) = n /\ \A i \in 1..n : seqs[i] = file[n - i]
    BY <1>0
  <1>2. Stored = FlattenSeq(seqs)
    <2>1. \A i \in 1..n : Backups + 1 - i = n - i
      BY <1>0
    <2>2. [i \in 1..(Backups + 1) |-> file[Backups + 1 - i]] = seqs
      BY <2>1, Zenon
    <2> QED
      BY <2>2, Zenon DEF Stored
  <1> HIDE DEF seqs
  <1>3. Stored = f[n]
    <2>1. Stored = LET flatten[i \in 1..Len(seqs)] ==
                           IF i = 1 THEN seqs[i] ELSE flatten[i - 1] \o seqs[i]
                   IN  flatten[Len(seqs)]
      BY <1>0, <1>1, <1>2 DEF FlattenSeq
    <2> QED
      BY <1>1, <2>1 DEF IsFlat
  <1> HIDE DEF f
  <1>4. seqs[1] = flat(1)
    <2>1. file[Backups] = Part(written, cut[Backups + 1], cut[Backups]) /\ Backups + 1 = n
      BY <1>0 DEF CutInv
    <2>2. seqs[1] = file[n - 1]
      BY <1>0, <1>1
    <2> QED
      BY <1>0, <2>1, <2>2
  <1>5. ASSUME NEW i \in 2..n PROVE flat(i) = flat(i - 1) \o seqs[i]
    <2>1. n - i \in 0..Backups /\ n - i \in 0..n /\ n - (i - 1) = n - i + 1 /\ n - (i - 1) \in 0..n /\ n \in 0..n
      BY <1>0
    <2>2. seqs[i] = Part(written, cut[n - i + 1], cut[n - i]) /\ cut[n - i + 1] <= cut[n - i]
      <3>1. PICK k \in 0..Backups : k = n - i
        BY <2>1
      <3>2. file[k] = Part(written, cut[k + 1], cut[k])
        BY DEF CutInv
      <3>4. k \in 0..(Backups + 1) /\ k + 1 \in 0..(Backups + 1) /\ k <= k + 1
        BY <1>0
      <3>5. cut[k + 1] <= cut[k]
        BY <3>4 DEF CutInv, Falling
      <3>3. seqs[i] = file[k]
        BY <1>0, <1>1, <3>1
      <3> HIDE DEF n
      <3> QED
        BY <3>1, <3>2, <3>3, <3>5
    <2>3. cut[n] <= cut[n - i + 1] /\ cut[n - i] <= Len(written)
      <3>1. n - i + 1 \in 0..n /\ n - i + 1 <= n /\ n - i + 1 \in Int /\ 0 \in 0..n /\ 0 <= n - i
        BY <1>0, <2>1
      <3>2. cut[n] <= cut[n - i + 1]
        BY <2>1, <3>1 DEF CutInv, Falling
      <3>3. cut[n - i] <= cut[0]
        BY <2>1, <3>1 DEF CutInv, Falling
      <3> QED
        BY <3>2, <3>3 DEF CutInv
    <2>4. cut[n - i] \in Nat /\ cut[n - i + 1] \in Nat /\ cut[n] \in Nat
      BY <2>1
    <2>5. PICK a \in Nat, b \in Nat, c \in Nat :
              a = cut[n] /\ b = cut[n - i + 1] /\ c = cut[n - i]
      BY <2>4
    <2>6. c \in 0..Len(written) /\ b \in 0..c /\ a \in 0..b
      BY <2>2, <2>3, <2>5, LenProperties
    <2>7. Part(written, a, b) \o Part(written, b, c) = Part(written, a, c)
      BY <2>6, PartsJoin
    <2> QED
      BY <2>1, <2>2, <2>5, <2>7
  <1>6. g[1] = flat(1) /\ \A i \in 2..n : g[i] = flat(i) /\ g[i - 1] = flat(i - 1)
    BY <1>0
  <1>7. IsFlat(g, seqs)
    <2> DEFINE h == [i \in 1..n |-> IF i = 1 THEN seqs[i] ELSE g[i - 1] \o seqs[i]]
    <2> HIDE DEF g
    <2>1. ASSUME NEW i \in 1..n PROVE g[i] = h[i]
      <3>1. CASE i = 1
        BY <1>4, <1>6, <3>1
      <3>2. CASE i # 1
        <4>1. i \in 2..n
          BY <1>0, <3>2
        <4>2. g[i] = g[i - 1] \o seqs[i]
          BY <1>5, <1>6, <4>1
        <4> QED
          BY <3>2, <4>2
      <3> QED
        BY <3>1, <3>2
    <2>2. g = h
      BY <2>1 DEF g
    <2> QED
      BY <1>1, <2>2 DEF IsFlat
  <1>8. IsFlat(f, seqs)
    BY <1>7 DEF f
  <1>9. f[1] = flat(1) /\ \A i \in 2..n : f[i] = f[i - 1] \o seqs[i]
    BY <1>0, <1>1, <1>4, <1>8, FlatStep
  <1> DEFINE T == {i \in 0..n : i = 0 \/ f[i] = flat(i)}
  <1> HIDE DEF flat
  <1>10. T \in SUBSET (0..n) /\ 0 \in T
    BY <1>0
  <1>11. ASSUME NEW k \in 1..n, k - 1 \in T PROVE k \in T
    <2>1. CASE k = 1
      BY <1>0, <1>9, <2>1
    <2>2. CASE k # 1
      <3>1. k \in 2..n /\ k \in 0..n /\ k - 1 # 0
        BY <1>0, <2>2
      <3> QED
        BY <1>5, <1>9, <1>11, <3>1
    <2> QED
      BY <2>1, <2>2
  <1>12. \A i \in 0..n : i \in T
    <2> HIDE DEF T
    <2> QED
      BY <1>0, <1>10, <1>11, Counting
  <1>13. f[n] = flat(n)
    BY <1>0, <1>12
  <1>14. n - n = 0 /\ cut[0] = Len(written)
    BY <1>0 DEF CutInv
  <1> QED
    BY <1>3, <1>13, <1>14 DEF flat

LEMMA EndIsSuffix ==
    ASSUME NEW S, NEW s \in Seq(S), NEW m \in 0..Len(s)
    PROVE  IsSuffix(Part(s, m, Len(s)), s)
  <1> DEFINE p == Part(s, m, Len(s))
             r == Reverse(p)
             q == Reverse(s)
  <1>1. Len(s) \in Nat /\ m \in Int /\ Len(s) \in 0..Len(s)
    BY LenProperties
  <1>2. p \in Seq(S) /\ Len(p) = Len(s) - m /\ \A i \in 1..(Len(s) - m) : p[i] = s[m + i]
    BY <1>1, PartIs
  <1> HIDE DEF p
  <1>3. Len(p) \in Nat /\ Len(p) <= Len(s)
    BY <1>1, <1>2
  <1>4. Len(r) = Len(p) /\ \A i \in 1..Len(p) : r[i] = p[Len(p) - i + 1]
    BY <1>3 DEF Reverse
  <1>5. Len(q) = Len(s) /\ \A i \in 1..Len(s) : q[i] = s[Len(s) - i + 1]
    BY <1>1 DEF Reverse
  <1> HIDE DEF r, q
  <1>6. ASSUME NEW i \in 1..Len(p) PROVE r[i] \in S /\ q[i] \in S /\ r[i] = q[i]
    <2>1. /\ Len(p) - i + 1 \in 1..(Len(s) - m) /\ i \in 1..Len(s)
          /\ m + (Len(p) - i + 1) = Len(s) - i + 1 /\ Len(s) - i + 1 \in 1..Len(s)
      BY <1>1, <1>2
    <2>2. r[i] = s[m + (Len(p) - i + 1)]
      BY <1>2, <1>4, <2>1
    <2>3. q[i] = s[Len(s) - i + 1] /\ s[Len(s) - i + 1] \in S
      BY <1>5, <2>1, ElementOfSeq
    <2> QED
      BY <2>1, <2>2, <2>3
  <1>7. PICK k \in Nat : k = Len(p)
    BY <1>3
  <1>8. /\ SubSeq(r, 1, k) \in Seq(S) /\ Len(SubSeq(r, 1, k)) = k
        /\ \A i \in 1..k : SubSeq(r, 1, k)[i] = r[i]
    <2>1. \A i \in 1..k : r[i] \in S
      BY <1>6, <1>7
    <2>2. /\ SubSeq(r, 1, k) \in Seq(S)
          /\ Len(SubSeq(r, 1, k)) = IF 1 <= k THEN k - 1 + 1 ELSE 0
          /\ \A i \in 1..(k - 1 + 1) : SubSeq(r, 1, k)[i] = r[1 + i - 1]
      BY <2>1, SubSeqProperties
    <2> QED
      BY <2>2
  <1>9. /\ SubSeq(q, 1, k) \in Seq(S) /\ Len(SubSeq(q, 1, k)) = k
        /\ \A i \in 1..k : SubSeq(q, 1, k)[i] = q[i]
    <2>1. \A i \in 1..k : q[i] \in S
      BY <1>6, <1>7
    <2>2. /\ SubSeq(q, 1, k) \in Seq(S)
          /\ Len(SubSeq(q, 1, k)) = IF 1 <= k THEN k - 1 + 1 ELSE 0
          /\ \A i \in 1..(k - 1 + 1) : SubSeq(q, 1, k)[i] = q[1 + i - 1]
      BY <2>1, SubSeqProperties
    <2> QED
      BY <2>2
  <1>10. \A i \in 1..k : SubSeq(r, 1, k)[i] = SubSeq(q, 1, k)[i]
    BY <1>6, <1>7, <1>8, <1>9
  <1>11. SubSeq(r, 1, k) = SubSeq(q, 1, k)
    BY <1>8, <1>9, <1>10, SeqEqual
  <1>12. IsPrefix(r, q)
    BY <1>3, <1>4, <1>5, <1>7, <1>11 DEF IsPrefix
  <1> QED
    BY <1>12 DEF IsSuffix, r, q, p

-----------------------------------------------------------------------------
(* The positions of lines in what was written.                             *)

Distinct(s) == \A i, j \in 1..Len(s) : s[i] = s[j] => i = j
Position(s, x) == CHOOSE i \in 1..Len(s) : s[i] = x
Ordered(s, lines) ==
    /\ Range(lines) \subseteq Range(s)
    /\ \A i, j \in 1..Len(lines) : i < j => Position(s, lines[i]) < Position(s, lines[j])

LEMMA PositionIs ==
    ASSUME NEW s, NEW i \in 1..Len(s), Distinct(s)
    PROVE  Position(s, s[i]) = i
  BY DEF Position, Distinct

LEMMA PositionFound ==
    ASSUME NEW S, NEW s \in Seq(S), NEW x \in Range(s)
    PROVE  Position(s, x) \in 1..Len(s) /\ s[Position(s, x)] = x
  <1>1. \E i \in 1..Len(s) : s[i] = x
    BY RangeIs
  <1> QED
    BY <1>1 DEF Position

LEMMA PositionKept ==
    ASSUME NEW S, NEW s \in Seq(S), NEW x \in S, Distinct(s \o <<x>>), NEW y \in Range(s)
    PROVE  /\ y \in Range(s \o <<x>>)
           /\ Position(s \o <<x>>, y) = Position(s, y)
  <1> DEFINE t == s \o <<x>>
             k == Position(s, y)
  <1>1. k \in 1..Len(s) /\ s[k] = y
    BY PositionFound
  <1>2. /\ t \in Seq(S) /\ Len(t) = Len(s) + 1 /\ Len(s) \in Nat
        /\ \A i \in 1..Len(s) : t[i] = s[i]
    BY SingleAdded, LenProperties
  <1> HIDE DEF k, t
  <1>3. k \in 1..Len(t) /\ t[k] = y
    BY <1>1, <1>2
  <1>4. Distinct(t)
    BY DEF t
  <1>5. Position(t, t[k]) = k
    BY <1>3, <1>4, PositionIs
  <1>6. t[k] \in Range(t)
    BY <1>2, <1>3, RangeIs
  <1> QED
    BY <1>3, <1>5, <1>6 DEF t, k

LEMMA PositionOfLast ==
    ASSUME NEW S, NEW s \in Seq(S), NEW x \in S, Distinct(s \o <<x>>)
    PROVE  /\ x \in Range(s \o <<x>>)
           /\ Position(s \o <<x>>, x) = Len(s) + 1
  <1> DEFINE t == s \o <<x>>
  <1>1. t \in Seq(S) /\ Len(t) = Len(s) + 1 /\ Len(s) \in Nat /\ t[Len(s) + 1] = x
    BY SingleAdded, LenProperties
  <1> HIDE DEF t
  <1>2. PICK k \in 1..Len(t) : k = Len(s) + 1 /\ t[k] = x
    BY <1>1
  <1>3. Distinct(t)
    BY DEF t
  <1>4. Position(t, t[k]) = k
    BY <1>2, <1>3, PositionIs
  <1>5. t[k] \in Range(t)
    BY <1>1, <1>2, RangeIs
  <1> QED
    BY <1>2, <1>4, <1>5 DEF t

(* What is in order stays so when a line is written, and when the part     *)
(* behind it is read.                                                      *)
LEMMA OrderedKept ==
    ASSUME NEW S, NEW s \in Seq(S), NEW x \in S, Distinct(s \o <<x>>),
           NEW lines \in Seq(S), Ordered(s, lines)
    PROVE  /\ Ordered(s \o <<x>>, lines)
           /\ \A i \in 1..Len(lines) : Position(s \o <<x>>, lines[i]) = Position(s, lines[i])
  <1>1. \A y \in Range(s) : /\ y \in Range(s \o <<x>>)
                            /\ Position(s \o <<x>>, y) = Position(s, y)
    BY PositionKept
  <1>2. \A i \in 1..Len(lines) : lines[i] \in Range(s)
    BY RangeIs DEF Ordered
  <1>3. Range(lines) \subseteq Range(s \o <<x>>)
    BY <1>1 DEF Ordered
  <1>4. \A i \in 1..Len(lines) : Position(s \o <<x>>, lines[i]) = Position(s, lines[i])
    BY <1>1, <1>2
  <1> QED
    BY <1>3, <1>4 DEF Ordered

LEMMA OrderedExtends ==
    ASSUME NEW S, NEW s \in Seq(S), Distinct(s), NEW lines \in Seq(S), Ordered(s, lines),
           NEW n \in 0..Len(s), NEW m \in 0..n,
           \A i \in 1..Len(lines) : Position(s, lines[i]) <= m
    PROVE  /\ Ordered(s, lines \o Part(s, m, n))
           /\ \A i \in 1..Len(lines \o Part(s, m, n)) :
                 Position(s, (lines \o Part(s, m, n))[i]) <= n
  <1> DEFINE p == Part(s, m, n)
             t == lines \o p
             Pos(x) == Position(s, x)
  <1>0. Len(s) \in Nat /\ m \in Nat /\ n \in Nat /\ Len(lines) \in Nat
    BY LenProperties
  <1>1. p \in Seq(S) /\ Len(p) = n - m /\ \A i \in 1..(n - m) : p[i] = s[m + i]
    BY PartIs
  <1> HIDE DEF p
  <1>2. /\ t \in Seq(S) /\ Len(t) = Len(lines) + (n - m)
        /\ \A i \in 1..(Len(lines) + (n - m)) :
              t[i] = IF i <= Len(lines) THEN lines[i] ELSE p[i - Len(lines)]
    BY <1>0, <1>1, ConcatProperties
  <1> HIDE DEF t
  <1>3. \A i \in 1..Len(lines) : lines[i] \in Range(s)
    BY RangeIs DEF Ordered
  <1>4. ASSUME NEW i \in 1..Len(t)
        PROVE  /\ i <= Len(lines) => /\ t[i] = lines[i] /\ i \in 1..Len(lines)
                                     /\ t[i] \in Range(s) /\ Pos(t[i]) \in Int /\ Pos(t[i]) <= m
               /\ ~(i <= Len(lines)) => /\ t[i] \in Range(s)
                                        /\ Pos(t[i]) = m + (i - Len(lines))
                                        /\ m < Pos(t[i]) /\ Pos(t[i]) <= n
    <2>1. CASE i <= Len(lines)
      <3>1. i \in 1..Len(lines) /\ t[i] = lines[i]
        BY <1>0, <1>2, <2>1
      <3>2. t[i] \in Range(s)
        BY <1>3, <3>1
      <3>3. Pos(t[i]) \in 1..Len(s)
        BY <3>2, PositionFound
      <3> QED
        BY <1>0, <2>1, <3>1, <3>2, <3>3
    <2>2. CASE ~(i <= Len(lines))
      <3>0. i - Len(lines) \in 1..(n - m)
        BY <1>0, <1>2, <2>2
      <3>1. PICK k \in 1..(n - m) : k = i - Len(lines)
        BY <3>0
      <3>2. t[i] = s[m + k] /\ m + k \in 1..Len(s)
        BY <1>0, <1>1, <1>2, <2>2, <3>1
      <3>3. s[m + k] \in Range(s) /\ Pos(s[m + k]) = m + k
        BY <3>2, RangeIs, PositionIs
      <3> QED
        BY <1>0, <2>2, <3>1, <3>2, <3>3
    <2> QED
      BY <2>1, <2>2
  <1>5. Range(t) \subseteq Range(s)
    <2>1. Range(t) = {t[i] : i \in 1..Len(t)}
      BY <1>2, RangeIs
    <2> QED
      BY <1>4, <2>1
  <1>6. ASSUME NEW i \in 1..Len(t), NEW j \in 1..Len(t), i < j PROVE Pos(t[i]) < Pos(t[j])
    <2>1. CASE j <= Len(lines)
      <3>1. i <= Len(lines)
        BY <1>0, <1>2, <1>6, <2>1
      <3> QED
        BY <1>4, <1>6, <2>1, <3>1 DEF Ordered
    <2>2. CASE ~(j <= Len(lines)) /\ i <= Len(lines)
      <3>1. Pos(t[i]) \in Int /\ Pos(t[i]) <= m
        BY <1>4, <2>2
      <3>2. Pos(t[j]) = m + (j - Len(lines)) /\ m < Pos(t[j])
        BY <1>4, <2>2
      <3> QED
        BY <1>0, <1>2, <3>1, <3>2
    <2>3. CASE ~(j <= Len(lines)) /\ ~(i <= Len(lines))
      <3>1. Pos(t[i]) = m + (i - Len(lines)) /\ Pos(t[j]) = m + (j - Len(lines))
        BY <1>4, <2>3
      <3> QED
        BY <1>0, <1>2, <1>6, <3>1
    <2> QED
      BY <2>1, <2>2, <2>3
  <1>7. ASSUME NEW i \in 1..Len(t) PROVE Pos(t[i]) <= n
    BY <1>0, <1>4
  <1>8. Ordered(s, t)
    BY <1>5, <1>6 DEF Ordered
  <1> QED
    BY <1>7, <1>8 DEF t, p

-----------------------------------------------------------------------------
(* The inductive invariant.                                                *)

AppenderState == [pc: AppendPcs, line: Seq(Line), at: 0..Backups]
ClientState == [pc: ClientPcs, at: 0..Backups, since: Nat, logs: Seq(Line),
                live: Seq(Line), sub: Seq(Line)]

(* A goroutine carries one line, its own, to the log and then to the hub.  *)
Carrying(a) == appender[a].pc \notin {"read", "done"}
Pending(a) == Carrying(a) /\ appender[a].pc # "publish"
The(a) == appender[a].line[1]

TypeInv ==
    /\ run \in Runs
    /\ pipe \in [Pipes -> Seq(Line)]
    /\ \A p \in Pipes : Len(pipe[p]) <= PipeCap
    /\ appender \in [Appenders -> AppenderState]
    /\ file \in [0..Backups -> Seq(Line)]
    /\ client \in [Clients -> ClientState]
    /\ \A c \in Clients : Len(client[c].sub) <= SubCap
    /\ printed \in 0..MaxLines
    /\ run # "off" => printed < MaxLines
    /\ mishaps \in 0..MaxMishaps
    /\ written \in Seq(Line)
    /\ torn \subseteq Clients

LockInv ==
    \A a, b \in Appenders :
        appender[a].pc \in Locked /\ appender[b].pc \in Locked => a = b

CarryInv ==
    \A a \in Appenders : Carrying(a) => Len(appender[a].line) = 1 /\ The(a).from = a

(* Lines are numbered as they are printed; those of one goroutine lie in   *)
(* this order in the log, in its hands and in its pipe.                    *)
LogOrder ==
    /\ \A i \in 1..Len(written) : written[i].n <= printed
    /\ \A i, j \in 1..Len(written) :
          i < j /\ written[i].from = written[j].from => written[i].n < written[j].n
PipeOrder ==
    \A p \in Pipes :
        /\ \A k \in 1..Len(pipe[p]) : pipe[p][k].from = p /\ pipe[p][k].n <= printed
        /\ \A k, l \in 1..Len(pipe[p]) : k < l => pipe[p][k].n < pipe[p][l].n
        /\ \A k \in 1..Len(pipe[p]) : \A i \in 1..Len(written) :
              written[i].from = p => written[i].n < pipe[p][k].n
PendingOrder ==
    \A a \in Appenders : Pending(a) =>
        /\ The(a).n <= printed
        /\ \A i \in 1..Len(written) : written[i].from = a => written[i].n < The(a).n
        /\ a \in Pipes => \A k \in 1..Len(pipe[a]) : The(a).n < pipe[a][k].n

(* During a rotation the place for the next file to move is empty.         *)
RotateInv ==
    \A a \in Appenders : appender[a].pc \in {"shift", "move"} =>
        /\ appender[a].at + 1 <= Backups /\ file[appender[a].at + 1] = <<>>
        /\ appender[a].pc = "move" <=> appender[a].at = 0

SizeInv ==
    /\ FilesBounded
    /\ \A a \in Appenders : appender[a].pc = "write" => Fits(The(a))

(* The place a rotation has emptied and not yet filled again.              *)
Gap(k) ==
    \E a \in Appenders :
        \/ appender[a].pc \in {"shift", "move"} /\ k = appender[a].at + 1
        \/ appender[a].pc = "write" /\ k = 0
Solid(k, dropped) ==
    /\ \A j \in 0..Backups : k < j /\ file[j] # <<>> => file[k] # <<>>
    /\ dropped > 0 => file[k] # <<>>
HoleInv(cut) ==
    mishaps = 0 => \A k \in 0..Backups : ~Gap(k) => Solid(k, cut[Backups + 1])

(* A client has read lines older than those of the file it reads next.     *)
ReadInv(cut) ==
    \A c \in Clients : client[c].pc = "read" =>
        /\ client[c].since <= Len(written)
        /\ \A k \in 1..Len(client[c].logs) :
              Position(written, client[c].logs[k]) <= cut[client[c].at + 1]
        /\ c \notin torn =>
              client[c].logs = Part(written, cut[Backups + 1], cut[client[c].at + 1])

PlaceInv ==
    \E cut \in [0..(Backups + 1) -> Nat] : CutInv(cut) /\ HoleInv(cut) /\ ReadInv(cut)

NewInv == \A c \in Clients : client[c].pc = "new" => client[c] = NewClient
LogsInv == \A c \in Clients : Ordered(written, client[c].logs)

(* What a client sees live of one goroutine is in the order of the log,    *)
(* and older than the line this goroutine is about to publish.             *)
Seen(c) == client[c].live \o client[c].sub
Rising(s, lines) ==
    /\ Range(lines) \subseteq Range(s)
    /\ \A i, j \in 1..Len(lines) : i < j /\ lines[i].from = lines[j].from =>
          Position(s, lines[i]) < Position(s, lines[j])
LiveInv == \A c \in Clients : Rising(written, Seen(c))
PublishInv ==
    \A a \in Appenders : appender[a].pc = "publish" =>
        /\ The(a) \in Range(written)
        /\ \A c \in Clients : \A k \in 1..Len(Seen(c)) :
              Seen(c)[k].from = a => Position(written, Seen(c)[k]) < Position(written, The(a))

OrderInv == LogOrder /\ PipeOrder /\ PendingOrder
Inv ==
    /\ TypeInv /\ LockInv /\ CarryInv /\ OrderInv
    /\ RotateInv /\ SizeInv /\ PlaceInv
    /\ NewInv /\ LogsInv /\ ReadIsWhole /\ LiveInv /\ PublishInv

-----------------------------------------------------------------------------
(* Types.                                                                  *)

LEMMA NewLineIs ==
    ASSUME NEW a \in Appenders, printed \in Nat, printed < MaxLines, NEW line \in NewLines(a)
    PROVE  line \in Line /\ line.from = a /\ line.n = printed + 1
  <1>1. printed + 1 \in 1..MaxLines
    BY LogBoundsAssumption
  <1>2. Sizes[printed + 1] \subseteq UNION Range(Sizes)
    BY <1>1, LogSizesAssumption DEF Range
  <1>3. line = [from |-> line.from, n |-> line.n, size |-> line.size]
        /\ line.from = a /\ line.n = printed + 1 /\ line.size \in Sizes[printed + 1]
    BY DEF NewLines
  <1>4. line.from \in Appenders /\ line.n \in 1..MaxLines /\ line.size \in UNION Range(Sizes)
    BY <1>1, <1>2, <1>3
  <1>5. [from |-> line.from, n |-> line.n, size |-> line.size] \in Line
    BY <1>4 DEF Line
  <1> QED
    BY <1>3, <1>5

LEMMA LineIs ==
    \A x \in Line : x.from \in Appenders /\ x.n \in Nat /\ x.size \in Nat
  BY LinesAreSized DEF Line

LEMMA SingleIs ==
    ASSUME NEW S, NEW s \in Seq(S), Len(s) = 1
    PROVE  s = <<s[1]>> /\ s[1] \in S
  <1>1. s[1] \in S
    BY ElementOfSeq
  <1>2. <<s[1]>> \in Seq(S) /\ Len(<<s[1]>>) = 1 /\ <<s[1]>>[1] = s[1]
    BY <1>1
  <1>3. \A i \in 1..Len(s) : s[i] = <<s[1]>>[i]
    BY <1>2
  <1>4. s = <<s[1]>>
    BY <1>2, <1>3, SeqEqual
  <1> QED
    BY <1>1, <1>4

LEMMA Places == Backups \in Nat /\ Backups >= 1 /\ 0 \in 0..Backups /\ Backups \in 0..Backups
  BY BackupsAssumption

LEMMA IdleType ==
    /\ Idle \in AppenderState
    /\ \A a \in Appenders : AfterAppend(a) \in AppenderState
    /\ Idle.pc = "done"
    /\ \A a \in Appenders : AfterAppend(a).pc \in {"read", "done"}
    /\ [Idle EXCEPT !.pc = "read"] \in AppenderState
  BY Places, EmptySeq DEF Idle, AfterAppend, NoLines, AppenderState, AppendPcs

LEMMA ClientTypes ==
    NewClient \in ClientState /\ Gone \in ClientState
    /\ NewClient.logs = <<>> /\ NewClient.live = <<>> /\ NewClient.sub = <<>> /\ NewClient.pc = "new"
    /\ Gone.logs = <<>> /\ Gone.live = <<>> /\ Gone.sub = <<>> /\ Gone.pc = "gone"
  BY Places, EmptySeq DEF NewClient, Gone, ClientState, ClientPcs

LEMMA TypeInit == Init => TypeInv
  <1> SUFFICES ASSUME Init PROVE TypeInv
    OBVIOUS
  <1>1. <<>> \in Seq(Line) /\ Len(<<>>) = 0
    BY EmptySeq
  <1>2. NewClient.sub = <<>> /\ NewClient \in ClientState
    BY ClientTypes
  <1>3. \A c \in Clients : client[c] = NewClient
    BY DEF Init
  <1>4. \A c \in Clients : Len(client[c].sub) <= SubCap
    BY <1>1, <1>2, <1>3, CapsAssumption
  <1> QED
    BY <1>1, <1>2, <1>4, IdleType, CapsAssumption, LogBoundsAssumption
    DEF Init, TypeInv, Runs

LEMMA TypeStep ==
    ASSUME TypeInv, CarryInv, RotateInv, [Next]_vars
    PROVE  TypeInv'
  <1>1. CASE UNCHANGED vars
    BY <1>1 DEF TypeInv, vars
  <1>2. CASE StartRun
    <2>1. appender' \in [Appenders -> AppenderState]
      BY <1>2, IdleType DEF StartRun
    <2> QED
      BY <1>2, <2>1, LogBoundsAssumption DEF StartRun, TypeInv, Runs
  <1>3. CASE AgentExit
    BY <1>3 DEF AgentExit, TypeInv, Runs
  <1>4. CASE WaitReturns
    BY <1>4, EmptySeq, CapsAssumption DEF WaitReturns, TypeInv, Runs
  <1>5. CASE ReportExit
    <2>1. printed \in Nat /\ printed < MaxLines /\ printed + 1 \in 0..MaxLines
      BY <1>5, LogBoundsAssumption DEF ReportExit, TypeInv
    <2>2. Runner \in Appenders
      BY DEF Appenders
    <2>3. PICK line \in NewLines(Runner) :
              appender' = [appender EXCEPT ![Runner] = [Idle EXCEPT !.pc = "append", !.line = <<line>>]]
      BY <1>5 DEF ReportExit
    <2>4. line \in Line
      BY <2>1, <2>2, NewLineIs
    <2>5. [Idle EXCEPT !.pc = "append", !.line = <<line>>] \in AppenderState
      <3>1. <<line>> \in Seq(Line)
        BY <2>4
      <3> QED
        BY <3>1, IdleType DEF AppenderState, AppendPcs
    <2>6. appender' \in [Appenders -> AppenderState]
      BY <2>3, <2>5 DEF TypeInv
    <2> QED
      BY <1>5, <2>1, <2>6 DEF ReportExit, TypeInv, Runs
  <1>6. CASE Crash
    <2>1. <<>> \in Seq(Line) /\ Len(<<>>) = 0 /\ 0 <= PipeCap /\ 0 <= SubCap
      BY EmptySeq, CapsAssumption
    <2>2. appender' \in [Appenders -> AppenderState]
      BY <1>6, IdleType DEF Crash
    <2>3. client' \in [Clients -> ClientState]
      BY <1>6, ClientTypes DEF Crash, TypeInv
    <2>4. ASSUME NEW c \in Clients PROVE Len(client'[c].sub) <= SubCap
      <3>1. client'[c] = client[c] \/ client'[c].sub = <<>>
        BY <1>6, ClientTypes DEF Crash
      <3> QED
        BY <2>1, <3>1 DEF TypeInv
    <2>5. mishaps' \in 0..MaxMishaps
      BY <1>6, LogBoundsAssumption DEF Crash, TypeInv
    <2>6. pipe' \in [Pipes -> Seq(Line)] /\ \A p \in Pipes : Len(pipe'[p]) <= PipeCap
      BY <1>6, <2>1 DEF Crash
    <2> QED
      BY <1>6, <2>2, <2>3, <2>4, <2>5, <2>6 DEF Crash, TypeInv, Runs
  <1>7. ASSUME NEW p \in Pipes, AgentPrints(p) PROVE TypeInv'
    <2>1. printed \in Nat /\ printed < MaxLines /\ printed + 1 \in 0..MaxLines /\ printed + 1 < MaxLines
      BY <1>7, LogBoundsAssumption DEF AgentPrints, TypeInv
    <2>2. p \in Appenders
      BY DEF Appenders
    <2>3. PICK line \in NewLines(p) : pipe' = [pipe EXCEPT ![p] = Append(@, line)]
      BY <1>7 DEF AgentPrints
    <2>4. line \in Line
      BY <2>1, <2>2, NewLineIs
    <2>5. Append(pipe[p], line) \in Seq(Line) /\ Len(Append(pipe[p], line)) = Len(pipe[p]) + 1
          /\ Len(pipe[p]) \in Nat
      BY <2>4, AppendProperties, LenProperties DEF TypeInv
    <2>6. Len(pipe[p]) + 1 <= PipeCap
      BY <1>7, <2>5, CapsAssumption DEF AgentPrints
    <2>7. pipe' \in [Pipes -> Seq(Line)] /\ \A q \in Pipes : Len(pipe'[q]) <= PipeCap
      BY <2>3, <2>5, <2>6 DEF TypeInv
    <2> QED
      BY <1>7, <2>1, <2>7 DEF AgentPrints, TypeInv
  <1>8. ASSUME NEW p \in Pipes, ReadPipe(p) PROVE TypeInv'
    <2>1. /\ Head(pipe[p]) \in Line /\ Tail(pipe[p]) \in Seq(Line)
          /\ Len(Tail(pipe[p])) = Len(pipe[p]) - 1 /\ Len(pipe[p]) \in Nat
      BY <1>8, HeadTailProperties, LenProperties DEF ReadPipe, TypeInv
    <2>2. <<Head(pipe[p])>> \in Seq(Line)
      BY <2>1
    <2>3. appender' \in [Appenders -> AppenderState]
      BY <1>8, <2>2 DEF ReadPipe, TypeInv, AppenderState, AppendPcs
    <2>4. Len(Tail(pipe[p])) <= PipeCap
      BY <2>1, CapsAssumption DEF TypeInv
    <2>5. pipe' \in [Pipes -> Seq(Line)] /\ \A q \in Pipes : Len(pipe'[q]) <= PipeCap
      BY <1>8, <2>1, <2>4 DEF ReadPipe, TypeInv
    <2> QED
      BY <1>8, <2>3, <2>5 DEF ReadPipe, TypeInv
  <1>9. ASSUME NEW p \in Pipes, EndOfPipe(p) PROVE TypeInv'
    <2>1. appender' \in [Appenders -> AppenderState]
      BY <1>9 DEF EndOfPipe, Goto, TypeInv, AppenderState, AppendPcs
    <2> QED
      BY <1>9, <2>1 DEF EndOfPipe, TypeInv
  <1>10. ASSUME NEW a \in Appenders, Lock(a) PROVE TypeInv'
    <2>1. appender' \in [Appenders -> AppenderState]
      BY <1>10 DEF Lock, Goto, TypeInv, AppenderState, AppendPcs
    <2> QED
      BY <1>10, <2>1 DEF Lock, TypeInv
  <1>11. ASSUME NEW a \in Appenders, RemoveOldest(a) PROVE TypeInv'
    <2>1. appender' \in [Appenders -> AppenderState]
      <3>1. Backups - 1 \in 0..Backups
        BY Places
      <3>2. PICK i \in 0..Backups : i = Backups - 1
        BY <3>1
      <3>3. appender' = [appender EXCEPT ![a].pc = IF Backups = 1 THEN "move" ELSE "shift",
                                         ![a].at = i]
        BY <1>11, <3>2 DEF RemoveOldest
      <3> DEFINE d == [appender[a] EXCEPT !.pc = IF Backups = 1 THEN "move" ELSE "shift",
                                          !.at = i]
      <3>4. d \in AppenderState
        <4>1. appender[a] \in AppenderState
          BY DEF TypeInv
        <4>2. CASE Backups = 1
          BY <4>1, <4>2 DEF AppenderState, AppendPcs
        <4>3. CASE Backups # 1
          BY <4>1, <4>3 DEF AppenderState, AppendPcs
        <4> QED
          BY <4>2, <4>3
      <3>5. appender' = [appender EXCEPT ![a] = d]
        BY <3>3 DEF TypeInv, AppenderState
      <3> HIDE DEF d
      <3> QED
        BY <3>4, <3>5 DEF TypeInv
    <2>2. file' \in [0..Backups -> Seq(Line)]
      BY <1>11, Places, EmptySeq DEF RemoveOldest, TypeInv
    <2> QED
      BY <1>11, <2>1, <2>2 DEF RemoveOldest, TypeInv, Reading
  <1>12. ASSUME NEW a \in Appenders, ShiftArchive(a) PROVE TypeInv'
    <2>1. PICK i \in 1..Backups : i = appender[a].at /\ i + 1 \in 0..Backups /\ i - 1 \in 0..Backups
      BY <1>12, Places DEF ShiftArchive, RotateInv, TypeInv, AppenderState
    <2>2. appender' = [appender EXCEPT ![a].pc = IF i = 1 THEN "move" ELSE "shift",
                                       ![a].at = i - 1]
      BY <1>12, <2>1 DEF ShiftArchive
    <2>3. appender' \in [Appenders -> AppenderState]
      BY <2>1, <2>2 DEF TypeInv, AppenderState, AppendPcs
    <2>4. file' = [file EXCEPT ![i] = <<>>, ![i + 1] = file[i]]
      BY <1>12, <2>1 DEF ShiftArchive
    <2>5. file' \in [0..Backups -> Seq(Line)]
      <3>1. file \in [0..Backups -> Seq(Line)] /\ i \in 0..Backups
        BY <2>1 DEF TypeInv
      <3>2. file[i] \in Seq(Line) /\ <<>> \in Seq(Line)
        BY <3>1, EmptySeq
      <3> QED
        BY <2>4, <3>1, <3>2
    <2> QED
      BY <1>12, <2>3, <2>5 DEF ShiftArchive, TypeInv, Reading
  <1>13. ASSUME NEW a \in Appenders, MoveCurrent(a) PROVE TypeInv'
    <2>1. appender' \in [Appenders -> AppenderState]
      BY <1>13 DEF MoveCurrent, Goto, TypeInv, AppenderState, AppendPcs
    <2>2. file' \in [0..Backups -> Seq(Line)]
      BY <1>13, Places, EmptySeq DEF MoveCurrent, TypeInv
    <2> QED
      BY <1>13, <2>1, <2>2 DEF MoveCurrent, TypeInv, Reading
  <1>14. ASSUME NEW a \in Appenders, WriteLine(a) PROVE TypeInv'
    <2>1. appender' \in [Appenders -> AppenderState]
      BY <1>14 DEF WriteLine, Goto, TypeInv, AppenderState, AppendPcs
    <2>2. appender[a].line \in Seq(Line)
      BY DEF TypeInv, AppenderState
    <2>3. file[0] \o appender[a].line \in Seq(Line) /\ written \o appender[a].line \in Seq(Line)
      BY <2>2, Places, ConcatProperties DEF TypeInv
    <2>4. file' \in [0..Backups -> Seq(Line)]
      BY <1>14, <2>3, Places DEF WriteLine, TypeInv
    <2> QED
      BY <1>14, <2>1, <2>3, <2>4 DEF WriteLine, TypeInv
  <1>15. ASSUME NEW a \in Appenders, AppendFails(a) PROVE TypeInv'
    <2>1. appender' \in [Appenders -> AppenderState]
      BY <1>15, IdleType DEF AppendFails, TypeInv
    <2>2. mishaps' \in 0..MaxMishaps
      BY <1>15, LogBoundsAssumption DEF AppendFails, TypeInv
    <2> QED
      BY <1>15, <2>1, <2>2 DEF AppendFails, TypeInv
  <1>16. ASSUME NEW a \in Appenders, Publish(a) PROVE TypeInv'
    <2>1. appender' \in [Appenders -> AppenderState]
      BY <1>16, IdleType DEF Publish, TypeInv
    <2>2. appender[a].line \in Seq(Line) /\ Len(appender[a].line) = 1
      BY <1>16 DEF TypeInv, AppenderState, CarryInv, Carrying, Publish
    <2>3. ASSUME NEW c \in Clients
          PROVE  client'[c] \in ClientState /\ Len(client'[c].sub) <= SubCap
      <3>1. client[c] \in ClientState /\ client[c].sub \in Seq(Line) /\ Len(client[c].sub) \in Nat
        BY LenProperties DEF TypeInv, ClientState
      <3>2. CASE c \in Subscribed /\ Len(client[c].sub) < SubCap
        <4>1. client[c].sub \o appender[a].line \in Seq(Line)
              /\ Len(client[c].sub \o appender[a].line) = Len(client[c].sub) + 1
          <5>1. PICK s \in Seq(Line), t \in Seq(Line) :
                    s = client[c].sub /\ t = appender[a].line
            BY <2>2, <3>1
          <5>2. s \o t \in Seq(Line) /\ Len(s \o t) = Len(s) + Len(t)
            BY ConcatProperties
          <5> QED
            BY <2>2, <5>1, <5>2
        <4>2. client'[c] = [client[c] EXCEPT !.sub = @ \o appender[a].line]
          BY <1>16, <3>2 DEF Publish
        <4>3. Len(client[c].sub) + 1 <= SubCap
          BY <3>1, <3>2, CapsAssumption
        <4> QED
          BY <3>1, <4>1, <4>2, <4>3 DEF ClientState
      <3>3. CASE ~(c \in Subscribed /\ Len(client[c].sub) < SubCap)
        <4>1. client'[c] = client[c]
          BY <1>16, <3>3 DEF Publish
        <4> QED
          BY <3>1, <4>1 DEF TypeInv
      <3> QED
        BY <3>2, <3>3
    <2>4. client' \in [Clients -> ClientState]
      BY <1>16, <2>3 DEF Publish
    <2> QED
      BY <1>16, <2>1, <2>3, <2>4 DEF Publish, TypeInv
  <1>17. ASSUME NEW c \in Clients, Connect(c) PROVE TypeInv'
    <2>1. Len(written) \in Nat
      BY LenProperties DEF TypeInv
    <2>2. client' \in [Clients -> ClientState]
          /\ \A d \in Clients : Len(client'[d].sub) <= SubCap
      BY <1>17, <2>1, Places DEF Connect, Become, TypeInv, ClientState, ClientPcs
    <2> QED
      BY <1>17, <2>2 DEF Connect, Become, TypeInv
  <1>18. ASSUME NEW c \in Clients, ReadFile(c) PROVE TypeInv'
    <2>1. client[c] \in ClientState /\ client[c].at \in 0..Backups
      BY DEF TypeInv, ClientState
    <2>2. client[c].logs \o file[client[c].at] \in Seq(Line)
      BY <2>1, ConcatProperties DEF TypeInv, ClientState
    <2> DEFINE r == [client[c] EXCEPT !.logs = @ \o file[client[c].at]]
    <2>3. r \in ClientState /\ r.sub = client[c].sub /\ r.at = client[c].at
      BY <2>1, <2>2 DEF ClientState
    <2>4. Become(c, IF r.at = 0 THEN [r EXCEPT !.pc = "subscribe"] ELSE [r EXCEPT !.at = @ - 1])
      BY <1>18 DEF ReadFile
    <2> HIDE DEF r
    <2> DEFINE d == IF r.at = 0 THEN [r EXCEPT !.pc = "subscribe"] ELSE [r EXCEPT !.at = @ - 1]
    <2>5. d \in ClientState /\ d.sub = client[c].sub
      <3>1. CASE r.at = 0
        BY <2>3, <3>1 DEF ClientState, ClientPcs
      <3>2. CASE r.at # 0
        <4>1. r.at - 1 \in 0..Backups
          BY <2>1, <2>3, <3>2, Places
        <4> QED
          BY <2>3, <3>2, <4>1 DEF ClientState
      <3> QED
        BY <3>1, <3>2
    <2>7. client' = [client EXCEPT ![c] = d]
      BY <2>4 DEF Become
    <2> HIDE DEF d
    <2>6. client' \in [Clients -> ClientState]
          /\ \A e \in Clients : Len(client'[e].sub) <= SubCap
      BY <2>5, <2>7 DEF TypeInv
    <2> QED
      BY <2>4, <2>6 DEF Become, TypeInv
  <1>19. ASSUME NEW c \in Clients, Subscribe(c) PROVE TypeInv'
    <2>1. client' \in [Clients -> ClientState]
          /\ \A d \in Clients : Len(client'[d].sub) <= SubCap
      BY <1>19 DEF Subscribe, Become, TypeInv, ClientState, ClientPcs
    <2> QED
      BY <1>19, <2>1 DEF Subscribe, Become, TypeInv
  <1>20. ASSUME NEW c \in Clients, Deliver(c) PROVE TypeInv'
    <2>1. client[c] \in ClientState /\ client[c].sub \in Seq(Line) /\ client[c].live \in Seq(Line)
      BY DEF TypeInv, ClientState
    <2>2. /\ Head(client[c].sub) \in Line /\ Tail(client[c].sub) \in Seq(Line)
          /\ Len(Tail(client[c].sub)) = Len(client[c].sub) - 1 /\ Len(client[c].sub) \in Nat
      BY <1>20, <2>1, HeadTailProperties, LenProperties DEF Deliver
    <2>3. Append(client[c].live, Head(client[c].sub)) \in Seq(Line)
      BY <2>1, <2>2, AppendProperties
    <2>4. Len(Tail(client[c].sub)) <= SubCap
      BY <2>2, CapsAssumption DEF TypeInv
    <2>5. PICK d : d = [client[c] EXCEPT !.live = Append(@, Head(client[c].sub)), !.sub = Tail(@)]
      OBVIOUS
    <2>6. d \in ClientState /\ d.sub = Tail(client[c].sub)
      BY <2>1, <2>2, <2>3, <2>5 DEF ClientState
    <2>7. Become(c, d)
      BY <1>20, <2>5 DEF Deliver
    <2> QED
      BY <2>4, <2>6, <2>7 DEF Become, TypeInv
  <1>21. ASSUME NEW c \in Clients, Unsubscribe(c) PROVE TypeInv'
    <2>1. Len(Gone.sub) <= SubCap
      BY ClientTypes, EmptySeq, CapsAssumption
    <2>2. client' \in [Clients -> ClientState]
          /\ \A d \in Clients : Len(client'[d].sub) <= SubCap
      BY <1>21, <2>1, ClientTypes DEF Unsubscribe, Become, TypeInv
    <2> QED
      BY <1>21, <2>2 DEF Unsubscribe, Become, TypeInv
  <1> QED
    BY <1>1, <1>2, <1>3, <1>4, <1>5, <1>6, <1>7, <1>8, <1>9, <1>10, <1>11, <1>12, <1>13,
       <1>14, <1>15, <1>16, <1>17, <1>18, <1>19, <1>20, <1>21
    DEF Next, AppendStep, StreamStep, ClientStep

-----------------------------------------------------------------------------
(* Who changes what.                                                       *)

LockedStep(a) ==
    Lock(a) \/ RemoveOldest(a) \/ ShiftArchive(a) \/ MoveCurrent(a) \/ WriteLine(a)

LEMMA AppenderSteps ==
    ASSUME TypeInv, [Next]_vars, NEW b \in Appenders
    PROVE  \/ appender'[b] = appender[b]
           \/ appender'[b].pc \in {"read", "done"}
           \/ b \in Pipes /\ ReadPipe(b)
           \/ b = Runner /\ ReportExit
           \/ LockedStep(b)
  <1>1. CASE UNCHANGED vars
    BY <1>1 DEF vars
  <1>2. CASE StartRun
    <2>1. [Idle EXCEPT !.pc = "read"].pc = "read" /\ Idle.pc = "done"
      BY DEF Idle
    <2> QED
      BY <1>2, <2>1 DEF StartRun
  <1>3. CASE AgentExit \/ WaitReturns \/ \E p \in Pipes : AgentPrints(p)
    BY <1>3 DEF AgentExit, WaitReturns, AgentPrints
  <1>4. CASE ReportExit
    BY <1>4 DEF ReportExit, TypeInv
  <1>5. CASE Crash
    BY <1>5, IdleType DEF Crash
  <1>6. ASSUME NEW p \in Pipes, ReadPipe(p) PROVE b = p \/ appender'[b] = appender[b]
    BY <1>6 DEF ReadPipe, TypeInv
  <1>7. ASSUME NEW p \in Pipes, EndOfPipe(p)
        PROVE  appender'[b] = appender[b] \/ appender'[b].pc = "done"
    BY <1>7 DEF EndOfPipe, Goto, TypeInv, AppenderState
  <1>8. ASSUME NEW a \in Appenders, LockedStep(a) PROVE b = a \/ appender'[b] = appender[b]
    BY <1>8 DEF LockedStep, Lock, RemoveOldest, ShiftArchive, MoveCurrent, WriteLine, Goto, TypeInv
  <1>9. ASSUME NEW a \in Appenders, AppendFails(a) \/ Publish(a)
        PROVE  appender'[b] = appender[b] \/ appender'[b].pc \in {"read", "done"}
    BY <1>9, IdleType DEF AppendFails, Publish, TypeInv
  <1>10. ASSUME NEW c \in Clients, ClientStep(c) PROVE appender'[b] = appender[b]
    BY <1>10 DEF ClientStep, Connect, ReadFile, Subscribe, Deliver, Unsubscribe, Become
  <1>11. QED
    BY <1>1, <1>2, <1>3, <1>4, <1>5, <1>6, <1>7, <1>8, <1>9, <1>10
    DEF Next, AppendStep, StreamStep, LockedStep

LEMMA LockedKeepsLine ==
    ASSUME TypeInv, NEW a \in Appenders, LockedStep(a)
    PROVE  /\ appender'[a].line = appender[a].line
           /\ appender[a].pc \notin {"read", "publish", "done"}
  <1>1. appender[a] \in AppenderState /\ appender \in [Appenders -> AppenderState]
    BY DEF TypeInv
  <1>2. CASE Lock(a)
    BY <1>1, <1>2 DEF Lock, Goto, AppenderState
  <1>3. CASE RemoveOldest(a)
    BY <1>1, <1>3 DEF RemoveOldest, AppenderState
  <1>4. CASE ShiftArchive(a)
    BY <1>1, <1>4 DEF ShiftArchive, AppenderState
  <1>5. CASE MoveCurrent(a)
    BY <1>1, <1>5 DEF MoveCurrent, Goto, AppenderState
  <1>6. CASE WriteLine(a)
    BY <1>1, <1>6 DEF WriteLine, Goto, AppenderState
  <1> QED
    BY <1>2, <1>3, <1>4, <1>5, <1>6 DEF LockedStep

LEMMA LogSteps ==
    ASSUME [Next]_vars
    PROVE  \/ UNCHANGED <<file, written>>
           \/ \E a \in Appenders : LockedStep(a)
  BY DEF vars, Next, StartRun, AgentExit, WaitReturns, ReportExit, Crash, AgentPrints, StreamStep,
         ReadPipe, EndOfPipe, AppendStep, LockedStep, Publish, AppendFails,
         ClientStep, Connect, ReadFile, Subscribe, Deliver, Unsubscribe, Become

LEMMA WrittenSteps ==
    ASSUME [Next]_vars
    PROVE  \/ UNCHANGED written
           \/ \E a \in Appenders : WriteLine(a)
  BY LogSteps DEF LockedStep, Lock, RemoveOldest, ShiftArchive, MoveCurrent

LEMMA PipeSteps ==
    ASSUME [Next]_vars
    PROVE  \/ UNCHANGED pipe
           \/ pipe' = [p \in Pipes |-> <<>>]
           \/ \E p \in Pipes : AgentPrints(p) \/ ReadPipe(p)
  BY DEF vars, Next, StartRun, AgentExit, WaitReturns, ReportExit, Crash, StreamStep,
         EndOfPipe, AppendStep, Lock, RemoveOldest, ShiftArchive, MoveCurrent, WriteLine, Publish,
         AppendFails, ClientStep, Connect, ReadFile, Subscribe, Deliver, Unsubscribe, Become

LEMMA PrintedSteps ==
    ASSUME TypeInv, [Next]_vars
    PROVE  printed' \in Nat /\ printed \in Nat /\ printed <= printed'
  <1>1. printed \in Nat
    BY LogBoundsAssumption DEF TypeInv
  <1>2. printed' = printed \/ printed' = printed + 1
    BY DEF vars, Next, StartRun, AgentExit, WaitReturns, ReportExit, Crash, AgentPrints, StreamStep,
         ReadPipe, EndOfPipe, AppendStep, Lock, RemoveOldest, ShiftArchive, MoveCurrent, WriteLine,
         Publish, AppendFails, ClientStep, Connect, ReadFile, Subscribe, Deliver, Unsubscribe, Become
  <1> QED
    BY <1>1, <1>2

-----------------------------------------------------------------------------
(* One writer at a time is inside AppendLog, and every goroutine carries   *)
(* its own line.                                                           *)

LEMMA LockedIs == \A pc \in Locked : pc \notin {"read", "append", "publish", "done"}
  BY DEF Locked

LEMMA LockStep ==
    ASSUME TypeInv, LockInv, [Next]_vars
    PROVE  LockInv'
  <1> SUFFICES ASSUME NEW a \in Appenders, NEW b \in Appenders,
                      appender'[a].pc \in Locked, appender'[b].pc \in Locked, a # b
               PROVE  FALSE
    BY DEF LockInv
  <1>1. ASSUME NEW d \in Appenders, appender'[d].pc \in Locked
        PROVE  appender[d].pc \in Locked \/ Lock(d)
    <2>1. b \in Pipes /\ ReadPipe(b) => appender'[b].pc = "append"
      BY DEF ReadPipe, TypeInv, AppenderState
    <2>2. ReadPipe(d) /\ d \in Pipes => appender'[d].pc = "append"
      BY DEF ReadPipe, TypeInv, AppenderState
    <2>3. d = Runner /\ ReportExit => appender'[d].pc = "append"
      BY DEF ReportExit, TypeInv, AppenderState, Idle
    <2>4. RemoveOldest(d) \/ ShiftArchive(d) \/ MoveCurrent(d) \/ WriteLine(d)
             => appender[d].pc \in Locked
      BY DEF RemoveOldest, ShiftArchive, MoveCurrent, WriteLine, Locked
    <2> QED
      BY <1>1, <2>2, <2>3, <2>4, AppenderSteps, LockedIs DEF LockedStep
  <1>2. ASSUME NEW d \in Appenders, Lock(d), NEW e \in Appenders, e # d
        PROVE  appender'[e].pc \notin Locked
    BY <1>2 DEF Lock, Goto, IsFree, TypeInv
  <1> QED
    BY <1>1, <1>2 DEF LockInv

LEMMA CarryStep ==
    ASSUME TypeInv, CarryInv, PipeOrder, [Next]_vars
    PROVE  CarryInv'
  <1> SUFFICES ASSUME NEW a \in Appenders, appender'[a].pc \notin {"read", "done"}
               PROVE  Len(appender'[a].line) = 1 /\ appender'[a].line[1].from = a
    BY DEF CarryInv, Carrying, The
  <1>1. CASE appender'[a] = appender[a]
    BY <1>1 DEF CarryInv, Carrying, The
  <1>2. CASE a \in Pipes /\ ReadPipe(a)
    <2>1. appender'[a].line = <<Head(pipe[a])>> /\ pipe[a] # <<>> /\ pipe[a] \in Seq(Line)
      BY <1>2 DEF ReadPipe, TypeInv, AppenderState
    <2>2. Len(pipe[a]) \in Nat \ {0} /\ Head(pipe[a]) = pipe[a][1]
      BY <2>1, EmptySeq
    <2>3. pipe[a][1].from = a
      BY <1>2, <2>2 DEF PipeOrder
    <2> QED
      BY <2>1, <2>2, <2>3
  <1>3. CASE a = Runner /\ ReportExit
    <2>1. PICK line \in NewLines(a) :
              appender' = [appender EXCEPT ![a] = [Idle EXCEPT !.pc = "append", !.line = <<line>>]]
      BY <1>3 DEF ReportExit
    <2>2. line.from = a
      BY DEF NewLines
    <2>3. appender'[a].line = <<line>>
      BY <2>1 DEF TypeInv, Idle
    <2> QED
      BY <2>2, <2>3
  <1>4. CASE LockedStep(a)
    <2>1. appender'[a].line = appender[a].line /\ appender[a].pc \notin {"read", "done"}
      BY <1>4, LockedKeepsLine
    <2> QED
      BY <2>1 DEF CarryInv, Carrying, The
  <1> QED
    BY <1>1, <1>2, <1>3, <1>4, AppenderSteps

LEMMA TheIs ==
    ASSUME TypeInv, CarryInv, NEW a \in Appenders, Carrying(a)
    PROVE  appender[a].line = <<The(a)>> /\ The(a) \in Line /\ The(a).from = a
  <1>1. appender[a].line \in Seq(Line) /\ Len(appender[a].line) = 1
    BY DEF TypeInv, AppenderState, CarryInv
  <1> QED
    BY <1>1, SingleIs DEF CarryInv, The

-----------------------------------------------------------------------------
(* The order of lines.                                                     *)

LEMMA WriteIs ==
    ASSUME TypeInv, CarryInv, NEW a \in Appenders, WriteLine(a)
    PROVE  /\ Pending(a) /\ The(a) \in Line /\ The(a).from = a
           /\ written' = written \o <<The(a)>>
           /\ file' = [file EXCEPT ![0] = @ \o <<The(a)>>]
           /\ appender' = [appender EXCEPT ![a].pc = "publish"]
           /\ \A b \in Appenders : appender'[b].line = appender[b].line
  <1>1. Carrying(a) /\ Pending(a)
    BY DEF WriteLine, Carrying, Pending
  <1>2. appender[a].line = <<The(a)>> /\ The(a) \in Line /\ The(a).from = a
    BY <1>1, TheIs
  <1> QED
    BY <1>1, <1>2 DEF WriteLine, Goto, TypeInv, AppenderState

LEMMA LogOrderStep ==
    ASSUME TypeInv, CarryInv, LogOrder, PendingOrder, [Next]_vars
    PROVE  LogOrder'
  <1>1. printed' \in Nat /\ printed \in Nat /\ printed <= printed'
    BY PrintedSteps
  <1>2. written \in Seq(Line) /\ Len(written) \in Nat
    BY LenProperties DEF TypeInv
  <1>3. \A i \in 1..Len(written) : written[i].n \in Nat
    BY <1>2, ElementOfSeq, LineIs
  <1>4. CASE UNCHANGED written
    BY <1>1, <1>3, <1>4 DEF LogOrder
  <1>5. ASSUME NEW a \in Appenders, WriteLine(a) PROVE LogOrder'
    <2>1. /\ written' = written \o <<The(a)>> /\ The(a) \in Line /\ The(a).from = a
          /\ Pending(a)
      BY <1>5, WriteIs
    <2>2. PICK x \in Line : x = The(a)
      BY <2>1
    <2>3. /\ Len(written') = Len(written) + 1 /\ written'[Len(written) + 1] = x
          /\ \A i \in 1..Len(written) : written'[i] = written[i]
      BY <1>2, <2>1, <2>2, SingleAdded
    <2>4. /\ x.n \in Nat /\ x.n <= printed
          /\ \A i \in 1..Len(written) : written[i].from = x.from => written[i].n < x.n
      BY <2>1, <2>2, LineIs DEF PendingOrder
    <2>5. ASSUME NEW i \in 1..Len(written') PROVE written'[i].n <= printed'
      <3>1. i \in 1..Len(written) \/ i = Len(written) + 1
        BY <1>2, <2>3
      <3> QED
        BY <1>1, <1>3, <2>3, <2>4, <3>1 DEF LogOrder
    <2>6. ASSUME NEW i \in 1..Len(written'), NEW j \in 1..Len(written'), i < j,
                 written'[i].from = written'[j].from
          PROVE  written'[i].n < written'[j].n
      <3>1. i \in 1..Len(written) /\ (j \in 1..Len(written) \/ j = Len(written) + 1)
        BY <1>2, <2>3, <2>6
      <3> QED
        BY <2>3, <2>4, <2>6, <3>1 DEF LogOrder
    <2> QED
      BY <2>5, <2>6 DEF LogOrder
  <1> QED
    BY <1>4, <1>5, WrittenSteps

LEMMA OrderIsDistinct ==
    ASSUME written \in Seq(Line), LogOrder
    PROVE  Distinct(written)
  <1> SUFFICES ASSUME NEW i \in 1..Len(written), NEW j \in 1..Len(written),
                      written[i] = written[j], i # j
               PROVE  FALSE
    BY DEF Distinct
  <1>1. Len(written) \in Nat /\ written[i].n \in Nat /\ written[j].n \in Nat
    BY LenProperties, ElementOfSeq, LineIs
  <1>2. i < j \/ j < i
    BY <1>1
  <1> QED
    BY <1>1, <1>2 DEF LogOrder

LEMMA PipeOrderStep ==
    ASSUME TypeInv, CarryInv, OrderInv, [Next]_vars
    PROVE  PipeOrder'
  <1> SUFFICES ASSUME NEW q \in Pipes
               PROVE  /\ \A k \in 1..Len(pipe'[q]) : pipe'[q][k].from = q /\ pipe'[q][k].n <= printed'
                      /\ \A k, l \in 1..Len(pipe'[q]) : k < l => pipe'[q][k].n < pipe'[q][l].n
                      /\ \A k \in 1..Len(pipe'[q]) : \A i \in 1..Len(written') :
                            written'[i].from = q => written'[i].n < pipe'[q][k].n
    BY DEF PipeOrder
  <1>1. printed' \in Nat /\ printed \in Nat /\ printed <= printed'
    BY PrintedSteps
  <1>2. pipe[q] \in Seq(Line) /\ Len(pipe[q]) \in Nat
    BY LenProperties DEF TypeInv
  <1>3. \A k \in 1..Len(pipe[q]) : pipe[q][k].n \in Nat
    BY <1>2, ElementOfSeq, LineIs
  <1>4. written \in Seq(Line) /\ Len(written) \in Nat
        /\ \A i \in 1..Len(written) : written[i].n \in Nat
    BY LenProperties, ElementOfSeq, LineIs DEF TypeInv
  <1>5. CASE pipe'[q] = pipe[q] /\ UNCHANGED written
    BY <1>1, <1>2, <1>3, <1>5 DEF OrderInv, PipeOrder
  <1>6. CASE pipe'[q] = <<>>
    BY <1>6, EmptySeq
  <1>7. CASE AgentPrints(q)
    <2>1. PICK line \in NewLines(q) : pipe' = [pipe EXCEPT ![q] = Append(@, line)]
      BY <1>7 DEF AgentPrints
    <2>2. printed < MaxLines /\ q \in Appenders
      BY <1>1, <1>7, LogBoundsAssumption DEF AgentPrints, Appenders
    <2>3. line \in Line /\ line.from = q /\ line.n = printed + 1
      BY <1>1, <2>2, NewLineIs
    <2>4. /\ Len(pipe'[q]) = Len(pipe[q]) + 1 /\ pipe'[q][Len(pipe[q]) + 1] = line
          /\ \A k \in 1..Len(pipe[q]) : pipe'[q][k] = pipe[q][k]
      BY <1>2, <2>1, <2>3, AppendProperties DEF TypeInv
    <2>5. UNCHANGED written /\ printed' = printed + 1
      BY <1>7 DEF AgentPrints
    <2>6. \A k \in 1..Len(pipe'[q]) : k \in 1..Len(pipe[q]) \/ k = Len(pipe[q]) + 1
      BY <1>2, <2>4
    <2>7. \A k \in 1..Len(pipe'[q]) : pipe'[q][k].from = q /\ pipe'[q][k].n <= printed'
      BY <1>1, <1>3, <2>3, <2>4, <2>5, <2>6 DEF OrderInv, PipeOrder
    <2>8. ASSUME NEW k \in 1..Len(pipe'[q]), NEW l \in 1..Len(pipe'[q]), k < l
          PROVE  pipe'[q][k].n < pipe'[q][l].n
      <3>1. k \in 1..Len(pipe[q]) /\ pipe[q][k].n <= printed
        BY <1>2, <2>4, <2>8 DEF OrderInv, PipeOrder
      <3> QED
        <4>1. CASE l \in 1..Len(pipe[q])
          BY <2>4, <2>8, <3>1, <4>1 DEF OrderInv, PipeOrder
        <4>2. CASE l = Len(pipe[q]) + 1
          <5>1. pipe'[q][l].n = printed + 1 /\ pipe'[q][k].n = pipe[q][k].n /\ pipe[q][k].n \in Nat
            BY <1>3, <2>3, <2>4, <3>1, <4>2
          <5> QED
            BY <1>1, <3>1, <5>1
        <4> QED
          BY <2>6, <4>1, <4>2
    <2>9. ASSUME NEW k \in 1..Len(pipe'[q]), NEW i \in 1..Len(written'), written'[i].from = q
          PROVE  written'[i].n < pipe'[q][k].n
      <3>1. i \in 1..Len(written) /\ written'[i] = written[i] /\ written[i].n <= printed
        BY <2>5 DEF OrderInv, LogOrder
      <3> QED
        <4>1. CASE k \in 1..Len(pipe[q])
          BY <2>4, <2>9, <3>1, <4>1 DEF OrderInv, PipeOrder
        <4>2. CASE k = Len(pipe[q]) + 1
          <5>1. pipe'[q][k].n = printed + 1 /\ written[i].n \in Nat
            BY <1>4, <2>3, <2>4, <3>1, <4>2
          <5> QED
            BY <1>1, <3>1, <5>1
        <4> QED
          BY <2>6, <4>1, <4>2
    <2> QED
      BY <2>7, <2>8, <2>9
  <1>8. CASE ReadPipe(q)
    <2>1. pipe'[q] = Tail(pipe[q]) /\ pipe[q] # <<>> /\ UNCHANGED <<written, printed>>
      BY <1>8 DEF ReadPipe, TypeInv
    <2>2. Len(pipe'[q]) = Len(pipe[q]) - 1 /\ \A k \in 1..Len(pipe'[q]) : pipe'[q][k] = pipe[q][k + 1]
      BY <1>2, <2>1, HeadTailProperties
    <2>3. \A k \in 1..Len(pipe'[q]) : k + 1 \in 1..Len(pipe[q])
      BY <1>2, <2>2
    <2>4. \A k \in 1..Len(pipe'[q]) : pipe'[q][k].from = q /\ pipe'[q][k].n <= printed'
      BY <2>1, <2>2, <2>3 DEF OrderInv, PipeOrder
    <2>5. ASSUME NEW k \in 1..Len(pipe'[q]), NEW l \in 1..Len(pipe'[q]), k < l
          PROVE  pipe'[q][k].n < pipe'[q][l].n
      <3>1. k + 1 < l + 1
        BY <1>2, <2>2, <2>5
      <3> QED
        BY <2>2, <2>3, <3>1 DEF OrderInv, PipeOrder
    <2>6. \A k \in 1..Len(pipe'[q]) : \A i \in 1..Len(written') :
              written'[i].from = q => written'[i].n < pipe'[q][k].n
      BY <2>1, <2>2, <2>3 DEF OrderInv, PipeOrder
    <2> QED
      BY <2>4, <2>5, <2>6
  <1>9. ASSUME NEW a \in Appenders, WriteLine(a), pipe'[q] = pipe[q]
        PROVE  \A k \in 1..Len(pipe'[q]) : \A i \in 1..Len(written') :
                  written'[i].from = q => written'[i].n < pipe'[q][k].n
    <2>1. PICK x \in Line : x = The(a) /\ x.from = a /\ written' = written \o <<x>> /\ Pending(a)
      BY <1>9, WriteIs
    <2>2. /\ Len(written') = Len(written) + 1 /\ written'[Len(written) + 1] = x
          /\ \A i \in 1..Len(written) : written'[i] = written[i]
      BY <1>4, <2>1, SingleAdded
    <2>3. \A i \in 1..Len(written') : i \in 1..Len(written) \/ i = Len(written) + 1
      BY <1>4, <2>2
    <2>4. a = q => \A k \in 1..Len(pipe[q]) : x.n < pipe[q][k].n
      BY <2>1 DEF OrderInv, PendingOrder
    <2> QED
      BY <1>9, <2>1, <2>2, <2>3, <2>4 DEF OrderInv, PipeOrder
  <1>10. CASE UNCHANGED pipe
    <2>1. ASSUME NEW a \in Appenders, WriteLine(a)
          PROVE  /\ \A k \in 1..Len(pipe'[q]) : pipe'[q][k].from = q /\ pipe'[q][k].n <= printed'
                 /\ \A k, l \in 1..Len(pipe'[q]) : k < l => pipe'[q][k].n < pipe'[q][l].n
      BY <1>1, <1>3, <1>10 DEF OrderInv, PipeOrder
    <2> QED
      BY <1>5, <1>9, <1>10, <2>1, WrittenSteps
  <1>11. ASSUME NEW p \in Pipes, p # q, AgentPrints(p) \/ ReadPipe(p)
         PROVE  pipe'[q] = pipe[q] /\ UNCHANGED written
    BY <1>11 DEF AgentPrints, ReadPipe, TypeInv
  <1> QED
    BY <1>5, <1>6, <1>7, <1>8, <1>10, <1>11, PipeSteps

LEMMA PendingOrderStep ==
    ASSUME TypeInv, CarryInv, OrderInv, [Next]_vars
    PROVE  PendingOrder'
  <1> SUFFICES ASSUME NEW a \in Appenders,
                      appender'[a].pc \notin {"read", "done", "publish"}
               PROVE  LET x == appender'[a].line[1] IN
                      /\ x.n <= printed'
                      /\ \A i \in 1..Len(written') : written'[i].from = a => written'[i].n < x.n
                      /\ a \in Pipes => \A k \in 1..Len(pipe'[a]) : x.n < pipe'[a][k].n
    BY DEF PendingOrder, Pending, Carrying, The
  <1>1. printed' \in Nat /\ printed \in Nat /\ printed <= printed'
    BY PrintedSteps
  <1>2. written \in Seq(Line) /\ Len(written) \in Nat
        /\ \A i \in 1..Len(written) : written[i].n \in Nat
    BY LenProperties, ElementOfSeq, LineIs DEF TypeInv
  <1>3. CASE a \in Pipes /\ ReadPipe(a)
    <2>1. /\ appender'[a].line = <<Head(pipe[a])>> /\ pipe'[a] = Tail(pipe[a])
          /\ pipe[a] # <<>> /\ pipe[a] \in Seq(Line) /\ UNCHANGED <<written, printed>>
      BY <1>3 DEF ReadPipe, TypeInv, AppenderState
    <2>2. Len(pipe[a]) \in Nat \ {0} /\ Head(pipe[a]) = pipe[a][1] /\ 1 \in 1..Len(pipe[a])
      BY <2>1, EmptySeq
    <2>3. Len(pipe'[a]) = Len(pipe[a]) - 1 /\ \A k \in 1..Len(pipe'[a]) : pipe'[a][k] = pipe[a][k + 1]
      BY <2>1, HeadTailProperties
    <2>4. \A k \in 1..Len(pipe'[a]) : k + 1 \in 1..Len(pipe[a]) /\ 1 < k + 1
      BY <2>2, <2>3
    <2>5. appender'[a].line[1] = pipe[a][1]
      BY <2>1, <2>2
    <2>6. \A k \in 1..Len(pipe'[a]) : pipe[a][1].n < pipe'[a][k].n
      BY <1>3, <2>2, <2>3, <2>4 DEF OrderInv, PipeOrder
    <2> QED
      BY <1>3, <2>1, <2>2, <2>5, <2>6 DEF OrderInv, PipeOrder
  <1>4. CASE a = Runner /\ ReportExit
    <2>1. PICK line \in NewLines(a) :
              appender' = [appender EXCEPT ![a] = [Idle EXCEPT !.pc = "append", !.line = <<line>>]]
      BY <1>4 DEF ReportExit
    <2>2. line.n = printed + 1
      BY DEF NewLines
    <2>3. appender'[a].line = <<line>>
      BY <2>1 DEF TypeInv, Idle
    <2>4. UNCHANGED written /\ printed' = printed + 1 /\ a \notin Pipes
      BY <1>4, RunnerAssumption DEF ReportExit
    <2> QED
      BY <1>1, <1>2, <2>2, <2>3, <2>4 DEF OrderInv, LogOrder
  <1>5. CASE Pending(a) /\ appender'[a].line = appender[a].line
    <2>1. PICK x \in Line : x = The(a) /\ appender'[a].line[1] = x /\ x.n \in Nat
      BY <1>5, TheIs, LineIs DEF Pending, The
    <2>2. /\ x.n <= printed
          /\ \A i \in 1..Len(written) : written[i].from = a => written[i].n < x.n
          /\ a \in Pipes => \A k \in 1..Len(pipe[a]) : x.n < pipe[a][k].n
      BY <1>5, <2>1 DEF OrderInv, PendingOrder
    <2>3. x.n <= printed'
      BY <1>1, <2>1, <2>2
    <2>4. \A i \in 1..Len(written') : written'[i].from = a => written'[i].n < x.n
      <3>1. ASSUME NEW b \in Appenders, WriteLine(b)
            PROVE  \A i \in 1..Len(written') : written'[i].from = a => written'[i].n < x.n
        <4>1. PICK y \in Line : y.from = b /\ written' = written \o <<y>>
          BY <3>1, WriteIs
        <4>2. a # b
          BY <3>1 DEF WriteLine, Goto, TypeInv, AppenderState
        <4>3. /\ Len(written') = Len(written) + 1 /\ written'[Len(written) + 1] = y
              /\ \A i \in 1..Len(written) : written'[i] = written[i]
          BY <1>2, <4>1, SingleAdded
        <4>4. \A i \in 1..Len(written') : i \in 1..Len(written) \/ i = Len(written) + 1
          BY <1>2, <4>3
        <4> QED
          BY <2>2, <4>1, <4>2, <4>3, <4>4
      <3> QED
        BY <2>2, <3>1, WrittenSteps
    <2>5. ASSUME a \in Pipes PROVE \A k \in 1..Len(pipe'[a]) : x.n < pipe'[a][k].n
      <3>1. CASE UNCHANGED pipe
        BY <2>2, <2>5, <3>1
      <3>2. CASE pipe' = [p \in Pipes |-> <<>>]
        BY <2>5, <3>2, EmptySeq
      <3>3. ASSUME NEW p \in Pipes, ReadPipe(p)
            PROVE  pipe'[a] = pipe[a]
        <4>1. p # a
          BY <1>5, <3>3 DEF ReadPipe, Pending, Carrying
        <4> QED
          BY <3>3, <4>1 DEF ReadPipe, TypeInv
      <3>4. ASSUME NEW p \in Pipes, AgentPrints(p), p # a
            PROVE  pipe'[a] = pipe[a]
        BY <3>4 DEF AgentPrints, TypeInv
      <3>5. CASE AgentPrints(a)
        <4>1. PICK line \in NewLines(a) : pipe' = [pipe EXCEPT ![a] = Append(@, line)]
          BY <3>5 DEF AgentPrints
        <4>2. printed < MaxLines
          BY <1>1, <3>5, LogBoundsAssumption DEF AgentPrints
        <4>3. line \in Line /\ line.n = printed + 1
          BY <1>1, <4>2, NewLineIs
        <4>4. pipe[a] \in Seq(Line) /\ Len(pipe[a]) \in Nat
          BY <2>5, LenProperties DEF TypeInv
        <4>5. /\ Len(pipe'[a]) = Len(pipe[a]) + 1 /\ pipe'[a][Len(pipe[a]) + 1] = line
              /\ \A k \in 1..Len(pipe[a]) : pipe'[a][k] = pipe[a][k]
          BY <2>5, <4>1, <4>3, <4>4, AppendProperties DEF TypeInv
        <4>6. \A k \in 1..Len(pipe'[a]) : k \in 1..Len(pipe[a]) \/ k = Len(pipe[a]) + 1
          BY <4>4, <4>5
        <4> QED
          <5>1. ASSUME NEW k \in 1..Len(pipe[a]) PROVE x.n < pipe'[a][k].n
            BY <2>2, <2>5, <4>5
          <5>2. x.n < line.n
            BY <1>1, <2>1, <2>2, <4>3
          <5> QED
            BY <4>5, <4>6, <5>1, <5>2
      <3> QED
        BY <2>2, <2>5, <3>1, <3>2, <3>3, <3>4, <3>5, PipeSteps
    <2> QED
      BY <2>1, <2>3, <2>4, <2>5
  <1>6. CASE appender'[a] = appender[a]
    BY <1>5, <1>6 DEF Pending, Carrying
  <1>7. CASE LockedStep(a)
    <2>1. appender'[a].line = appender[a].line /\ Pending(a)
      BY <1>7, LockedKeepsLine DEF Pending, Carrying
    <2> QED
      BY <1>5, <2>1
  <1> QED
    BY <1>3, <1>4, <1>6, <1>7, AppenderSteps

-----------------------------------------------------------------------------
(* The files of a rotation.                                                *)

LEMMA RemoveIs ==
    ASSUME TypeInv, NEW a \in Appenders, RemoveOldest(a)
    PROVE  /\ appender[a].pc = "remove" /\ file' = [file EXCEPT ![Backups] = <<>>]
           /\ appender'[a].pc = IF Backups = 1 THEN "move" ELSE "shift"
           /\ appender'[a].at = Backups - 1
           /\ \A b \in Appenders \ {a} : appender'[b] = appender[b]
           /\ torn' = torn \cup Reading /\ UNCHANGED <<client, mishaps, written>>
  <1>1. appender \in [Appenders -> AppenderState]
    BY DEF TypeInv
  <1> QED
    BY <1>1 DEF RemoveOldest, AppenderState

LEMMA ShiftIs ==
    ASSUME TypeInv, RotateInv, NEW a \in Appenders, ShiftArchive(a)
    PROVE  \E i \in 1..(Backups - 1) :
           /\ appender[a].pc = "shift" /\ i = appender[a].at
           /\ file[i + 1] = <<>>
           /\ file' = [file EXCEPT ![i] = <<>>, ![i + 1] = file[i]]
           /\ appender'[a].pc = IF i = 1 THEN "move" ELSE "shift"
           /\ appender'[a].at = i - 1
           /\ \A b \in Appenders \ {a} : appender'[b] = appender[b]
           /\ torn' = torn \cup Reading /\ UNCHANGED <<client, mishaps, written>>
  <1>1. appender \in [Appenders -> AppenderState] /\ appender[a].at \in 0..Backups
    BY DEF TypeInv, AppenderState
  <1>2. PICK i \in 1..(Backups - 1) : i = appender[a].at /\ file[i + 1] = <<>>
    BY <1>1, Places DEF ShiftArchive, RotateInv
  <1>3. /\ file' = [file EXCEPT ![i] = <<>>, ![i + 1] = file[i]]
        /\ appender' = [appender EXCEPT ![a].pc = IF i = 1 THEN "move" ELSE "shift",
                                        ![a].at = i - 1]
        /\ appender[a].pc = "shift" /\ torn' = torn \cup Reading
        /\ UNCHANGED <<client, mishaps, written>>
    BY <1>2 DEF ShiftArchive
  <1>4. /\ appender'[a].pc = IF i = 1 THEN "move" ELSE "shift"
        /\ appender'[a].at = i - 1
        /\ \A b \in Appenders \ {a} : appender'[b] = appender[b]
    BY <1>1, <1>3 DEF AppenderState
  <1> QED
    BY <1>2, <1>3, <1>4

LEMMA MoveIs ==
    ASSUME TypeInv, RotateInv, NEW a \in Appenders, MoveCurrent(a)
    PROVE  /\ appender[a].pc = "move" /\ appender[a].at = 0 /\ file[1] = <<>>
           /\ file' = [file EXCEPT ![0] = <<>>, ![1] = file[0]]
           /\ appender'[a].pc = "write" /\ appender'[a].line = appender[a].line
           /\ \A b \in Appenders \ {a} : appender'[b] = appender[b]
           /\ torn' = torn \cup Reading /\ UNCHANGED <<client, mishaps, written>>
  <1>1. appender \in [Appenders -> AppenderState]
    BY DEF TypeInv
  <1>2. appender[a].at = 0 /\ file[appender[a].at + 1] = <<>>
    BY DEF MoveCurrent, RotateInv
  <1> QED
    BY <1>1, <1>2 DEF MoveCurrent, Goto, AppenderState

LEMMA LockIs ==
    ASSUME TypeInv, NEW a \in Appenders, Lock(a)
    PROVE  /\ appender[a].pc = "append" /\ IsFree /\ UNCHANGED <<file, client, mishaps, written, torn>>
           /\ \/ appender'[a].pc = "remove"
              \/ appender'[a].pc = "write" /\ Fits(The(a))
           /\ appender'[a].line = appender[a].line
           /\ \A b \in Appenders \ {a} : appender'[b] = appender[b]
  <1>1. appender \in [Appenders -> AppenderState]
    BY DEF TypeInv
  <1>2. CASE Fits(The(a))
    <2>1. appender' = [appender EXCEPT ![a].pc = "write"]
      BY <1>2 DEF Lock, Goto, The
    <2> QED
      BY <1>1, <1>2, <2>1 DEF Lock, AppenderState
  <1>3. CASE ~Fits(The(a))
    <2>1. appender' = [appender EXCEPT ![a].pc = "remove"]
      BY <1>3 DEF Lock, Goto, The
    <2> QED
      BY <1>1, <2>1 DEF Lock, AppenderState
  <1> QED
    BY <1>2, <1>3

(* While one goroutine holds the lock nobody else is in a rotation.        *)
LEMMA OthersOutside ==
    ASSUME LockInv, NEW a \in Appenders, appender[a].pc \in Locked, NEW b \in Appenders \ {a}
    PROVE  appender[b].pc \notin {"remove", "shift", "move", "write"}
  BY DEF LockInv, Locked

LEMMA FilesOnlyLocked ==
    ASSUME TypeInv, [Next]_vars
    PROVE  \/ UNCHANGED <<file, written>>
                 /\ \A b \in Appenders : \/ appender'[b] = appender[b]
                                         \/ appender'[b].pc \in {"read", "append", "done"}
           \/ \E a \in Appenders : LockedStep(a)
  <1>1. ASSUME NEW b \in Appenders, (b \in Pipes /\ ReadPipe(b)) \/ (b = Runner /\ ReportExit)
        PROVE  appender'[b].pc = "append"
    BY <1>1 DEF ReadPipe, ReportExit, TypeInv, AppenderState, Idle
  <1> SUFFICES ASSUME \A a \in Appenders : ~LockedStep(a)
               PROVE  UNCHANGED <<file, written>>
                 /\ \A b \in Appenders : \/ appender'[b] = appender[b]
                                         \/ appender'[b].pc \in {"read", "append", "done"}
    OBVIOUS
  <1>2. UNCHANGED <<file, written>>
    BY LogSteps
  <1>3. ASSUME NEW b \in Appenders
        PROVE  appender'[b] = appender[b] \/ appender'[b].pc \in {"read", "append", "done"}
    <2>1. \/ appender'[b] = appender[b]
          \/ appender'[b].pc \in {"read", "done"}
          \/ b \in Pipes /\ ReadPipe(b)
          \/ b = Runner /\ ReportExit
          \/ LockedStep(b)
      BY AppenderSteps
    <2>2. (b \in Pipes /\ ReadPipe(b)) \/ (b = Runner /\ ReportExit) => appender'[b].pc = "append"
      BY <1>1
    <2> QED
      BY <2>1, <2>2
  <1> QED
    BY <1>2, <1>3

LEMMA RotateStep ==
    ASSUME TypeInv, LockInv, RotateInv, [Next]_vars
    PROVE  RotateInv'
  <1> SUFFICES ASSUME NEW b \in Appenders, appender'[b].pc \in {"shift", "move"}
               PROVE  /\ appender'[b].at + 1 <= Backups /\ file'[appender'[b].at + 1] = <<>>
                      /\ appender'[b].pc = "move" <=> appender'[b].at = 0
    BY DEF RotateInv
  <1>0. file \in [0..Backups -> Seq(Line)]
    BY DEF TypeInv
  <1>1. CASE UNCHANGED file /\ appender'[b] = appender[b]
    BY <1>1 DEF RotateInv
  <1>2. ASSUME NEW a \in Appenders, Lock(a) PROVE UNCHANGED file /\ appender'[b] = appender[b]
    BY <1>2, LockIs
  <1>3. ASSUME NEW a \in Appenders, appender[a].pc \in Locked,
               \A e \in Appenders \ {a} : appender'[e] = appender[e]
        PROVE  b = a
    BY <1>3, OthersOutside
  <1>4. CASE RemoveOldest(b)
    <2>1. Backups - 1 + 1 = Backups /\ Backups <= Backups /\ (Backups = 1 <=> Backups - 1 = 0)
      BY Places
    <2>2. file'[Backups] = <<>>
      BY <1>0, <1>4, RemoveIs, Places
    <2> QED
      BY <1>4, <2>1, <2>2, RemoveIs
  <1>5. CASE ShiftArchive(b)
    <2>1. PICK i \in 1..(Backups - 1) :
           /\ file' = [file EXCEPT ![i] = <<>>, ![i + 1] = file[i]]
           /\ appender'[b].pc = IF i = 1 THEN "move" ELSE "shift"
           /\ appender'[b].at = i - 1
      BY <1>5, ShiftIs
    <2>2. i - 1 + 1 = i /\ i <= Backups /\ (i = 1 <=> i - 1 = 0) /\ i \in 0..Backups /\ i # i + 1
      BY Places
    <2>3. file'[i] = <<>>
      BY <1>0, <2>1, <2>2
    <2> QED
      BY <2>1, <2>2, <2>3
  <1>6. ASSUME NEW a \in Appenders, RemoveOldest(a) PROVE a = b
    BY <1>3, <1>6, RemoveIs DEF Locked
  <1>7. ASSUME NEW a \in Appenders, ShiftArchive(a) PROVE a = b
    BY <1>3, <1>7, ShiftIs DEF Locked
  <1>8. ASSUME NEW a \in Appenders, MoveCurrent(a) \/ WriteLine(a) PROVE FALSE
    <2>1. appender \in [Appenders -> AppenderState]
      BY DEF TypeInv
    <2>2. appender[a].pc \in Locked /\ \A e \in Appenders \ {a} : appender'[e] = appender[e]
      BY <1>8, <2>1 DEF MoveCurrent, WriteLine, Goto, Locked
    <2>3. appender'[a].pc \in {"write", "publish"}
      BY <1>8, <2>1 DEF MoveCurrent, WriteLine, Goto, AppenderState
    <2> QED
      BY <1>3, <2>2, <2>3
  <1> QED
    BY <1>1, <1>2, <1>4, <1>5, <1>6, <1>7, <1>8, FilesOnlyLocked DEF LockedStep

-----------------------------------------------------------------------------
(* No file is longer than the limit.                                       *)

Bounded(lines) == Bytes(lines) <= MaxBytes \/ Len(lines) = 1

LEMMA EmptyIsBounded == Bounded(<<>>)
  BY BytesEmpty, LogSizesAssumption DEF Bounded

LEMMA SizeStep ==
    ASSUME TypeInv, LockInv, CarryInv, RotateInv, SizeInv, [Next]_vars
    PROVE  SizeInv'
  <1>0. file \in [0..Backups -> Seq(Line)] /\ \A i \in 0..Backups : Bounded(file[i])
    BY DEF TypeInv, SizeInv, FilesBounded, Bounded
  <1> SUFFICES /\ \A i \in 0..Backups : Bounded(file'[i])
               /\ \A b \in Appenders : appender'[b].pc = "write" =>
                     file'[0] = <<>> \/ Bytes(file'[0]) + appender'[b].line[1].size <= MaxBytes
    BY DEF SizeInv, FilesBounded, Bounded, Fits, The
  <1>1. ASSUME NEW b \in Appenders, appender[b].pc = "write"
        PROVE  file[0] = <<>> \/ Bytes(file[0]) + appender[b].line[1].size <= MaxBytes
    BY <1>1 DEF SizeInv, Fits, The
  <1>2. CASE UNCHANGED <<file, written>>
                 /\ \A b \in Appenders : \/ appender'[b] = appender[b]
                                         \/ appender'[b].pc \in {"read", "append", "done"}
    BY <1>0, <1>1, <1>2
  <1>3. ASSUME NEW a \in Appenders, Lock(a)
        PROVE  /\ \A i \in 0..Backups : Bounded(file'[i])
               /\ \A b \in Appenders : appender'[b].pc = "write" =>
                     file'[0] = <<>> \/ Bytes(file'[0]) + appender'[b].line[1].size <= MaxBytes
    BY <1>0, <1>1, <1>3, LockIs DEF Fits, The
  <1>4. ASSUME NEW a \in Appenders, appender[a].pc \in Locked,
               \A e \in Appenders \ {a} : appender'[e] = appender[e],
               NEW b \in Appenders, appender'[b].pc = "write"
        PROVE  b = a
    BY <1>4, OthersOutside
  <1>5. ASSUME NEW a \in Appenders, RemoveOldest(a)
        PROVE  /\ \A i \in 0..Backups : Bounded(file'[i])
               /\ \A b \in Appenders : appender'[b].pc # "write"
    <2>1. \A i \in 0..Backups : file'[i] = file[i] \/ file'[i] = <<>>
      BY <1>0, <1>5, RemoveIs
    <2> QED
      BY <1>0, <1>4, <1>5, <2>1, RemoveIs, EmptyIsBounded DEF Locked
  <1>6. ASSUME NEW a \in Appenders, ShiftArchive(a)
        PROVE  /\ \A i \in 0..Backups : Bounded(file'[i])
               /\ \A b \in Appenders : appender'[b].pc # "write"
    <2>1. PICK k \in 1..(Backups - 1) :
           /\ file' = [file EXCEPT ![k] = <<>>, ![k + 1] = file[k]]
           /\ appender'[a].pc = IF k = 1 THEN "move" ELSE "shift"
           /\ appender[a].pc = "shift" /\ \A b \in Appenders \ {a} : appender'[b] = appender[b]
      BY <1>6, ShiftIs
    <2>2. k \in 0..Backups
      BY Places
    <2>3. \A i \in 0..Backups : file'[i] = file[i] \/ file'[i] = <<>> \/ file'[i] = file[k]
      BY <1>0, <2>1, <2>2
    <2> QED
      BY <1>0, <1>4, <2>1, <2>2, <2>3, EmptyIsBounded DEF Locked
  <1>7. ASSUME NEW a \in Appenders, MoveCurrent(a)
        PROVE  /\ \A i \in 0..Backups : Bounded(file'[i])
               /\ file'[0] = <<>>
    <2>1. file'[0] = <<>> /\ \A i \in 0..Backups : file'[i] = file[i] \/ file'[i] = <<>> \/ file'[i] = file[0]
      <3>1. PICK k \in 0..Backups : k = 1
        BY Places
      <3>2. file' = [file EXCEPT ![0] = <<>>, ![k] = file[0]]
        BY <1>7, <3>1, MoveIs
      <3>3. 0 # k /\ 0 \in 0..Backups
        BY <3>1, Places
      <3> QED
        BY <1>0, <3>2, <3>3
    <2> QED
      BY <1>0, <2>1, Places, EmptyIsBounded
  <1>8. ASSUME NEW a \in Appenders, WriteLine(a)
        PROVE  /\ \A i \in 0..Backups : Bounded(file'[i])
               /\ \A b \in Appenders : appender'[b].pc # "write"
    <2>1. PICK x \in Line : x = The(a) /\ file' = [file EXCEPT ![0] = @ \o <<x>>]
                            /\ appender' = [appender EXCEPT ![a].pc = "publish"]
      BY <1>8, WriteIs
    <2>2. appender[a].pc = "write" /\ appender[a].line[1] = x
      BY <1>8, <2>1 DEF WriteLine, The
    <2>3. file'[0] = file[0] \o <<x>> /\ \A i \in 0..Backups : i = 0 \/ file'[i] = file[i]
      BY <1>0, <2>1, Places
    <2>4. file[0] \in Seq(Line) /\ Len(file[0]) \in Nat
      BY <1>0, Places, LenProperties
    <2>5. Bounded(file[0] \o <<x>>)
      <3>1. CASE file[0] = <<>>
        <4>1. Len(file[0] \o <<x>>) = 0 + 1
          BY <2>4, <3>1, SingleAdded, EmptySeq
        <4> QED
          BY <4>1 DEF Bounded
      <3>2. CASE Bytes(file[0]) + x.size <= MaxBytes
        BY <2>4, <3>2, BytesAdded DEF Bounded
      <3> QED
        BY <1>1, <2>2, <3>1, <3>2
    <2>6. appender'[a].pc = "publish" /\ \A e \in Appenders \ {a} : appender'[e] = appender[e]
      BY <2>1 DEF TypeInv, AppenderState
    <2> QED
      BY <1>0, <1>4, <2>2, <2>3, <2>5, <2>6 DEF Locked
  <1> QED
    BY <1>2, <1>3, <1>5, <1>6, <1>7, <1>8, FilesOnlyLocked DEF LockedStep

-----------------------------------------------------------------------------
(* The files and the cuts.                                                 *)

Cuts == [0..(Backups + 1) -> Nat]

(* The part between cut[i + 1] and cut[i] has left file[i].                *)
Raised(cut, i) == [cut EXCEPT ![i + 1] = cut[i]]

LEMMA Spots ==
    /\ 0 \in 0..(Backups + 1) /\ Backups + 1 \in 0..(Backups + 1) /\ Backups + 1 \in Nat
    /\ \A i \in 0..Backups : /\ i \in 0..(Backups + 1) /\ i + 1 \in 0..(Backups + 1)
                             /\ i <= i + 1 /\ i + 1 # 0 /\ i <= Backups + 1
  BY Places

LEMMA CutIs ==
    ASSUME TypeInv, NEW cut \in Cuts, CutInv(cut), NEW i \in 0..Backups
    PROVE  /\ cut[i] \in 0..Len(written) /\ cut[i + 1] \in 0..cut[i]
           /\ cut[Backups + 1] \in 0..cut[i + 1] /\ cut[Backups + 1] \in 0..cut[i]
           /\ file[i] = Part(written, cut[i + 1], cut[i])
           /\ file[i] = <<>> <=> cut[i + 1] = cut[i]
  <1>0. written \in Seq(Line) /\ Len(written) \in Nat
    BY LenProperties DEF TypeInv
  <1>1. cut[i] \in Nat /\ cut[i + 1] \in Nat /\ cut[Backups + 1] \in Nat
    BY Spots DEF Cuts
  <1>2. cut[i + 1] <= cut[i]
    BY Spots DEF CutInv, Falling
  <1>3. cut[i] <= cut[0]
    BY Spots DEF CutInv, Falling
  <1>4. cut[Backups + 1] <= cut[i + 1] /\ cut[Backups + 1] <= cut[i]
    <2>1. i + 1 <= Backups + 1 /\ i <= Backups + 1
      BY Places
    <2> QED
      BY <2>1, Spots DEF CutInv, Falling
  <1>5. cut[i] \in 0..Len(written) /\ cut[i + 1] \in 0..cut[i]
    BY <1>0, <1>1, <1>2, <1>3 DEF CutInv
  <1>6. file[i] = Part(written, cut[i + 1], cut[i])
    BY DEF CutInv
  <1>7. file[i] = <<>> <=> cut[i + 1] = cut[i]
    BY <1>0, <1>5, <1>6, PartEmpty
  <1> QED
    BY <1>1, <1>4, <1>5, <1>6, <1>7

LEMMA RaisedIs ==
    ASSUME NEW cut \in Cuts, Falling(cut), NEW i \in 0..Backups
    PROVE  /\ Raised(cut, i) \in Cuts /\ Falling(Raised(cut, i))
           /\ Raised(cut, i)[i + 1] = cut[i]
           /\ \A j \in 0..(Backups + 1) : /\ cut[j] <= Raised(cut, i)[j]
                                          /\ j # i + 1 => Raised(cut, i)[j] = cut[j]
  <1> DEFINE r == Raised(cut, i)
  <1>1. cut[i] \in Nat /\ cut[i + 1] \in Nat /\ cut[i + 1] <= cut[i]
    BY Spots DEF Cuts, Falling
  <1>2. r \in Cuts /\ r[i + 1] = cut[i] /\ \A j \in 0..(Backups + 1) : j # i + 1 => r[j] = cut[j]
    BY <1>1, Spots DEF Cuts, Raised
  <1>3. \A j \in 0..(Backups + 1) : cut[j] <= r[j]
    BY <1>1, <1>2 DEF Cuts
  <1> HIDE DEF r
  <1>4. ASSUME NEW p \in 0..(Backups + 1), NEW q \in 0..(Backups + 1), p <= q
        PROVE  r[q] <= r[p]
    <2>1. CASE q # i + 1
      <3>1. cut[q] <= cut[p] /\ cut[p] <= r[p] /\ r[q] = cut[q]
        BY <1>2, <1>3, <1>4, <2>1 DEF Falling
      <3> QED
        BY <1>2, <3>1 DEF Cuts
    <2>2. CASE q = i + 1 /\ p # i + 1
      <3>1. p <= i /\ i \in 0..(Backups + 1)
        BY <1>4, <2>2, Spots
      <3>2. cut[i] <= cut[p]
        BY <3>1 DEF Falling
      <3> QED
        BY <1>2, <2>2, <3>2
    <2>3. CASE q = i + 1 /\ p = i + 1
      BY <1>1, <1>2, <2>3
    <2> QED
      BY <2>1, <2>2, <2>3
  <1> QED
    BY <1>2, <1>3, <1>4 DEF r, Falling

LEMMA CutAfterRemove ==
    ASSUME TypeInv, NEW cut \in Cuts, CutInv(cut),
           file' = [file EXCEPT ![Backups] = <<>>], UNCHANGED written
    PROVE  CutInv(Raised(cut, Backups))'
  <1> DEFINE r == Raised(cut, Backups)
  <1>0. Falling(cut) /\ cut[0] = Len(written) /\ file \in [0..Backups -> Seq(Line)]
        /\ written \in Seq(Line) /\ cut[Backups] \in 0..Len(written)
    BY Places, CutIs DEF CutInv, TypeInv
  <1>1. /\ r \in Cuts /\ Falling(r) /\ r[Backups + 1] = cut[Backups]
        /\ \A j \in 0..(Backups + 1) : j # Backups + 1 => r[j] = cut[j]
    BY <1>0, RaisedIs, Places
  <1> HIDE DEF r
  <1>2. r[0] = Len(written')
    BY <1>0, <1>1, Spots, Places
  <1>3. ASSUME NEW j \in 0..Backups PROVE file'[j] = Part(written', r[j + 1], r[j])
    <2>1. CASE j = Backups
      <3>1. r[j + 1] = cut[Backups] /\ r[j] = cut[Backups]
        BY <1>1, <2>1, Spots, Places
      <3>2. Part(written, cut[Backups], cut[Backups]) = <<>>
        <4>1. PICK n \in 0..Len(written) : n = cut[Backups] /\ n \in 0..n
          BY <1>0, LenProperties
        <4> QED
          BY <1>0, <4>1, PartEmpty
      <3> QED
        BY <1>0, <2>1, <3>1, <3>2
    <2>2. CASE j # Backups
      <3>1. r[j + 1] = cut[j + 1] /\ r[j] = cut[j]
        BY <1>1, <2>2, Spots, Places
      <3> QED
        BY <1>0, <2>2, <3>1 DEF CutInv
    <2> QED
      BY <2>1, <2>2
  <1> QED
    BY <1>1, <1>2, <1>3 DEF CutInv, r

LEMMA CutAfterShift ==
    ASSUME TypeInv, NEW cut \in Cuts, CutInv(cut), NEW i \in 0..(Backups - 1),
           file[i + 1] = <<>>, file' = [file EXCEPT ![i] = <<>>, ![i + 1] = file[i]],
           UNCHANGED written
    PROVE  CutInv(Raised(cut, i))'
  <1> DEFINE r == Raised(cut, i)
  <1>0. /\ Falling(cut) /\ cut[0] = Len(written) /\ file \in [0..Backups -> Seq(Line)]
        /\ written \in Seq(Line) /\ i \in 0..Backups /\ i + 1 \in 0..Backups
    BY Places DEF CutInv, TypeInv
  <1>1. /\ r \in Cuts /\ Falling(r) /\ r[i + 1] = cut[i]
        /\ \A j \in 0..(Backups + 1) : j # i + 1 => r[j] = cut[j]
    BY <1>0, RaisedIs
  <1> HIDE DEF r
  <1>2. r[0] = Len(written')
    BY <1>0, <1>1, Spots
  <1>3. ASSUME NEW j \in 0..Backups PROVE file'[j] = Part(written', r[j + 1], r[j])
    <2>1. CASE j = i
      <3>1. r[j + 1] = cut[i] /\ r[j] = cut[i] /\ cut[i] \in 0..Len(written)
        BY <1>0, <1>1, <2>1, Spots, CutIs
      <3>2. Part(written, cut[i], cut[i]) = <<>>
        <4>1. PICK n \in 0..Len(written) : n = cut[i] /\ n \in 0..n
          BY <3>1, <1>0, LenProperties
        <4> QED
          BY <1>0, <4>1, PartEmpty
      <3>3. file'[i] = <<>>
        BY <1>0
      <3> QED
        BY <2>1, <3>1, <3>2, <3>3
    <2>2. CASE j = i + 1
      <3>1. cut[j + 1] = cut[j]
        BY <1>0, <2>2, CutIs
      <3>2. j + 1 # i + 1 /\ j + 1 \in 0..(Backups + 1)
        BY <2>2, Spots
      <3>3. r[j] = cut[i] /\ r[j + 1] = cut[i + 1]
        BY <1>1, <2>2, <3>1, <3>2
      <3>4. file'[j] = file[i]
        BY <1>0, <2>2
      <3> QED
        BY <1>0, <3>3, <3>4 DEF CutInv
    <2>3. CASE j # i /\ j # i + 1
      <3>1. r[j + 1] = cut[j + 1] /\ r[j] = cut[j]
        BY <1>1, <2>3, Spots
      <3> QED
        BY <1>0, <2>3, <3>1 DEF CutInv
    <2> QED
      BY <2>1, <2>2, <2>3
  <1> QED
    BY <1>1, <1>2, <1>3 DEF CutInv, r

LEMMA CutAfterWrite ==
    ASSUME TypeInv, NEW cut \in Cuts, CutInv(cut), NEW x \in Line,
           file' = [file EXCEPT ![0] = @ \o <<x>>], written' = written \o <<x>>,
           NEW r, r = [cut EXCEPT ![0] = Len(written) + 1]
    PROVE  r \in Cuts /\ CutInv(r)'
  <1>0. /\ Falling(cut) /\ cut[0] = Len(written) /\ file \in [0..Backups -> Seq(Line)]
        /\ written \in Seq(Line) /\ Len(written) \in Nat
    BY LenProperties DEF CutInv, TypeInv
  <1>1. r \in Cuts /\ r[0] = Len(written) + 1 /\ \A j \in 0..(Backups + 1) : j # 0 => r[j] = cut[j]
    BY <1>0, Spots DEF Cuts
  <1>2. Len(written') = Len(written) + 1
    BY <1>0, SingleAdded
  <1>3. ASSUME NEW p \in 0..(Backups + 1), NEW q \in 0..(Backups + 1), p <= q
        PROVE  r[q] <= r[p]
    <2>1. CASE p = 0
      <3>1. q = 0 \/ (r[q] = cut[q] /\ cut[q] <= cut[0] /\ cut[q] \in Nat)
        BY <1>0, <1>1, <1>3, <2>1 DEF Falling, Cuts
      <3> QED
        BY <1>0, <1>1, <2>1, <3>1
    <2>2. CASE p # 0
      <3>1. q # 0
        BY <1>3, <2>2
      <3> QED
        BY <1>0, <1>1, <1>3, <2>2, <3>1 DEF Falling
    <2> QED
      BY <2>1, <2>2
  <1>4. ASSUME NEW j \in 0..Backups PROVE file'[j] = Part(written', r[j + 1], r[j])
    <2>1. PICK m \in 0..Len(written), n \in 0..Len(written) :
              m = cut[j + 1] /\ n = cut[j] /\ m \in 0..n
      <3>1. cut[j] \in 0..Len(written) /\ cut[j + 1] \in 0..cut[j]
        BY CutIs
      <3>2. cut[j + 1] \in 0..Len(written)
        BY <1>0, <3>1
      <3> QED
        BY <3>1, <3>2
    <2>2. file[j] = Part(written, m, n) /\ r[j + 1] = m
      BY <1>1, <2>1, Spots DEF CutInv
    <2>3. CASE j = 0
      <3>1. n = Len(written) /\ r[j] = Len(written) + 1
        BY <1>0, <1>1, <2>1, <2>3
      <3>2. Part(written', m, Len(written) + 1) = Part(written, m, Len(written)) \o <<x>>
        BY <1>0, PartAdded
      <3>3. file'[0] = file[0] \o <<x>>
        BY <1>0, Places
      <3> QED
        BY <2>2, <2>3, <3>1, <3>2, <3>3
    <2>4. CASE j # 0
      <3>1. r[j] = n /\ file'[j] = file[j]
        BY <1>0, <1>1, <2>1, <2>4, Spots
      <3>2. Part(written', m, n) = Part(written, m, n)
        BY <1>0, <2>1, PartKept
      <3> QED
        BY <2>2, <3>1, <3>2
    <2> QED
      BY <2>3, <2>4
  <1>5. CutInv(r)'
    BY <1>1, <1>2, <1>3, <1>4 DEF CutInv, Falling
  <1> QED
    BY <1>1, <1>5

-----------------------------------------------------------------------------
(* Without a mishap every file but the one a rotation has emptied is in    *)
(* use when an older one is, and all are when a line has been dropped.     *)

LEMMA SolidAfterRemove ==
    ASSUME TypeInv, NEW cut \in Cuts, CutInv(cut),
           \A k \in 0..Backups : Solid(k, cut[Backups + 1]),
           file' = [file EXCEPT ![Backups] = <<>>],
           NEW k \in 0..Backups, k # Backups
    PROVE  Solid(k, cut[Backups])'
  <1>0. file \in [0..Backups -> Seq(Line)]
    BY DEF TypeInv
  <1>1. \A j \in 0..Backups : file'[j] = IF j = Backups THEN <<>> ELSE file[j]
    BY <1>0
  <1>2. \A j \in 0..Backups : k < j /\ file'[j] # <<>> => file'[k] # <<>>
    BY <1>1 DEF Solid
  <1>3. ASSUME cut[Backups] > 0 PROVE file'[k] # <<>>
    <2>1. CASE cut[Backups + 1] > 0
      BY <1>1, <2>1 DEF Solid
    <2>2. CASE ~(cut[Backups + 1] > 0)
      <3>1. cut[Backups + 1] # cut[Backups]
        BY <1>3, <2>2
      <3>2. file[Backups] # <<>>
        BY <3>1, CutIs, Places
      <3>3. k < Backups
        BY Places
      <3> QED
        BY <1>1, <3>2, <3>3, Places DEF Solid
    <2> QED
      BY <2>1, <2>2
  <1> QED
    BY <1>2, <1>3 DEF Solid

LEMMA SolidAfterShift ==
    ASSUME TypeInv, NEW dropped, NEW i \in 0..(Backups - 1),
           \A k \in 0..Backups : k # i + 1 => Solid(k, dropped),
           file' = [file EXCEPT ![i] = <<>>, ![i + 1] = file[i]],
           NEW k \in 0..Backups, k # i
    PROVE  Solid(k, dropped)'
  <1>0. /\ file \in [0..Backups -> Seq(Line)] /\ i \in 0..Backups /\ i + 1 \in 0..Backups
        /\ i # i + 1 /\ i < i + 1
    BY Places DEF TypeInv
  <1>1. /\ file'[i] = <<>> /\ file'[i + 1] = file[i]
        /\ \A j \in 0..Backups : j # i /\ j # i + 1 => file'[j] = file[j]
    BY <1>0
  <1>2. CASE k = i + 1
    <2>1. Solid(i, dropped)
      BY <1>0
    <2>2. ASSUME NEW j \in 0..Backups, k < j, file'[j] # <<>> PROVE file'[k] # <<>>
      <3>1. j # i /\ j # i + 1 /\ i < j
        BY <1>2, <2>2
      <3> QED
        BY <1>1, <1>2, <2>1, <2>2, <3>1 DEF Solid
    <2>3. dropped > 0 => file'[k] # <<>>
      BY <1>1, <1>2, <2>1 DEF Solid
    <2> QED
      BY <2>2, <2>3 DEF Solid
  <1>3. CASE k # i + 1
    <2>1. Solid(k, dropped) /\ file'[k] = file[k]
      BY <1>1, <1>3
    <2>2. ASSUME NEW j \in 0..Backups, k < j, file'[j] # <<>> PROVE file'[k] # <<>>
      <3>1. j # i
        BY <1>1, <2>2
      <3>2. CASE j = i + 1
        <4>1. k < i /\ file[i] # <<>>
          BY <1>0, <1>1, <2>2, <3>2
        <4> QED
          BY <1>0, <2>1, <4>1 DEF Solid
      <3>3. CASE j # i + 1
        BY <1>1, <2>1, <2>2, <3>1, <3>3 DEF Solid
      <3> QED
        BY <3>2, <3>3
    <2> QED
      BY <2>1, <2>2 DEF Solid
  <1> QED
    BY <1>2, <1>3

LEMMA SolidAfterWrite ==
    ASSUME TypeInv, NEW dropped, NEW x \in Line,
           \A k \in 0..Backups : k # 0 => Solid(k, dropped),
           file' = [file EXCEPT ![0] = @ \o <<x>>],
           NEW k \in 0..Backups
    PROVE  Solid(k, dropped)'
  <1>0. file \in [0..Backups -> Seq(Line)] /\ file[0] \in Seq(Line) /\ 0 \in 0..Backups
    BY Places DEF TypeInv
  <1>1. file'[0] # <<>> /\ \A j \in 0..Backups : j # 0 => file'[j] = file[j]
    BY <1>0, SingleAdded
  <1>2. CASE k = 0
    BY <1>1, <1>2 DEF Solid
  <1>3. CASE k # 0
    <2>1. \A j \in 0..Backups : k < j => j # 0
      OBVIOUS
    <2> QED
      BY <1>1, <1>3, <2>1 DEF Solid
  <1> QED
    BY <1>2, <1>3

-----------------------------------------------------------------------------
(* The clients that read the log.                                          *)

LEMMA ReadAfterRaise ==
    ASSUME TypeInv, NEW cut \in Cuts, CutInv(cut), ReadInv(cut), LogsInv, NEW i \in 0..Backups,
           torn' = torn \cup Reading, UNCHANGED <<client, written>>
    PROVE  ReadInv(Raised(cut, i))'
  <1> DEFINE r == Raised(cut, i)
  <1>1. r \in Cuts /\ \A j \in 0..(Backups + 1) : cut[j] <= r[j]
    BY RaisedIs DEF CutInv
  <1> HIDE DEF r
  <1> SUFFICES ASSUME NEW c \in Clients, client[c].pc = "read"
               PROVE  /\ client[c].since <= Len(written)
                      /\ \A k \in 1..Len(client[c].logs) :
                            Position(written, client[c].logs[k]) <= r[client[c].at + 1]
                      /\ c \in torn'
    BY DEF ReadInv, r
  <1>2. c \in torn'
    BY DEF Reading
  <1>3. client[c].at \in 0..Backups /\ client[c].logs \in Seq(Line) /\ written \in Seq(Line)
    BY DEF TypeInv, ClientState
  <1>4. client[c].at + 1 \in 0..(Backups + 1)
    BY <1>3, Spots
  <1>5. ASSUME NEW k \in 1..Len(client[c].logs)
        PROVE  Position(written, client[c].logs[k]) <= r[client[c].at + 1]
    <2>1. PICK y : y = client[c].logs[k]
      OBVIOUS
    <2>2. y \in Range(written)
      BY <1>3, <2>1, RangeIs DEF LogsInv, Ordered
    <2>3. Position(written, y) \in Nat
      BY <1>3, <2>2, PositionFound
    <2>4. Position(written, y) <= cut[client[c].at + 1]
      BY <2>1 DEF ReadInv
    <2>5. cut[client[c].at + 1] \in Nat /\ r[client[c].at + 1] \in Nat
          /\ cut[client[c].at + 1] <= r[client[c].at + 1]
      BY <1>1, <1>4 DEF Cuts
    <2> QED
      BY <2>1, <2>3, <2>4, <2>5
  <1> QED
    BY <1>2, <1>5 DEF ReadInv

LEMMA ReadAfterWrite ==
    ASSUME TypeInv, NEW cut \in Cuts, CutInv(cut), ReadInv(cut), LogsInv,
           NEW x \in Line, written' = written \o <<x>>, Distinct(written)',
           UNCHANGED <<client, torn>>, NEW r, r = [cut EXCEPT ![0] = Len(written) + 1]
    PROVE  ReadInv(r)'
  <1>0. written \in Seq(Line) /\ Len(written) \in Nat
    BY LenProperties DEF TypeInv
  <1>1. \A j \in 0..(Backups + 1) : j # 0 => r[j] = cut[j]
    BY DEF Cuts
  <1> SUFFICES ASSUME NEW c \in Clients, client[c].pc = "read"
               PROVE  /\ client[c].since <= Len(written')
                      /\ \A k \in 1..Len(client[c].logs) :
                            Position(written', client[c].logs[k]) <= r[client[c].at + 1]
                      /\ c \notin torn =>
                           client[c].logs = Part(written', r[Backups + 1], r[client[c].at + 1])
    BY DEF ReadInv
  <1>2. /\ client[c].at \in 0..Backups /\ client[c].logs \in Seq(Line) /\ client[c].since \in Nat
        /\ Ordered(written, client[c].logs)
    BY DEF TypeInv, ClientState, LogsInv
  <1>3. r[client[c].at + 1] = cut[client[c].at + 1] /\ r[Backups + 1] = cut[Backups + 1]
    BY <1>1, <1>2, Spots, Places
  <1>4. Len(written') = Len(written) + 1
    BY <1>0, SingleAdded
  <1>5. Distinct(written \o <<x>>)
    OBVIOUS
  <1>6. \A k \in 1..Len(client[c].logs) :
            Position(written', client[c].logs[k]) = Position(written, client[c].logs[k])
    <2>1. PICK lines \in Seq(Line) : lines = client[c].logs
      BY <1>2
    <2>2. \A k \in 1..Len(lines) : Position(written \o <<x>>, lines[k]) = Position(written, lines[k])
      BY <1>0, <1>2, <1>5, <2>1, OrderedKept
    <2> QED
      BY <2>1, <2>2
  <1>7. PICK n \in 0..Len(written), m \in Nat :
            m = cut[Backups + 1] /\ n = cut[client[c].at + 1] /\ m \in 0..n
    <2>1. cut[client[c].at] \in 0..Len(written) /\ cut[client[c].at + 1] \in 0..cut[client[c].at]
          /\ cut[Backups + 1] \in 0..cut[client[c].at + 1]
      BY <1>2, CutIs
    <2>2. cut[client[c].at + 1] \in 0..Len(written) /\ cut[Backups + 1] \in Nat
      BY <1>0, <2>1
    <2> QED
      BY <2>1, <2>2
  <1>8. Part(written', m, n) = Part(written, m, n)
    BY <1>0, <1>7, PartKept
  <1>9. client[c].since <= Len(written')
    <2>1. client[c].since <= Len(written)
      BY DEF ReadInv
    <2> QED
      BY <1>0, <1>2, <1>4, <2>1
  <1>10. \A k \in 1..Len(client[c].logs) :
            Position(written, client[c].logs[k]) <= cut[client[c].at + 1]
    BY DEF ReadInv
  <1>11. c \notin torn =>
            client[c].logs = Part(written, cut[Backups + 1], cut[client[c].at + 1])
    BY DEF ReadInv
  <1> QED
    BY <1>3, <1>6, <1>7, <1>8, <1>9, <1>10, <1>11

(* One more file is read: the lines between two cuts. *)
LEMMA FileIsRead ==
    ASSUME TypeInv, NEW cut \in Cuts, CutInv(cut), ReadInv(cut), LogsInv, Distinct(written),
           NEW c \in Clients, client[c].pc = "read"
    PROVE  LET logs == client[c].logs \o file[client[c].at] IN
           /\ Ordered(written, logs)
           /\ \A k \in 1..Len(logs) : Position(written, logs[k]) <= cut[client[c].at]
           /\ c \notin torn => logs = Part(written, cut[Backups + 1], cut[client[c].at])
  <1>0. written \in Seq(Line) /\ Len(written) \in Nat
    BY LenProperties DEF TypeInv
  <1>1. client[c].at \in 0..Backups /\ client[c].logs \in Seq(Line) /\ Ordered(written, client[c].logs)
    BY DEF TypeInv, ClientState, LogsInv
  <1>2. PICK at \in 0..Backups, lines \in Seq(Line) : at = client[c].at /\ lines = client[c].logs
    BY <1>1
  <1>3. /\ cut[at] \in 0..Len(written) /\ cut[at + 1] \in 0..cut[at]
        /\ cut[Backups + 1] \in 0..cut[at + 1]
        /\ file[at] = Part(written, cut[at + 1], cut[at])
    BY CutIs
  <1>4. PICK n \in 0..Len(written), m \in Nat, k \in Nat :
            /\ n = cut[at] /\ m = cut[at + 1] /\ k = cut[Backups + 1]
            /\ m \in 0..n /\ k \in 0..m
    BY <1>0, <1>3
  <1>5. \A i \in 1..Len(lines) : Position(written, lines[i]) <= m
    BY <1>2, <1>4 DEF ReadInv
  <1>6. /\ Ordered(written, lines \o Part(written, m, n))
        /\ \A i \in 1..Len(lines \o Part(written, m, n)) :
              Position(written, (lines \o Part(written, m, n))[i]) <= n
    BY <1>0, <1>1, <1>2, <1>4, <1>5, OrderedExtends
  <1>7. ASSUME c \notin torn PROVE lines \o Part(written, m, n) = Part(written, k, n)
    <2>1. lines = Part(written, k, m)
      BY <1>2, <1>4, <1>7 DEF ReadInv
    <2> QED
      BY <1>0, <1>4, <2>1, PartsJoin
  <1> QED
    BY <1>2, <1>3, <1>4, <1>6, <1>7

-----------------------------------------------------------------------------
(* What a step does to a client and to the gap of a rotation.              *)

Follows(c) ==
    /\ client[c].pc = "stream" /\ client'[c].pc = "stream"
    /\ client'[c].at = client[c].at /\ client'[c].since = client[c].since
    /\ client'[c].logs = client[c].logs

LEMMA ClientSteps ==
    ASSUME TypeInv, [Next]_vars, NEW c \in Clients
    PROVE  \/ client'[c] = client[c] \/ Follows(c)
           \/ Connect(c) \/ ReadFile(c) \/ Subscribe(c)
           \/ client'[c] = Gone
  <1>0. client \in [Clients -> ClientState]
    BY DEF TypeInv
  <1>1. CASE UNCHANGED vars
    BY <1>1 DEF vars
  <1>2. CASE StartRun \/ AgentExit \/ WaitReturns \/ ReportExit
             \/ \E p \in Pipes : AgentPrints(p) \/ StreamStep(p)
    BY <1>2 DEF StartRun, AgentExit, WaitReturns, ReportExit, AgentPrints, StreamStep, ReadPipe,
                EndOfPipe
  <1>3. CASE Crash
    BY <1>3 DEF Crash
  <1>4. ASSUME NEW a \in Appenders, LockedStep(a) \/ AppendFails(a)
        PROVE  client'[c] = client[c]
    BY <1>4 DEF LockedStep, Lock, RemoveOldest, ShiftArchive, MoveCurrent, WriteLine, AppendFails
  <1>5. ASSUME NEW a \in Appenders, Publish(a)
        PROVE  client'[c] = client[c] \/ Follows(c)
    <2>1. CASE c \in Subscribed /\ Len(client[c].sub) < SubCap
      <3>1. client'[c] = [client[c] EXCEPT !.sub = @ \o appender[a].line]
        BY <1>5, <2>1 DEF Publish
      <3>2. client[c].pc = "stream"
        BY <2>1 DEF Subscribed
      <3> QED
        BY <1>0, <3>1, <3>2 DEF Follows, ClientState
    <2>2. CASE ~(c \in Subscribed /\ Len(client[c].sub) < SubCap)
      BY <1>5, <2>2 DEF Publish
    <2> QED
      BY <2>1, <2>2
  <1>6. ASSUME NEW d \in Clients, Connect(d) \/ ReadFile(d) \/ Subscribe(d), d # c
        PROVE  client'[c] = client[c]
    BY <1>0, <1>6 DEF Connect, ReadFile, Subscribe, Become
  <1>7. ASSUME NEW d \in Clients, Deliver(d) PROVE client'[c] = client[c] \/ Follows(c)
    <2>1. CASE d # c
      BY <1>0, <1>7, <2>1 DEF Deliver, Become
    <2>2. CASE d = c
      BY <1>0, <1>7, <2>2 DEF Deliver, Become, Follows, ClientState
    <2> QED
      BY <2>1, <2>2
  <1>8. ASSUME NEW d \in Clients, Unsubscribe(d) PROVE client'[c] = client[c] \/ client'[c] = Gone
    BY <1>0, <1>8 DEF Unsubscribe, Become
  <1> QED
    BY <1>1, <1>2, <1>3, <1>4, <1>5, <1>6, <1>7, <1>8
    DEF Next, AppendStep, LockedStep, ClientStep

LEMMA TornSteps ==
    ASSUME [Next]_vars
    PROVE  torn \subseteq torn' /\ ((\A a \in Appenders : ~LockedStep(a)) => torn' = torn)
  BY DEF vars, Next, StartRun, AgentExit, WaitReturns, ReportExit, Crash, AgentPrints, StreamStep,
         ReadPipe, EndOfPipe, AppendStep, LockedStep, Lock, RemoveOldest, ShiftArchive, MoveCurrent,
         WriteLine, Publish, AppendFails, ClientStep, Connect, ReadFile, Subscribe, Deliver,
         Unsubscribe, Become

LEMMA GapIs ==
    ASSUME LockInv, NEW a \in Appenders, appender[a].pc \in Locked, NEW k, Gap(k)
    PROVE  \/ appender[a].pc \in {"shift", "move"} /\ k = appender[a].at + 1
           \/ appender[a].pc = "write" /\ k = 0
  BY OthersOutside DEF Gap

(* Only a mishap ends a rotation early. *)
LEMMA GapStays ==
    ASSUME TypeInv, [Next]_vars, \A a \in Appenders : ~LockedStep(a), mishaps' = 0
    PROVE  mishaps = 0 /\ \A k : Gap(k) => Gap(k)'
  <1>0. mishaps \in Nat /\ appender \in [Appenders -> AppenderState]
    BY LogBoundsAssumption DEF TypeInv
  <1>1. ~Crash /\ \A a \in Appenders : ~AppendFails(a)
    BY <1>0 DEF Crash, AppendFails
  <1>2. mishaps = 0
    BY <1>1 DEF vars, Next, StartRun, AgentExit, WaitReturns, ReportExit, AgentPrints,
         StreamStep, ReadPipe, EndOfPipe, AppendStep, LockedStep, Publish,
         ClientStep, Connect, ReadFile, Subscribe, Deliver, Unsubscribe, Become
  <1>3. ASSUME NEW b \in Appenders, appender[b].pc \in {"shift", "move", "write"}
        PROVE  appender'[b] = appender[b]
    <2>1. CASE UNCHANGED vars \/ AgentExit \/ WaitReturns
               \/ (\E p \in Pipes : AgentPrints(p)) \/ \E c \in Clients : ClientStep(c)
      BY <2>1 DEF vars, AgentExit, WaitReturns, AgentPrints, ClientStep, Connect, ReadFile,
                  Subscribe, Deliver, Unsubscribe, Become
    <2>2. ~StartRun /\ ~ReportExit
      BY <1>3 DEF StartRun, ReportExit
    <2>3. ASSUME NEW p \in Pipes, StreamStep(p) PROVE appender'[b] = appender[b]
      <3>1. p # b
        BY <1>3, <2>3 DEF StreamStep, ReadPipe, EndOfPipe
      <3> QED
        BY <1>0, <2>3, <3>1 DEF StreamStep, ReadPipe, EndOfPipe, Goto
    <2>4. ASSUME NEW a \in Appenders, Publish(a) PROVE appender'[b] = appender[b]
      <3>1. a # b
        BY <1>3, <2>4 DEF Publish
      <3> QED
        BY <1>0, <2>4, <3>1 DEF Publish
    <2> QED
      BY <1>1, <2>1, <2>2, <2>3, <2>4 DEF Next, AppendStep, LockedStep
  <1>4. ASSUME NEW k, Gap(k) PROVE Gap(k)'
    <2>1. PICK b \in Appenders :
              \/ appender[b].pc \in {"shift", "move"} /\ k = appender[b].at + 1
              \/ appender[b].pc = "write" /\ k = 0
      BY <1>4 DEF Gap
    <2>2. appender'[b] = appender[b]
      BY <1>3, <2>1
    <2> QED
      BY <2>1, <2>2 DEF Gap
  <1> QED
    BY <1>2, <1>4

-----------------------------------------------------------------------------
(* The cuts and what the clients have read of them.                        *)

PlaceAt(cut) == cut \in Cuts /\ CutInv(cut) /\ HoleInv(cut) /\ ReadInv(cut)

LEMMA PlaceAfterLock ==
    ASSUME TypeInv, LockInv, NEW cut, PlaceAt(cut), NEW a \in Appenders, Lock(a)
    PROVE  PlaceAt(cut)'
  <1>1. IsFree /\ UNCHANGED <<file, client, mishaps, written, torn>>
    BY LockIs
  <1>2. \A k : ~Gap(k)
    BY <1>1 DEF IsFree, Gap, Locked
  <1>3. HoleInv(cut)'
    BY <1>1, <1>2 DEF PlaceAt, HoleInv, Solid
  <1>4. CutInv(cut)' /\ ReadInv(cut)'
    BY <1>1 DEF PlaceAt, CutInv, ReadInv
  <1> QED
    BY <1>3, <1>4 DEF PlaceAt

LEMMA PlaceAfterRemove ==
    ASSUME TypeInv, LockInv, LogsInv, NEW cut, PlaceAt(cut), NEW a \in Appenders, RemoveOldest(a)
    PROVE  PlaceAt(Raised(cut, Backups))'
  <1>0. cut \in Cuts /\ CutInv(cut) /\ HoleInv(cut) /\ ReadInv(cut) /\ Falling(cut)
    BY DEF PlaceAt, CutInv
  <1>1. /\ appender[a].pc = "remove" /\ file' = [file EXCEPT ![Backups] = <<>>]
        /\ appender'[a].pc \in {"shift", "move"} /\ appender'[a].at + 1 = Backups
        /\ torn' = torn \cup Reading /\ UNCHANGED <<client, mishaps, written>>
    BY RemoveIs, Places
  <1>2. PICK r \in Cuts : r = Raised(cut, Backups) /\ r[Backups + 1] = cut[Backups]
    BY <1>0, RaisedIs, Places
  <1>3. CutInv(r)'
    BY <1>0, <1>1, <1>2, CutAfterRemove
  <1>4. ReadInv(r)'
    BY <1>0, <1>1, <1>2, ReadAfterRaise, Places
  <1>5. ASSUME mishaps' = 0, NEW k \in 0..Backups, ~Gap(k)'
        PROVE  Solid(k, r[Backups + 1])'
    <2>1. k # Backups
      BY <1>1, <1>5 DEF Gap
    <2>2. \A j : ~Gap(j)
      BY <1>1, GapIs DEF Locked
    <2>3. \A j \in 0..Backups : Solid(j, cut[Backups + 1])
      BY <1>0, <1>1, <1>5, <2>2 DEF HoleInv
    <2>4. Solid(k, cut[Backups])'
      BY <1>0, <1>1, <2>1, <2>3, SolidAfterRemove
    <2> QED
      BY <1>2, <2>4
  <1>6. HoleInv(r)'
    BY <1>5 DEF HoleInv
  <1> QED
    BY <1>2, <1>3, <1>4, <1>6 DEF PlaceAt

(* The rotation moves file[i] into the gap above it. *)
LEMMA PlaceAfterShift ==
    ASSUME TypeInv, LockInv, LogsInv, NEW cut, PlaceAt(cut), NEW a \in Appenders,
           appender[a].pc \in {"shift", "move"}, NEW i \in 0..(Backups - 1), appender[a].at = i,
           file[i + 1] = <<>>, file' = [file EXCEPT ![i] = <<>>, ![i + 1] = file[i]],
           Gap(i)', torn' = torn \cup Reading, UNCHANGED <<client, mishaps, written>>
    PROVE  PlaceAt(Raised(cut, i))'
  <1>0. cut \in Cuts /\ CutInv(cut) /\ HoleInv(cut) /\ ReadInv(cut) /\ Falling(cut)
    BY DEF PlaceAt, CutInv
  <1>1. i \in 0..Backups /\ i + 1 # Backups + 1 /\ Backups + 1 \in 0..(Backups + 1)
    BY Places
  <1>2. PICK r \in Cuts : r = Raised(cut, i) /\ r[Backups + 1] = cut[Backups + 1]
    BY <1>0, <1>1, RaisedIs
  <1>3. CutInv(r)'
    BY <1>0, <1>2, CutAfterShift
  <1>4. ReadInv(r)'
    BY <1>0, <1>1, <1>2, ReadAfterRaise
  <1>5. ASSUME mishaps' = 0, NEW k \in 0..Backups, ~Gap(k)'
        PROVE  Solid(k, r[Backups + 1])'
    <2>1. k # i
      BY <1>5
    <2>2. \A j : Gap(j) => j = i + 1
      BY GapIs DEF Locked
    <2>3. \A j \in 0..Backups : j # i + 1 => Solid(j, cut[Backups + 1])
      BY <1>0, <1>5, <2>2 DEF HoleInv
    <2>4. Solid(k, cut[Backups + 1])'
      BY <2>1, <2>3, SolidAfterShift
    <2> QED
      BY <1>2, <2>4
  <1>6. HoleInv(r)'
    BY <1>5 DEF HoleInv
  <1> QED
    BY <1>2, <1>3, <1>4, <1>6 DEF PlaceAt

LEMMA PlaceAfterWrite ==
    ASSUME TypeInv, LockInv, CarryInv, LogsInv, NEW cut, PlaceAt(cut), Distinct(written)',
           NEW a \in Appenders, WriteLine(a)
    PROVE  \E r : PlaceAt(r)'
  <1>0. cut \in Cuts /\ CutInv(cut) /\ HoleInv(cut) /\ ReadInv(cut) /\ Falling(cut)
    BY DEF PlaceAt, CutInv
  <1>1. PICK x \in Line : file' = [file EXCEPT ![0] = @ \o <<x>>] /\ written' = written \o <<x>>
    BY WriteIs
  <1>2. UNCHANGED <<client, torn, mishaps>> /\ appender[a].pc = "write"
    BY DEF WriteLine
  <1>3. PICK r : r = [cut EXCEPT ![0] = Len(written) + 1]
    OBVIOUS
  <1>4. r \in Cuts /\ CutInv(r)'
    BY <1>0, <1>1, <1>3, CutAfterWrite
  <1>5. r[Backups + 1] = cut[Backups + 1]
    BY <1>0, <1>3, Spots, Places DEF Cuts
  <1>6. ReadInv(r)'
    BY <1>0, <1>1, <1>2, <1>3, ReadAfterWrite
  <1>7. ASSUME mishaps' = 0, NEW k \in 0..Backups PROVE Solid(k, r[Backups + 1])'
    <2>1. \A j : Gap(j) => j = 0
      BY <1>2, GapIs DEF Locked
    <2>2. \A j \in 0..Backups : j # 0 => Solid(j, cut[Backups + 1])
      BY <1>0, <1>2, <1>7, <2>1 DEF HoleInv
    <2>3. Solid(k, cut[Backups + 1])'
      BY <1>1, <2>2, SolidAfterWrite
    <2> QED
      BY <1>5, <2>3
  <1>8. HoleInv(r)'
    BY <1>7 DEF HoleInv
  <1> QED
    BY <1>4, <1>6, <1>8 DEF PlaceAt

LEMMA ReadFileIs ==
    ASSUME TypeInv, NEW c \in Clients, ReadFile(c)
    PROVE  /\ client[c].pc = "read"
           /\ client'[c].logs = client[c].logs \o file[client[c].at]
           /\ client'[c].since = client[c].since
           /\ client'[c].pc = "read" => client[c].at # 0 /\ client'[c].at = client[c].at - 1
           /\ client[c].at = 0 => client'[c].pc = "subscribe"
           /\ client'[c].pc \in {"read", "subscribe"}
           /\ client'[c].pc = "subscribe" => client[c].at = 0
           /\ UNCHANGED <<appender, file, written, torn>>
  <1>1. client \in [Clients -> ClientState]
    BY DEF TypeInv
  <1> DEFINE r == [client[c] EXCEPT !.logs = @ \o file[client[c].at]]
  <1>2. /\ r.at = client[c].at /\ r.since = client[c].since /\ r.pc = "read"
        /\ r.logs = client[c].logs \o file[client[c].at]
        /\ r \in [pc: ClientPcs, at: 0..Backups, since: Nat, logs: {r.logs},
                  live: Seq(Line), sub: Seq(Line)]
    BY <1>1 DEF ReadFile, ClientState
  <1>3. Become(c, IF r.at = 0 THEN [r EXCEPT !.pc = "subscribe"] ELSE [r EXCEPT !.at = @ - 1])
        /\ client[c].pc = "read"
    BY DEF ReadFile
  <1> HIDE DEF r
  <1>4. CASE r.at = 0
    <2>1. client' = [client EXCEPT ![c] = [r EXCEPT !.pc = "subscribe"]]
      BY <1>3, <1>4 DEF Become
    <2> QED
      BY <1>1, <1>2, <1>3, <1>4, <2>1 DEF Become
  <1>5. CASE r.at # 0
    <2>1. client' = [client EXCEPT ![c] = [r EXCEPT !.at = @ - 1]]
          /\ UNCHANGED <<appender, file, written, torn>>
      BY <1>3, <1>5 DEF Become
    <2>2. /\ client'[c].at = r.at - 1 /\ client'[c].pc = r.pc
          /\ client'[c].since = r.since /\ client'[c].logs = r.logs
      BY <1>1, <1>2, <2>1
    <2> QED
      BY <1>2, <1>3, <1>5, <2>1, <2>2
  <1> QED
    BY <1>4, <1>5

LEMMA ConnectIs ==
    ASSUME TypeInv, NewInv, NEW c \in Clients, Connect(c)
    PROVE  /\ client[c].pc = "new" /\ client[c] = NewClient
           /\ client'[c].pc = "read" /\ client'[c].at = Backups
           /\ client'[c].since = Len(written) /\ client'[c].logs = <<>>
  <1>1. client \in [Clients -> ClientState]
    BY DEF TypeInv
  <1>2. client[c].pc = "new" /\ client[c] = NewClient
    BY DEF Connect, NewInv
  <1>3. client[c].logs = <<>>
    BY <1>2, ClientTypes
  <1> QED
    BY <1>1, <1>2, <1>3 DEF Connect, Become, ClientState

LEMMA ReadElsewhere ==
    ASSUME TypeInv, NewInv, LogsInv, Distinct(written), NEW cut, PlaceAt(cut), [Next]_vars,
           UNCHANGED <<file, written, torn>>
    PROVE  ReadInv(cut)'
  <1>0. cut \in Cuts /\ CutInv(cut) /\ ReadInv(cut) /\ written \in Seq(Line) /\ Len(written) \in Nat
    BY LenProperties DEF PlaceAt, TypeInv
  <1> SUFFICES ASSUME NEW c \in Clients, client'[c].pc = "read"
               PROVE  /\ client'[c].since <= Len(written)
                      /\ \A k \in 1..Len(client'[c].logs) :
                            Position(written, client'[c].logs[k]) <= cut[client'[c].at + 1]
                      /\ c \notin torn =>
                           client'[c].logs = Part(written, cut[Backups + 1], cut[client'[c].at + 1])
    BY DEF ReadInv
  <1>1. CASE client'[c] = client[c]
    BY <1>0, <1>1 DEF ReadInv
  <1>2. CASE Connect(c)
    <2>1. client'[c].at = Backups /\ client'[c].since = Len(written) /\ client'[c].logs = <<>>
      BY <1>2, ConnectIs
    <2>2. PICK n \in 0..Len(written) : n = cut[Backups + 1]
      <3>1. cut[Backups] \in 0..Len(written) /\ cut[Backups + 1] \in 0..cut[Backups]
        BY <1>0, CutIs, Places
      <3> QED
        BY <1>0, <3>1
    <2>3. Part(written, n, n) = <<>>
      BY <1>0, PartEmpty
    <2> QED
      BY <1>0, <2>1, <2>2, <2>3, EmptySeq
  <1>3. CASE ReadFile(c)
    <2>1. /\ client[c].pc = "read" /\ client[c].at # 0 /\ client'[c].at = client[c].at - 1
          /\ client'[c].logs = client[c].logs \o file[client[c].at]
          /\ client'[c].since = client[c].since
      BY <1>3, ReadFileIs
    <2>2. client[c].at \in 0..Backups
      BY DEF TypeInv, ClientState
    <2>3. client'[c].at + 1 = client[c].at
      BY <2>1, <2>2
    <2>4. PICK logs : logs = client[c].logs \o file[client[c].at]
      OBVIOUS
    <2>5. /\ \A k \in 1..Len(logs) : Position(written, logs[k]) <= cut[client[c].at]
          /\ c \notin torn => logs = Part(written, cut[Backups + 1], cut[client[c].at])
      BY <1>0, <2>1, <2>4, FileIsRead
    <2>6. client[c].since <= Len(written)
      BY <1>0, <2>1 DEF ReadInv
    <2> QED
      BY <2>1, <2>3, <2>4, <2>5, <2>6
  <1>4. ~Follows(c) /\ client'[c] # Gone
    BY ClientTypes DEF Follows
  <1>5. ~Subscribe(c)
    BY DEF Subscribe, Become, TypeInv, ClientState
  <1> QED
    BY <1>1, <1>2, <1>3, <1>4, <1>5, ClientSteps

LEMMA PlaceElsewhere ==
    ASSUME TypeInv, NewInv, LogsInv, Distinct(written), NEW cut, PlaceAt(cut), [Next]_vars,
           \A a \in Appenders : ~LockedStep(a)
    PROVE  PlaceAt(cut)'
  <1>1. UNCHANGED <<file, written, torn>>
    BY LogSteps, TornSteps
  <1>2. CutInv(cut)'
    BY <1>1 DEF PlaceAt, CutInv
  <1>3. ReadInv(cut)'
    BY <1>1, ReadElsewhere
  <1>4. ASSUME mishaps' = 0, NEW k \in 0..Backups, ~Gap(k)'
        PROVE  Solid(k, cut[Backups + 1])'
    <2>1. mishaps = 0 /\ ~Gap(k)
      BY <1>4, GapStays
    <2>2. Solid(k, cut[Backups + 1])
      BY <2>1 DEF PlaceAt, HoleInv
    <2> QED
      BY <1>1, <2>2 DEF Solid
  <1>5. HoleInv(cut)'
    BY <1>4 DEF HoleInv
  <1> QED
    BY <1>2, <1>3, <1>5 DEF PlaceAt

LEMMA PlaceStep ==
    ASSUME TypeInv, LockInv, CarryInv, RotateInv, PlaceInv, NewInv, LogsInv,
           Distinct(written), Distinct(written)', [Next]_vars
    PROVE  PlaceInv'
  <1>1. PICK cut : PlaceAt(cut)
    BY DEF PlaceInv, PlaceAt, Cuts
  <1> SUFFICES \E r : PlaceAt(r)'
    BY DEF PlaceInv, PlaceAt, Cuts
  <1>2. CASE \A a \in Appenders : ~LockedStep(a)
    BY <1>1, <1>2, PlaceElsewhere
  <1>3. ASSUME NEW a \in Appenders, Lock(a) PROVE \E r : PlaceAt(r)'
    BY <1>1, <1>3, PlaceAfterLock
  <1>4. ASSUME NEW a \in Appenders, RemoveOldest(a) PROVE \E r : PlaceAt(r)'
    <2>1. PICK r : r = Raised(cut, Backups)
      OBVIOUS
    <2>2. PlaceAt(r)'
      BY <1>1, <1>4, <2>1, PlaceAfterRemove
    <2> QED
      BY <2>2
  <1>5. ASSUME NEW a \in Appenders, ShiftArchive(a) PROVE \E r : PlaceAt(r)'
    <2>1. PICK i \in 1..(Backups - 1) :
             /\ appender[a].pc = "shift" /\ i = appender[a].at /\ file[i + 1] = <<>>
             /\ file' = [file EXCEPT ![i] = <<>>, ![i + 1] = file[i]]
             /\ appender'[a].pc \in {"shift", "move"} /\ appender'[a].at = i - 1
             /\ torn' = torn \cup Reading /\ UNCHANGED <<client, mishaps, written>>
      BY <1>5, ShiftIs
    <2>2. i \in 0..(Backups - 1) /\ i = appender'[a].at + 1
      BY <2>1, Places
    <2>3. Gap(i)'
      BY <2>1, <2>2 DEF Gap
    <2>4. PICK r : r = Raised(cut, i)
      OBVIOUS
    <2>5. PlaceAt(r)'
      BY <1>1, <2>1, <2>2, <2>3, <2>4, PlaceAfterShift
    <2> QED
      BY <2>5
  <1>6. ASSUME NEW a \in Appenders, MoveCurrent(a) PROVE \E r : PlaceAt(r)'
    <2>1. PICK i \in 0..(Backups - 1) : i = 0
      BY Places
    <2>2. /\ appender[a].pc = "move" /\ appender[a].at = i /\ file[i + 1] = <<>>
          /\ file' = [file EXCEPT ![i] = <<>>, ![i + 1] = file[i]]
          /\ appender'[a].pc = "write"
          /\ torn' = torn \cup Reading /\ UNCHANGED <<client, mishaps, written>>
      BY <1>6, <2>1, MoveIs
    <2>3. Gap(i)'
      BY <2>1, <2>2 DEF Gap
    <2>4. PICK r : r = Raised(cut, i)
      OBVIOUS
    <2>5. PlaceAt(r)'
      BY <1>1, <2>2, <2>3, <2>4, PlaceAfterShift
    <2> QED
      BY <2>5
  <1>7. ASSUME NEW a \in Appenders, WriteLine(a) PROVE \E r : PlaceAt(r)'
    BY <1>1, <1>7, PlaceAfterWrite
  <1> QED
    BY <1>2, <1>3, <1>4, <1>5, <1>6, <1>7 DEF LockedStep

-----------------------------------------------------------------------------
(* The clients' logs.                                                      *)

LEMMA WriteAlone ==
    ASSUME [Next]_vars
    PROVE  \/ UNCHANGED written
           \/ \E a \in Appenders : WriteLine(a) /\ UNCHANGED <<client, torn>>
  BY WrittenSteps DEF WriteLine

LEMMA NewStep ==
    ASSUME TypeInv, NewInv, [Next]_vars
    PROVE  NewInv'
  <1> SUFFICES ASSUME NEW c \in Clients, client'[c].pc = "new"
               PROVE  client'[c] = NewClient
    BY DEF NewInv
  <1>1. ~Follows(c) /\ client'[c] # Gone
    BY ClientTypes DEF Follows
  <1>2. ~Connect(c) /\ ~ReadFile(c)
    BY ConnectIs, ReadFileIs
  <1>3. ~Subscribe(c)
    BY DEF Subscribe, Become, TypeInv, ClientState
  <1> QED
    BY <1>1, <1>2, <1>3, ClientSteps DEF NewInv

LEMMA SubscribeIs ==
    ASSUME TypeInv, NEW c \in Clients, Subscribe(c)
    PROVE  /\ client[c].pc = "subscribe" /\ client'[c].since = client[c].since
           /\ client'[c].logs = client[c].logs
  BY DEF Subscribe, Become, TypeInv, ClientState

LEMMA NothingIsOrdered == \A s : Ordered(s, <<>>)
  BY EmptySeq DEF Ordered, Range

LEMMA LogsStep ==
    ASSUME TypeInv, CarryInv, PlaceInv, NewInv, LogsInv, Distinct(written), Distinct(written)',
           [Next]_vars
    PROVE  LogsInv'
  <1> SUFFICES ASSUME NEW c \in Clients PROVE Ordered(written', client'[c].logs)
    BY DEF LogsInv
  <1>0. /\ client[c].logs \in Seq(Line) /\ Ordered(written, client[c].logs)
        /\ written \in Seq(Line)
    BY DEF TypeInv, ClientState, LogsInv
  <1>1. CASE UNCHANGED written
    <2>1. CASE client'[c] = client[c] \/ Follows(c) \/ Subscribe(c)
      BY <1>0, <1>1, <2>1, SubscribeIs DEF Follows
    <2>2. CASE Connect(c) \/ client'[c] = Gone
      BY <2>2, ConnectIs, ClientTypes, NothingIsOrdered
    <2>3. CASE ReadFile(c)
      <3>1. PICK cut \in Cuts : CutInv(cut) /\ ReadInv(cut)
        BY DEF PlaceInv, Cuts
      <3>2. client[c].pc = "read" /\ client'[c].logs = client[c].logs \o file[client[c].at]
        BY <2>3, ReadFileIs
      <3>3. PICK logs : logs = client[c].logs \o file[client[c].at]
        OBVIOUS
      <3>4. Ordered(written, logs)
        BY <3>1, <3>2, <3>3, FileIsRead
      <3> QED
        BY <1>1, <3>2, <3>3, <3>4
    <2> QED
      BY <2>1, <2>2, <2>3, ClientSteps
  <1>2. ASSUME NEW a \in Appenders, WriteLine(a), UNCHANGED client
        PROVE  Ordered(written', client'[c].logs)
    <2>1. PICK x \in Line : written' = written \o <<x>>
      BY <1>2, WriteIs
    <2>2. Distinct(written \o <<x>>)
      BY <2>1
    <2>3. PICK lines \in Seq(Line) : lines = client[c].logs
      BY <1>0
    <2>4. Ordered(written \o <<x>>, lines)
      BY <1>0, <2>2, <2>3, OrderedKept
    <2> QED
      BY <1>2, <2>1, <2>3, <2>4
  <1> QED
    BY <1>1, <1>2, WriteAlone

LEMMA SubSeqKept ==
    ASSUME NEW S, NEW s \in Seq(S), NEW x \in S, NEW from \in 1..(Len(s) + 1), NEW to \in 0..Len(s)
    PROVE  SubSeq(s \o <<x>>, from, to) = SubSeq(s, from, to)
  <1>0. Len(s) \in Nat
    BY LenProperties
  <1>1. CASE from <= to
    <2>1. PICK n \in 0..Len(s), m \in Nat : n = to /\ m = from - 1 /\ m \in 0..n
      BY <1>0, <1>1
    <2>2. Part(s \o <<x>>, m, n) = Part(s, m, n) /\ m + 1 = from
      BY <2>1, PartKept
    <2> QED
      BY <2>1, <2>2 DEF Part
  <1>2. CASE to < from
    <2>1. s \o <<x>> \in Seq(S)
      BY SingleAdded
    <2>2. ASSUME NEW t \in Seq(S) PROVE SubSeq(t, from, to) = <<>>
      BY <1>0, <1>2
    <2> QED
      BY <2>1, <2>2
  <1> QED
    BY <1>0, <1>1, <1>2

WholeLog(c) ==
    \E from \in 1..(Len(written) + 1), to \in client[c].since..Len(written) :
        client[c].logs = SubSeq(written, from, to)

LEMMA WholeStep ==
    ASSUME TypeInv, CarryInv, PlaceInv, NewInv, LogsInv, ReadIsWhole, Distinct(written), [Next]_vars
    PROVE  ReadIsWhole'
  <1> SUFFICES ASSUME NEW c \in Clients, c \notin torn', client'[c].pc \in {"subscribe", "stream"}
               PROVE  WholeLog(c)'
    BY DEF ReadIsWhole, WholeLog
  <1>0. /\ written \in Seq(Line) /\ Len(written) \in Nat /\ client[c].since \in Nat
        /\ c \notin torn
    BY LenProperties, TornSteps DEF TypeInv, ClientState
  <1>1. ASSUME client[c].pc \in {"subscribe", "stream"} PROVE WholeLog(c)
    BY <1>0, <1>1 DEF ReadIsWhole, WholeLog
  <1>2. CASE UNCHANGED written
    <2>1. CASE client'[c] = client[c] \/ Follows(c) \/ Subscribe(c)
      <3>1. /\ client[c].pc \in {"subscribe", "stream"}
            /\ client'[c].logs = client[c].logs /\ client'[c].since = client[c].since
        BY <2>1, SubscribeIs DEF Follows
      <3> QED
        BY <1>1, <1>2, <3>1 DEF WholeLog
    <2>2. ~Connect(c) /\ client'[c] # Gone
      BY ConnectIs, ClientTypes
    <2>3. CASE ReadFile(c)
      <3>1. PICK cut \in Cuts : CutInv(cut) /\ ReadInv(cut)
        BY DEF PlaceInv, Cuts
      <3>2. /\ client[c].pc = "read" /\ client[c].at = 0
            /\ client'[c].logs = client[c].logs \o file[client[c].at]
            /\ client'[c].since = client[c].since
        BY <2>3, ReadFileIs
      <3>3. PICK logs : logs = client[c].logs \o file[client[c].at]
        OBVIOUS
      <3>4. logs = Part(written, cut[Backups + 1], cut[0])
        BY <1>0, <3>1, <3>2, <3>3, FileIsRead
      <3>5. cut[0] = Len(written) /\ cut[Backups + 1] \in 0..Len(written)
        <4>1. cut[Backups + 1] \in 0..cut[0]
          BY <3>1, CutIs, Places
        <4> QED
          BY <3>1, <4>1 DEF CutInv
      <3>6. PICK m \in 0..Len(written) : m = cut[Backups + 1]
        BY <3>5
      <3>7. logs = SubSeq(written, m + 1, Len(written))
        BY <3>4, <3>5, <3>6 DEF Part
      <3>8. m + 1 \in 1..(Len(written) + 1)
        BY <1>0
      <3>9. Len(written) \in client[c].since..Len(written)
        BY <1>0, <3>1, <3>2 DEF ReadInv
      <3> QED
        BY <1>2, <3>2, <3>3, <3>7, <3>8, <3>9 DEF WholeLog
    <2> QED
      BY <2>1, <2>2, <2>3, ClientSteps
  <1>3. ASSUME NEW a \in Appenders, WriteLine(a), UNCHANGED client
        PROVE  WholeLog(c)'
    <2>1. PICK x \in Line : written' = written \o <<x>>
      BY <1>3, WriteIs
    <2>2. PICK from \in 1..(Len(written) + 1), to \in client[c].since..Len(written) :
              client[c].logs = SubSeq(written, from, to)
      BY <1>1, <1>3 DEF WholeLog
    <2>3. to \in 0..Len(written)
      BY <1>0, <2>2
    <2>4. SubSeq(written \o <<x>>, from, to) = SubSeq(written, from, to)
      BY <1>0, <2>3, SubSeqKept
    <2>5. Len(written \o <<x>>) = Len(written) + 1
      BY <1>0, SingleAdded
    <2>6. from \in 1..(Len(written) + 1 + 1) /\ to \in client[c].since..(Len(written) + 1)
      BY <1>0, <2>2
    <2> QED
      BY <1>3, <2>1, <2>2, <2>4, <2>5, <2>6 DEF WholeLog
  <1> QED
    BY <1>2, <1>3, WriteAlone

-----------------------------------------------------------------------------
(* What the clients see live.                                              *)

LEMMA Delivered ==
    ASSUME NEW S, NEW s \in Seq(S), NEW t \in Seq(S), t # <<>>
    PROVE  Append(s, Head(t)) \o Tail(t) = s \o t
  <1>1. PICK x \in S, u \in Seq(S) : x = Head(t) /\ u = Tail(t)
    BY HeadTailProperties
  <1>2. /\ Len(t) \in Nat \ {0} /\ x = t[1] /\ Len(u) = Len(t) - 1
        /\ \A i \in 1..Len(u) : u[i] = t[i + 1]
    BY <1>1, HeadTailProperties, LenProperties, EmptySeq
  <1>3. PICK v \in Seq(S) : v = Append(s, x)
    BY AppendProperties
  <1>4. /\ Len(v) = Len(s) + 1 /\ v[Len(s) + 1] = x /\ \A i \in 1..Len(s) : v[i] = s[i]
        /\ Len(s) \in Nat
    BY <1>3, AppendProperties, LenProperties
  <1>5. /\ v \o u \in Seq(S) /\ Len(v \o u) = Len(v) + Len(u)
        /\ \A i \in 1..(Len(v) + Len(u)) : (v \o u)[i] = IF i <= Len(v) THEN v[i] ELSE u[i - Len(v)]
    BY ConcatProperties
  <1>6. /\ s \o t \in Seq(S) /\ Len(s \o t) = Len(s) + Len(t)
        /\ \A i \in 1..(Len(s) + Len(t)) : (s \o t)[i] = IF i <= Len(s) THEN s[i] ELSE t[i - Len(s)]
    BY ConcatProperties
  <1>7. ASSUME NEW i \in 1..(Len(s) + Len(t)) PROVE (v \o u)[i] = (s \o t)[i]
    <2>0. i \in Nat /\ i <= Len(s) + Len(t)
      BY <1>2, <1>4
    <2>1. CASE i <= Len(s)
      <3>1. i \in 1..Len(s) /\ i <= Len(v)
        BY <1>4, <2>1
      <3> QED
        BY <1>2, <1>4, <1>5, <1>6, <2>1, <3>1
    <2>2. CASE i = Len(s) + 1
      <3>1. ~(i <= Len(s)) /\ i <= Len(v) /\ i - Len(s) = 1
        BY <1>4, <2>2
      <3> QED
        BY <1>2, <1>4, <1>5, <1>6, <2>2, <3>1
    <2>3. CASE i > Len(s) + 1
      <3>0. i - Len(v) \in 1..Len(u) /\ i - Len(v) + 1 = i - Len(s)
        BY <1>2, <1>4, <2>0, <2>3
      <3>1. PICK j \in 1..Len(u) : j = i - Len(v) /\ j + 1 = i - Len(s)
        BY <3>0
      <3>2. ~(i <= Len(s)) /\ ~(i <= Len(v))
        BY <1>4, <2>0, <2>3
      <3> QED
        BY <1>2, <1>4, <1>5, <1>6, <3>1, <3>2
    <2>4. i <= Len(s) \/ i = Len(s) + 1 \/ i > Len(s) + 1
      BY <1>4, <2>0
    <2> QED
      BY <2>1, <2>2, <2>3, <2>4
  <1>8. Len(v \o u) = Len(s \o t)
    BY <1>2, <1>4, <1>5, <1>6
  <1> QED
    BY <1>1, <1>3, <1>5, <1>6, <1>7, <1>8, SeqEqual

LEMMA SeenIs ==
    ASSUME TypeInv, NEW c \in Clients
    PROVE  client[c].live \in Seq(Line) /\ client[c].sub \in Seq(Line) /\ Seen(c) \in Seq(Line)
  <1>1. client[c].live \in Seq(Line) /\ client[c].sub \in Seq(Line)
    BY DEF TypeInv, ClientState
  <1> QED
    BY <1>1, ConcatProperties DEF Seen

LEMMA SeenSteps ==
    ASSUME TypeInv, CarryInv, [Next]_vars, NEW c \in Clients
    PROVE  \/ Seen(c)' = Seen(c)
           \/ Seen(c)' = <<>>
           \/ \E a \in Appenders : Publish(a) /\ Carrying(a) /\ Seen(c)' = Seen(c) \o <<The(a)>>
  <1>0. client \in [Clients -> ClientState]
    BY DEF TypeInv
  <1>1. CASE client'[c] = client[c]
    BY <1>1 DEF Seen
  <1>2. CASE client'[c] = Gone
    <2>1. client'[c].live = <<>> /\ client'[c].sub = <<>> /\ <<>> \o <<>> = <<>>
      BY <1>2, ClientTypes
    <2> QED
      BY <2>1 DEF Seen
  <1>3. CASE Connect(c) \/ Subscribe(c)
    BY <1>0, <1>3 DEF Connect, Subscribe, Become, Seen, ClientState
  <1>4. CASE ReadFile(c)
    <2> DEFINE r == [client[c] EXCEPT !.logs = @ \o file[client[c].at]]
    <2>1. r.live = client[c].live /\ r.sub = client[c].sub /\ DOMAIN r = DOMAIN client[c]
      BY <1>0 DEF ClientState
    <2>2. \E d : /\ d \in {[r EXCEPT !.pc = "subscribe"], [r EXCEPT !.at = @ - 1]}
                 /\ client' = [client EXCEPT ![c] = d]
      BY <1>4 DEF ReadFile, Become
    <2>3. [r EXCEPT !.pc = "subscribe"].live = r.live /\ [r EXCEPT !.pc = "subscribe"].sub = r.sub
          /\ [r EXCEPT !.at = @ - 1].live = r.live /\ [r EXCEPT !.at = @ - 1].sub = r.sub
      BY <1>0 DEF ClientState
    <2> HIDE DEF r
    <2>4. client'[c].live = client[c].live /\ client'[c].sub = client[c].sub
      BY <1>0, <2>1, <2>2, <2>3
    <2> QED
      BY <2>4 DEF Seen
  <1>5. CASE Deliver(c)
    <2>1. /\ client'[c].live = Append(client[c].live, Head(client[c].sub))
          /\ client'[c].sub = Tail(client[c].sub) /\ client[c].sub # <<>>
      BY <1>0, <1>5 DEF Deliver, Become, ClientState
    <2>2. PICK s \in Seq(Line), t \in Seq(Line) : s = client[c].live /\ t = client[c].sub
      BY SeenIs
    <2>3. Append(s, Head(t)) \o Tail(t) = s \o t
      BY <2>1, <2>2, Delivered
    <2> QED
      BY <2>1, <2>2, <2>3 DEF Seen
  <1>6. ASSUME NEW a \in Appenders, Publish(a), client'[c] # client[c]
        PROVE  Carrying(a) /\ Seen(c)' = Seen(c) \o <<The(a)>>
    <2>1. Carrying(a)
      BY <1>6 DEF Publish, Carrying
    <2>2. PICK x \in Line : x = The(a) /\ appender[a].line = <<x>>
      BY <2>1, TheIs
    <2>3. client'[c] = [client[c] EXCEPT !.sub = @ \o <<x>>]
      BY <1>6, <2>2 DEF Publish
    <2>4. client'[c].live = client[c].live /\ client'[c].sub = client[c].sub \o <<x>>
      BY <1>0, <2>3 DEF ClientState
    <2>5. PICK s \in Seq(Line), t \in Seq(Line) : s = client[c].live /\ t = client[c].sub
      BY SeenIs
    <2>6. s \o (t \o <<x>>) = (s \o t) \o <<x>>
      <3>1. <<x>> \in Seq(Line)
        OBVIOUS
      <3> QED
        BY <3>1, ConcatAssociative, SMTT(60)
    <2> QED
      BY <2>1, <2>2, <2>4, <2>5, <2>6 DEF Seen
  <1>7. CASE Follows(c) /\ ~Deliver(c) /\ \A a \in Appenders : ~Publish(a)
    <2>1. ~Crash
      BY <1>7, ClientTypes DEF Crash, Follows
    <2>2. ASSUME NEW d \in Clients, ClientStep(d), d # c PROVE client'[c] = client[c]
      BY <1>0, <2>2 DEF ClientStep, Connect, ReadFile, Subscribe, Deliver, Unsubscribe, Become
    <2>3. CASE ClientStep(c)
      <3>1. ~Unsubscribe(c)
        BY <1>0, <1>7, ClientTypes DEF Unsubscribe, Become, Follows
      <3> QED
        BY <1>3, <1>4, <1>7, <2>3, <3>1 DEF ClientStep
    <2>4. CASE UNCHANGED client
      BY <1>1, <2>4
    <2>5. \/ UNCHANGED client \/ Crash \/ (\E a \in Appenders : Publish(a))
          \/ \E d \in Clients : ClientStep(d)
      BY DEF vars, Next, StartRun, AgentExit, WaitReturns, ReportExit, AgentPrints, StreamStep,
         ReadPipe, EndOfPipe, AppendStep, Lock, RemoveOldest, ShiftArchive, MoveCurrent,
         WriteLine, AppendFails
    <2> QED
      BY <1>1, <1>7, <2>1, <2>2, <2>3, <2>4, <2>5
  <1> QED
    BY <1>1, <1>2, <1>3, <1>4, <1>5, <1>6, <1>7, ClientSteps

LEMMA NothingRises == \A s : Rising(s, <<>>)
  BY EmptySeq DEF Rising, Range

LEMMA RisingKept ==
    ASSUME NEW S, NEW s \in Seq(S), NEW x \in S, Distinct(s \o <<x>>),
           NEW lines \in Seq(S), Rising(s, lines)
    PROVE  Rising(s \o <<x>>, lines)
  <1>1. \A y \in Range(s) : /\ y \in Range(s \o <<x>>)
                            /\ Position(s \o <<x>>, y) = Position(s, y)
    BY PositionKept
  <1>2. \A i \in 1..Len(lines) : lines[i] \in Range(s)
    BY RangeIs DEF Rising
  <1>3. Range(lines) \subseteq Range(s \o <<x>>)
    BY <1>1 DEF Rising
  <1>4. \A i \in 1..Len(lines) : Position(s \o <<x>>, lines[i]) = Position(s, lines[i])
    BY <1>1, <1>2
  <1> QED
    BY <1>3, <1>4 DEF Rising

LEMMA RisingAdded ==
    ASSUME NEW S, NEW s \in Seq(S), NEW lines \in Seq(S), Rising(s, lines),
           NEW x \in S, x \in Range(s),
           \A k \in 1..Len(lines) : lines[k].from = x.from => Position(s, lines[k]) < Position(s, x)
    PROVE  Rising(s, lines \o <<x>>)
  <1> DEFINE t == lines \o <<x>>
  <1>1. /\ t \in Seq(S) /\ Len(t) = Len(lines) + 1 /\ t[Len(lines) + 1] = x
        /\ \A i \in 1..Len(lines) : t[i] = lines[i]
    BY SingleAdded
  <1>2. Len(lines) \in Nat
    BY LenProperties
  <1> HIDE DEF t
  <1>3. \A i \in 1..Len(t) : i \in 1..Len(lines) \/ i = Len(lines) + 1
    BY <1>1, <1>2
  <1>4. \A i \in 1..Len(lines) : lines[i] \in Range(s)
    BY RangeIs DEF Rising
  <1>5. Range(t) \subseteq Range(s)
    <2>1. Range(t) = {t[i] : i \in 1..Len(t)}
      BY <1>1, RangeIs
    <2> QED
      BY <1>1, <1>3, <1>4, <2>1
  <1>6. ASSUME NEW i \in 1..Len(t), NEW j \in 1..Len(t), i < j, t[i].from = t[j].from
        PROVE  Position(s, t[i]) < Position(s, t[j])
    <2>1. i \in 1..Len(lines)
      BY <1>1, <1>2, <1>6
    <2>2. CASE j \in 1..Len(lines)
      BY <1>1, <1>6, <2>1, <2>2 DEF Rising
    <2>3. CASE j = Len(lines) + 1
      BY <1>1, <1>6, <2>1, <2>3
    <2> QED
      BY <1>3, <2>2, <2>3
  <1>7. Rising(s, t)
    BY <1>5, <1>6 DEF Rising
  <1> QED
    BY <1>7 DEF t

LEMMA LiveStep ==
    ASSUME TypeInv, CarryInv, LiveInv, PublishInv, Distinct(written)', [Next]_vars
    PROVE  LiveInv'
  <1> SUFFICES ASSUME NEW c \in Clients PROVE Rising(written', Seen(c)')
    BY DEF LiveInv
  <1>0. /\ written \in Seq(Line) /\ Rising(written, Seen(c)) /\ Seen(c) \in Seq(Line)
    BY SeenIs DEF TypeInv, LiveInv
  <1>1. CASE UNCHANGED written
    <2>1. ASSUME NEW a \in Appenders, Publish(a), Carrying(a), Seen(c)' = Seen(c) \o <<The(a)>>
          PROVE  Rising(written', Seen(c)')
      <3>1. appender[a].pc = "publish"
        BY <2>1 DEF Publish
      <3>2. PICK x \in Line : x = The(a) /\ x.from = a
        BY <2>1, TheIs
      <3>3. /\ x \in Range(written)
            /\ \A k \in 1..Len(Seen(c)) : Seen(c)[k].from = x.from =>
                  Position(written, Seen(c)[k]) < Position(written, x)
        BY <3>1, <3>2 DEF PublishInv
      <3>4. PICK lines \in Seq(Line) : lines = Seen(c)
        BY <1>0
      <3>5. Rising(written, lines \o <<x>>)
        BY <1>0, <3>3, <3>4, RisingAdded
      <3> QED
        BY <1>1, <2>1, <3>2, <3>4, <3>5
    <2> QED
      BY <1>0, <1>1, <2>1, SeenSteps, NothingRises
  <1>2. ASSUME NEW a \in Appenders, WriteLine(a), UNCHANGED client
        PROVE  Rising(written', Seen(c)')
    <2>1. PICK x \in Line : written' = written \o <<x>>
      BY <1>2, WriteIs
    <2>2. Distinct(written \o <<x>>)
      BY <2>1
    <2>3. PICK lines \in Seq(Line) : lines = Seen(c)
      BY <1>0
    <2>4. Rising(written \o <<x>>, lines)
      BY <1>0, <2>2, <2>3, RisingKept
    <2>5. Seen(c)' = Seen(c)
      BY <1>2 DEF Seen
    <2> QED
      BY <2>1, <2>3, <2>4, <2>5
  <1> QED
    BY <1>1, <1>2, WriteAlone

Newest(a, c) ==
    \A k \in 1..Len(Seen(c)) :
        Seen(c)[k].from = a => Position(written, Seen(c)[k]) < Position(written, The(a))

LEMMA PublishStep ==
    ASSUME TypeInv, CarryInv, LiveInv, PublishInv, Distinct(written)', [Next]_vars
    PROVE  PublishInv'
  <1> SUFFICES ASSUME NEW a \in Appenders, appender'[a].pc = "publish"
               PROVE  /\ The(a)' \in Range(written')
                      /\ \A c \in Clients : Newest(a, c)'
    BY DEF PublishInv, Newest
  <1>0. /\ written \in Seq(Line) /\ Len(written) \in Nat
        /\ appender \in [Appenders -> AppenderState]
    BY LenProperties DEF TypeInv
  <1>1. ASSUME NEW c \in Clients
        PROVE  /\ Seen(c) \in Seq(Line)
               /\ \A k \in 1..Len(Seen(c)) : Seen(c)[k] \in Range(written)
    <2>1. Seen(c) \in Seq(Line) /\ Range(Seen(c)) \subseteq Range(written)
      BY SeenIs DEF LiveInv, Rising
    <2> QED
      BY <2>1, RangeIs
  <1>2. ASSUME appender'[a] = appender[a]
        PROVE  /\ The(a)' = The(a) /\ The(a) \in Range(written)
               /\ \A c \in Clients : Newest(a, c)
    BY <1>2 DEF The, PublishInv, Newest
  <1>3. CASE appender'[a] = appender[a] /\ UNCHANGED written
    <2>1. ASSUME NEW c \in Clients PROVE Newest(a, c)'
      <3>1. Newest(a, c) /\ The(a)' = The(a)
        BY <1>2, <1>3
      <3>2. CASE Seen(c)' = Seen(c)
        BY <1>3, <3>1, <3>2 DEF Newest
      <3>3. CASE Seen(c)' = <<>>
        BY <3>3, EmptySeq DEF Newest
      <3>4. ASSUME NEW b \in Appenders, Publish(b), Carrying(b), Seen(c)' = Seen(c) \o <<The(b)>>
            PROVE  Newest(a, c)'
        <4>1. b # a
          BY <1>0, <1>3, <3>4, IdleType DEF Publish
        <4>2. PICK x \in Line : x = The(b) /\ x.from = b
          BY <3>4, TheIs
        <4>3. PICK lines \in Seq(Line) : lines = Seen(c)
          BY <1>1
        <4>4. /\ Len(lines \o <<x>>) = Len(lines) + 1 /\ (lines \o <<x>>)[Len(lines) + 1] = x
              /\ \A i \in 1..Len(lines) : (lines \o <<x>>)[i] = lines[i]
              /\ Len(lines) \in Nat
          BY SingleAdded, LenProperties
        <4>5. \A k \in 1..Len(lines \o <<x>>) : k \in 1..Len(lines) \/ k = Len(lines) + 1
          BY <4>4
        <4>6. ASSUME NEW k \in 1..Len(lines \o <<x>>), (lines \o <<x>>)[k].from = a
              PROVE  Position(written, (lines \o <<x>>)[k]) < Position(written, The(a))
          <5>1. k \in 1..Len(lines) /\ (lines \o <<x>>)[k] = lines[k]
            BY <4>1, <4>2, <4>4, <4>5, <4>6
          <5> QED
            BY <3>1, <4>3, <4>6, <5>1 DEF Newest
        <4>7. Seen(c)' = lines \o <<x>>
          BY <3>4, <4>2, <4>3
        <4> QED
          BY <1>3, <3>1, <4>6, <4>7 DEF Newest
      <3> QED
        BY <3>2, <3>3, <3>4, SeenSteps
    <2> QED
      BY <1>2, <1>3, <2>1
  <1>4. ASSUME NEW b \in Appenders, WriteLine(b), UNCHANGED client
        PROVE  /\ The(a)' \in Range(written')
               /\ \A c \in Clients : Newest(a, c)'
    <2>1. PICK x \in Line : /\ x = The(b) /\ written' = written \o <<x>>
                            /\ \A d \in Appenders : appender'[d].line = appender[d].line
                            /\ appender' = [appender EXCEPT ![b].pc = "publish"]
      BY <1>4, WriteIs
    <2>2. Distinct(written \o <<x>>)
      BY <2>1
    <2>3. The(a)' = The(a) /\ \A c \in Clients : Seen(c)' = Seen(c)
      BY <1>4, <2>1 DEF The, Seen
    <2>4. ASSUME NEW y \in Range(written)
          PROVE  /\ y \in Range(written') /\ Position(written', y) = Position(written, y)
                 /\ Position(written, y) \in 1..Len(written)
      BY <1>0, <2>1, <2>2, PositionKept, PositionFound
    <2>5. CASE a = b
      <3>1. x \in Range(written') /\ Position(written', x) = Len(written) + 1
        BY <1>0, <2>1, <2>2, PositionOfLast
      <3>2. ASSUME NEW c \in Clients, NEW k \in 1..Len(Seen(c))
            PROVE  Position(written', Seen(c)[k]) < Position(written', x)
        <4>1. PICK y \in Range(written) : y = Seen(c)[k]
          BY <1>1
        <4> QED
          BY <1>0, <2>4, <3>1, <4>1
      <3> QED
        BY <2>1, <2>3, <2>5, <3>1, <3>2 DEF Newest
    <2>6. CASE a # b
      <3>1. appender'[a] = appender[a]
        BY <1>0, <2>1, <2>6
      <3>2. ASSUME NEW c \in Clients, NEW k \in 1..Len(Seen(c)), Seen(c)[k].from = a
            PROVE  Position(written', Seen(c)[k]) < Position(written', The(a))
        <4>1. PICK y \in Range(written), z \in Range(written) : y = Seen(c)[k] /\ z = The(a)
          BY <1>1, <1>2, <3>1
        <4>2. Position(written, y) < Position(written, z)
          BY <1>2, <3>1, <3>2, <4>1 DEF Newest
        <4> QED
          BY <2>4, <4>1, <4>2
      <3> QED
        BY <1>2, <2>3, <2>4, <3>1, <3>2 DEF Newest
    <2> QED
      BY <2>5, <2>6
  <1>5. CASE LockedStep(a)
    <2>1. ~Lock(a) /\ ~RemoveOldest(a) /\ ~ShiftArchive(a) /\ ~MoveCurrent(a)
      BY <1>0, LockIs, RemoveIs DEF ShiftArchive, MoveCurrent, Goto, AppenderState
    <2>2. WriteLine(a) /\ UNCHANGED client
      BY <1>5, <2>1 DEF LockedStep, WriteLine
    <2> QED
      BY <1>4, <2>2
  <1>6. ~(a \in Pipes /\ ReadPipe(a)) /\ ~(a = Runner /\ ReportExit)
    BY <1>0 DEF ReadPipe, ReportExit, AppenderState, Idle
  <1>7. \/ appender'[a] = appender[a] \/ LockedStep(a)
    BY <1>6, AppenderSteps
  <1> QED
    BY <1>3, <1>4, <1>5, <1>7, WriteAlone

-----------------------------------------------------------------------------
(* The invariant is inductive.                                             *)

LEMMA InvInit == Init => Inv
  <1> SUFFICES ASSUME Init PROVE Inv
    OBVIOUS
  <1>0. /\ <<>> \in Seq(Line) /\ Len(<<>>) = 0 /\ written = <<>> /\ printed = 0
        /\ \A a \in Appenders : appender[a].pc = "done"
        /\ \A c \in Clients : client[c] = NewClient
        /\ \A i \in 0..Backups : file[i] = <<>>
        /\ \A p \in Pipes : pipe[p] = <<>>
    BY EmptySeq, IdleType DEF Init
  <1>1. LockInv /\ CarryInv /\ RotateInv
    BY <1>0, LockedIs DEF LockInv, CarryInv, Carrying, RotateInv
  <1>2. OrderInv
    BY <1>0 DEF OrderInv, LogOrder, PipeOrder, PendingOrder, Pending, Carrying
  <1>3. SizeInv
    <2>1. \A i \in 0..Backups : Bounded(file[i])
      BY <1>0, EmptyIsBounded
    <2> QED
      BY <1>0, <2>1 DEF SizeInv, FilesBounded, Bounded
  <1>4. PlaceInv
    <2>1. PICK cut \in Cuts : cut = [i \in 0..(Backups + 1) |-> 0]
      BY DEF Cuts
    <2>2. \A i \in 0..Backups : cut[i] = 0 /\ cut[i + 1] = 0
      BY <2>1, Spots
    <2>3. cut[0] = 0 /\ cut[Backups + 1] = 0
      BY <2>1, Spots
    <2>4. Part(<<>>, 0, 0) = <<>>
      <3>1. PICK e \in Seq(Line) : e = <<>> /\ Len(e) = 0
        BY <1>0
      <3>2. PICK m \in 0..Len(e) : m = 0 /\ m \in 0..m
        <4>1. 0 \in 0..Len(e)
          BY <3>1
        <4> QED
          BY <4>1
      <3>3. Part(e, m, m) = <<>>
        BY <3>2, PartEmpty
      <3> QED
        BY <3>1, <3>2, <3>3
    <2>5. CutInv(cut)
      <3>1. Falling(cut)
        BY <2>1 DEF Falling
      <3> QED
        BY <1>0, <2>2, <2>3, <2>4, <3>1 DEF CutInv
    <2>6. HoleInv(cut)
      BY <1>0, <2>3 DEF HoleInv, Solid
    <2>7. ReadInv(cut)
      BY <1>0, ClientTypes DEF ReadInv
    <2> QED
      BY <2>5, <2>6, <2>7 DEF PlaceInv, Cuts
  <1>5. NewInv /\ LogsInv
    BY <1>0, ClientTypes, NothingIsOrdered DEF NewInv, LogsInv
  <1>6. ReadIsWhole
    BY <1>0, ClientTypes DEF ReadIsWhole
  <1>7. LiveInv
    <2>1. \A c \in Clients : Seen(c) = <<>>
      BY <1>0, ClientTypes DEF Seen
    <2> QED
      BY <2>1, NothingRises DEF LiveInv
  <1>8. PublishInv
    BY <1>0 DEF PublishInv
  <1> QED
    BY <1>1, <1>2, <1>3, <1>4, <1>5, <1>6, <1>7, <1>8, TypeInit DEF Inv

LEMMA InvStep ==
    ASSUME Inv, [Next]_vars
    PROVE  Inv'
  <1>0. /\ TypeInv /\ LockInv /\ CarryInv /\ OrderInv /\ RotateInv /\ SizeInv /\ PlaceInv
        /\ NewInv /\ LogsInv /\ ReadIsWhole /\ LiveInv /\ PublishInv
        /\ LogOrder /\ PipeOrder /\ PendingOrder
    BY DEF Inv, OrderInv
  <1>1. TypeInv'
    BY <1>0, TypeStep
  <1>2. LockInv' /\ CarryInv' /\ RotateInv' /\ SizeInv'
    BY <1>0, LockStep, CarryStep, RotateStep, SizeStep
  <1>3. LogOrder'
    BY <1>0, LogOrderStep
  <1>4. OrderInv'
    BY <1>0, <1>3, PipeOrderStep, PendingOrderStep DEF OrderInv
  <1>5. Distinct(written)
    BY <1>0, OrderIsDistinct DEF TypeInv
  <1>6. Distinct(written)'
    <2>1. PICK s \in Seq(Line) : s = written'
      BY <1>1 DEF TypeInv
    <2>2. \A i, j \in 1..Len(s) : i < j /\ s[i].from = s[j].from => s[i].n < s[j].n
      BY <1>3, <2>1 DEF LogOrder
    <2>3. ASSUME NEW i \in 1..Len(s), NEW j \in 1..Len(s), s[i] = s[j], i # j
          PROVE  FALSE
      <3>1. Len(s) \in Nat /\ s[i].n \in Nat /\ s[j].n \in Nat
        BY LenProperties, ElementOfSeq, LineIs
      <3>2. i < j \/ j < i
        BY <2>3, <3>1
      <3> QED
        BY <2>2, <2>3, <3>1, <3>2
    <2> QED
      BY <2>1, <2>3 DEF Distinct
  <1>7. PlaceInv'
    BY <1>0, <1>5, <1>6, PlaceStep
  <1>8. NewInv' /\ LogsInv' /\ ReadIsWhole'
    BY <1>0, <1>5, <1>6, NewStep, LogsStep, WholeStep
  <1>9. LiveInv' /\ PublishInv'
    BY <1>0, <1>6, LiveStep, PublishStep
  <1> QED
    BY <1>1, <1>2, <1>4, <1>7, <1>8, <1>9 DEF Inv

LEMMA InvHolds == Spec => []Inv
  BY InvInit, InvStep, PTL DEF Spec

-----------------------------------------------------------------------------
(* What the log and its readers may rely on.                               *)

(* Every variable keeps its type, no channel holds more than SubCap lines, *)
(* and one goroutine at a time is inside AppendLog, whatever the number of *)
(* pipes and clients.                                                      *)
THEOREM TypesAreKept == Spec => []TypeOK
  <1>1. Inv => TypeOK
    <2> SUFFICES ASSUME Inv PROVE TypeOK
      OBVIOUS
    <2> DEFINE holders == {a \in Appenders : appender[a].pc \in Locked}
    <2>1. TypeInv /\ LockInv
      BY DEF Inv
    <2>2. Cardinality(holders) <= 1
      <3>1. CASE holders = {}
        BY <3>1, FS_EmptySet
      <3>2. CASE holders # {}
        <4>1. PICK a : a \in holders
          BY <3>2
        <4>2. holders = {a}
          BY <2>1, <4>1 DEF LockInv
        <4> HIDE DEF holders
        <4> QED
          BY <4>2, FS_Singleton
      <3> QED
        BY <3>1, <3>2
    <2> QED
      BY <2>1, <2>2 DEF TypeOK, TypeInv, AppenderState, ClientState
  <1> QED
    BY <1>1, InvHolds, PTL

(* At every moment of a rotation, and after a crash or a failed rename in  *)
(* one, logs.txt and its archives together are an end of all that was ever *)
(* written, whatever the number of archives.                               *)
THEOREM TheLogIsATail == Spec => []StoredIsTail
  <1>1. Inv => StoredIsTail
    <2> SUFFICES ASSUME Inv PROVE StoredIsTail
      OBVIOUS
    <2>1. TypeInv /\ written \in Seq(Line) /\ Len(written) \in Nat
      BY LenProperties DEF Inv, TypeInv
    <2>2. PICK cut \in Cuts : CutInv(cut)
      BY DEF Inv, PlaceInv, Cuts
    <2>3. cut[Backups + 1] \in 0..cut[0] /\ cut[0] = Len(written)
      BY <2>1, <2>2, CutIs, Places DEF CutInv
    <2>4. PICK m \in 0..Len(written) : m = cut[Backups + 1]
      BY <2>3
    <2>5. Stored = Part(written, m, Len(written))
      BY <2>1, <2>2, <2>4, StoredIs DEF Cuts
    <2>6. IsSuffix(Part(written, m, Len(written)), written)
      BY <2>1, EndIsSuffix
    <2> QED
      BY <2>5, <2>6 DEF StoredIsTail
  <1> QED
    BY <1>1, InvHolds, PTL

(* As long as no call fails and the service is not killed, a line leaves   *)
(* the log only when every archive is in use.                              *)
THEOREM OnlyTheOldestIsDropped == Spec => []OnlyOldestDropped
  <1>1. Inv => OnlyOldestDropped
    <2> SUFFICES ASSUME Inv, mishaps = 0, IsFree, Stored # written, NEW i \in 1..Backups
                 PROVE  file[i] # <<>>
      BY DEF OnlyOldestDropped
    <2>1. TypeInv /\ written \in Seq(Line) /\ Len(written) \in Nat
      BY LenProperties DEF Inv, TypeInv
    <2>2. PICK cut \in Cuts : CutInv(cut) /\ HoleInv(cut)
      BY DEF Inv, PlaceInv, Cuts
    <2>3. Stored = Part(written, cut[Backups + 1], Len(written))
      BY <2>1, <2>2, StoredIs DEF Cuts
    <2>4. cut[Backups + 1] \in Nat /\ cut[Backups + 1] # 0
      BY <2>1, <2>3, PartWhole, Spots DEF Cuts
    <2>5. i \in 0..Backups
      BY Places
    <2>6. ~Gap(i)
      BY DEF Gap, IsFree, Locked
    <2>7. Solid(i, cut[Backups + 1])
      BY <2>2, <2>5, <2>6 DEF HoleInv
    <2>8. cut[Backups + 1] > 0
      BY <2>4
    <2> QED
      BY <2>7, <2>8 DEF Solid
  <1> QED
    BY <1>1, InvHolds, PTL

(* No file of the log outgrows the limit, but for a line that does alone.  *)
THEOREM TheLogIsBounded == Spec => []FilesBounded
  <1>1. Inv => FilesBounded
    BY DEF Inv, SizeInv
  <1> QED
    BY <1>1, InvHolds, PTL

(* A log read without the lock while it is rotated shows no line twice and *)
(* none before an older one.                                               *)
THEOREM TheLogIsReadInOrder == Spec => []ReadInOrder
  <1>1. Inv => ReadInOrder
    BY DEF Inv, LogsInv, Ordered, ReadInOrder, InOrder, Position, IndexOf
  <1> QED
    BY <1>1, InvHolds, PTL

(* A log read while nothing was rotated has no hole and holds everything   *)
(* that was written before the reading began.                              *)
THEOREM TheLogIsReadWhole == Spec => []ReadIsWhole
  <1>1. Inv => ReadIsWhole
    BY DEF Inv
  <1> QED
    BY <1>1, InvHolds, PTL

(* What a browser is sent live is in the log, and the lines of one pipe    *)
(* come in their order, once each, whatever the hub had to leave out.      *)
THEOREM LiveLinesAreLogged == Spec => []LiveIsLogged
  <1>1. Inv => LiveIsLogged
    BY DEF Inv, LiveInv, Rising, Seen, LiveIsLogged, Position, IndexOf
  <1> QED
    BY <1>1, InvHolds, PTL

=============================================================================
